---------------------- MODULE MCRuntimeToolExecutions ----------------------
(* Small instances of RuntimeToolExecutions. *)
EXTENDS RuntimeToolExecutions

CONSTANTS r1, t1, c1, write
=============================================================================
