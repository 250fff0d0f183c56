-------------------------- MODULE MCRunAdmissions --------------------------
(* Small instances of RunAdmissions. *)
EXTENDS RunLifeRefinement, TLC

CONSTANTS r1, r2, k1, k2

MCOneRun == {r1}
MCRuns == {r1, r2}
MCKeys == {k1, k2}
MCSymmetry == Permutations(MCRuns) \cup Permutations(MCKeys)
=============================================================================
