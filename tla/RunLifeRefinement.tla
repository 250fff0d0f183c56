-------------------------- MODULE RunLifeRefinement --------------------------
(***************************************************************************)
(* The admission ledger implements RunLife: permits, ages, revisions and   *)
(* the session's record are the ledger's own.                              *)
(***************************************************************************)
EXTENDS RunAdmissions

PhaseOf(status) ==
  CASE status = "none" -> "absent"
    [] status = "issued" -> "admitted"
    [] status = "redeemed" -> "started"
    [] status = "expired" -> "refused"
    [] status = "deleted" -> "gone"

LifeOf(row) ==
  [phase |-> PhaseOf(row.status), request |-> row.request, cancel |-> row.cancel,
   spent |-> row.modelCalls + row.toolCalls]

Life == INSTANCE RunLife WITH life <- [r \in Runs |-> LifeOf(admissions[r])]

\* Every step of the ledger is a step of a Run's life or leaves it as it was:
\* replays, late permits, stale loads, expiry and retention included.
ImplementsRunLife == Life!LifeSpec
=============================================================================
