--------------------------- MODULE ToolExecutions ---------------------------
(***************************************************************************)
(* The ledger of external tool calls and the operations of the class       *)
(* ToolExecutions, composed with the admission ledger it shares a database *)
(* with: a call is reserved under the Run's budget, dispatched once with a *)
(* single-use permit, completed by its session or expired by the alarm,    *)
(* and, when its outcome is unknown, reconciled by the owner.              *)
(*                                                                         *)
(* A reservation reads the policy snapshot, awaits its evaluation, and     *)
(* reads it again in the transaction that inserts the row: two actions.    *)
(* The code refuses a snapshot older than 5 seconds, so both fall into one *)
(* tick.                                                                   *)
(***************************************************************************)
EXTENDS RunAdmissions

CONSTANTS
  Reads,               \* the effects that only read
  NeedApproval,        \* the effects no standing authorization covers
  MaxToolCalls,        \* budgetReservation.maxToolCalls
  GrantConcurrency,    \* smaller of the grant's and the fleet's concurrency
  GrantCalls,          \* smaller of the grant's and the fleet's calls per Run
  DuplicateLimit,      \* integrationLimits.duplicateToolCallLimit
  ExecutionLifetime,   \* grant maxDurationMs, at most 5 minutes, in ticks
  PermitLifetime,      \* TOOL_EXECUTION_PERMIT_LIFETIME_MS, in ticks
  ApprovalLifetime,    \* life of a pending approval, in ticks
  AlarmLag             \* ticks by which a due alarm may be late

ASSUME ToolAssumption ==
  /\ Reads \subseteq Effects /\ NeedApproval \subseteq Effects \ Reads
  /\ MaxToolCalls \in Nat /\ GrantConcurrency \in Nat /\ GrantCalls \in Nat
  /\ DuplicateLimit \in Nat /\ AlarmLag \in Nat
  /\ ExecutionLifetime \in Nat \ {0} /\ PermitLifetime \in Nat \ {0}
  /\ ApprovalLifetime \in Nat \ {0}
  /\ IsFiniteSet(ToolCalls) /\ IsFiniteSet(RuntimeCalls)

VARIABLE reserving     \* reservations that await the policy evaluation

toolVars == <<vars, reserving>>

Smaller(a, b) == IF a < b THEN a ELSE b

-----------------------------------------------------------------------------
(* The gate *)

CallsOf(r) == {t \in ToolCalls : executions[t].run = r}

SameGrant(t, r) ==
  /\ executions[t].run \in Runs
  /\ admissions[executions[t].run].revision = admissions[r].revision

\* What #gateInput reads for Run r and effect e.
Gate(r, e) ==
  [used |-> admissions[r].toolCalls,
   ofGrant |-> Cardinality(CallsOf(r)),
   active |-> Cardinality({t \in ToolCalls : /\ SameGrant(t, r)
                                             /\ executions[t].status = "reserved"
                                             /\ executions[t].ttl > 0}),
   same |-> Cardinality({t \in CallsOf(r) : executions[t].effect = e}),
   agent |-> authority.agent = "active" /\ authority.revision = admissions[r].revision,
   connection |-> authority.connection,
   grant |-> authority.grant,
   left |-> MaxDuration - Smaller(admissions[r].age, MaxDuration)]

GateOpen(r) ==
  /\ admissions[r].status = "redeemed"
  /\ admissions[r].cancel = "none"
  /\ admissions[r].keep > 0
  /\ admissions[r].fleet = authority.fleet
  /\ admissions[r].granted

\* evaluateComposioToolAction on such a snapshot.
PolicyAllows(g) ==
  /\ g.agent
  /\ g.grant = "active"
  /\ g.connection = "active"
  /\ g.active < GrantConcurrency
  /\ g.same < DuplicateLimit
  /\ g.used < MaxToolCalls
  /\ g.ofGrant < GrantCalls
  /\ g.left > 0

UnknownEffect(e) ==
  \E t \in ToolCalls : executions[t].status = "unknown" /\ executions[t].effect = e

\* Mutation: an approval of any action of the call stands for this one.
Approved(t, r, e) ==
  /\ approvals[t].decision = "approved"
  /\ approvals[t].ttl > 0
  /\ approvals[t].run = r
  /\ approvals[t].effect = e

-----------------------------------------------------------------------------
(* reserve *)

Reservation == [call : ToolCalls, run : Runs, effect : Effects, gate :
  [used : Nat, ofGrant : Nat, active : Nat, same : Nat, agent : BOOLEAN,
   connection : {"active", "revoked"}, grant : {"active", "revoked", "none"}, left : Nat]]

\* Up to the await of the policy evaluation, whose answer depends only on what
\* was read here. A denied or unapproved call changes nothing.
ReserveBegin(t, r, e) ==
  /\ executions[t].status = "none"
  /\ e \notin Reads => ~UnknownEffect(e)
  /\ GateOpen(r)
  /\ PolicyAllows(Gate(r, e))
  /\ e \in NeedApproval => Approved(t, r, e)
  /\ reserving' = reserving \cup {[call |-> t, run |-> r, effect |-> e, gate |-> Gate(r, e)]}
  /\ UNCHANGED vars

\* Mutation: the transaction does not look again at the concurrency of the grant.
StillAffordable(s) ==
  /\ GateOpen(s.run) /\ executions[s.call].status = "none"
  /\ admissions[s.run].toolCalls = s.gate.used

LifetimeOf(s) == Smaller(ExecutionLifetime, s.gate.left)

\* The transaction: everything is read again, then the budget is claimed.
StillReservable(s) ==
  /\ GateOpen(s.run)
  /\ Gate(s.run, s.effect) = s.gate
  /\ s.effect \notin Reads => ~UnknownEffect(s.effect)
  /\ executions[s.call].status = "none"
  /\ admissions[s.run].toolCalls = s.gate.used

ReserveCommit(s) ==
  /\ s \in reserving
  /\ reserving' = reserving \ {s}
  /\ IF StillReservable(s)
     THEN /\ executions' = [executions EXCEPT ![s.call] =
               [NoExecution EXCEPT !.status = "reserved", !.run = s.run, !.effect = s.effect,
                                   !.ttl = LifetimeOf(s),
                                   !.permitTtl = PermitLifetime]]
          /\ admissions' = [admissions EXCEPT ![s.run].toolCalls = s.gate.used + 1]
     ELSE UNCHANGED <<executions, admissions>>
  /\ UNCHANGED <<authority, loading, approvals, runtimeExecutions>>

-----------------------------------------------------------------------------
(* Dispatch, completion and recovery *)

\* Mutation: a cancellation is ignored.
DispatchableCancelled(t) ==
  LET x == executions[t] IN
  /\ x.status = "reserved" /\ ~x.dispatched /\ x.permitTtl > 0 /\ x.ttl > 0
  /\ Present(admissions[x.run]) /\ authority.grant = "active"

\* resolveConnection and claimRemoteMcp: the permit is exchanged for the
\* connection, and its reserved digest for the dispatched one.
Dispatchable(t) ==
  LET x == executions[t] IN
  /\ x.status = "reserved"
  /\ ~x.dispatched
  /\ x.permitTtl > 0
  /\ x.ttl > 0
  /\ Present(admissions[x.run])
  /\ admissions[x.run].cancel = "none"
  /\ admissions[x.run].fleet = authority.fleet
  /\ authority.agent = "active"
  /\ authority.revision = admissions[x.run].revision
  /\ authority.connection = "active"
  /\ authority.grant = "active"

Dispatch(t) ==
  /\ Dispatchable(t)
  /\ executions' = [executions EXCEPT ![t].dispatched = TRUE, ![t].dispatches = @ + 1]
  /\ UNCHANGED <<authority, admissions, loading, approvals, runtimeExecutions, reserving>>

Unproven(e) == IF e \in Reads THEN "failed" ELSE "unknown"

\* complete: the session's answer, which may be late or too large, and may come
\* for a call it never dispatched.
Complete(t, outcome, oversized) ==
  /\ executions[t].status = "reserved"
  /\ executions[t].dispatched \/ outcome # "completed"
  /\ executions' = [executions EXCEPT ![t].status =
       IF oversized \/ executions[t].ttl < 0 THEN Unproven(executions[t].effect) ELSE outcome]
  /\ UNCHANGED <<authority, admissions, loading, approvals, runtimeExecutions, reserving>>

Overdue(t) ==
  executions[t].status = "reserved" /\ executions[t].dispatched /\ executions[t].ttl <= 0

Settled == [t \in ToolCalls |->
  IF Overdue(t) THEN [executions[t] EXCEPT !.status = Unproven(executions[t].effect)]
  ELSE executions[t]]

OverdueRuns == {executions[t].run : t \in {u \in ToolCalls : Overdue(u)}}

\* AgentInbox.repairFailedRun for a set of Runs.
Repaired(adm, failed) == [r \in Runs |->
  IF r \in failed /\ adm[r].inbox = "completed"
  THEN [adm[r] EXCEPT !.inbox = "failed"] ELSE adm[r]]

\* The alarm settles every dispatched call whose deadline has passed and repairs
\* the inbox entries of their Runs.
ReconcileExpired ==
  /\ \E t \in ToolCalls : Overdue(t)
  /\ executions' = Settled
  /\ admissions' = Repaired(admissions, OverdueRuns)
  /\ UNCHANGED <<authority, loading, approvals, runtimeExecutions, reserving>>

\* A start or an inspection of one Run settles the overdue calls of every Run and
\* repairs only this one. Its check for a cancellation precedes its awaits;
\* blocked: the session's trace tells of a blocked authorization.
InspectRun(r, blocked) ==
  /\ admissions[r].status = "redeemed"
  /\ executions' = Settled
  /\ admissions' = Repaired(admissions, IF blocked \/ ProjectsFailed(r, Settled) THEN {r} ELSE {})
  /\ UNCHANGED <<authority, loading, approvals, runtimeExecutions, reserving>>

\* The owner has verified the outcome with the provider.
Reconcile(t, resolution) ==
  /\ executions[t].status = "unknown"
  /\ executions[t].reconciliation = "none"
  /\ executions' = [executions EXCEPT
       ![t].reconciliation = resolution,
       ![t].status = IF resolution = "applied" THEN "completed" ELSE "failed"]
  /\ UNCHANGED <<authority, admissions, loading, approvals, runtimeExecutions, reserving>>

-----------------------------------------------------------------------------
(* Approvals of AgentChannel. The session lists what waits for a decision. *)

\* listApprovals and cancel record what they saw for the first time. The session
\* is asked across an await, so a cancellation checked before may be there now.
RecordApproval(t, r, e) ==
  /\ approvals[t].decision = "none"
  /\ executions[t].status = "none"
  /\ admissions[r].status = "redeemed"
  /\ approvals' = [approvals EXCEPT ![t] =
       [decision |-> "pending", run |-> r, effect |-> e, ttl |-> ApprovalLifetime]]
  /\ UNCHANGED <<authority, admissions, loading, executions, runtimeExecutions, reserving>>

\* decideApproval: its checks of the Run precede two awaits, so only the checks
\* after them guard the decision.
DecideApproval(t, decision) ==
  /\ approvals[t].decision = "pending"
  /\ approvals[t].ttl > 0
  /\ authority.revision = admissions[approvals[t].run].revision
  /\ authority.agent = "active"
  /\ authority.connection = "active"
  /\ authority.grant = "active"
  /\ approvals' = [approvals EXCEPT ![t].decision = decision]
  /\ UNCHANGED <<authority, admissions, loading, executions, runtimeExecutions, reserving>>

-----------------------------------------------------------------------------
(* The composed specification *)

AgeExecution(x) ==
  [x EXCEPT !.ttl = IF x.status = "reserved" /\ @ > -(AlarmLag + 1) THEN @ - 1 ELSE @,
            !.permitTtl = IF @ > 0 THEN @ - 1 ELSE @]

\* A due alarm is at most AlarmLag ticks late, and a policy evaluation does not
\* outlast a tick.
AgeCalls ==
  /\ reserving = {}
  /\ \A t \in ToolCalls : Overdue(t) => executions[t].ttl > -AlarmLag
  /\ AgeAdmissions
  /\ executions' = [t \in ToolCalls |-> AgeExecution(executions[t])]
  /\ approvals' = [t \in ToolCalls |->
       [approvals[t] EXCEPT !.ttl = IF @ > 0 THEN @ - 1 ELSE @]]
  /\ UNCHANGED <<authority, loading, reserving>>

ToolTick == AgeCalls /\ UNCHANGED runtimeExecutions

ToolRestart ==
  /\ loading' = {}
  /\ reserving' = {}
  /\ UNCHANGED <<authority, admissions, ledgers>>

ToolInit == Init /\ reserving = {}

\* A session reports a Run as completed after it has awaited its calls.
Awaited(t) == \A r \in Runs : executions[t].run = r => admissions[r].inbox # "completed"

CallNext ==
  \/ \E t \in ToolCalls, r \in Runs, e \in Effects :
       ReserveBegin(t, r, e) \/ (e \in NeedApproval /\ RecordApproval(t, r, e))
  \/ \E s \in reserving : ReserveCommit(s)
  \/ \E t \in ToolCalls :
       \/ Dispatch(t)
       \/ Awaited(t) /\ \E outcome \in {"completed", "failed", "unknown"},
                           oversized \in BOOLEAN : Complete(t, outcome, oversized)
       \/ \E resolution \in {"applied", "not_applied"} : Reconcile(t, resolution)
       \/ \E decision \in {"approved", "rejected"} : DecideApproval(t, decision)
  \/ \E r \in Runs, blocked \in BOOLEAN : InspectRun(r, blocked)

ToolNext ==
  \/ AdmissionsNext /\ UNCHANGED reserving
  \/ CallNext
  \/ ReconcileExpired
  \/ ToolTick
  \/ ToolRestart

ToolSpec == ToolInit /\ [][ToolNext]_toolVars

-----------------------------------------------------------------------------
(* Properties *)

ToolTypeOK ==
  /\ TypeOK
  /\ reserving \subseteq Reservation
  /\ \A t \in ToolCalls :
       /\ executions[t].ttl \in -(AlarmLag + 1)..ExecutionLifetime
       /\ executions[t].permitTtl \in 0..PermitLifetime

\* Cancellation and dispatch exclude each other: while a cancellation of a Run
\* is requested or complete, no tool call of it has reached a provider.
CancellationExcludesDispatch ==
  \A r \in Runs : admissions[r].cancel # "none" => ~Dispatched(r)

\* The call budget of a Run counts exactly the calls in its ledgers and is never
\* exceeded, however reservations interleave.
BudgetConserved ==
  \A r \in Runs :
    /\ admissions[r].toolCalls =
         Cardinality(CallsOf(r)) + Cardinality({t \in RuntimeCalls : runtimeExecutions[t].run = r})
    /\ admissions[r].toolCalls <= MaxToolCalls

\* However reservations of several Runs interleave with their policy's evaluation,
\* no grant has more live reservations than its concurrency limit, and an effect that
\* needs the owner's approval is never reserved, and so never dispatched, without the
\* approval of that very action for that very Run.
GrantRespected ==
  /\ \A r \in Runs : Present(admissions[r]) => Gate(r, "none").active <= GrantConcurrency
  /\ \A t \in ToolCalls :
       executions[t].effect \in NeedApproval =>
         /\ approvals[t].decision = "approved"
         /\ approvals[t].run = executions[t].run
         /\ approvals[t].effect = executions[t].effect

\* A settled outcome is not rewritten by a late answer or a second reconciliation, an
\* unknown one is settled only by the owner, and a write that may have been applied
\* is not forgotten: its entry outlives the admission's retention until it is settled.
OutcomeIsFinal ==
  [][\A t \in ToolCalls :
       /\ executions[t].status \in {"completed", "failed", "deleted"} =>
            executions'[t].status \in {executions[t].status, "deleted"}
       /\ executions[t].status = "unknown" =>
            executions'[t].status = "unknown" \/ executions'[t].reconciliation # "none"
       /\ /\ executions[t].status = "reserved" /\ executions[t].dispatched
          /\ executions[t].effect \notin Reads
          => executions'[t].status # "deleted"]_toolVars

\* What the documentation says of a Run with an unresolved external call: it is a
\* failed Run in the inbox, even if its session reported completion.
UnresolvedProjectsFailed ==
  \A r \in Runs : admissions[r].inbox = "completed" =>
    ~\E t \in CallsOf(r) : executions[t].status = "unknown"
=============================================================================
