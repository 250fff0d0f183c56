------------------------ MODULE RuntimeToolExecutions ------------------------
(***************************************************************************)
(* The ledger of native runtime tools (web research and sandboxed code),   *)
(* the class RuntimeToolExecutions, composed with the two ledgers it       *)
(* shares a database with; the Sandbox object of each code call; and the   *)
(* first part of the owner's alarm, which settles what is overdue in both  *)
(* ledgers, awaits the destruction of Sandboxes, and only then repairs the *)
(* inbox and cleans the admissions up.                                     *)
(*                                                                         *)
(* A Sandbox is asked to open by the session and may open late. It is      *)
(* destroyed by the owner's alarm (the purge the alarm awaits) and, in the *)
(* background, by the session that used it, by its own alarm, or by a      *)
(* purge the owner has stopped waiting for: of these, one at a time.       *)
(* All calls of one tool have the same input.                              *)
(***************************************************************************)
EXTENDS ToolExecutions

CONSTANTS
  Tools,               \* the runtime tools of the plan
  RuntimeLifetime,     \* smaller of the tool's and the fleet's maxDurationMs
  CompletionGrace,     \* RUNTIME_TOOL_COMPLETION_GRACE_MS, in ticks
  CleanupGrace,        \* RUNTIME_TOOL_CLEANUP_GRACE_MS, in ticks
  CleanupRetry,        \* RUNTIME_TOOL_CLEANUP_RETRY_MS, in ticks
  OpenWindow,          \* ticks past its deadline in which a Sandbox may open
  Horizon,             \* RUNTIME_TOOL_LATE_OPEN_CLEANUP_HORIZON_MS, in ticks
  CleanupBatch         \* Sandboxes one alarm tries to destroy

\* The contracts say that the horizon is longer than the window of late opens.
ASSUME RuntimeAssumption ==
  /\ Tools \subseteq {"web", "sandbox"}
  /\ RuntimeLifetime \in Nat \ {0} /\ CompletionGrace \in Nat /\ CleanupGrace \in Nat
  /\ CleanupRetry \in Nat /\ OpenWindow \in Nat /\ Horizon \in Nat
  /\ OpenWindow < Horizon
  /\ CleanupBatch \in Nat \ {0}

VARIABLES
  sandboxes,           \* the Sandbox objects, one per tool call id
  alarm                \* the alarm that is running

runtimeVars == <<toolVars, sandboxes, alarm>>

\* A purge stores its mark and arms the object's own alarm, stops the container,
\* and drops the storage with the mark.
Purge == {"none", "marked", "stopped"}
Sandbox == [opening : BOOLEAN, running : BOOLEAN, marked : BOOLEAN, awaited : Purge, background : Purge]

NoSandbox ==
  [opening |-> FALSE, running |-> FALSE, marked |-> FALSE, awaited |-> "none", background |-> "none"]

\* What the alarm found at its start: Runs to repair, Sandboxes to destroy, those
\* of them past the horizon, and the admissions its cleanup may touch.
Alarm ==
  [busy : BOOLEAN, failed : SUBSET Runs, pending : SUBSET RuntimeCalls,
   final : SUBSET RuntimeCalls, due : SUBSET Runs]

NoAlarm == [busy |-> FALSE, failed |-> {}, pending |-> {}, final |-> {}, due |-> {}]

-----------------------------------------------------------------------------
(* reserve, dispatch, complete *)

RuntimeGate(r) ==
  /\ admissions[r].status = "redeemed"
  /\ admissions[r].cancel = "none"
  /\ admissions[r].keep > 0
  /\ admissions[r].fleet = authority.fleet
  /\ admissions[r].revision = authority.revision
  /\ authority.agent = "active"

RuntimeCallsOf(r, tool) ==
  {t \in RuntimeCalls : runtimeExecutions[t].run = r /\ runtimeExecutions[t].tool = tool}

\* Mutation: the tool's own time limit is ignored.
RuntimeDurationOfRun(r) == MaxDuration - Smaller(admissions[r].age, MaxDuration)

RuntimeDuration(r) ==
  Smaller(RuntimeLifetime, MaxDuration - Smaller(admissions[r].age, MaxDuration))

\* Mutation: the budget that the external calls of the Run draw on is ignored.
RuntimeReservableUnbudgeted(r, tool) ==
  /\ RuntimeGate(r)
  /\ Cardinality(RuntimeCallsOf(r, tool)) < DuplicateLimit
  /\ RuntimeDuration(r) > 0

RuntimeReservable(r, tool) ==
  /\ RuntimeGate(r)
  /\ admissions[r].toolCalls < MaxToolCalls
  /\ ~\E t \in RuntimeCallsOf(r, tool) :
       runtimeExecutions[t].status = "reserved" /\ runtimeExecutions[t].ttl > 0
  /\ Cardinality(RuntimeCallsOf(r, tool)) < DuplicateLimit
  /\ RuntimeDuration(r) > 0

\* Only digests are awaited between the validation and the transaction, which
\* validates everything again.
RuntimeReserve(t, r, tool) ==
  /\ runtimeExecutions[t].status = "none"
  /\ RuntimeReservable(r, tool)
  /\ runtimeExecutions' = [runtimeExecutions EXCEPT ![t] =
       [NoRuntimeExecution EXCEPT
          !.status = "reserved", !.run = r, !.tool = tool, !.cleaned = (tool # "sandbox"),
          !.permitTtl = PermitLifetime, !.ttl = RuntimeDuration(r) + CompletionGrace,
          !.retry = RuntimeDuration(r) + CompletionGrace + CleanupGrace]]
  /\ admissions' = [admissions EXCEPT ![r].toolCalls = @ + 1]
  /\ UNCHANGED <<authority, loading, executions, approvals, reserving, sandboxes, alarm>>

\* If the answer reaches the session (delivered), it asks the Sandbox to open.
RuntimeDispatch(t, delivered) ==
  LET x == runtimeExecutions[t] IN
  /\ x.status = "reserved"
  /\ ~x.dispatched
  /\ x.permitTtl > 0
  /\ x.ttl > CompletionGrace
  /\ RuntimeGate(x.run)
  /\ runtimeExecutions' = [runtimeExecutions EXCEPT ![t].dispatched = TRUE]
  /\ sandboxes' = [sandboxes EXCEPT ![t].opening = delivered /\ x.tool = "sandbox"]
  /\ UNCHANGED <<authority, admissions, loading, executions, approvals, reserving, alarm>>

\* runtimeToolCompletionStatus: public web research has no uncertain outcome.
CompletionStatus(tool, outcome, exceeded) ==
  IF tool = "sandbox" THEN IF exceeded THEN "unknown" ELSE outcome
  ELSE IF exceeded \/ outcome = "unknown" THEN "failed" ELSE outcome

Completes(t, outcome, oversized) ==
  CompletionStatus(runtimeExecutions[t].tool, outcome, oversized \/ runtimeExecutions[t].ttl < 0)

RuntimeComplete(t, outcome, oversized) ==
  /\ runtimeExecutions[t].status = "reserved"
  /\ runtimeExecutions[t].dispatched \/ outcome # "completed"
  /\ runtimeExecutions' = [runtimeExecutions EXCEPT ![t].status = Completes(t, outcome, oversized)]
  /\ UNCHANGED <<authority, admissions, loading, executions, approvals, reserving, sandboxes, alarm>>

-----------------------------------------------------------------------------
(* The Sandbox of a call *)

SandboxOpens(t) ==
  /\ sandboxes[t].opening
  /\ \E opened \in BOOLEAN :
       sandboxes' = [sandboxes EXCEPT ![t].opening = FALSE, ![t].running = @ \/ opened]
  /\ UNCHANGED <<toolVars, alarm>>

\* runSandboxCode destroys its Sandbox at the end and again after a late open;
\* the object's own alarm resumes a purge that was interrupted.
BackgroundPurge(t) ==
  /\ sandboxes[t].background = "none"
  /\ \/ runtimeExecutions[t].dispatched /\ runtimeExecutions[t].tool = "sandbox"
     \/ sandboxes[t].marked
  /\ sandboxes' = [sandboxes EXCEPT ![t].background = "marked", ![t].marked = TRUE]
  /\ UNCHANGED <<toolVars, alarm>>

BackgroundStep(t) ==
  /\ sandboxes' = [sandboxes EXCEPT ![t] =
       CASE @.background = "marked" -> [@ EXCEPT !.background = "stopped", !.running = FALSE]
         [] @.background = "stopped" -> [@ EXCEPT !.background = "none", !.marked = FALSE]
         [] OTHER -> @]
  /\ UNCHANGED <<toolVars, alarm>>

\* A purge stops half-way: the destruction throws, or the object is evicted.
BackgroundFails(t) ==
  /\ sandboxes[t].background # "none"
  /\ sandboxes' = [sandboxes EXCEPT ![t].background = "none"]
  /\ UNCHANGED <<toolVars, alarm>>

-----------------------------------------------------------------------------
(* The alarm *)

RuntimeOverdue(t) == runtimeExecutions[t].status = "reserved" /\ runtimeExecutions[t].ttl <= 0

RuntimeUnproven(t) ==
  IF runtimeExecutions[t].dispatched /\ runtimeExecutions[t].tool = "sandbox"
  THEN "unknown" ELSE "failed"

RuntimeSettled == [t \in RuntimeCalls |->
  IF RuntimeOverdue(t) THEN [runtimeExecutions[t] EXCEPT !.status = RuntimeUnproven(t)]
  ELSE runtimeExecutions[t]]

\* Mutation: only the Sandboxes of calls without an answer are destroyed.
CleanupDueUnanswered(t) ==
  /\ ~runtimeExecutions[t].cleaned /\ runtimeExecutions[t].retry = 0
  /\ runtimeExecutions[t].status \in {"reserved", "unknown"}

CleanupDue(t) == ~runtimeExecutions[t].cleaned /\ runtimeExecutions[t].retry = 0

\* The batch of due Sandboxes has no order of its own.
Batch(S) == {B \in SUBSET S : Cardinality(B) = Smaller(Cardinality(S), CleanupBatch)}

\* reconcileExpired of both ledgers and the selection of reconcileCleanup.
AlarmBegins ==
  /\ ~alarm.busy
  /\ \/ \E t \in ToolCalls : Overdue(t)
     \/ \E t \in RuntimeCalls : RuntimeOverdue(t) \/ CleanupDue(t)
  /\ executions' = Settled
  /\ runtimeExecutions' = RuntimeSettled
  /\ \E pending \in Batch({t \in RuntimeCalls : CleanupDue(t)}) :
       alarm' = [busy |-> TRUE, pending |-> pending,
                 failed |-> OverdueRuns \cup
                   {runtimeExecutions[t].run : t \in {u \in RuntimeCalls : RuntimeOverdue(u)}},
                 final |-> {t \in pending : runtimeExecutions[t].ttl <= -Horizon},
                 due |-> {r \in Runs : admissions[r].age >= Lifetime \/ admissions[r].keep = 0}]
  /\ UNCHANGED <<authority, admissions, loading, approvals, reserving, sandboxes>>

\* The pending Sandboxes are taken one after the other.
OwnerPurges(t) ==
  /\ t \in alarm.pending
  /\ \A u \in RuntimeCalls : sandboxes[u].awaited = "none"
  /\ sandboxes' = [sandboxes EXCEPT ![t].awaited = "marked", ![t].marked = TRUE]
  /\ UNCHANGED <<toolVars, alarm>>

OwnerStops(t) ==
  /\ sandboxes[t].awaited = "marked"
  /\ sandboxes' = [sandboxes EXCEPT ![t].awaited = "stopped", ![t].running = FALSE]
  /\ UNCHANGED <<toolVars, alarm>>

\* Mutation: the horizon is compared with the time after the destruction.
ReleasesNow(t) == runtimeExecutions[t].ttl <= -Horizon

Releases(t) == t \in alarm.final

\* The next attempt is counted from the start of the alarm.
RetryLater(t) ==
  \E d \in 0..CleanupRetry : runtimeExecutions' = [runtimeExecutions EXCEPT ![t].retry = d]

OwnerPurged(t) ==
  /\ sandboxes[t].awaited = "stopped"
  /\ sandboxes' = [sandboxes EXCEPT ![t].awaited = "none", ![t].marked = FALSE]
  /\ IF Releases(t) THEN runtimeExecutions' = [runtimeExecutions EXCEPT ![t].cleaned = TRUE]
     ELSE RetryLater(t)
  /\ alarm' = [alarm EXCEPT !.pending = @ \ {t}]
  /\ UNCHANGED <<authority, admissions, loading, executions, approvals, reserving>>

\* What the owner waited for goes on without it, or fails.
Unawaited(x) ==
  IF x.awaited = "none" THEN {x}
  ELSE {[x EXCEPT !.awaited = "none"]} \cup
       (IF x.background = "none"
        THEN {[x EXCEPT !.awaited = "none", !.background = x.awaited]} ELSE {})

\* The destruction throws or takes longer than 5 seconds.
OwnerPurgeFails(t) ==
  /\ t \in alarm.pending
  /\ \A u \in RuntimeCalls \ {t} : sandboxes[u].awaited = "none"
  /\ \E x \in Unawaited(sandboxes[t]) : sandboxes' = [sandboxes EXCEPT ![t] = x]
  /\ RetryLater(t)
  /\ alarm' = [alarm EXCEPT !.pending = @ \ {t}]
  /\ UNCHANGED <<authority, admissions, loading, executions, approvals, reserving>>

\* The inbox entries are repaired and the admissions cleaned up, those that were
\* due when the alarm started.
AlarmEnds ==
  /\ alarm.busy
  /\ alarm.pending = {}
  /\ admissions' = Repaired([r \in Runs |-> IF r \in alarm.due THEN CleanRow(r) ELSE admissions[r]],
                            alarm.failed)
  /\ EraseLedgers(Erased \cap alarm.due)
  /\ alarm' = NoAlarm
  /\ UNCHANGED <<authority, loading, reserving, sandboxes>>

-----------------------------------------------------------------------------
(* The composed specification *)

AgeRuntimeExecution(x) ==
  [x EXCEPT !.ttl = IF x.run \in Runs /\ @ > -Horizon THEN @ - 1 ELSE @,
            !.permitTtl = IF @ > 0 THEN @ - 1 ELSE @,
            !.retry = IF @ > 0 THEN @ - 1 ELSE @]

\* The library gives an open up before the window has passed.
RuntimeTick ==
  /\ \A t \in RuntimeCalls : sandboxes[t].opening => runtimeExecutions[t].ttl > -OpenWindow
  /\ AgeCalls
  /\ runtimeExecutions' = [t \in RuntimeCalls |-> AgeRuntimeExecution(runtimeExecutions[t])]
  /\ UNCHANGED <<sandboxes, alarm>>

\* The owner is evicted; the Sandboxes are objects of their own.
RuntimeRestart ==
  /\ loading' = {}
  /\ reserving' = {}
  /\ alarm' = NoAlarm
  /\ sandboxes' \in {s \in [RuntimeCalls -> UNION {Unawaited(sandboxes[t]) : t \in RuntimeCalls}] :
                       \A t \in RuntimeCalls : s[t] \in Unawaited(sandboxes[t])}
  /\ UNCHANGED <<authority, admissions, ledgers>>

RuntimeInit ==
  /\ ToolInit
  /\ sandboxes = [t \in RuntimeCalls |-> NoSandbox]
  /\ alarm = NoAlarm

RuntimeCallNext ==
  \E t \in RuntimeCalls :
    \/ \E r \in Runs, tool \in Tools : RuntimeReserve(t, r, tool)
    \/ \E delivered \in BOOLEAN : RuntimeDispatch(t, delivered)
    \/ \E outcome \in {"completed", "failed", "unknown"}, oversized \in BOOLEAN :
         RuntimeComplete(t, outcome, oversized)

SandboxNext ==
  \E t \in RuntimeCalls :
    SandboxOpens(t) \/ BackgroundPurge(t) \/ BackgroundStep(t) \/ BackgroundFails(t)

AlarmNext ==
  \/ AlarmBegins
  \/ \E t \in RuntimeCalls :
       OwnerPurges(t) \/ OwnerStops(t) \/ OwnerPurged(t) \/ OwnerPurgeFails(t)
  \/ AlarmEnds

RuntimeNext ==
  \/ (AdmissionsNext /\ UNCHANGED reserving) /\ UNCHANGED <<sandboxes, alarm>>
  \/ CallNext /\ UNCHANGED <<sandboxes, alarm>>
  \/ RuntimeCallNext
  \/ SandboxNext
  \/ AlarmNext
  \/ RuntimeTick
  \/ RuntimeRestart

RuntimeSpec == RuntimeInit /\ [][RuntimeNext]_runtimeVars

\* Time passes, due alarms run and are repeated until they end, and a Sandbox
\* that is destroyed again and again is destroyed in the end.
RuntimeFairness ==
  /\ SF_runtimeVars(RuntimeTick)
  /\ WF_runtimeVars(\E s \in reserving : ReserveCommit(s) /\ UNCHANGED <<sandboxes, alarm>>)
  /\ WF_runtimeVars(AlarmBegins)
  /\ SF_runtimeVars(AlarmEnds)
  /\ \A t \in RuntimeCalls :
       /\ WF_runtimeVars(SandboxOpens(t))
       /\ SF_runtimeVars(OwnerPurges(t))
       /\ SF_runtimeVars(OwnerStops(t))
       /\ SF_runtimeVars(OwnerPurged(t))

FairRuntimeSpec == RuntimeSpec /\ RuntimeFairness

-----------------------------------------------------------------------------
(* Properties *)

RuntimeTypeOK ==
  /\ ToolTypeOK
  /\ sandboxes \in [RuntimeCalls -> Sandbox]
  /\ alarm \in Alarm
  /\ \A t \in RuntimeCalls :
       /\ runtimeExecutions[t].ttl \in -Horizon..(RuntimeLifetime + CompletionGrace)
       /\ runtimeExecutions[t].permitTtl \in 0..PermitLifetime

\* The owner forgets a Sandbox, by marking it destroyed or by erasing its Run, only
\* when it does not run and cannot open any more, whatever destructions hang, fail
\* or overtake each other.
SandboxGoneBeforeForgotten ==
  \A t \in RuntimeCalls :
    (runtimeExecutions[t].status # "none" /\ runtimeExecutions[t].cleaned) =>
      ~sandboxes[t].running /\ ~sandboxes[t].opening

\* The alarm settles in the end what no session answers, a dispatched call at a
\* provider and a reserved call of a runtime tool, and no Sandbox keeps its Run for
\* ever: the owner confirms that it is gone.
LedgersSettle ==
  /\ \A t \in ToolCalls :
       executions[t].dispatched /\ executions[t].status = "reserved" ~> executions[t].status # "reserved"
  /\ \A t \in RuntimeCalls :
       runtimeExecutions[t].status = "reserved" ~>
         runtimeExecutions[t].status # "reserved" /\ runtimeExecutions[t].cleaned
=============================================================================
