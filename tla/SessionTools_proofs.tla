-------------------------- MODULE SessionTools_proofs --------------------------
(***************************************************************************)
(* What a session tells its model and its owner about tool calls is true.  *)
(* The owner's side is the invariant of RuntimeToolExecutions_proofs; what *)
(* a session holds of a call is tied to it call by call.                   *)
(***************************************************************************)
EXTENDS SessionTools, RuntimeToolExecutions_proofs

-----------------------------------------------------------------------------
(* What the owner's ledgers do when a session talks to them *)

\* CallNext without the answers of sessions.
CallMove ==
  \/ \E t \in ToolCalls, r \in Runs, e \in Effects :
       ReserveBegin(t, r, e) \/ (e \in NeedApproval /\ RecordApproval(t, r, e))
  \/ \E s \in reserving : ReserveCommit(s)
  \/ \E t \in ToolCalls :
       \/ Dispatch(t)
       \/ \E resolution \in {"applied", "not_applied"} : Reconcile(t, resolution)
       \/ \E decision \in {"approved", "rejected"} : DecideApproval(t, decision)
  \/ \E r \in Runs, blocked \in BOOLEAN : InspectRun(r, blocked)

OwnerMove ==
  \/ (AdmissionsNext /\ UNCHANGED reserving) /\ UNCHANGED <<sandboxes, alarm>>
  \/ CallMove /\ UNCHANGED <<sandboxes, alarm>>
  \/ RuntimeCallNext
  \/ SandboxNext
  \/ AlarmNext
  \/ RuntimeTick
  \/ RuntimeRestart
  \/ UNCHANGED runtimeVars

AnswerMove(t) ==
  /\ \E outcome \in {"completed", "failed", "unknown"} : Complete(t, outcome, FALSE)
  /\ UNCHANGED <<sandboxes, alarm>>

\* An answer is a ledger step whether or not the Run has been reported as completed.
LEMMA AnswerMoveInv ==
  ASSUME RuntimeInv, NEW t \in ToolCalls, AnswerMove(t)
  PROVE  RuntimeInv' /\ LedgerStep
<1>0. RuntimeTypes /\ ToolTypes /\ TypeOK /\ LedgerInv
  BY DEF RuntimeInv, RuntimeTypes, ToolTypes
<1>1. ToolTypes'
  BY <1>0, CallStepType DEF AnswerMove
<1>2. UNCHANGED <<runtimeExecutions, sandboxes, alarm>>
  BY DEF AnswerMove, Complete
<1>3. LedgerStep
  BY <1>0, AnswerSettles DEF AnswerMove, LedgerStep
<1>4. RuntimeTypes'
  BY <1>0, <1>1, <1>2 DEF RuntimeTypes
<1>5. \A u \in RuntimeCalls : SandboxSafe(u)'
  BY <1>2, SafeSame DEF RuntimeInv
<1> QED BY <1>0, <1>3, <1>4, <1>5, LedgerInvStep DEF RuntimeInv

\* The other moves are those of RuntimeToolExecutions.
LEMMA OwnerMoveInv ==
  ASSUME RuntimeInv, OwnerMove
  PROVE  RuntimeInv' /\ LedgerStep
<1>1. CallMove => CallNext
  BY DEF CallMove, CallNext
<1>2. [RuntimeNext]_runtimeVars
  BY <1>1 DEF OwnerMove, RuntimeNext
<1> QED BY <1>2, RuntimeInvStep, RuntimeNextIsLedgerStep DEF RuntimeInv

-----------------------------------------------------------------------------
(* What happens to the record of a call when its session does not answer *)

\* The record of an external call: it is erased, or keeps its effect, and the owner
\* by itself makes no write failed but by a reconciliation.
RowRecorded(x, y) ==
  \/ y.status = "deleted"
  \/ /\ x.status # "deleted"
     /\ x.status # "none" => y.status # "none" /\ y.effect = x.effect
     /\ y.status = "failed" /\ y.reconciliation = "none" /\ y.effect \notin Reads =>
          x.status = "failed" /\ x.reconciliation = "none" /\ x.effect = y.effect
     /\ x.status = "completed" => y.status = "completed"
     /\ x.status \in {"unknown", "failed"} /\ x.ttl < 0 =>
          y.status \in {"completed", "unknown", "failed"} /\ y.ttl < 0

\* The record of a runtime tool's call: once settled it stays so until it is erased.
RuntimeRecorded(x, y) ==
  \/ y.status = "deleted"
  \/ x.status \in {"none", "reserved"}
  \/ y.status = x.status /\ (x.ttl < 0 => y.ttl < 0)

\* A record that stays as it is.
LEMMA RecordedSame ==
  /\ \A x \in Execution : RowRecorded(x, x)
  /\ \A x \in RuntimeExecution : RuntimeRecorded(x, x)
BY DEF RowRecorded, RuntimeRecorded, Execution

\* Erasing Runs.
LEMMA ErasedRecords ==
  ASSUME TypeOK, NEW gone, EraseLedgers(gone)
  PROVE  /\ \A t \in ToolCalls : RowRecorded(executions[t], executions'[t])
         /\ \A t \in RuntimeCalls : RuntimeRecorded(runtimeExecutions[t], runtimeExecutions'[t])
<1>1. ASSUME NEW t \in ToolCalls
      PROVE  RowRecorded(executions[t], executions'[t])
  <2>1. executions[t] \in Execution
    BY DEF TypeOK
  <2>2. CASE executions[t].run \in gone
    <3>1. executions'[t].status = "deleted"
      BY <2>2, ErasedEntries DEF NoExecution
    <3> QED BY <3>1 DEF RowRecorded
  <2>3. CASE executions[t].run \notin gone
    BY <2>1, <2>3, ErasedEntries, RecordedSame
  <2> QED BY <2>2, <2>3
<1>2. ASSUME NEW t \in RuntimeCalls
      PROVE  RuntimeRecorded(runtimeExecutions[t], runtimeExecutions'[t])
  <2>1. runtimeExecutions[t] \in RuntimeExecution
    BY DEF TypeOK
  <2>2. CASE runtimeExecutions[t].run \in gone
    <3>1. runtimeExecutions'[t].status = "deleted"
      BY <2>2, ErasedEntries DEF NoRuntimeExecution
    <3> QED BY <3>1 DEF RuntimeRecorded
  <2>3. CASE runtimeExecutions[t].run \notin gone
    BY <2>1, <2>3, ErasedEntries, RecordedSame
  <2> QED BY <2>2, <2>3
<1> QED BY <1>1, <1>2

\* The owner's settlement of overdue calls makes no write failed.
LEMMA SettledRecords ==
  ASSUME TypeOK, executions' = Settled, NEW t \in ToolCalls
  PROVE  RowRecorded(executions[t], executions'[t])
<1>1. executions[t] \in Execution
  BY DEF TypeOK
<1>2. executions'[t] = IF Overdue(t)
        THEN [executions[t] EXCEPT !.status = Unproven(executions[t].effect)] ELSE executions[t]
  BY DEF Settled
<1>3. CASE ~Overdue(t)
  BY <1>1, <1>2, <1>3, RecordedSame
<1>4. CASE Overdue(t)
  <2>1. /\ executions'[t].status = Unproven(executions[t].effect)
        /\ executions'[t].effect = executions[t].effect
    BY <1>1, <1>2, <1>4 DEF Execution
  <2> QED BY <1>4, <2>1 DEF Overdue, Unproven, RowRecorded
<1> QED BY <1>3, <1>4

\* Reserving, dispatching and reconciling external calls, and inspecting a Run.
LEMMA CallMoveRecords ==
  ASSUME ToolTypes, CallMove, NEW t \in ToolCalls
  PROVE  RowRecorded(executions[t], executions'[t])
<1>0. TypeOK /\ executions[t] \in Execution /\ executions \in [ToolCalls -> Execution]
  BY DEF ToolTypes, TypeOK
<1>1. CASE executions' = executions
  BY <1>0, <1>1, RecordedSame
<1>2. ASSUME NEW u \in ToolCalls, NEW r \in Runs, NEW e \in Effects,
             ReserveBegin(u, r, e) \/ RecordApproval(u, r, e)
      PROVE  executions' = executions
  BY <1>2 DEF ReserveBegin, RecordApproval, vars
<1>3. ASSUME NEW u \in ToolCalls, NEW decision, DecideApproval(u, decision)
      PROVE  executions' = executions
  BY <1>3 DEF DecideApproval
<1>4. ASSUME NEW s \in reserving, ReserveCommit(s)
      PROVE  RowRecorded(executions[t], executions'[t])
  <2>1. CASE executions'[t] = executions[t]
    BY <1>0, <2>1, RecordedSame
  <2>2. CASE t = s.call /\ executions[t].status = "none" /\ executions'[t].status = "reserved"
    BY <2>2 DEF RowRecorded
  <2> QED BY <1>4, <2>1, <2>2, CommitMoves
<1>5. ASSUME NEW u \in ToolCalls, Dispatch(u)
      PROVE  RowRecorded(executions[t], executions'[t])
  <2>1. CASE t # u
    BY <1>0, <1>5, <2>1, DispatchMoves, RecordedSame
  <2>2. CASE t = u
    BY <1>5, <2>2, DispatchMoves DEF Dispatchable, RowRecorded
  <2> QED BY <2>1, <2>2
<1>6. ASSUME NEW u \in ToolCalls, NEW resolution \in {"applied", "not_applied"},
             Reconcile(u, resolution)
      PROVE  RowRecorded(executions[t], executions'[t])
  <2>1. CASE t # u
    <3>1. executions'[t] = executions[t]
      BY <1>0, <1>6, <2>1 DEF Reconcile
    <3> QED BY <1>0, <3>1, RecordedSame
  <2>2. CASE t = u
    <3>1. PICK v \in {"completed", "failed"} :
            executions' = [executions EXCEPT ![t].reconciliation = resolution, ![t].status = v]
      BY <1>6, <2>2 DEF Reconcile
    <3>2. executions'[t] = [executions[t] EXCEPT !.reconciliation = resolution, !.status = v]
      BY <1>0, <3>1
    <3>3. /\ executions'[t].status = v /\ executions'[t].reconciliation = resolution
          /\ executions'[t].effect = executions[t].effect /\ executions'[t].ttl = executions[t].ttl
      BY <1>0, <3>2 DEF Execution
    <3>4. executions[t].status = "unknown"
      BY <1>6, <2>2 DEF Reconcile
    <3> QED BY <3>3, <3>4 DEF RowRecorded
  <2> QED BY <2>1, <2>2
<1>7. ASSUME NEW r \in Runs, NEW blocked \in BOOLEAN, InspectRun(r, blocked)
      PROVE  RowRecorded(executions[t], executions'[t])
  BY <1>0, <1>7, SettledRecords DEF InspectRun
<1> QED BY <1>1, <1>2, <1>3, <1>4, <1>5, <1>6, <1>7 DEF CallMove


\* Reserving, dispatching and completing a runtime tool's call.
LEMMA RuntimeCallRecords ==
  ASSUME RuntimeTypes, NEW t \in RuntimeCalls, RuntimeCallNext
  PROVE  RuntimeRecorded(runtimeExecutions[t], runtimeExecutions'[t])
<1>0. /\ ToolTypes /\ runtimeExecutions[t] \in RuntimeExecution
      /\ runtimeExecutions \in [RuntimeCalls -> RuntimeExecution]
  BY DEF RuntimeTypes, ToolTypes, TypeOK
<1>1. CASE runtimeExecutions'[t] = runtimeExecutions[t]
  BY <1>0, <1>1, RecordedSame
<1>2. PICK c \in RuntimeCalls :
        \/ \E r \in Runs, tool \in Tools : RuntimeReserve(c, r, tool)
        \/ \E delivered \in BOOLEAN : RuntimeDispatch(c, delivered)
        \/ \E outcome \in {"completed", "failed", "unknown"}, oversized \in BOOLEAN :
             RuntimeComplete(c, outcome, oversized)
  BY DEF RuntimeCallNext
<1>3. ASSUME NEW r \in Runs, NEW tool \in Tools, RuntimeReserve(c, r, tool)
      PROVE  RuntimeRecorded(runtimeExecutions[t], runtimeExecutions'[t])
  <2>1. /\ runtimeExecutions[c].status = "none"
        /\ \A u \in RuntimeCalls \ {c} : runtimeExecutions'[u] = runtimeExecutions[u]
    BY <1>0, <1>3, ReserveMoves
  <2>2. CASE t = c
    BY <2>1, <2>2 DEF RuntimeRecorded
  <2> QED BY <1>1, <2>1, <2>2
<1>4. ASSUME \/ \E delivered \in BOOLEAN : RuntimeDispatch(c, delivered)
             \/ \E outcome \in {"completed", "failed", "unknown"}, oversized \in BOOLEAN :
                  RuntimeComplete(c, outcome, oversized)
      PROVE  RuntimeRecorded(runtimeExecutions[t], runtimeExecutions'[t])
  <2>1. /\ runtimeExecutions[c].status = "reserved"
        /\ \/ runtimeExecutions' = [runtimeExecutions EXCEPT ![c].dispatched = TRUE]
           \/ \E v \in {"completed", "failed", "unknown"} :
                runtimeExecutions' = [runtimeExecutions EXCEPT ![c].status = v]
    BY <1>0, <1>4, CallMoves
  <2>2. CASE t # c
    BY <1>0, <1>1, <2>1, <2>2
  <2>3. CASE t = c
    BY <2>1, <2>3 DEF RuntimeRecorded
  <2> QED BY <2>2, <2>3
<1> QED BY <1>2, <1>3, <1>4

\* Every move of the owner.
LEMMA OwnerMoveRecords ==
  ASSUME RuntimeTypes, OwnerMove
  PROVE  /\ \A t \in ToolCalls : RowRecorded(executions[t], executions'[t])
         /\ \A t \in RuntimeCalls : RuntimeRecorded(runtimeExecutions[t], runtimeExecutions'[t])
<1> DEFINE Result ==
      /\ \A t \in ToolCalls : RowRecorded(executions[t], executions'[t])
      /\ \A t \in RuntimeCalls : RuntimeRecorded(runtimeExecutions[t], runtimeExecutions'[t])
<1>0. /\ TypeOK /\ ToolTypes
      /\ \A t \in ToolCalls : executions[t] \in Execution
      /\ \A t \in RuntimeCalls : runtimeExecutions[t] \in RuntimeExecution
      /\ runtimeExecutions \in [RuntimeCalls -> RuntimeExecution]
  BY DEF RuntimeTypes, ToolTypes, TypeOK
<1>1. CASE executions' = executions /\ runtimeExecutions' = runtimeExecutions
  BY <1>0, <1>1, RecordedSame
<1>2. CASE (AdmissionsNext /\ UNCHANGED reserving) /\ UNCHANGED <<sandboxes, alarm>>
  BY <1>0, <1>2, AdmissionsErase, ErasedRecords
<1>3. CASE CallMove /\ UNCHANGED <<sandboxes, alarm>>
  <2>1. CallNext
    BY <1>3 DEF CallMove, CallNext
  <2>2. runtimeExecutions' = runtimeExecutions
    BY <1>0, <2>1, CallNextType
  <2> QED BY <1>0, <1>3, <2>2, CallMoveRecords, RecordedSame
<1>4. CASE RuntimeCallNext
  <2>1. executions' = executions
    BY <1>4 DEF RuntimeCallNext, RuntimeReserve, RuntimeDispatch, RuntimeComplete
  <2> QED BY <1>0, <1>4, <2>1, RuntimeCallRecords, RecordedSame
<1>5. CASE SandboxNext
  BY <1>1, <1>5, BackgroundDrifts DEF SandboxNext, RuntimeTypes, toolVars, vars
<1>6. CASE AlarmNext
  <2>1. CASE AlarmBegins
    <3>1. executions' = Settled /\ runtimeExecutions' = RuntimeSettled
      BY <2>1 DEF AlarmBegins
    <3>2. ASSUME NEW t \in RuntimeCalls
          PROVE  RuntimeRecorded(runtimeExecutions[t], runtimeExecutions'[t])
      <4>1. CASE RuntimeOverdue(t)
        BY <4>1 DEF RuntimeOverdue, RuntimeRecorded
      <4>2. CASE ~RuntimeOverdue(t)
        BY <1>0, <3>1, <4>2, RecordedSame DEF RuntimeSettled
      <4> QED BY <4>1, <4>2
    <3> QED BY <1>0, <3>1, <3>2, SettledRecords
  <2>2. ASSUME NEW t \in RuntimeCalls, OwnerPurges(t) \/ OwnerStops(t)
        PROVE  Result
    BY <1>1, <2>2 DEF OwnerPurges, OwnerStops, toolVars, vars
  <2>3. ASSUME NEW t \in RuntimeCalls, OwnerPurged(t) \/ OwnerPurgeFails(t)
        PROVE  Result
    <3>1. executions' = executions
      BY <2>3 DEF OwnerPurged, OwnerPurgeFails
    <3>2. \/ runtimeExecutions' = [runtimeExecutions EXCEPT ![t].cleaned = TRUE]
          \/ \E d \in 0..CleanupRetry : runtimeExecutions' = [runtimeExecutions EXCEPT ![t].retry = d]
      BY <2>3 DEF OwnerPurged, OwnerPurgeFails, RetryLater
    <3>3. ASSUME NEW u \in RuntimeCalls
          PROVE  runtimeExecutions'[u].status = runtimeExecutions[u].status
                 /\ runtimeExecutions'[u].ttl = runtimeExecutions[u].ttl
      BY <1>0, <3>2 DEF RuntimeExecution
    <3> QED BY <1>0, <3>1, <3>3, RecordedSame DEF RuntimeRecorded
  <2>4. CASE AlarmEnds
    BY <1>0, <2>4, ErasedRecords DEF AlarmEnds
  <2> QED BY <1>6, <2>1, <2>2, <2>3, <2>4 DEF AlarmNext
<1>7. CASE RuntimeTick
  <2>1. ASSUME NEW t \in RuntimeCalls
        PROVE  RuntimeRecorded(runtimeExecutions[t], runtimeExecutions'[t])
    <3> DEFINE x == runtimeExecutions[t]
               y == runtimeExecutions'[t]
    <3>1. y.status = x.status /\ y.ttl = IF x.run \in Runs /\ x.ttl > -Horizon THEN x.ttl - 1 ELSE x.ttl
      BY <1>7, AgedEntries
    <3>2. x.ttl \in Int
      BY <1>0 DEF RuntimeExecution
    <3> HIDE DEF x, y
    <3>3. x.ttl < 0 => y.ttl < 0
      BY <3>1, <3>2
    <3>4. RuntimeRecorded(x, y)
      BY <3>1, <3>3 DEF RuntimeRecorded
    <3> QED BY <3>4 DEF x, y
  <2>2. ASSUME NEW t \in ToolCalls
        PROVE  RowRecorded(executions[t], executions'[t])
    <3>1. /\ executions'[t].status = executions[t].status
          /\ executions'[t].effect = executions[t].effect
          /\ executions'[t].reconciliation = executions[t].reconciliation
          /\ executions'[t].ttl <= executions[t].ttl
          /\ executions'[t] \in Execution
      BY <1>0, <1>7, AgedCalls DEF RuntimeTick
    <3>2. executions[t].ttl \in Int /\ executions'[t].ttl \in Int
      BY <1>0, <3>1 DEF Execution
    <3>3. executions[t].ttl < 0 => executions'[t].ttl < 0
      BY <3>1, <3>2
    <3> QED BY <3>1, <3>3 DEF RowRecorded
  <2> QED BY <2>1, <2>2
<1>8. CASE RuntimeRestart
  BY <1>1, <1>8 DEF RuntimeRestart, ledgers
<1>9. CASE UNCHANGED runtimeVars
  BY <1>1, <1>9 DEF runtimeVars, toolVars, vars
<1> QED BY <1>2, <1>3, <1>4, <1>5, <1>6, <1>7, <1>8, <1>9 DEF OwnerMove

-----------------------------------------------------------------------------
(* What a session holds of a call *)

Begun == {"permitted", "calling", "completing", "answered"}

CrewTyped(c, t) ==
  /\ c \in CrewCall
  /\ c.phase # "none" => c.run \in Runs
  /\ c.phase = "completing" => c.outcome # "none"
  /\ t \in ToolCalls => /\ c.phase # "none" => c.subject \in Effects
                        /\ c.phase = "paused" => c.subject \in NeedApproval
  /\ t \in RuntimeCalls => (c.phase # "none" => c.subject \in Tools)

CrewTypes ==
  /\ crewCalls \in [ToolCalls \cup RuntimeCalls -> CrewCall]
  /\ \A t \in ToolCalls \cup RuntimeCalls : CrewTyped(crewCalls[t], t)
  /\ providers \in [ToolCalls -> {"idle", "called", "applied"}]

\* c is what the session holds of a call, x its record and p its provider.
Told(c, x, p) ==
  /\ c.phase \in Begun => x.status = "deleted" \/ (x.status # "none" /\ x.effect = c.subject)
  /\ c.phase \in {"none", "paused", "checking", "reserving", "permitted"} => p = "idle"
  /\ c.phase = "completing" /\ c.outcome = "failed" /\ c.subject \notin Reads => p = "idle"
  /\ c.phase = "answered" => \/ x.status \in {"completed", "deleted"}
                             \/ x.status \in {"unknown", "failed"} /\ x.ttl < 0
  /\ x.status = "failed" /\ x.reconciliation = "none" /\ x.effect \notin Reads => p = "idle"

RuntimeTold(c, x) ==
  c.phase = "answered" => \/ x.status \in {"completed", "deleted"}
                          \/ x.status \in {"unknown", "failed"} /\ x.ttl < 0

\* A reservation in progress was asked for by the session that holds the call.
AskedFor(s) ==
  /\ crewCalls[s.call].phase \notin {"none", "paused", "checking"}
  /\ crewCalls[s.call].run = s.run /\ crewCalls[s.call].subject = s.effect

CrewInv ==
  /\ CrewTypes
  /\ \A t \in ToolCalls : Told(crewCalls[t], executions[t], providers[t])
  /\ \A t \in RuntimeCalls : RuntimeTold(crewCalls[t], runtimeExecutions[t])
  /\ \A s \in reserving : AskedFor(s)


\* What a session holds stays true of a record that the owner moves, and of a call
\* the session gives up.
LEMMA ToldStays ==
  ASSUME NEW c, NEW x, NEW y, NEW p
  PROVE  /\ Told(c, x, p) /\ RowRecorded(x, y) => Told(c, y, p)
         /\ RuntimeTold(c, x) /\ RuntimeRecorded(x, y) => RuntimeTold(c, y)
         /\ \A d : Told(c, x, p) /\ d.phase = "over" => Told(d, x, p)
BY DEF Told, RuntimeTold, RowRecorded, RuntimeRecorded, Begun

\* A change of one call at its session, its record or its provider.
LEMMA OneCallTold ==
  ASSUME CrewInv, CrewTypes', NEW t \in ToolCalls \cup RuntimeCalls,
         \A u \in (ToolCalls \cup RuntimeCalls) \ {t} : crewCalls'[u] = crewCalls[u],
         \A u \in ToolCalls \ {t} :
           providers'[u] = providers[u] /\ RowRecorded(executions[u], executions'[u]),
         \A u \in RuntimeCalls \ {t} : RuntimeRecorded(runtimeExecutions[u], runtimeExecutions'[u]),
         t \in ToolCalls => Told(crewCalls'[t], executions'[t], providers'[t]),
         t \in RuntimeCalls => RuntimeTold(crewCalls'[t], runtimeExecutions'[t]),
         \A s \in reserving' : s \in reserving \/ AskedFor(s)',
         reserving \subseteq Reservation,
         crewCalls[t].phase \notin {"none", "paused", "checking"} =>
           /\ crewCalls'[t].phase \notin {"none", "paused", "checking"}
           /\ crewCalls'[t].run = crewCalls[t].run /\ crewCalls'[t].subject = crewCalls[t].subject
  PROVE  CrewInv'
<1>1. ASSUME NEW u \in ToolCalls
      PROVE  Told(crewCalls'[u], executions'[u], providers'[u])
  <2>1. CASE u # t
    <3>1. Told(crewCalls[u], executions[u], providers[u])
      BY DEF CrewInv
    <3>2. /\ crewCalls'[u] = crewCalls[u] /\ providers'[u] = providers[u]
          /\ RowRecorded(executions[u], executions'[u])
      BY <2>1
    <3> QED BY <3>1, <3>2, ToldStays
  <2> QED BY <2>1
<1>2. ASSUME NEW u \in RuntimeCalls
      PROVE  RuntimeTold(crewCalls'[u], runtimeExecutions'[u])
  <2>1. CASE u # t
    <3>1. RuntimeTold(crewCalls[u], runtimeExecutions[u])
      BY DEF CrewInv
    <3>2. /\ crewCalls'[u] = crewCalls[u]
          /\ RuntimeRecorded(runtimeExecutions[u], runtimeExecutions'[u])
      BY <2>1
    <3> QED BY <3>1, <3>2, ToldStays
  <2> QED BY <2>1
<1>3. ASSUME NEW s \in reserving', s \in reserving
      PROVE  AskedFor(s)'
  <2>1. AskedFor(s) /\ s.call \in ToolCalls
    BY <1>3 DEF CrewInv, Reservation
  <2>2. CASE s.call = t
    BY <2>1, <2>2 DEF AskedFor
  <2>3. CASE s.call # t
    BY <2>1, <2>3 DEF AskedFor
  <2> QED BY <2>2, <2>3
<1> QED BY <1>1, <1>2, <1>3 DEF CrewInv

\* A step of the owner alone.
LEMMA OwnerKeepsCrew ==
  ASSUME CrewInv, RuntimeTypes, OwnerMove, UNCHANGED <<crewCalls, providers>>,
         reserving' \subseteq reserving
  PROVE  CrewInv'
<1>1. crewCalls' = crewCalls /\ providers' = providers
  OBVIOUS
<1>2. CrewTypes'
  BY <1>1 DEF CrewInv, CrewTypes
<1>3. /\ \A t \in ToolCalls : RowRecorded(executions[t], executions'[t])
      /\ \A t \in RuntimeCalls : RuntimeRecorded(runtimeExecutions[t], runtimeExecutions'[t])
  BY OwnerMoveRecords
<1>4. ASSUME NEW t \in ToolCalls
      PROVE  Told(crewCalls'[t], executions'[t], providers'[t])
  BY <1>1, <1>3, ToldStays DEF CrewInv
<1>5. ASSUME NEW t \in RuntimeCalls
      PROVE  RuntimeTold(crewCalls'[t], runtimeExecutions'[t])
  BY <1>1, <1>3, ToldStays DEF CrewInv
<1>6. \A s \in reserving' : AskedFor(s)'
  BY <1>1 DEF CrewInv, AskedFor
<1> QED BY <1>2, <1>4, <1>5, <1>6 DEF CrewInv

\* The call of t goes to another phase, or ends with an outcome.
LEMMA GoesTo ==
  ASSUME CrewTypes, NEW t \in ToolCalls \cup RuntimeCalls, crewCalls[t].phase # "none",
         NEW phase \in Phases \ {"none", "paused", "completing"}, Goes(t, phase)
  PROVE  /\ crewCalls' \in [ToolCalls \cup RuntimeCalls -> CrewCall]
         /\ \A u \in ToolCalls \cup RuntimeCalls : CrewTyped(crewCalls'[u], u)
         /\ \A u \in (ToolCalls \cup RuntimeCalls) \ {t} : crewCalls'[u] = crewCalls[u]
         /\ crewCalls'[t].phase = phase /\ crewCalls'[t].outcome = crewCalls[t].outcome
         /\ crewCalls'[t].run = crewCalls[t].run /\ crewCalls'[t].subject = crewCalls[t].subject
<1> DEFINE c == [crewCalls[t] EXCEPT !.phase = phase]
<1>1. crewCalls[t] \in CrewCall /\ CrewTyped(crewCalls[t], t)
  BY DEF CrewTypes
<1>2. /\ c \in CrewCall /\ c.phase = phase /\ c.outcome = crewCalls[t].outcome
      /\ c.run = crewCalls[t].run /\ c.subject = crewCalls[t].subject
  BY <1>1 DEF CrewCall
<1>3. crewCalls' = [crewCalls EXCEPT ![t] = c]
  BY DEF CrewTypes, Goes
<1> HIDE DEF c
<1>4. CrewTyped(c, t)
  BY <1>1, <1>2 DEF CrewTyped
<1> QED BY <1>2, <1>3, <1>4 DEF CrewTypes

\* The call of t ends with an outcome the session will report.
LEMMA EndsWith ==
  ASSUME CrewTypes, NEW t \in ToolCalls \cup RuntimeCalls, crewCalls[t].phase # "none",
         NEW outcome \in {"completed", "failed", "unknown"}, Ends(t, outcome)
  PROVE  /\ crewCalls' \in [ToolCalls \cup RuntimeCalls -> CrewCall]
         /\ \A u \in ToolCalls \cup RuntimeCalls : CrewTyped(crewCalls'[u], u)
         /\ \A u \in (ToolCalls \cup RuntimeCalls) \ {t} : crewCalls'[u] = crewCalls[u]
         /\ crewCalls'[t].phase = "completing" /\ crewCalls'[t].outcome = outcome
         /\ crewCalls'[t].run = crewCalls[t].run /\ crewCalls'[t].subject = crewCalls[t].subject
<1> DEFINE c == [crewCalls[t] EXCEPT !.phase = "completing", !.outcome = outcome]
<1>1. crewCalls[t] \in CrewCall /\ CrewTyped(crewCalls[t], t)
  BY DEF CrewTypes
<1>2. /\ c \in CrewCall /\ c.phase = "completing" /\ c.outcome = outcome
      /\ c.run = crewCalls[t].run /\ c.subject = crewCalls[t].subject
  BY <1>1 DEF CrewCall, Phases
<1>3. crewCalls' = [crewCalls EXCEPT ![t] = c]
  BY DEF CrewTypes, Ends
<1> HIDE DEF c
<1>4. CrewTyped(c, t)
  BY <1>1, <1>2 DEF CrewTyped
<1> QED BY <1>2, <1>3, <1>4 DEF CrewTypes


\* A step of the session alone on one call.
LEMMA SessionAlone ==
  ASSUME CrewInv, RuntimeTypes, UNCHANGED runtimeVars, NEW t \in ToolCalls \cup RuntimeCalls,
         crewCalls' \in [ToolCalls \cup RuntimeCalls -> CrewCall],
         \A u \in ToolCalls \cup RuntimeCalls : CrewTyped(crewCalls'[u], u),
         providers' \in [ToolCalls -> {"idle", "called", "applied"}],
         \A u \in (ToolCalls \cup RuntimeCalls) \ {t} : crewCalls'[u] = crewCalls[u],
         \A u \in ToolCalls \ {t} : providers'[u] = providers[u],
         t \in ToolCalls => Told(crewCalls'[t], executions[t], providers'[t]),
         t \in RuntimeCalls => RuntimeTold(crewCalls'[t], runtimeExecutions[t]),
         crewCalls[t].phase \notin {"none", "paused", "checking"} =>
           /\ crewCalls'[t].phase \notin {"none", "paused", "checking"}
           /\ crewCalls'[t].run = crewCalls[t].run /\ crewCalls'[t].subject = crewCalls[t].subject
  PROVE  CrewInv' /\ OwnerMove
<1>1. CrewTypes'
  BY DEF CrewTypes
<1>2. executions' = executions /\ runtimeExecutions' = runtimeExecutions /\ reserving' = reserving
  BY DEF runtimeVars, toolVars, vars
<1>3. /\ \A u \in ToolCalls : executions[u] \in Execution
      /\ \A u \in RuntimeCalls : runtimeExecutions[u] \in RuntimeExecution
      /\ reserving \subseteq Reservation
  BY DEF RuntimeTypes, ToolTypes, TypeOK
<1>4. CrewInv'
  BY <1>1, <1>2, <1>3, OneCallTold, RecordedSame
<1> QED BY <1>4 DEF OwnerMove

\* Authorization: a call begins, paused only where an approval is needed.
LEMMA AuthorizeKeeps ==
  ASSUME CrewInv, RuntimeTypes, NEW t \in ToolCalls \cup RuntimeCalls, NEW r \in Runs,
         \/ t \in ToolCalls /\ \E e \in Effects, answered \in BOOLEAN :
              AuthorizeToolAction(t, r, e, answered)
         \/ t \in RuntimeCalls /\ \E tool \in Tools : AuthorizeRuntimeTool(t, r, tool)
  PROVE  CrewInv' /\ OwnerMove
<1>1. /\ crewCalls[t].phase = "none" /\ UNCHANGED <<runtimeVars, providers>>
      /\ crewCalls \in [ToolCalls \cup RuntimeCalls -> CrewCall]
      /\ providers \in [ToolCalls -> {"idle", "called", "applied"}]
      /\ \A u \in ToolCalls \cup RuntimeCalls : CrewTyped(crewCalls[u], u)
  BY DEF AuthorizeToolAction, AuthorizeRuntimeTool, CrewInv, CrewTypes
<1>2. PICK phase \in {"paused", "checking", "reserving", "over"}, e \in Effects \cup Tools,
           asked \in BOOLEAN :
        /\ crewCalls' = [crewCalls EXCEPT ![t] =
             [NoCall EXCEPT !.phase = phase, !.run = r, !.subject = e, !.asked = asked]]
        /\ t \in ToolCalls => e \in Effects /\ (phase = "paused" => e \in NeedApproval)
        /\ t \in RuntimeCalls => e \in Tools
  <2>1. CASE t \in ToolCalls
    <3>0. t \notin RuntimeCalls
      BY <2>1, SessionAssumption
    <3>1. PICK e \in Effects, answered \in BOOLEAN : AuthorizeToolAction(t, r, e, answered)
      BY <2>1, <3>0
    <3> DEFINE phase == AuthorizedPhase(r, e, answered)
               asked == phase = "paused" /\ PolicyAllows(Gate(r, e))
    <3>2. phase \in {"paused", "checking", "over"} /\ (phase = "paused" => e \in NeedApproval)
      BY DEF AuthorizedPhase
    <3>3. asked \in BOOLEAN
      OBVIOUS
    <3>4. crewCalls' = [crewCalls EXCEPT ![t] =
            [NoCall EXCEPT !.phase = phase, !.run = r, !.subject = e, !.asked = asked]]
      BY <3>1 DEF AuthorizeToolAction
    <3> HIDE DEF phase, asked
    <3> QED BY <3>0, <3>2, <3>3, <3>4
  <2>2. CASE t \in RuntimeCalls
    <3>1. PICK tool \in Tools : AuthorizeRuntimeTool(t, r, tool)
      BY <2>2, SessionAssumption
    <3>2. \A x \in CrewCall : x.asked = FALSE =>
            [x EXCEPT !.phase = "reserving", !.run = r, !.subject = tool] =
            [x EXCEPT !.phase = "reserving", !.run = r, !.subject = tool, !.asked = FALSE]
      BY DEF CrewCall
    <3>3. NoCall \in CrewCall /\ NoCall.asked = FALSE
      BY DEF NoCall, CrewCall, Phases
    <3>4. crewCalls' = [crewCalls EXCEPT ![t] =
            [NoCall EXCEPT !.phase = "reserving", !.run = r, !.subject = tool, !.asked = FALSE]]
      BY <3>1, <3>2, <3>3 DEF AuthorizeRuntimeTool
    <3> QED BY <2>2, <3>4, SessionAssumption
  <2> QED BY <2>1, <2>2
<1> DEFINE c == [NoCall EXCEPT !.phase = phase, !.run = r, !.subject = e, !.asked = asked]
<1>3. /\ c \in CrewCall /\ c.phase = phase /\ c.run = r /\ c.subject = e
  BY DEF NoCall, CrewCall, Phases
<1>4. crewCalls' = [crewCalls EXCEPT ![t] = c]
  BY <1>2
<1> HIDE DEF c
<1>5. CrewTyped(c, t)
  BY <1>2, <1>3 DEF CrewTyped
<1>6. /\ crewCalls' \in [ToolCalls \cup RuntimeCalls -> CrewCall]
      /\ crewCalls'[t] = c
      /\ \A u \in (ToolCalls \cup RuntimeCalls) \ {t} : crewCalls'[u] = crewCalls[u]
  BY <1>1, <1>3, <1>4
<1>7. \A u \in ToolCalls \cup RuntimeCalls : CrewTyped(crewCalls'[u], u)
  BY <1>1, <1>5, <1>6
<1>8. t \in ToolCalls => Told(crewCalls'[t], executions[t], providers'[t])
  <2>1. t \in ToolCalls => Told(crewCalls[t], executions[t], providers[t])
    BY DEF CrewInv
  <2> QED BY <1>1, <1>3, <1>6, <2>1 DEF Told, Begun
<1>9. RuntimeTold(crewCalls'[t], runtimeExecutions[t])
  BY <1>3, <1>6 DEF RuntimeTold
<1> QED BY <1>1, <1>6, <1>7, <1>8, <1>9, SessionAlone

\* The session goes to a phase it may always go to, without a word of the owner:
\* the call is over, or is about to be reserved, or has ended with an outcome.
LEMMA GoesAlone ==
  ASSUME CrewInv, RuntimeTypes, UNCHANGED <<runtimeVars, providers>>,
         NEW t \in ToolCalls \cup RuntimeCalls,
         \/ crewCalls[t].phase # "none" /\ Goes(t, "over")
         \/ crewCalls[t].phase = "checking" /\ Goes(t, "reserving")
         \/ /\ crewCalls[t].phase \in {"permitted", "calling"}
            /\ \E outcome \in {"completed", "failed", "unknown"} :
                 /\ Ends(t, outcome)
                 /\ t \in ToolCalls /\ outcome = "failed" /\ crewCalls[t].subject \notin Reads =>
                      crewCalls[t].phase = "permitted"
  PROVE  CrewInv' /\ OwnerMove
<1>0. CrewTypes /\ providers \in [ToolCalls -> {"idle", "called", "applied"}]
  BY DEF CrewInv, CrewTypes
<1>1. PICK phase \in {"over", "reserving", "completing"} :
        /\ crewCalls' \in [ToolCalls \cup RuntimeCalls -> CrewCall]
        /\ \A u \in ToolCalls \cup RuntimeCalls : CrewTyped(crewCalls'[u], u)
        /\ \A u \in (ToolCalls \cup RuntimeCalls) \ {t} : crewCalls'[u] = crewCalls[u]
        /\ crewCalls'[t].phase = phase
        /\ crewCalls'[t].run = crewCalls[t].run /\ crewCalls'[t].subject = crewCalls[t].subject
        /\ phase = "reserving" => crewCalls[t].phase = "checking"
        /\ phase = "completing" =>
             /\ crewCalls[t].phase \in {"permitted", "calling"}
             /\ t \in ToolCalls /\ crewCalls'[t].outcome = "failed"
                  /\ crewCalls[t].subject \notin Reads => crewCalls[t].phase = "permitted"
  <2>1. CASE crewCalls[t].phase # "none" /\ Goes(t, "over")
    BY <1>0, <2>1, GoesTo DEF Phases
  <2>2. CASE crewCalls[t].phase = "checking" /\ Goes(t, "reserving")
    BY <1>0, <2>2, GoesTo DEF Phases
  <2>3. CASE crewCalls[t].phase \in {"permitted", "calling"}
             /\ \E outcome \in {"completed", "failed", "unknown"} :
                  /\ Ends(t, outcome)
                  /\ t \in ToolCalls /\ outcome = "failed" /\ crewCalls[t].subject \notin Reads =>
                       crewCalls[t].phase = "permitted"
    BY <1>0, <2>3, EndsWith
  <2> QED BY <2>1, <2>2, <2>3
<1>2. t \in ToolCalls => Told(crewCalls'[t], executions[t], providers'[t])
  <2>1. t \in ToolCalls => Told(crewCalls[t], executions[t], providers[t])
    BY DEF CrewInv
  <2> QED BY <1>1, <2>1 DEF Told, Begun
<1>3. RuntimeTold(crewCalls'[t], runtimeExecutions[t])
  BY <1>1 DEF RuntimeTold
<1> QED BY <1>0, <1>1, <1>2, <1>3, SessionAlone


\* The owner's decision arrives at a call that is paused, at once or when repeated.
LEMMA DecisionKeeps ==
  ASSUME CrewInv, RuntimeTypes, NEW t \in ToolCalls, NEW decision \in {"approved", "rejected"},
         crewCalls[t].phase = "paused", DecisionArrives(t, decision), providers' = providers,
         \/ UNCHANGED runtimeVars
         \/ DecideApproval(t, decision) /\ UNCHANGED <<sandboxes, alarm>>
  PROVE  CrewInv' /\ OwnerMove
<1>0. /\ CrewTypes /\ crewCalls[t] \in CrewCall /\ CrewTyped(crewCalls[t], t)
      /\ crewCalls \in [ToolCalls \cup RuntimeCalls -> CrewCall]
  BY DEF CrewInv, CrewTypes
<1>1. PICK phase \in {"checking", "over"} :
        crewCalls' = [crewCalls EXCEPT ![t].asked = FALSE, ![t].phase = phase]
  BY DEF DecisionArrives
<1> DEFINE c == [crewCalls[t] EXCEPT !.asked = FALSE, !.phase = phase]
<1>2. /\ c \in CrewCall /\ c.phase = phase /\ c.run = crewCalls[t].run
      /\ c.subject = crewCalls[t].subject
  BY <1>0 DEF CrewCall, Phases
<1>3. crewCalls' = [crewCalls EXCEPT ![t] = c]
  BY <1>0, <1>1
<1> HIDE DEF c
<1>4. CrewTyped(c, t)
  BY <1>0, <1>2 DEF CrewTyped
<1>5. CrewTypes'
  BY <1>0, <1>2, <1>3, <1>4 DEF CrewTypes
<1>6. Told(crewCalls'[t], executions[t], providers'[t])
  <2>1. Told(crewCalls[t], executions[t], providers[t])
    BY DEF CrewInv
  <2> QED BY <1>0, <1>2, <1>3, <2>1 DEF Told, Begun
<1>7. /\ executions' = executions /\ runtimeExecutions' = runtimeExecutions
      /\ reserving' = reserving
  BY DEF DecideApproval, runtimeVars, toolVars, vars
<1>8. /\ \A u \in ToolCalls : executions[u] \in Execution
      /\ \A u \in RuntimeCalls : runtimeExecutions[u] \in RuntimeExecution
      /\ reserving \subseteq Reservation
  BY DEF RuntimeTypes, ToolTypes, TypeOK
<1>9. CrewInv'
  <2>1. t \notin RuntimeCalls
    BY SessionAssumption
  <2>2. \A u \in (ToolCalls \cup RuntimeCalls) \ {t} : crewCalls'[u] = crewCalls[u]
    BY <1>0, <1>3
  <2> QED BY <1>5, <1>6, <1>7, <1>8, <2>1, <2>2, OneCallTold, RecordedSame
<1>10. OwnerMove
  BY DEF OwnerMove, CallMove
<1> QED BY <1>9, <1>10

\* The owner lists what a session says is pending, and decides it.
LEMMA ApprovalsKeep ==
  ASSUME CrewInv, RuntimeTypes, NEW t \in ToolCalls,
         \/ ListApproval(t) \/ DecideAgain(t)
         \/ \E decision \in {"approved", "rejected"}, delivered \in BOOLEAN :
              DecideApprovalAtSession(t, decision, delivered)
  PROVE  CrewInv' /\ OwnerMove
<1>0. CrewTyped(crewCalls[t], t) /\ crewCalls[t].phase = "paused"
  BY DEF ListApproval, DecideAgain, DecideApprovalAtSession, CrewInv, CrewTypes
<1>1. crewCalls[t].run \in Runs /\ crewCalls[t].subject \in NeedApproval
  BY <1>0 DEF CrewTyped
<1>2. CASE ListApproval(t)
  <2>1. /\ RecordApproval(t, crewCalls[t].run, crewCalls[t].subject)
        /\ UNCHANGED <<sandboxes, alarm, crewCalls, providers, reserving>>
    BY <1>2 DEF ListApproval, sessionVars, RecordApproval
  <2>2. crewCalls[t].subject \in Effects
    BY <1>1, ToolAssumption
  <2>3. OwnerMove
    BY <1>1, <2>1, <2>2 DEF OwnerMove, CallMove
  <2> QED BY <2>1, <2>3, OwnerKeepsCrew
<1>3. CASE DecideAgain(t)
  <2>1. DecisionArrives(t, approvals[t].decision) /\ UNCHANGED <<runtimeVars, providers>>
        /\ approvals[t].decision \in {"approved", "rejected"}
    BY <1>3 DEF DecideAgain
  <2> QED BY <1>0, <2>1, DecisionKeeps
<1>4. ASSUME NEW decision \in {"approved", "rejected"}, NEW delivered \in BOOLEAN,
             DecideApprovalAtSession(t, decision, delivered)
      PROVE  CrewInv' /\ OwnerMove
  <2>1. DecideApproval(t, decision) /\ UNCHANGED <<sandboxes, alarm, providers>>
    BY <1>4 DEF DecideApprovalAtSession
  <2>2. CASE DecisionArrives(t, decision)
    BY <1>0, <2>1, <2>2, DecisionKeeps
  <2>3. CASE crewCalls' = crewCalls
    <3>1. OwnerMove
      BY <2>1 DEF OwnerMove, CallMove
    <3>2. reserving' = reserving
      BY <2>1 DEF DecideApproval
    <3> QED BY <2>1, <2>3, <3>1, <3>2, OwnerKeepsCrew
  <2> QED BY <1>4, <2>2, <2>3 DEF DecideApprovalAtSession
<1> QED BY <1>2, <1>3, <1>4

\* A reservation arrives at the owner.
LEMMA ReserveArrivesKeeps ==
  ASSUME CrewInv, RuntimeTypes, NEW t \in ToolCalls, ReserveArrives(t)
  PROVE  CrewInv' /\ OwnerMove
<1>0. CrewTyped(crewCalls[t], t) /\ crewCalls[t].phase = "reserving"
  BY DEF ReserveArrives, CrewInv, CrewTypes
<1>1. crewCalls[t].run \in Runs /\ crewCalls[t].subject \in Effects
  BY <1>0 DEF CrewTyped
<1>2. /\ ReserveBegin(t, crewCalls[t].run, crewCalls[t].subject)
      /\ UNCHANGED <<sandboxes, alarm, crewCalls, providers>>
  BY DEF ReserveArrives, sessionVars
<1>3. OwnerMove
  BY <1>1, <1>2 DEF OwnerMove, CallMove
<1>4. executions' = executions /\ runtimeExecutions' = runtimeExecutions
  BY <1>2 DEF ReserveBegin, vars
<1>5. \A s \in reserving' : AskedFor(s)'
  <2> DEFINE new == [call |-> t, run |-> crewCalls[t].run, effect |-> crewCalls[t].subject,
                     gate |-> Gate(crewCalls[t].run, crewCalls[t].subject)]
  <2>1. reserving' = reserving \cup {new}
    BY <1>2 DEF ReserveBegin
  <2>2. new.call = t /\ new.run = crewCalls[t].run /\ new.effect = crewCalls[t].subject
    OBVIOUS
  <2> HIDE DEF new
  <2> QED BY <1>0, <1>2, <2>1, <2>2 DEF CrewInv, AskedFor
<1>6. CrewInv'
  BY <1>2, <1>4, <1>5 DEF CrewInv, CrewTypes
<1> QED BY <1>3, <1>6

\* The answer to a reservation: with a permit only if the call is reserved.
LEMMA ReserveAnsweredKeeps ==
  ASSUME CrewInv, RuntimeTypes, NEW s \in reserving, NEW delivered \in BOOLEAN,
         ReserveAnswered(s, delivered)
  PROVE  CrewInv' /\ OwnerMove
<1> DEFINE t == s.call
<1>0. /\ CrewTypes /\ AskedFor(s) /\ ToolTypes /\ t \in ToolCalls /\ t \notin RuntimeCalls
      /\ \A u \in ToolCalls : executions[u] \in Execution
      /\ \A u \in RuntimeCalls : runtimeExecutions[u] \in RuntimeExecution
      /\ reserving \subseteq Reservation
  BY SessionAssumption DEF CrewInv, RuntimeTypes, ToolTypes, TypeOK, Reservation
<1>1. ReserveCommit(s) /\ UNCHANGED <<sandboxes, alarm, providers>>
  BY DEF ReserveAnswered
<1>2. OwnerMove
  BY <1>1 DEF OwnerMove, CallMove
<1>3. reserving' \subseteq reserving
  BY <1>1 DEF ReserveCommit
<1>4. CASE crewCalls' = crewCalls
  BY <1>1, <1>2, <1>3, <1>4, OwnerKeepsCrew
<1>5. ASSUME NEW phase \in {"permitted", "over"}, Goes(t, phase), crewCalls[t].phase = "reserving",
             phase = "permitted" => StillReservable(s)
      PROVE  CrewInv'
  <2>1. /\ crewCalls' \in [ToolCalls \cup RuntimeCalls -> CrewCall]
        /\ \A u \in ToolCalls \cup RuntimeCalls : CrewTyped(crewCalls'[u], u)
        /\ \A u \in (ToolCalls \cup RuntimeCalls) \ {t} : crewCalls'[u] = crewCalls[u]
        /\ crewCalls'[t].phase = phase
        /\ crewCalls'[t].run = crewCalls[t].run /\ crewCalls'[t].subject = crewCalls[t].subject
    BY <1>0, <1>5, GoesTo DEF Phases
  <2>2. CrewTypes'
    BY <1>0, <1>1, <2>1 DEF CrewTypes
  <2>3. /\ \A u \in ToolCalls : RowRecorded(executions[u], executions'[u])
        /\ \A u \in RuntimeCalls : RuntimeRecorded(runtimeExecutions[u], runtimeExecutions'[u])
    BY <1>2, OwnerMoveRecords
  <2>4. Told(crewCalls[t], executions[t], providers[t])
    BY <1>0 DEF CrewInv
  <2>5. Told(crewCalls[t], executions'[t], providers[t])
    BY <1>0, <2>3, <2>4, ToldStays
  <2>6. Told(crewCalls'[t], executions'[t], providers'[t])
    <3>1. CASE phase = "over"
      BY <1>1, <2>1, <2>5, <3>1, ToldStays
    <3>2. CASE phase = "permitted"
      <4>1. executions'[t] = [NoExecution EXCEPT !.status = "reserved", !.run = s.run,
                 !.effect = s.effect, !.ttl = LifetimeOf(s), !.permitTtl = PermitLifetime]
        BY <1>0, <1>1, <1>5, <3>2 DEF ReserveCommit, ToolTypes, TypeOK
      <4>2. executions'[t].status = "reserved" /\ executions'[t].effect = s.effect
        BY <4>1 DEF NoExecution
      <4> QED BY <1>0, <1>1, <1>5, <2>1, <2>4, <3>2, <4>2 DEF Told, Begun, AskedFor
    <3> QED BY <3>1, <3>2
  <2> HIDE DEF t
  <2> QED BY <1>0, <1>1, <1>3, <1>5, <2>1, <2>2, <2>3, <2>6, OneCallTold
<1>6. CrewInv'
  BY <1>4, <1>5 DEF ReserveAnswered
<1> QED BY <1>2, <1>6


\* A dispatch of which the session learns, or does not.
LEMMA DispatchKeeps ==
  ASSUME CrewInv, RuntimeTypes, NEW t \in ToolCalls, DispatchCall(t)
  PROVE  CrewInv' /\ OwnerMove
<1>0. /\ CrewTypes /\ t \notin RuntimeCalls /\ reserving \subseteq Reservation
      /\ crewCalls[t].phase = "permitted" /\ Dispatch(t) /\ UNCHANGED <<sandboxes, alarm>>
      /\ ToolTypes /\ executions[t] \in Execution
  BY SessionAssumption DEF CrewInv, RuntimeTypes, ToolTypes, TypeOK, DispatchCall
<1>1. OwnerMove
  BY <1>0 DEF OwnerMove, CallMove
<1>2. reserving' = reserving
  BY <1>0 DEF Dispatch
<1>3. /\ \A u \in ToolCalls : RowRecorded(executions[u], executions'[u])
      /\ \A u \in RuntimeCalls : RuntimeRecorded(runtimeExecutions[u], runtimeExecutions'[u])
  BY <1>1, OwnerMoveRecords
<1>4. /\ Told(crewCalls[t], executions[t], providers[t])
      /\ Told(crewCalls[t], executions'[t], providers[t])
  BY <1>3, ToldStays DEF CrewInv
<1>5. executions'[t].status = "reserved" /\ executions'[t].effect = executions[t].effect
  BY <1>0, DispatchMoves
<1>6. executions'[t].effect = crewCalls[t].subject /\ providers[t] = "idle"
  BY <1>0, <1>4, <1>5 DEF Told, Begun
<1>7. CASE Goes(t, "calling") /\ providers' = [providers EXCEPT ![t] = "called"]
  <2>1. /\ crewCalls' \in [ToolCalls \cup RuntimeCalls -> CrewCall]
        /\ \A u \in ToolCalls \cup RuntimeCalls : CrewTyped(crewCalls'[u], u)
        /\ \A u \in (ToolCalls \cup RuntimeCalls) \ {t} : crewCalls'[u] = crewCalls[u]
        /\ crewCalls'[t].phase = "calling"
        /\ crewCalls'[t].run = crewCalls[t].run /\ crewCalls'[t].subject = crewCalls[t].subject
    BY <1>0, <1>7, GoesTo DEF Phases
  <2>2. CrewTypes' /\ \A u \in ToolCalls \ {t} : providers'[u] = providers[u]
    BY <1>0, <1>7, <2>1 DEF CrewTypes
  <2>3. Told(crewCalls'[t], executions'[t], providers'[t])
    BY <1>5, <1>6, <2>1 DEF Told, Begun
  <2> QED BY <1>0, <1>1, <1>2, <1>3, <2>1, <2>2, <2>3, OneCallTold
<1>8. ASSUME NEW outcome \in {"completed", "failed", "unknown"}, Ends(t, outcome),
             providers' = providers, outcome # "completed"
      PROVE  CrewInv'
  <2>1. /\ crewCalls' \in [ToolCalls \cup RuntimeCalls -> CrewCall]
        /\ \A u \in ToolCalls \cup RuntimeCalls : CrewTyped(crewCalls'[u], u)
        /\ \A u \in (ToolCalls \cup RuntimeCalls) \ {t} : crewCalls'[u] = crewCalls[u]
        /\ crewCalls'[t].phase = "completing"
        /\ crewCalls'[t].run = crewCalls[t].run /\ crewCalls'[t].subject = crewCalls[t].subject
    BY <1>0, <1>8, EndsWith
  <2>2. CrewTypes'
    BY <1>0, <1>8, <2>1 DEF CrewTypes
  <2>3. Told(crewCalls'[t], executions'[t], providers'[t])
    BY <1>5, <1>6, <1>8, <2>1 DEF Told, Begun
  <2> QED BY <1>0, <1>2, <1>3, <1>8, <2>1, <2>2, <2>3, OneCallTold
<1>9. CrewInv'
  BY <1>7, <1>8 DEF DispatchCall, Unproven
<1> QED BY <1>1, <1>9

\* Refused, returned or given up: the session ends or leaves the call by itself.
LEMMA EndsAlone ==
  ASSUME CrewInv, RuntimeTypes, NEW t \in ToolCalls \cup RuntimeCalls,
         \/ DispatchRefused(t) \/ CallReturns(t) \/ RuntimeToolReturns(t) \/ ReserveDenied(t)
         \/ CompletionUnrecorded(t)
         \/ \E answered \in BOOLEAN : BeforeToolCall(t, answered)
         \/ \E delivered \in BOOLEAN : RuntimeDispatchRefused(t, delivered)
  PROVE  CrewInv' /\ OwnerMove
<1>0. CrewTypes /\ CrewTyped(crewCalls[t], t) /\ ToolCalls \cap RuntimeCalls = {}
  BY SessionAssumption DEF CrewInv, CrewTypes
<1>1. CASE DispatchRefused(t)
  <2>1. /\ crewCalls[t].phase = "permitted" /\ UNCHANGED <<runtimeVars, providers>>
        /\ \E outcome \in {"completed", "failed", "unknown"} : Ends(t, outcome)
    BY <1>1 DEF DispatchRefused, Undispatched, Unproven
  <2> QED BY <2>1, GoesAlone
<1>2. CASE CallReturns(t)
  <2>1. PICK outcome \in Returns(t) : Ends(t, outcome)
    BY <1>2 DEF CallReturns
  <2>2. /\ outcome \in {"completed", "failed", "unknown"}
        /\ outcome = "failed" => crewCalls[t].subject \in Reads
    BY <2>1 DEF Returns, Unproven
  <2> QED BY <1>2, <2>1, <2>2, GoesAlone DEF CallReturns
<1>3. CASE RuntimeToolReturns(t)
  <2>1. PICK outcome \in {"completed", "failed", "unknown"} : Ends(t, outcome)
    BY <1>3 DEF RuntimeToolReturns
  <2>2. t \notin ToolCalls /\ crewCalls[t].phase = "calling" /\ UNCHANGED <<runtimeVars, providers>>
    BY <1>0, <1>3 DEF RuntimeToolReturns
  <2> QED BY <2>1, <2>2, GoesAlone
<1>4. CASE ReserveDenied(t) \/ CompletionUnrecorded(t)
  <2>1. /\ crewCalls[t].phase # "none" /\ Goes(t, "over") /\ UNCHANGED <<runtimeVars, providers>>
    BY <1>4 DEF ReserveDenied, CompletionUnrecorded, Unrecorded
  <2> QED BY <2>1, GoesAlone
<1>5. ASSUME NEW answered \in BOOLEAN, BeforeToolCall(t, answered)
      PROVE  CrewInv' /\ OwnerMove
  <2>1. /\ crewCalls[t].phase = "checking" /\ UNCHANGED <<runtimeVars, providers>>
        /\ Goes(t, "over") \/ Goes(t, "reserving")
    BY <1>5 DEF BeforeToolCall
  <2> QED BY <2>1, GoesAlone
<1>6. ASSUME NEW delivered \in BOOLEAN, RuntimeDispatchRefused(t, delivered)
      PROVE  CrewInv' /\ OwnerMove
  <2>1. /\ crewCalls[t].phase = "permitted" /\ UNCHANGED <<runtimeVars, providers>>
        /\ Ends(t, "failed") \/ Goes(t, "over")
    BY <1>6 DEF RuntimeDispatchRefused
  <2> QED BY <2>1, GoesAlone
<1> QED BY <1>1, <1>2, <1>3, <1>4, <1>5, <1>6

\* The provider applies an effect, perhaps after the session stopped waiting.
LEMMA ProviderKeeps ==
  ASSUME CrewInv, RuntimeTypes, NEW t \in ToolCalls, ProviderApplies(t)
  PROVE  CrewInv' /\ OwnerMove
<1>1. /\ CrewTypes /\ providers[t] = "called" /\ crewCalls' = crewCalls /\ UNCHANGED runtimeVars
      /\ providers' = [providers EXCEPT ![t] = "applied"] /\ t \notin RuntimeCalls
  BY SessionAssumption DEF CrewInv, ProviderApplies
<1>2. Told(crewCalls[t], executions[t], providers[t])
  BY DEF CrewInv
<1>3. Told(crewCalls[t], executions[t], providers'[t])
  BY <1>1, <1>2 DEF Told
<1>4. /\ crewCalls' \in [ToolCalls \cup RuntimeCalls -> CrewCall]
      /\ \A u \in ToolCalls \cup RuntimeCalls : CrewTyped(crewCalls'[u], u)
      /\ providers' \in [ToolCalls -> {"idle", "called", "applied"}]
      /\ \A u \in ToolCalls \ {t} : providers'[u] = providers[u]
  BY <1>1 DEF CrewTypes
<1> QED BY <1>1, <1>3, <1>4, SessionAlone

\* The session reports an outcome: the model is given the output of a completed call.
LEMMA CompleteKeeps ==
  ASSUME CrewInv, RuntimeTypes, NEW t \in ToolCalls, NEW delivered \in BOOLEAN,
         CompleteCall(t, delivered)
  PROVE  CrewInv' /\ AnswerMove(t)
<1> DEFINE c == crewCalls[t]
           x == executions[t]
           status == IF x.ttl < 0 THEN Unproven(x.effect) ELSE c.outcome
<1>0. /\ CrewTypes /\ t \notin RuntimeCalls /\ reserving \subseteq Reservation
      /\ c.phase = "completing" /\ CrewTyped(c, t) /\ c \in CrewCall
      /\ \A u \in ToolCalls : executions[u] \in Execution
      /\ executions \in [ToolCalls -> Execution]
      /\ \A u \in RuntimeCalls : runtimeExecutions[u] \in RuntimeExecution
  BY SessionAssumption DEF CrewInv, CrewTypes, RuntimeTypes, ToolTypes, TypeOK, CompleteCall
<1>1. c.outcome \in {"completed", "failed", "unknown"}
  BY <1>0 DEF CrewTyped, CrewCall
<1>2. AnswerMove(t)
  BY <1>1 DEF CompleteCall, AnswerMove
<1>3. /\ x.status = "reserved" /\ executions' = [executions EXCEPT ![t].status = status]
      /\ UNCHANGED <<runtimeExecutions, reserving, providers>>
      /\ Goes(t, CompletedPhase(t, delivered))
  BY DEF CompleteCall, Complete
<1>4. /\ executions'[t].status = status /\ executions'[t].effect = x.effect
      /\ executions'[t].ttl = x.ttl
      /\ \A u \in ToolCalls \ {t} : executions'[u] = executions[u]
  BY <1>0, <1>3 DEF Execution
<1>5. CompletedPhase(t, delivered) \in {"answered", "over"}
      /\ (CompletedPhase(t, delivered) = "answered" => c.outcome = "completed")
  BY DEF CompletedPhase
<1>6. /\ crewCalls' \in [ToolCalls \cup RuntimeCalls -> CrewCall]
      /\ \A u \in ToolCalls \cup RuntimeCalls : CrewTyped(crewCalls'[u], u)
      /\ \A u \in (ToolCalls \cup RuntimeCalls) \ {t} : crewCalls'[u] = crewCalls[u]
      /\ crewCalls'[t].phase = CompletedPhase(t, delivered)
      /\ crewCalls'[t].run = c.run /\ crewCalls'[t].subject = c.subject
  BY <1>0, <1>3, <1>5, GoesTo DEF Phases
<1>7. Told(c, x, providers[t])
  BY DEF CrewInv
<1>8. /\ x.effect = c.subject
      /\ c.outcome = "failed" /\ x.effect \notin Reads => providers[t] = "idle"
  BY <1>0, <1>3, <1>7 DEF Told, Begun
<1>9. /\ status \in {"completed", "failed", "unknown"}
      /\ status = "failed" /\ x.effect \notin Reads => providers[t] = "idle"
      /\ c.outcome = "completed" => status = "completed" \/ x.ttl < 0
  BY <1>1, <1>8 DEF Unproven
<1> HIDE DEF status
<1>10. Told(crewCalls'[t], executions'[t], providers'[t])
  <2>1. CASE crewCalls'[t].phase = "over"
    BY <1>3, <1>4, <1>9, <2>1 DEF Told, Begun
  <2>2. CASE crewCalls'[t].phase = "answered"
    BY <1>3, <1>4, <1>5, <1>6, <1>8, <1>9, <2>2 DEF Told, Begun
  <2> QED BY <1>5, <1>6, <2>1, <2>2
<1>11. CrewTypes'
  BY <1>0, <1>3, <1>6 DEF CrewTypes
<1>12. CrewInv'
  BY <1>0, <1>3, <1>4, <1>5, <1>6, <1>10, <1>11, OneCallTold, RecordedSame
<1> QED BY <1>2, <1>12


\* A runtime tool's call is reserved, dispatched or completed at the owner.
LEMMA RuntimeToolKeeps ==
  ASSUME CrewInv, RuntimeTypes, NEW t \in RuntimeCalls, NEW delivered \in BOOLEAN,
         \/ ReserveRuntimeTool(t, delivered) \/ DispatchRuntimeTool(t, delivered)
         \/ CompleteRuntimeTool(t, delivered)
  PROVE  CrewInv' /\ OwnerMove
<1> DEFINE c == crewCalls[t]
           x == runtimeExecutions[t]
<1>0. /\ CrewTypes /\ t \notin ToolCalls /\ reserving \subseteq Reservation
      /\ CrewTyped(c, t) /\ c \in CrewCall /\ ToolTypes
      /\ \A u \in ToolCalls : executions[u] \in Execution
      /\ runtimeExecutions \in [RuntimeCalls -> RuntimeExecution]
  BY SessionAssumption DEF CrewInv, CrewTypes, RuntimeTypes, ToolTypes, TypeOK
<1>1. ASSUME ReserveRuntimeTool(t, delivered)
      PROVE  /\ RuntimeCallNext /\ c.phase = "reserving"
             /\ Goes(t, "permitted") \/ Goes(t, "over")
             /\ UNCHANGED <<executions, reserving, providers>>
  <2>1. c.run \in Runs /\ c.subject \in Tools
    BY <1>0, <1>1 DEF ReserveRuntimeTool, CrewTyped
  <2> QED BY <1>1, <2>1 DEF ReserveRuntimeTool, RuntimeCallNext, RuntimeReserve
<1>2. ASSUME DispatchRuntimeTool(t, delivered)
      PROVE  /\ RuntimeCallNext /\ c.phase = "permitted"
             /\ Goes(t, "calling") \/ Goes(t, "over")
             /\ UNCHANGED <<executions, reserving, providers>>
  BY <1>2 DEF DispatchRuntimeTool, RuntimeCallNext, RuntimeDispatch
<1>3. ASSUME CompleteRuntimeTool(t, delivered)
      PROVE  /\ RuntimeCallNext /\ c.phase = "completing"
             /\ \/ Goes(t, "answered") /\ RuntimeTold([c EXCEPT !.phase = "answered"], runtimeExecutions'[t])
                \/ Goes(t, "over")
             /\ UNCHANGED <<executions, reserving, providers>>
  <2>1. c.outcome \in {"completed", "failed", "unknown"} /\ c.phase = "completing"
    BY <1>0, <1>3 DEF CompleteRuntimeTool, CrewTyped, CrewCall
  <2>2. RuntimeComplete(t, c.outcome, FALSE) /\ Goes(t, CompletedPhase(t, delivered))
    BY <1>3 DEF CompleteRuntimeTool
  <2>3. RuntimeCallNext /\ UNCHANGED <<executions, reserving, providers>>
    BY <1>3, <2>1, <2>2 DEF CompleteRuntimeTool, RuntimeCallNext, RuntimeComplete
  <2>4. /\ runtimeExecutions'[t].status = Completes(t, c.outcome, FALSE)
        /\ runtimeExecutions'[t].ttl = x.ttl
    BY <1>0, <2>2 DEF RuntimeComplete, RuntimeExecution
  <2>5. CASE CompletedPhase(t, delivered) = "answered"
    <3>1. c.outcome = "completed"
      BY <2>5 DEF CompletedPhase
    <3>2. \/ runtimeExecutions'[t].status = "completed"
          \/ runtimeExecutions'[t].status \in {"unknown", "failed"} /\ runtimeExecutions'[t].ttl < 0
      BY <2>4, <3>1 DEF Completes, CompletionStatus
    <3> QED BY <2>1, <2>2, <2>3, <2>5, <3>2 DEF RuntimeTold
  <2>6. CASE CompletedPhase(t, delivered) = "over"
    BY <2>1, <2>2, <2>3, <2>6
  <2> QED BY <2>5, <2>6 DEF CompletedPhase
<1>4. PICK phase \in {"permitted", "calling", "answered", "over"} :
        /\ RuntimeCallNext /\ c.phase \in {"reserving", "permitted", "completing"}
        /\ Goes(t, phase) /\ UNCHANGED <<executions, reserving, providers>>
        /\ phase = "answered" =>
             RuntimeTold([c EXCEPT !.phase = "answered"], runtimeExecutions'[t])
  BY <1>1, <1>2, <1>3
<1>5. /\ crewCalls' \in [ToolCalls \cup RuntimeCalls -> CrewCall]
      /\ \A u \in ToolCalls \cup RuntimeCalls : CrewTyped(crewCalls'[u], u)
      /\ \A u \in (ToolCalls \cup RuntimeCalls) \ {t} : crewCalls'[u] = crewCalls[u]
      /\ crewCalls'[t].phase = phase
      /\ crewCalls'[t].run = c.run /\ crewCalls'[t].subject = c.subject
  BY <1>0, <1>4, GoesTo DEF Phases
<1>6. RuntimeTold(crewCalls'[t], runtimeExecutions'[t])
  BY <1>0, <1>4, <1>5 DEF RuntimeTold, CrewCall
<1>7. CrewTypes'
  BY <1>0, <1>4, <1>5 DEF CrewTypes
<1>8. OwnerMove
  BY <1>4 DEF OwnerMove
<1>9. \A u \in RuntimeCalls : RuntimeRecorded(runtimeExecutions[u], runtimeExecutions'[u])
  BY <1>8, OwnerMoveRecords
<1>10. CrewInv'
  BY <1>0, <1>4, <1>5, <1>6, <1>7, <1>9, OneCallTold, RecordedSame
<1> QED BY <1>8, <1>10

\* A restart of the session, and the last action of a stage.
LEMMA RestartKeeps ==
  ASSUME CrewInv, RuntimeTypes, SessionRestarts \/ \E r \in Runs : CheckpointStage(r)
  PROVE  CrewInv' /\ OwnerMove
<1>1. UNCHANGED <<runtimeVars, providers>>
  BY DEF SessionRestarts, CheckpointStage
<1>2. OwnerMove
  BY <1>1 DEF OwnerMove
<1>3. CASE \E r \in Runs : CheckpointStage(r)
  BY <1>2, <1>3, OwnerKeepsCrew DEF CheckpointStage, runtimeVars, toolVars
<1>4. CASE SessionRestarts
  <2>1. /\ executions' = executions /\ runtimeExecutions' = runtimeExecutions
        /\ reserving' = reserving /\ providers' = providers
    BY <1>1 DEF runtimeVars, toolVars, vars
  <2>2. ASSUME NEW t \in ToolCalls \cup RuntimeCalls
        PROVE  /\ crewCalls'[t] \in CrewCall /\ CrewTyped(crewCalls'[t], t)
               /\ crewCalls'[t].run = crewCalls[t].run
               /\ crewCalls'[t].subject = crewCalls[t].subject
               /\ crewCalls'[t] = crewCalls[t] \/ crewCalls'[t].phase = "over"
    <3> DEFINE c == [crewCalls[t] EXCEPT !.phase = "over"]
    <3>1. crewCalls[t] \in CrewCall /\ CrewTyped(crewCalls[t], t)
      BY DEF CrewInv, CrewTypes
    <3>2. crewCalls'[t] = IF crewCalls[t].phase \in {"none", "paused", "answered"} THEN crewCalls[t] ELSE c
      BY <1>4 DEF SessionRestarts, CrewInv, CrewTypes
    <3>3. /\ c \in CrewCall /\ c.phase = "over" /\ c.run = crewCalls[t].run
          /\ c.subject = crewCalls[t].subject
      BY <3>1 DEF CrewCall, Phases
    <3> HIDE DEF c
    <3>4. crewCalls[t].phase # "none" => CrewTyped(c, t)
      BY <3>1, <3>3 DEF CrewTyped
    <3> QED BY <3>1, <3>2, <3>3, <3>4
  <2>3. crewCalls' \in [ToolCalls \cup RuntimeCalls -> CrewCall]
    <3>1. crewCalls' = [t \in ToolCalls \cup RuntimeCalls |-> crewCalls'[t]]
      BY <1>4 DEF SessionRestarts, CrewInv, CrewTypes
    <3> QED BY <2>2, <3>1
  <2>4. CrewTypes'
    BY <2>1, <2>2, <2>3 DEF CrewInv, CrewTypes
  <2>5. ASSUME NEW t \in ToolCalls
        PROVE  Told(crewCalls'[t], executions'[t], providers'[t])
    BY <2>1, <2>2, ToldStays DEF CrewInv
  <2>6. ASSUME NEW t \in RuntimeCalls
        PROVE  RuntimeTold(crewCalls'[t], runtimeExecutions'[t])
    <3>1. RuntimeTold(crewCalls[t], runtimeExecutions[t])
      BY DEF CrewInv
    <3> QED BY <2>1, <2>2, <3>1 DEF RuntimeTold
  <2>7. ASSUME NEW s \in reserving'
        PROVE  AskedFor(s)'
    <3>1. AskedFor(s) /\ s.call \in ToolCalls
      BY <2>1, <2>7 DEF CrewInv, RuntimeTypes, ToolTypes, Reservation
    <3>2. crewCalls'[s.call] = crewCalls[s.call] \/ crewCalls'[s.call].phase = "over"
      BY <2>2, <3>1
    <3>3. /\ crewCalls'[s.call].run = crewCalls[s.call].run
          /\ crewCalls'[s.call].subject = crewCalls[s.call].subject
      BY <2>2, <3>1
    <3> QED BY <3>1, <3>2, <3>3 DEF AskedFor
  <2> QED BY <1>2, <2>4, <2>5, <2>6, <2>7 DEF CrewInv
<1> QED BY <1>2, <1>3, <1>4

\* The owner by itself.
LEMMA OwnerStepKeeps ==
  ASSUME CrewInv, RuntimeTypes, OwnerStep
  PROVE  CrewInv' /\ OwnerMove
<1>1. UNCHANGED <<crewCalls, providers>>
  BY DEF OwnerStep, sessionVars
<1>2. OwnerMove /\ reserving' \subseteq reserving
  <2>1. CASE AdmissionsNext /\ UNCHANGED <<reserving, sandboxes, alarm>> /\ TurnAwaitsItsCalls
    BY <2>1 DEF OwnerMove
  <2>2. ASSUME NEW t \in ToolCalls, NEW resolution \in {"applied", "not_applied"},
               Reconcile(t, resolution) /\ UNCHANGED <<sandboxes, alarm>>
        PROVE  OwnerMove /\ reserving' \subseteq reserving
    BY <2>2 DEF OwnerMove, CallMove, Reconcile
  <2>3. ASSUME NEW r \in Runs, NEW blocked \in BOOLEAN,
               InspectRun(r, blocked) /\ UNCHANGED <<sandboxes, alarm>>
        PROVE  OwnerMove /\ reserving' \subseteq reserving
    BY <2>3 DEF OwnerMove, CallMove, InspectRun
  <2>4. CASE SandboxNext
    BY <2>4, BackgroundDrifts DEF SandboxNext, RuntimeTypes, toolVars, OwnerMove
  <2>5. CASE AlarmNext
    BY <2>5 DEF AlarmNext, AlarmBegins, OwnerPurges, OwnerStops, OwnerPurged, OwnerPurgeFails,
                AlarmEnds, toolVars, OwnerMove
  <2>6. CASE RuntimeTick
    BY <2>6 DEF RuntimeTick, AgeCalls, OwnerMove
  <2>7. CASE RuntimeRestart
    BY <2>7 DEF RuntimeRestart, OwnerMove
  <2> QED BY <2>1, <2>2, <2>3, <2>4, <2>5, <2>6, <2>7 DEF OwnerStep
<1> QED BY <1>1, <1>2, OwnerKeepsCrew

\* Every step of the composition, as its owner sees it.
LEMMA SessionStepKeeps ==
  ASSUME CrewInv, RuntimeTypes, [SessionToolsNext]_sessionToolsVars
  PROVE  CrewInv' /\ (OwnerMove \/ \E t \in ToolCalls : AnswerMove(t))
<1>1. CASE ExternalStep
  BY <1>1, AuthorizeKeeps, ApprovalsKeep, EndsAlone, ReserveArrivesKeeps, DispatchKeeps,
     ProviderKeeps, CompleteKeeps DEF ExternalStep
<1>2. CASE RuntimeStep
  BY <1>2, AuthorizeKeeps, RuntimeToolKeeps, EndsAlone DEF RuntimeStep
<1>3. CASE \E s \in reserving, delivered \in BOOLEAN : ReserveAnswered(s, delivered)
  BY <1>3, ReserveAnsweredKeeps
<1>4. CASE \E t \in ToolCalls \cup RuntimeCalls : CompletionUnrecorded(t)
  BY <1>4, EndsAlone
<1>5. CASE SessionRestarts \/ \E r \in Runs : CheckpointStage(r)
  BY <1>5, RestartKeeps
<1>6. CASE OwnerStep
  BY <1>6, OwnerStepKeeps
<1>7. CASE UNCHANGED sessionToolsVars
  <2>1. UNCHANGED <<runtimeVars, crewCalls, providers>>
    BY <1>7 DEF sessionToolsVars, sessionVars
  <2>2. OwnerMove /\ reserving' = reserving
    BY <2>1 DEF OwnerMove, runtimeVars, toolVars
  <2> QED BY <2>1, <2>2, OwnerKeepsCrew
<1> QED BY <1>1, <1>2, <1>3, <1>4, <1>5, <1>6, <1>7 DEF SessionToolsNext, SessionStep

-----------------------------------------------------------------------------
(* The theorems *)

SessionInv == RuntimeInv /\ CrewInv

\* The initial state.
LEMMA SessionInit ==
  ASSUME SessionToolsInit
  PROVE  SessionInv
<1>1. RuntimeInv
  BY RuntimeInitInv DEF SessionToolsInit
<1>2. /\ \A t \in ToolCalls : executions[t] = NoExecution
      /\ reserving = {}
      /\ \A t \in ToolCalls \cup RuntimeCalls : crewCalls[t] = NoCall
  BY DEF SessionToolsInit, RuntimeInit, ToolInit, Init
<1>3. NoCall \in CrewCall /\ NoCall.phase = "none"
  BY DEF NoCall, CrewCall, Phases
<1>4. CrewTypes
  BY <1>2, <1>3 DEF SessionToolsInit, CrewTypes, CrewTyped
<1>5. NoExecution.status = "none"
  BY DEF NoExecution
<1>6. \A t \in ToolCalls : Told(crewCalls[t], executions[t], providers[t])
  BY <1>2, <1>3, <1>5 DEF SessionToolsInit, Told, Begun
<1>7. \A t \in RuntimeCalls : RuntimeTold(crewCalls[t], runtimeExecutions[t])
  BY <1>2, <1>3 DEF RuntimeTold
<1> QED BY <1>1, <1>2, <1>4, <1>6, <1>7 DEF SessionInv, CrewInv

\* Every step keeps the owner's invariant and what the sessions hold, and moves the
\* ledgers as the owner's operations do.
LEMMA SessionInvStep ==
  ASSUME SessionInv, [SessionToolsNext]_sessionToolsVars
  PROVE  SessionInv' /\ LedgerStep
BY SessionStepKeeps, OwnerMoveInv, AnswerMoveInv DEF SessionInv, RuntimeInv

\* The invariant of the composition of sessions, providers and owner.
THEOREM SessionInvariant == SessionToolsSpec => []SessionInv
BY SessionInit, SessionInvStep, PTL DEF SessionToolsSpec

\* A write the ledger calls failed never reached its provider, and the model is given
\* an output only of a call the ledger has settled so: whatever is lost, late or
\* restarted between session, owner and provider.
THEOREM AnswersAreTrue == SessionToolsSpec => []AnswerIsTrue
<1>1. SessionInv => AnswerIsTrue
  BY DEF SessionInv, CrewInv, Told, RuntimeTold, AnswerIsTrue
<1> QED BY <1>1, SessionInvariant, PTL

\* With sessions that check, ask for approvals, lose answers and restart, the owner's
\* ledgers keep their budgets, grants and cancellations.
THEOREM SessionLedger ==
  SessionToolsSpec => [](BudgetConserved /\ CancellationExcludesDispatch /\ GrantRespected)
<1>1. SessionInv => BudgetConserved /\ CancellationExcludesDispatch /\ GrantRespected
  BY LedgerInvImplies DEF SessionInv, RuntimeInv, RuntimeTypes
<1> QED BY <1>1, SessionInvariant, PTL

\* Outcomes stay final, and so a late answer of a session, of a session that restarted
\* or of an alarm never rewrites one.
THEOREM SessionOutcomesStand ==
  ASSUME MaxDuration + AlarmLag < Retention
  PROVE  SessionToolsSpec => OutcomeIsFinal
<1>1. SessionToolsInit => CallsEndInTime
  BY LedgerInit DEF SessionToolsInit, RuntimeInit
<1>2. SessionInv => /\ RuntimeTypes /\ ToolTypes /\ CallsOfRuns /\ Affordable
  BY DEF SessionInv, RuntimeInv, RuntimeTypes, LedgerInv
<1>3. SessionInv /\ CallsEndInTime /\ [SessionToolsNext]_sessionToolsVars => CallsEndInTime'
  BY <1>2, SessionInvStep, EndsInTimeStep
<1>4. SessionInv /\ CallsEndInTime /\ [SessionToolsNext]_sessionToolsVars =>
        [\A t \in ToolCalls :
          /\ executions[t].status \in {"completed", "failed", "deleted"} =>
               executions'[t].status \in {executions[t].status, "deleted"}
          /\ executions[t].status = "unknown" =>
               executions'[t].status = "unknown" \/ executions'[t].reconciliation # "none"
          /\ /\ executions[t].status = "reserved" /\ executions[t].dispatched
             /\ executions[t].effect \notin Reads
             => executions'[t].status # "deleted"]_toolVars
  BY <1>2, SessionInvStep, OutcomeStep, DispatchedNotErased DEF OutcomeKept
<1> QED BY <1>1, <1>3, <1>4, SessionInvariant, PTL DEF SessionToolsSpec, OutcomeIsFinal


\* An answer of a session leaves rows and authority alone; what else the owner does is a
\* step of RuntimeToolExecutions.
LEMMA SessionNextStep ==
  ASSUME SessionInv, Consistent, [SessionToolsNext]_sessionToolsVars
  PROVE  AdmissionStep
<1>1. CASE OwnerMove
  <2>1. CallMove => CallNext
    BY DEF CallMove, CallNext
  <2>2. [RuntimeNext]_runtimeVars
    BY <1>1, <2>1 DEF OwnerMove, RuntimeNext
  <2> QED BY <2>2, RuntimeNextStep DEF SessionInv, RuntimeInv, LedgerInv
<1>2. CASE \E t \in ToolCalls : AnswerMove(t)
  BY <1>2, SameRowsStep DEF AnswerMove, Complete
<1> QED BY <1>1, <1>2, SessionStepKeeps DEF SessionInv, RuntimeInv

\* Whatever sessions lose, repeat or answer late, and whatever their providers do, the
\* owner's admissions keep their promises: one Run per key, started by its newest permit
\* within the capacity, and no call after a cancellation or for a superseded Run.
THEOREM SessionAdmissions ==
  SessionToolsSpec => /\ [](OneRunPerKey /\ NewestPermitRedeems /\ CapacityRespected)
                      /\ CancelledIsFinal /\ RevocationIsFinal /\ StatusOrder /\ StaleLoadRefused
                      /\ ImplementsRunLife
<1>1. SessionToolsInit => Init
  BY DEF SessionToolsInit, RuntimeInit, ToolInit
<1>2. SessionInv => TypeOK
  BY DEF SessionInv, RuntimeInv, RuntimeTypes, ToolTypes
<1>3. SessionInv /\ [SessionToolsNext]_sessionToolsVars => [Consistent => AdmissionStep]_vars
  BY SessionNextStep
<1>4. SessionToolsSpec => AdmissionBehaviour
  BY <1>1, <1>2, <1>3, SessionInvariant, PTL DEF SessionToolsSpec, AdmissionBehaviour
<1>5. AdmissionInv => OneRunPerKey /\ NewestPermitRedeems /\ CapacityRespected
  BY DEF AdmissionInv
<1> QED BY <1>4, <1>5, AdmissionInvariant, BehaviourCancels, BehaviourRevokes,
           BehaviourOrders, BehaviourLoads, BehaviourLives, PTL
=============================================================================
