------------------------ MODULE ToolExecutions_proofs ------------------------
(***************************************************************************)
(* Proofs about the ledger of external tool calls beside the admissions.   *)
(* What a step may do to the calls and to the rows of their Runs is stated *)
(* once, as LedgerStep; the invariants are proved of LedgerStep, so that   *)
(* they hold of every specification whose steps are ledger steps.          *)
(***************************************************************************)
EXTENDS ToolExecutions, RunAdmissions_proofs

-----------------------------------------------------------------------------
(* Types *)

\* The range of the two clocks of a call.
Clocked(x) ==
  x.ttl \in -(AlarmLag + 1)..ExecutionLifetime /\ x.permitTtl \in 0..PermitLifetime

\* The smaller of two numbers is one of them, and no more than either.
LEMMA SmallerIs ==
  ASSUME NEW a \in Int, NEW b \in Int
  PROVE  /\ Smaller(a, b) \in {a, b}
         /\ Smaller(a, b) <= a /\ Smaller(a, b) <= b
BY DEF Smaller

\* A call that was never made, and the entry of one that was erased.
LEMMA NoCallType ==
  /\ NoExecution \in Execution /\ Clocked(NoExecution)
  /\ [NoExecution EXCEPT !.status = "deleted"] \in Execution
  /\ Clocked([NoExecution EXCEPT !.status = "deleted"])
<1>1. NoExecution \in Execution
  BY DEF NoExecution, Execution
<1>2. 0 \in -(AlarmLag + 1)..ExecutionLifetime /\ 0 \in 0..PermitLifetime
  BY ToolAssumption
<1> QED BY <1>1, <1>2 DEF Clocked, NoExecution, Execution

\* The gate's snapshot of a typed ledger.
LEMMA GateType ==
  ASSUME TypeOK, NEW r \in Runs, NEW e
  PROVE  Gate(r, e) \in
           [used : Nat, ofGrant : Nat, active : Nat, same : Nat, agent : BOOLEAN,
            connection : {"active", "revoked"}, grant : {"active", "revoked", "none"}, left : Nat]
<1>1. admissions[r] \in Admission /\ authority \in Authority
  BY DEF TypeOK
<1>2. \A S \in SUBSET ToolCalls : Cardinality(S) \in Nat
  BY ToolAssumption, FS_Subset, FS_CardinalityType
<1> DEFINE live == {t \in ToolCalls : /\ SameGrant(t, r)
                                      /\ executions[t].status = "reserved"
                                      /\ executions[t].ttl > 0}
           alike == {t \in CallsOf(r) : executions[t].effect = e}
           agent == authority.agent = "active" /\ authority.revision = admissions[r].revision
           left == MaxDuration - Smaller(admissions[r].age, MaxDuration)
<1>3. Cardinality(CallsOf(r)) \in Nat /\ Cardinality(live) \in Nat /\ Cardinality(alike) \in Nat
  BY <1>2 DEF CallsOf
<1>4. left \in Nat
  <2>1. admissions[r].age \in Int /\ MaxDuration \in Int /\ AgeCap \in Int
    BY <1>1, TimeAssumption DEF Admission, AgeCap
  <2>2. admissions[r].age >= 0
    BY <1>1, <2>1 DEF Admission
  <2> QED BY <2>1, <2>2, SmallerIs, TimeAssumption
<1>5. /\ admissions[r].toolCalls \in Nat /\ agent \in BOOLEAN
      /\ authority.connection \in {"active", "revoked"}
      /\ authority.grant \in {"active", "revoked", "none"}
  BY <1>1 DEF Admission, Authority
<1> HIDE DEF live, alike, agent, left
<1>6. [used |-> admissions[r].toolCalls, ofGrant |-> Cardinality(CallsOf(r)),
       active |-> Cardinality(live), same |-> Cardinality(alike), agent |-> agent,
       connection |-> authority.connection, grant |-> authority.grant, left |-> left] \in
           [used : Nat, ofGrant : Nat, active : Nat, same : Nat, agent : BOOLEAN,
            connection : {"active", "revoked"}, grant : {"active", "revoked", "none"}, left : Nat]
  BY <1>3, <1>4, <1>5
<1> QED BY <1>6 DEF Gate, live, alike, agent, left

\* The type invariant in the form the lemmas below use.
ToolTypes ==
  /\ TypeOK
  /\ reserving \subseteq Reservation
  /\ \A t \in ToolCalls : Clocked(executions[t])

\* The two forms agree.
LEMMA ToolTypesIs == ToolTypeOK <=> ToolTypes
BY DEF ToolTypeOK, ToolTypes, Clocked

\* Writing one call keeps the ledger of calls typed.
LEMMA OneCallTyped ==
  ASSUME ToolTypes, NEW t \in ToolCalls, NEW x \in Execution, Clocked(x),
         executions' = [executions EXCEPT ![t] = x]
  PROVE  /\ executions' \in [ToolCalls -> Execution]
         /\ \A u \in ToolCalls : Clocked(executions'[u])
BY DEF ToolTypes, TypeOK

\* Settling overdue calls, as the alarm and an inspection do, keeps them typed.
LEMMA SettledType ==
  ASSUME ToolTypes, executions' = Settled
  PROVE  /\ executions' \in [ToolCalls -> Execution]
         /\ \A t \in ToolCalls : Clocked(executions'[t])
<1>1. ASSUME NEW t \in ToolCalls
      PROVE  /\ Settled[t] \in Execution
             /\ Clocked(Settled[t])
  <2>1. executions[t] \in Execution /\ Clocked(executions[t])
    BY DEF ToolTypes, TypeOK
  <2>2. ASSUME NEW v \in {"failed", "unknown"}
        PROVE  /\ [executions[t] EXCEPT !.status = v] \in Execution
               /\ Clocked([executions[t] EXCEPT !.status = v])
    BY <2>1 DEF Execution, Clocked
  <2>3. Unproven(executions[t].effect) \in {"failed", "unknown"}
    BY DEF Unproven
  <2>4. Settled[t] = executions[t] \/ Settled[t] = [executions[t] EXCEPT !.status = Unproven(executions[t].effect)]
    BY DEF Settled
  <2> QED BY <2>1, <2>2, <2>3, <2>4
<1>2. Settled \in [ToolCalls -> Execution]
  BY <1>1 DEF Settled
<1> QED BY <1>1, <1>2

\* Repairing inbox entries keeps the admissions typed.
LEMMA RepairedType ==
  ASSUME NEW rows \in [Runs -> Admission], NEW failed
  PROVE  Repaired(rows, failed) \in [Runs -> Admission]
<1>1. \A r \in Runs : [rows[r] EXCEPT !.inbox = "failed"] \in Admission
  BY DEF Admission, RunStatuses
<1> QED BY <1>1 DEF Repaired

\* Each operation on calls keeps everything typed.
LEMMA ReserveBeginType ==
  ASSUME ToolTypes, NEW t \in ToolCalls, NEW r \in Runs, NEW e \in Effects, ReserveBegin(t, r, e)
  PROVE  ToolTypes'
<1>1. [call |-> t, run |-> r, effect |-> e, gate |-> Gate(r, e)] \in Reservation
  BY GateType DEF ToolTypes, Reservation
<1>2. reserving' \subseteq Reservation
  BY <1>1 DEF ReserveBegin, ToolTypes
<1> QED BY <1>2 DEF ReserveBegin, vars, ToolTypes, TypeOK

\* The transaction of a reservation keeps everything typed.
LEMMA ReserveCommitType ==
  ASSUME ToolTypes, NEW s \in reserving, ReserveCommit(s)
  PROVE  ToolTypes'
<1>1. s \in Reservation /\ s.run \in Runs /\ s.call \in ToolCalls /\ s.effect \in Effects
      /\ s.gate.left \in Nat /\ s.gate.used \in Nat
  BY DEF ToolTypes, Reservation
<1>2. reserving' \subseteq Reservation
  BY DEF ReserveCommit, ToolTypes
<1>3. CASE StillReservable(s)
  <2> DEFINE x == [NoExecution EXCEPT !.status = "reserved", !.run = s.run, !.effect = s.effect,
                                      !.ttl = LifetimeOf(s), !.permitTtl = PermitLifetime]
  <2>1. LifetimeOf(s) \in 0..ExecutionLifetime
    BY <1>1, SmallerIs, ToolAssumption DEF LifetimeOf
  <2>2. x \in Execution /\ Clocked(x)
    <3>1. LifetimeOf(s) \in Int /\ LifetimeOf(s) \in -(AlarmLag + 1)..ExecutionLifetime
      BY <2>1, ToolAssumption
    <3>2. PermitLifetime \in Nat /\ PermitLifetime \in 0..PermitLifetime
      BY ToolAssumption
    <3> QED BY <1>1, <3>1, <3>2, NoCallType DEF Execution, Clocked
  <2>3. executions' = [executions EXCEPT ![s.call] = x]
    BY <1>3 DEF ReserveCommit
  <2>4. admissions' \in [Runs -> Admission]
    <3>1. s.gate.used + 1 \in Nat
      BY <1>1
    <3>2. [admissions[s.run] EXCEPT !.toolCalls = s.gate.used + 1] \in Admission
      BY <1>1, <3>1 DEF ToolTypes, TypeOK, Admission
    <3> QED BY <1>1, <1>3, <3>2 DEF ReserveCommit, ToolTypes, TypeOK
  <2> HIDE DEF x
  <2>5. /\ executions' \in [ToolCalls -> Execution]
        /\ \A u \in ToolCalls : Clocked(executions'[u])
    BY <1>1, <2>2, <2>3, OneCallTyped
  <2> QED BY <1>2, <2>4, <2>5 DEF ReserveCommit, ToolTypes, TypeOK
<1>4. CASE ~StillReservable(s)
  BY <1>2, <1>4 DEF ReserveCommit, ToolTypes, TypeOK
<1> QED BY <1>3, <1>4

\* A dispatch, an answer and the owner's reconciliation write one call.
LEMMA CallStepType ==
  ASSUME ToolTypes, NEW t \in ToolCalls,
         \/ Dispatch(t)
         \/ \E outcome \in {"completed", "failed", "unknown"}, oversized \in BOOLEAN :
              Complete(t, outcome, oversized)
         \/ \E resolution \in {"applied", "not_applied"} : Reconcile(t, resolution)
  PROVE  ToolTypes'
<1> DEFINE x == executions'[t]
           Writes == executions' = [executions EXCEPT ![t] = x] /\ x \in Execution /\ Clocked(x)
<1>1. executions[t] \in Execution /\ Clocked(executions[t]) /\ executions \in [ToolCalls -> Execution]
  BY DEF ToolTypes, TypeOK
<1>2. ASSUME Dispatch(t)
      PROVE  Writes
  <2>1. executions[t].dispatches + 1 \in Nat
    BY <1>1 DEF Execution
  <2> DEFINE y == [executions[t] EXCEPT !.dispatched = TRUE]
  <2>2. x = [y EXCEPT !.dispatches = @ + 1]
    BY <1>1, <1>2 DEF Dispatch
  <2>3. y \in Execution /\ y.dispatches = executions[t].dispatches /\ Clocked(y)
    BY <1>1 DEF Execution, Clocked
  <2> HIDE DEF y
  <2>4. [y EXCEPT !.dispatches = @ + 1] \in Execution /\ Clocked([y EXCEPT !.dispatches = @ + 1])
    BY <2>1, <2>3 DEF Execution, Clocked
  <2>5. executions' = [executions EXCEPT ![t] = executions'[t]]
    BY <1>1, <1>2 DEF Dispatch
  <2> QED BY <2>2, <2>4, <2>5
<1>3. ASSUME NEW outcome \in {"completed", "failed", "unknown"}, NEW oversized \in BOOLEAN,
             Complete(t, outcome, oversized)
      PROVE  Writes
  <2>1. PICK v \in {"completed", "failed", "unknown"} :
          executions' = [executions EXCEPT ![t].status = v]
    BY <1>3 DEF Complete, Unproven
  <2> QED BY <1>1, <2>1 DEF Execution, Clocked
<1>4. ASSUME NEW resolution \in {"applied", "not_applied"}, Reconcile(t, resolution)
      PROVE  Writes
  <2>1. PICK v \in {"completed", "failed"} :
          executions' = [executions EXCEPT ![t].reconciliation = resolution, ![t].status = v]
    BY <1>4 DEF Reconcile
  <2>2. x = [executions[t] EXCEPT !.reconciliation = resolution, !.status = v]
    BY <1>1, <2>1
  <2>3. x \in Execution /\ Clocked(x)
    BY <1>1, <2>2 DEF Execution, Clocked
  <2>4. executions' = [executions EXCEPT ![t] = executions'[t]]
    BY <1>1, <2>1
  <2> QED BY <2>3, <2>4
<1>5. Writes
  BY <1>2, <1>3, <1>4
<1> HIDE DEF x
<1>6. /\ executions' \in [ToolCalls -> Execution]
      /\ \A u \in ToolCalls : Clocked(executions'[u])
  BY <1>5, OneCallTyped
<1> QED BY <1>6 DEF Dispatch, Complete, Reconcile, ToolTypes, TypeOK

\* The alarm's and an inspection's settlement, of which the Runs are repaired.
LEMMA SettlementType ==
  ASSUME ToolTypes, ReconcileExpired \/ \E r \in Runs, blocked \in BOOLEAN : InspectRun(r, blocked)
  PROVE  ToolTypes'
<1>1. executions' = Settled
  BY DEF ReconcileExpired, InspectRun
<1>2. PICK failed : admissions' = Repaired(admissions, failed)
  BY DEF ReconcileExpired, InspectRun
<1>3. admissions' \in [Runs -> Admission]
  BY <1>2, RepairedType DEF ToolTypes, TypeOK
<1> QED BY <1>1, <1>3, SettledType DEF ReconcileExpired, InspectRun, ToolTypes, TypeOK

\* The owner's approvals.
LEMMA ApprovalType ==
  ASSUME ToolTypes, NEW t \in ToolCalls,
         \/ \E r \in Runs, e \in NeedApproval : RecordApproval(t, r, e)
         \/ \E decision \in {"approved", "rejected"} : DecideApproval(t, decision)
  PROVE  ToolTypes'
<1>1. approvals \in [ToolCalls -> Approval] /\ approvals[t] \in Approval
  BY DEF ToolTypes, TypeOK
<1>2. approvals' \in [ToolCalls -> Approval]
  <2>1. ASSUME NEW r \in Runs, NEW e \in NeedApproval, RecordApproval(t, r, e)
        PROVE  approvals' \in [ToolCalls -> Approval]
    <3>1. [decision |-> "pending", run |-> r, effect |-> e, ttl |-> ApprovalLifetime] \in Approval
      BY ToolAssumption DEF Approval
    <3> QED BY <1>1, <2>1, <3>1 DEF RecordApproval
  <2>2. ASSUME NEW decision \in {"approved", "rejected"}, DecideApproval(t, decision)
        PROVE  approvals' \in [ToolCalls -> Approval]
    BY <1>1, <2>2 DEF DecideApproval, Approval
  <2> QED BY <2>1, <2>2
<1> QED BY <1>2 DEF RecordApproval, DecideApproval, ToolTypes, TypeOK

\* Erasing the ledgers of some Runs keeps them typed.
LEMMA EraseType ==
  ASSUME ToolTypes, NEW gone, EraseLedgers(gone)
  PROVE  /\ executions' \in [ToolCalls -> Execution]
         /\ approvals' \in [ToolCalls -> Approval]
         /\ runtimeExecutions' \in [RuntimeCalls -> RuntimeExecution]
         /\ \A t \in ToolCalls : Clocked(executions'[t])
<1>1. NoApproval \in Approval
  BY DEF NoApproval, Approval
<1>2. [NoRuntimeExecution EXCEPT !.status = "deleted"] \in RuntimeExecution
  <2>1. NoRuntimeExecution \in RuntimeExecution
    BY DEF NoRuntimeExecution, RuntimeExecution
  <2> QED BY <2>1 DEF RuntimeExecution
<1> DEFINE erased == [NoExecution EXCEPT !.status = "deleted"]
<1>3. erased \in Execution /\ Clocked(erased)
  BY NoCallType
<1>4. executions' = [t \in ToolCalls |-> IF executions[t].run \in gone THEN erased ELSE executions[t]]
  BY DEF EraseLedgers
<1> HIDE DEF erased
<1> QED BY <1>1, <1>2, <1>3, <1>4 DEF EraseLedgers, ToolTypes, TypeOK

\* The admissions' operations erase the ledgers of some Runs, or none.
LEMMA AdmissionsErase ==
  ASSUME TypeOK, AdmissionsNext
  PROVE  \E gone \in SUBSET Erased : EraseLedgers(gone)
<1>1. CASE CleanLedgers
  BY <1>1 DEF CleanLedgers
<1>2. CASE UNCHANGED ledgers
  <2>1. EraseLedgers({})
    BY <1>2 DEF ledgers, EraseLedgers, TypeOK
  <2> QED BY <2>1
<1>3. CleanLedgers \/ UNCHANGED ledgers
  BY DEF AdmissionsNext, CreateNext, CreateNew, CreateReissue, CreateStale, CreateAnswered, Cleanup,
     RunNext, RequestCancellation, CompleteCancellation, ReleaseCancellation, Verify, Confirm,
     VerifyActive, DiscardRecord, ReleaseBriefContext, RecordRun, LoadNext, VerifyLoaded,
     ChangeAuthority
<1> QED BY <1>1, <1>2, <1>3

\* So they keep the calls typed.
LEMMA AdmissionsToolType ==
  ASSUME ToolTypes, AdmissionsNext, UNCHANGED reserving
  PROVE  ToolTypes'
<1>1. TypeOK'
  BY AdmissionsStepType DEF ToolTypes
<1>2. PICK gone \in SUBSET Erased : EraseLedgers(gone)
  BY AdmissionsErase DEF ToolTypes
<1> QED BY <1>1, <1>2, EraseType DEF ToolTypes

\* The clocks of the calls stop at their bounds.
LEMMA AgeCallsType ==
  ASSUME ToolTypes, AgeCalls, runtimeExecutions' \in [RuntimeCalls -> RuntimeExecution]
  PROVE  ToolTypes'
<1>1. admissions' \in [Runs -> Admission]
  BY AgeType DEF AgeCalls, ToolTypes
<1>2. ASSUME NEW t \in ToolCalls
      PROVE  AgeExecution(executions[t]) \in Execution /\ Clocked(AgeExecution(executions[t]))
  <2> DEFINE x == executions[t]
             ttl == IF x.status = "reserved" /\ x.ttl > -(AlarmLag + 1) THEN x.ttl - 1 ELSE x.ttl
             permitTtl == IF x.permitTtl > 0 THEN x.permitTtl - 1 ELSE x.permitTtl
  <2>1. x \in Execution /\ Clocked(x)
    BY DEF ToolTypes, TypeOK
  <2>2. /\ ttl \in -(AlarmLag + 1)..ExecutionLifetime /\ permitTtl \in 0..PermitLifetime
        /\ ttl \in Int /\ permitTtl \in Nat
    BY <2>1, ToolAssumption DEF Clocked
  <2>3. AgeExecution(x) = [x EXCEPT !.ttl = ttl, !.permitTtl = permitTtl]
    BY DEF AgeExecution
  <2> HIDE DEF x, ttl, permitTtl
  <2>4. AgeExecution(x) \in Execution /\ Clocked(AgeExecution(x))
    BY <2>1, <2>2, <2>3 DEF Execution, Clocked
  <2> QED BY <2>4 DEF x
<1>3. ASSUME NEW t \in ToolCalls
      PROVE  [approvals[t] EXCEPT !.ttl = IF @ > 0 THEN @ - 1 ELSE @] \in Approval
  <2>1. approvals[t] \in Approval
    BY DEF ToolTypes, TypeOK
  <2> QED BY <2>1 DEF Approval
<1> QED BY <1>1, <1>2, <1>3 DEF AgeCalls, ToolTypes, TypeOK

\* All operations of sessions and of the owner on calls.
LEMMA CallNextType ==
  ASSUME ToolTypes, CallNext
  PROVE  ToolTypes' /\ UNCHANGED runtimeExecutions
<1>1. CASE \E t \in ToolCalls, r \in Runs, e \in Effects :
             ReserveBegin(t, r, e) \/ (e \in NeedApproval /\ RecordApproval(t, r, e))
  BY <1>1, ReserveBeginType, ApprovalType DEF ReserveBegin, RecordApproval, vars
<1>2. CASE \E s \in reserving : ReserveCommit(s)
  BY <1>2, ReserveCommitType DEF ReserveCommit
<1>3. CASE \E t \in ToolCalls :
             \/ Dispatch(t)
             \/ \E outcome \in {"completed", "failed", "unknown"}, oversized \in BOOLEAN :
                  Complete(t, outcome, oversized)
             \/ \E resolution \in {"applied", "not_applied"} : Reconcile(t, resolution)
             \/ \E decision \in {"approved", "rejected"} : DecideApproval(t, decision)
  BY <1>3, CallStepType, ApprovalType DEF Dispatch, Complete, Reconcile, DecideApproval
<1>4. CASE \E r \in Runs, blocked \in BOOLEAN : InspectRun(r, blocked)
  BY <1>4, SettlementType DEF InspectRun
<1> QED BY <1>1, <1>2, <1>3, <1>4 DEF CallNext

\* Every reachable state of the two ledgers is well typed, and the clocks of a call
\* stay in their range.
THEOREM ToolTypeCorrect == ToolSpec => []ToolTypeOK
<1>1. ToolInit => ToolTypes
  BY TypeInit, NoCallType DEF ToolInit, ToolTypes, Init
<1>2. ToolTypes /\ [ToolNext]_toolVars => ToolTypes'
  <2> SUFFICES ASSUME ToolTypes, [ToolNext]_toolVars PROVE ToolTypes'
    OBVIOUS
  <2>1. CASE CallNext
    BY <2>1, CallNextType
  <2>2. CASE AdmissionsNext /\ UNCHANGED reserving
    BY <2>2, AdmissionsToolType
  <2>3. CASE ReconcileExpired
    BY <2>3, SettlementType
  <2>4. CASE ToolTick
    BY <2>4, AgeCallsType DEF ToolTick, ToolTypes, TypeOK
  <2>5. CASE ToolRestart
    BY <2>5 DEF ToolRestart, ledgers, ToolTypes, TypeOK
  <2>6. CASE UNCHANGED toolVars
    BY <2>6 DEF toolVars, vars, ToolTypes, TypeOK
  <2> QED BY <2>1, <2>2, <2>3, <2>4, <2>5, <2>6 DEF ToolNext
<1> QED BY <1>1, <1>2, ToolTypesIs, PTL DEF ToolSpec

-----------------------------------------------------------------------------
(* What one step may do to the calls and to the rows of their Runs *)

\* A row is left alone, or changed where no call looks; a cancellation begins only
\* when no call of the Run was dispatched.
Keeps(old, new, dispatched) ==
  /\ Present(new) <=> Present(old)
  /\ new.status = "none" <=> old.status = "none"
  /\ new.toolCalls = old.toolCalls /\ new.revision = old.revision /\ new.age = old.age
  /\ new.keep \in {old.keep, Retention}
  /\ new.cancel = "none" \/ old.cancel # "none" \/ ~dispatched

Kept(r) == Keeps(admissions[r], admissions'[r], Dispatched(r))

Born(old, new) ==
  /\ old.status = "none" /\ Present(new)
  /\ new.toolCalls = 0 /\ new.cancel = "none" /\ new.age = 0 /\ new.keep = Retention

\* The Runs in gone are deleted with their calls; others are kept or admitted.
Sweep(gone) ==
  /\ EraseLedgers(gone)
  /\ \A r \in Runs : IF r \in gone THEN admissions'[r] = Deleted
                     ELSE Kept(r) \/ Born(admissions[r], admissions'[r])
  /\ reserving' \subseteq reserving

Vacant(x) == x.status \in {"none", "deleted"}

\* A reserved call is answered, a call of unknown outcome is reconciled.
Settles(x, y) ==
  \/ y = x
  \/ x.status = "reserved"
     /\ \E v \in {"completed", "failed", "unknown"} : y = [x EXCEPT !.status = v]
  \/ x.status = "unknown"
     /\ \E v \in {"completed", "failed"}, w \in {"applied", "not_applied"} :
          y = [x EXCEPT !.reconciliation = w, !.status = v]

SameRuntimeCalls ==
  \A t \in RuntimeCalls : /\ runtimeExecutions'[t].run = runtimeExecutions[t].run
                          /\ Vacant(runtimeExecutions'[t]) <=> Vacant(runtimeExecutions[t])

SettleStep ==
  /\ \A t \in ToolCalls : Settles(executions[t], executions'[t])
  /\ SameRuntimeCalls
  /\ \A r \in Runs : Kept(r)
  /\ approvals' = approvals /\ reserving' \subseteq reserving

\* A call of a runtime tool is reserved under the same budget.
RuntimeClaim(t, r) ==
  /\ runtimeExecutions[t].status = "none"
  /\ Present(admissions[r]) /\ admissions[r].toolCalls < MaxToolCalls
  /\ runtimeExecutions'[t].run = r /\ ~Vacant(runtimeExecutions'[t])
  /\ \A u \in RuntimeCalls \ {t} : runtimeExecutions'[u] = runtimeExecutions[u]
  /\ admissions' = [admissions EXCEPT ![r].toolCalls = @ + 1]
  /\ UNCHANGED <<executions, approvals, reserving>>

ApprovalStep(t) ==
  \/ \E r \in Runs, e \in NeedApproval : RecordApproval(t, r, e)
  \/ \E decision \in {"approved", "rejected"} : DecideApproval(t, decision)

LedgerStep ==
  \/ \E gone \in SUBSET Erased : Sweep(gone)
  \/ SettleStep
  \/ \E t \in ToolCalls, r \in Runs, e \in Effects : ReserveBegin(t, r, e)
  \/ \E s \in reserving : ReserveCommit(s)
  \/ \E t \in ToolCalls : Dispatch(t) \/ ApprovalStep(t)
  \/ \E t \in RuntimeCalls, r \in Runs : RuntimeClaim(t, r)
  \/ AgeCalls /\ SameRuntimeCalls

\* A row that is not touched is kept.
LEMMA SameKept ==
  ASSUME NEW r \in Runs, admissions'[r] = admissions[r]
  PROVE  Kept(r)
BY DEF Kept, Keeps

\* So is one that differs only in what no call looks at.
LEMMA AlikeKept ==
  ASSUME NEW old, NEW new, NEW dispatched,
         new.toolCalls = old.toolCalls, new.revision = old.revision, new.age = old.age,
         new.keep \in {old.keep, Retention}, new.cancel = old.cancel,
         Present(old), Present(new)
  PROVE  Keeps(old, new, dispatched)
BY DEF Keeps, Present

\* What the cleanup keeps.
LEMMA CleanKept ==
  ASSUME TypeOK, NEW r \in Runs
  PROVE  IF r \in Erased THEN CleanRow(r) = Deleted
         ELSE Keeps(admissions[r], CleanRow(r), Dispatched(r))
<1>1. admissions[r] \in Admission
  BY DEF TypeOK
<1>2. CASE r \in Erased
  BY <1>2 DEF Erased, CleanRow
<1>3. CASE r \notin Erased /\ PastRetention(admissions[r])
  <2>1. CleanRow(r) = [Expired(admissions[r]) EXCEPT !.keep = Retention]
    BY <1>3 DEF Erased, CleanRow
  <2>2. Expired(admissions[r]) \in {admissions[r], [admissions[r] EXCEPT !.status = "expired"]}
    BY DEF Expired
  <2> QED BY <1>1, <1>3, <2>1, <2>2, AlikeKept DEF PastRetention, Present, Admission
<1>4. CASE ~PastRetention(admissions[r])
  <2>1. CleanRow(r) = Expired(admissions[r])
    BY <1>4 DEF CleanRow
  <2> QED BY <1>1, <1>4, <2>1 DEF Erased, Expired, Keeps, Present, Admission
<1> QED BY <1>2, <1>3, <1>4

\* A cleanup of which one usable row is changed further.
LEMMA CleanedSweep ==
  ASSUME TypeOK, CleanLedgers, UNCHANGED reserving, NEW s \in Runs,
         CleanRow(s).status \in {"issued", "redeemed"},
         \A o \in Runs \ {s} : admissions'[o] = CleanRow(o),
         Keeps(CleanRow(s), admissions'[s], Dispatched(s))
  PROVE  Sweep(Erased)
<1>1. admissions[s] \in Admission
  BY DEF TypeOK
<1>2. s \notin Erased
  BY CleanKept DEF Deleted, Blank
<1>3. CleanRow(s) = [admissions[s] EXCEPT !.keep = CleanRow(s).keep]
  BY CleanRowUsable
<1>4. CleanRow(s).keep \in {admissions[s].keep, Retention}
  BY <1>2, CleanKept DEF Keeps
<1>5. Kept(s)
  BY <1>1, <1>3, <1>4 DEF Kept, Keeps, Present, Admission
<1> QED BY <1>2, <1>5, CleanKept DEF Sweep, Kept, CleanLedgers

\* Every operation of the admissions is a sweep of the calls' ledger.
LEMMA AdmissionsSweep ==
  ASSUME TypeOK, AdmissionsNext, UNCHANGED reserving
  PROVE  \E gone \in SUBSET Erased : Sweep(gone)
<1>0. /\ admissions \in [Runs -> Admission] /\ Cleaned \in [Runs -> Admission]
      /\ \A r \in Runs : Cleaned[r] = CleanRow(r)
  BY CleanedType DEF TypeOK, Cleaned
<1>1. ASSUME \A r \in Runs : Kept(r), UNCHANGED ledgers
      PROVE  Sweep({})
  <2>1. EraseLedgers({})
    BY <1>1 DEF ledgers, EraseLedgers, TypeOK
  <2> QED BY <1>1, <2>1 DEF Sweep
<1>2. ASSUME admissions' = Cleaned, CleanLedgers
      PROVE  Sweep(Erased)
  BY <1>0, <1>2, CleanKept DEF Sweep, Kept, CleanLedgers
<1>3. ASSUME NEW q \in Requests, NEW b \in BriefUse, CreateNew(q, b)
      PROVE  Sweep(Erased)
  <2>1. PICK s \in Runs : /\ admissions[s].status = "none"
                          /\ admissions' = [Cleaned EXCEPT ![s] = NewAdmission(q, b)]
    BY <1>3 DEF CreateNew
  <2>2. Born(admissions[s], admissions'[s])
    BY <1>0, <2>1 DEF Born, NewAdmission, Blank, Present
  <2>3. s \notin Erased
    BY <2>1 DEF Erased, PastRetention, Present
  <2>4. \A o \in Runs \ {s} : admissions'[o] = CleanRow(o)
    BY <1>0, <2>1
  <2> QED BY <1>3, <2>2, <2>3, <2>4, CleanKept DEF CreateNew, Sweep, Kept, CleanLedgers
<1>4. ASSUME NEW q \in Requests, CreateReissue(q) \/ CreateStale(q)
      PROVE  Sweep(Erased)
  <2>1. PICK s \in Runs :
          /\ Cleaned[s].status = "issued"
          /\ \/ admissions' = [Cleaned EXCEPT ![s].nonce = @ + 1]
             \/ admissions' = [Cleaned EXCEPT ![s].status = "expired"]
    BY <1>4 DEF CreateReissue, CreateStale, Matching
  <2>2. \A o \in Runs \ {s} : admissions'[o] = CleanRow(o)
    BY <1>0, <2>1
  <2>3. Keeps(CleanRow(s), admissions'[s], Dispatched(s))
    BY <1>0, <2>1 DEF Keeps, Present, Admission
  <2> QED BY <1>0, <1>4, <2>1, <2>2, <2>3, CleanedSweep DEF CreateReissue, CreateStale
<1>5. ASSUME NEW s \in Runs, NEW nonce \in 1..MaxNonce, NEW delivered \in BOOLEAN,
             Verify(s, nonce, delivered), admissions' # Cleaned
      PROVE  Sweep(Erased)
  <2>1. /\ CleanRow(s).status = "issued"
        /\ \/ admissions' = [Cleaned EXCEPT ![s].status = "expired"]
           \/ admissions' = [Cleaned EXCEPT ![s].recorded = @ \/ (delivered /\ ~SkillsBound)]
    BY <1>0, <1>5 DEF Verify, MatchesIssuedPermit
  <2>2. \A o \in Runs \ {s} : admissions'[o] = CleanRow(o)
    BY <1>0, <2>1
  <2>3. Keeps(CleanRow(s), admissions'[s], Dispatched(s))
    BY <1>0, <2>1 DEF Keeps, Present, Admission
  <2> QED BY <1>5, <2>1, <2>2, <2>3, CleanedSweep DEF Verify
<1>6. ASSUME NEW s \in Runs, NEW nonce \in 1..MaxNonce, Confirm(s, nonce), admissions' # Cleaned
      PROVE  Sweep(Erased)
  <2>1. /\ CleanRow(s).status = "issued"
        /\ \/ admissions' = [Cleaned EXCEPT ![s].status = "expired"]
           \/ admissions' = [Cleaned EXCEPT ![s].status = "redeemed", ![s].redeemer = nonce]
    BY <1>0, <1>6 DEF Confirm, MatchesIssuedPermit
  <2>2. \A o \in Runs \ {s} : admissions'[o] = CleanRow(o)
    BY <1>0, <2>1
  <2>3. Keeps(CleanRow(s), admissions'[s], Dispatched(s))
    BY <1>0, <2>1 DEF Keeps, Present, Admission
  <2> QED BY <1>6, <2>1, <2>2, <2>3, CleanedSweep DEF Confirm
<1>7. ASSUME NEW s \in Runs, NEW b \in BriefUse, VerifyActive(s, b), admissions' # Cleaned
      PROVE  Sweep(Erased)
  <2>1. /\ CleanRow(s).status = "redeemed"
        /\ admissions' = [Cleaned EXCEPT ![s].modelCalls = @ + 1]
    BY <1>0, <1>7 DEF VerifyActive, ClaimsModelCall
  <2>2. \A o \in Runs \ {s} : admissions'[o] = CleanRow(o)
    BY <1>0, <2>1
  <2>3. Keeps(CleanRow(s), admissions'[s], Dispatched(s))
    BY <1>0, <2>1 DEF Keeps, Present, Admission
  <2> QED BY <1>7, <2>1, <2>2, <2>3, CleanedSweep DEF VerifyActive
<1>8. ASSUME NEW s \in Runs,
             \/ RequestCancellation(s) \/ CompleteCancellation(s) \/ ReleaseCancellation(s)
             \/ DiscardRecord(s) \/ ReleaseBriefContext(s)
             \/ \E report \in Reported : RecordRun(s, report)
      PROVE  Sweep({})
  <2>1. \A o \in Runs \ {s} : admissions'[o] = admissions[o]
    BY <1>0, <1>8 DEF RequestCancellation, CompleteCancellation, ReleaseCancellation,
       DiscardRecord, ReleaseBriefContext, RecordRun
  <2>2. Kept(s)
    <3> USE <1>0 DEF Kept, Keeps, Present, Admission
    <3>1. CASE RequestCancellation(s)
      BY <3>1 DEF RequestCancellation
    <3>2. CASE CompleteCancellation(s) \/ ReleaseCancellation(s)
      BY <3>2 DEF CompleteCancellation, ReleaseCancellation
    <3>3. CASE DiscardRecord(s) \/ ReleaseBriefContext(s)
      BY <3>3 DEF DiscardRecord, ReleaseBriefContext
    <3>4. CASE \E report \in Reported : RecordRun(s, report)
      BY <3>4 DEF RecordRun
    <3> QED BY <1>8, <3>1, <3>2, <3>3, <3>4
  <2>3. UNCHANGED ledgers
    BY <1>8 DEF RequestCancellation, CompleteCancellation, ReleaseCancellation,
       DiscardRecord, ReleaseBriefContext, RecordRun
  <2> QED BY <1>1, <2>1, <2>2, <2>3, SameKept
<1>9. ASSUME NEW p \in loading, NEW loaded \in BOOLEAN, NEW delivered \in BOOLEAN,
             VerifyLoaded(p, loaded, delivered)
      PROVE  Sweep({})
  <2>1. p.run \in Runs
    BY DEF TypeOK, Permits
  <2>2. \/ admissions' = admissions
        \/ /\ admissions[p.run].status = "issued"
           /\ \/ admissions' = [admissions EXCEPT ![p.run].status = "expired"]
              \/ admissions' = [admissions EXCEPT ![p.run].recorded = @ \/ delivered]
    BY <1>9 DEF VerifyLoaded, MatchesIssuedPermit
  <2>3. \A o \in Runs \ {p.run} : admissions'[o] = admissions[o]
    BY <1>0, <2>2
  <2>4. Kept(p.run)
    BY <1>0, <2>1, <2>2 DEF Kept, Keeps, Present, Admission
  <2> QED BY <1>1, <1>9, <2>3, <2>4, SameKept DEF VerifyLoaded
<1>10. ASSUME ChangeAuthority
       PROVE  Sweep({})
  BY <1>1, <1>10, SameKept DEF ChangeAuthority
<1>11. CASE CreateNext
  <2>1. PICK q \in Requests :
          (\E b \in BriefUse : CreateNew(q, b)) \/ CreateReissue(q) \/ CreateStale(q)
          \/ CreateAnswered(q)
    BY <1>11 DEF CreateNext
  <2> QED BY <1>2, <1>3, <1>4, <2>1 DEF CreateAnswered, Cleanup
<1>12. CASE RunNext
  BY <1>2, <1>5, <1>6, <1>7, <1>8, <1>12 DEF RunNext, Verify, Confirm, VerifyActive
<1>13. CASE LoadNext
  BY <1>9, <1>13 DEF LoadNext
<1>14. CASE Cleanup
  BY <1>2, <1>14 DEF Cleanup
<1> QED BY <1>10, <1>11, <1>12, <1>13, <1>14 DEF AdmissionsNext

\* Repairing an inbox entry keeps the row.
LEMMA RepairedKept ==
  ASSUME NEW rows \in [Runs -> Admission], NEW failed, NEW r \in Runs, NEW dispatched
  PROVE  Keeps(rows[r], Repaired(rows, failed)[r], dispatched)
<1>1. Repaired(rows, failed)[r] \in {rows[r], [rows[r] EXCEPT !.inbox = "failed"]}
  BY DEF Repaired
<1> QED BY <1>1 DEF Keeps, Present, Admission

\* An answer, a reconciliation and the settlement of overdue calls settle calls.
LEMMA AnswerSettles ==
  ASSUME TypeOK, NEW t \in ToolCalls,
         \/ \E outcome \in {"completed", "failed", "unknown"}, oversized \in BOOLEAN :
              Complete(t, outcome, oversized)
         \/ \E resolution \in {"applied", "not_applied"} : Reconcile(t, resolution)
  PROVE  SettleStep
<1>1. executions \in [ToolCalls -> Execution]
  BY DEF TypeOK
<1>2. ASSUME NEW outcome \in {"completed", "failed", "unknown"}, NEW oversized \in BOOLEAN,
             Complete(t, outcome, oversized)
      PROVE  \A u \in ToolCalls : Settles(executions[u], executions'[u])
  BY <1>1, <1>2 DEF Complete, Unproven, Settles
<1>3. ASSUME NEW resolution \in {"applied", "not_applied"}, Reconcile(t, resolution)
      PROVE  \A u \in ToolCalls : Settles(executions[u], executions'[u])
  <2>1. PICK v \in {"completed", "failed"} :
          executions' = [executions EXCEPT ![t].reconciliation = resolution, ![t].status = v]
    BY <1>3 DEF Reconcile
  <2>2. executions'[t] = [executions[t] EXCEPT !.reconciliation = resolution, !.status = v]
    BY <1>1, <2>1
  <2>3. \A u \in ToolCalls \ {t} : executions'[u] = executions[u]
    BY <1>1, <2>1
  <2> QED BY <1>3, <2>2, <2>3 DEF Reconcile, Settles
<1> QED BY <1>2, <1>3, SameKept DEF Complete, Reconcile, SettleStep, SameRuntimeCalls

\* What the alarm and an inspection make of the calls.
LEMMA SettledSettles ==
  ASSUME TypeOK, executions' = Settled, NEW t \in ToolCalls
  PROVE  Settles(executions[t], executions'[t])
BY DEF Settled, Overdue, Unproven, Settles

\* The settlement by the alarm and by an inspection.
LEMMA SettlementSettles ==
  ASSUME TypeOK, ReconcileExpired \/ \E r \in Runs, blocked \in BOOLEAN : InspectRun(r, blocked)
  PROVE  SettleStep
<1>1. PICK failed : admissions' = Repaired(admissions, failed)
  BY DEF ReconcileExpired, InspectRun
<1>2. \A r \in Runs : Kept(r)
  BY <1>1, RepairedKept DEF TypeOK, Kept
<1>3. \A t \in ToolCalls : Settles(executions[t], executions'[t])
  BY SettledSettles DEF ReconcileExpired, InspectRun
<1> QED BY <1>2, <1>3 DEF ReconcileExpired, InspectRun, SettleStep, SameRuntimeCalls

\* A step that leaves the rows and the calls alone, and may drop reservations.
LEMMA NothingSettles ==
  ASSUME UNCHANGED <<admissions, executions, approvals, runtimeExecutions>>,
         reserving' \subseteq reserving
  PROVE  SettleStep
BY SameKept DEF SettleStep, Settles, SameRuntimeCalls

\* Every operation of a session or of the owner on calls is a ledger step.
LEMMA CallNextIsLedgerStep ==
  ASSUME TypeOK, CallNext
  PROVE  LedgerStep
<1>1. CASE \E t \in ToolCalls, r \in Runs, e \in Effects :
             ReserveBegin(t, r, e) \/ (e \in NeedApproval /\ RecordApproval(t, r, e))
  BY <1>1 DEF LedgerStep, ApprovalStep
<1>2. CASE \E s \in reserving : ReserveCommit(s)
  BY <1>2 DEF LedgerStep
<1>3. CASE \E t \in ToolCalls :
             \/ Dispatch(t)
             \/ \E outcome \in {"completed", "failed", "unknown"}, oversized \in BOOLEAN :
                  Complete(t, outcome, oversized)
             \/ \E resolution \in {"applied", "not_applied"} : Reconcile(t, resolution)
             \/ \E decision \in {"approved", "rejected"} : DecideApproval(t, decision)
  BY <1>3, AnswerSettles DEF LedgerStep, ApprovalStep
<1>4. CASE \E r \in Runs, blocked \in BOOLEAN : InspectRun(r, blocked)
  BY <1>4, SettlementSettles DEF LedgerStep
<1> QED BY <1>1, <1>2, <1>3, <1>4 DEF CallNext

\* Every step of the composed ledger is one.
LEMMA ToolNextIsLedgerStep ==
  ASSUME TypeOK, [ToolNext]_toolVars
  PROVE  LedgerStep
<1>1. CASE AdmissionsNext /\ UNCHANGED reserving
  BY <1>1, AdmissionsSweep DEF LedgerStep
<1>2. CASE CallNext
  BY <1>2, CallNextIsLedgerStep
<1>3. CASE ReconcileExpired
  BY <1>3, SettlementSettles DEF LedgerStep
<1>4. CASE ToolTick
  BY <1>4 DEF ToolTick, LedgerStep, SameRuntimeCalls
<1>5. CASE ToolRestart \/ UNCHANGED toolVars
  BY <1>5, NothingSettles DEF ToolRestart, toolVars, vars, ledgers, LedgerStep
<1> QED BY <1>1, <1>2, <1>3, <1>4, <1>5 DEF ToolNext

-----------------------------------------------------------------------------
(* A call belongs to an admission that exists *)

\* The entry of a call names a Run while the call is neither unmade nor erased, and
\* that Run's admission is there; a vacant entry has no effect and was not dispatched.
OfRun(x) ==
  /\ x.run \in Runs <=> ~Vacant(x)
  /\ x.run \in Runs => Present(admissions[x.run])

CallsOfRuns ==
  /\ \A t \in ToolCalls : /\ OfRun(executions[t])
                          /\ Vacant(executions[t]) => executions[t].effect = "none"
  /\ \A t \in RuntimeCalls : OfRun(runtimeExecutions[t])
  /\ \A s \in reserving : admissions[s.run].status # "none"

\* No vacant entry names a Run.
LEMMA VacantEntries ==
  /\ Vacant(NoExecution) /\ Vacant([NoExecution EXCEPT !.status = "deleted"])
  /\ NoExecution.run \notin Runs /\ [NoExecution EXCEPT !.status = "deleted"].run \notin Runs
  /\ Vacant([NoRuntimeExecution EXCEPT !.status = "deleted"]) /\ Vacant(NoRuntimeExecution)
  /\ NoRuntimeExecution.run \notin Runs
  /\ [NoRuntimeExecution EXCEPT !.status = "deleted"].run \notin Runs
BY LimitsAssumption DEF Vacant, NoExecution, NoRuntimeExecution

\* Rows of Runs that no sweep deletes stay.
LEMMA SweptPresent ==
  ASSUME NEW gone, Sweep(gone), NEW r \in Runs
  PROVE  /\ r \notin gone /\ Present(admissions[r]) => Present(admissions'[r])
         /\ admissions[r].status # "none" => admissions'[r].status # "none"
BY DEF Sweep, Kept, Keeps, Born, Deleted, Blank

\* Settling changes neither the Run nor the effect of a call, nor whether it is vacant.
LEMMA SettlesSame ==
  ASSUME NEW x \in Execution, NEW y, Settles(x, y)
  PROVE  /\ y.run = x.run /\ y.effect = x.effect /\ (Vacant(y) <=> Vacant(x))
         /\ y.dispatched = x.dispatched /\ y.ttl = x.ttl
         /\ y.status = "reserved" => y = x
BY DEF Settles, Vacant, Execution

\* What becomes of the calls and the rows in the passing of time.
LEMMA AgedCalls ==
  ASSUME ToolTypes, AgeCalls
  PROVE  /\ \A t \in ToolCalls :
              /\ executions'[t] \in Execution
              /\ executions'[t].run = executions[t].run /\ executions'[t].effect = executions[t].effect
              /\ executions'[t].status = executions[t].status
              /\ executions'[t].dispatched = executions[t].dispatched
              /\ executions'[t].ttl <= executions[t].ttl
              /\ executions'[t].reconciliation = executions[t].reconciliation
         /\ \A t \in ToolCalls :
              /\ approvals'[t].decision = approvals[t].decision
              /\ approvals'[t].run = approvals[t].run /\ approvals'[t].effect = approvals[t].effect
         /\ \A r \in Runs :
              /\ admissions'[r].status = admissions[r].status
              /\ admissions'[r].toolCalls = admissions[r].toolCalls
              /\ admissions'[r].revision = admissions[r].revision
              /\ admissions'[r].cancel = admissions[r].cancel
         /\ reserving = {} /\ reserving' = {}
<1>1. ASSUME NEW t \in ToolCalls
      PROVE  /\ executions'[t] \in Execution
             /\ executions'[t].run = executions[t].run /\ executions'[t].effect = executions[t].effect
             /\ executions'[t].status = executions[t].status
             /\ executions'[t].dispatched = executions[t].dispatched
             /\ executions'[t].ttl <= executions[t].ttl
             /\ executions'[t].reconciliation = executions[t].reconciliation
  <2> DEFINE x == executions[t]
             ttl == IF x.status = "reserved" /\ x.ttl > -(AlarmLag + 1) THEN x.ttl - 1 ELSE x.ttl
             permitTtl == IF x.permitTtl > 0 THEN x.permitTtl - 1 ELSE x.permitTtl
  <2>1. x \in Execution
    BY DEF ToolTypes, TypeOK
  <2>2. ttl \in Int /\ ttl <= x.ttl /\ permitTtl \in Nat
    BY <2>1 DEF Execution
  <2>3. executions'[t] = [x EXCEPT !.ttl = ttl, !.permitTtl = permitTtl]
    BY DEF AgeCalls, AgeExecution
  <2> HIDE DEF x, ttl, permitTtl
  <2> QED BY <2>1, <2>2, <2>3 DEF Execution, x
<1>2. ASSUME NEW t \in ToolCalls
      PROVE  /\ approvals'[t].decision = approvals[t].decision
             /\ approvals'[t].run = approvals[t].run /\ approvals'[t].effect = approvals[t].effect
  <2>1. approvals[t] \in Approval
    BY DEF ToolTypes, TypeOK
  <2> QED BY <2>1 DEF AgeCalls, Approval
<1>3. ASSUME NEW r \in Runs
      PROVE  /\ admissions'[r].status = admissions[r].status
             /\ admissions'[r].toolCalls = admissions[r].toolCalls
             /\ admissions'[r].revision = admissions[r].revision
             /\ admissions'[r].cancel = admissions[r].cancel
  <2>1. admissions[r] \in Admission
    BY DEF ToolTypes, TypeOK
  <2> QED BY <2>1 DEF AgeCalls, AgeAdmissions, Older, Admission
<1> QED BY <1>1, <1>2, <1>3 DEF AgeCalls

\* The transaction of a reservation changes nothing, or enters one call into a vacant
\* entry and counts it in the row of its Run, all of it as the gate read it.
LEMMA CommitMoves ==
  ASSUME ToolTypes, NEW s \in reserving, ReserveCommit(s)
  PROVE  /\ s.run \in Runs /\ s.call \in ToolCalls /\ s.effect \in Effects
         /\ \/ UNCHANGED <<admissions, executions>>
            \/ /\ StillReservable(s) /\ executions[s.call].status = "none"
               /\ admissions[s.run].status = "redeemed" /\ admissions[s.run].cancel = "none"
               /\ admissions[s.run].toolCalls = s.gate.used
               /\ executions'[s.call].status = "reserved" /\ executions'[s.call].run = s.run
               /\ executions'[s.call].effect = s.effect /\ ~executions'[s.call].dispatched
               /\ executions'[s.call].ttl = LifetimeOf(s)
               /\ \A u \in ToolCalls \ {s.call} : executions'[u] = executions[u]
               /\ admissions'[s.run] = [admissions[s.run] EXCEPT !.toolCalls = s.gate.used + 1]
               /\ \A o \in Runs \ {s.run} : admissions'[o] = admissions[o]
         /\ UNCHANGED <<approvals, runtimeExecutions>> /\ reserving' \subseteq reserving
<1>1. s.run \in Runs /\ s.call \in ToolCalls /\ s.effect \in Effects
  BY DEF ToolTypes, Reservation
<1>2. CASE StillReservable(s)
  <2>1. /\ executions' = [executions EXCEPT ![s.call] =
             [NoExecution EXCEPT !.status = "reserved", !.run = s.run, !.effect = s.effect,
                                 !.ttl = LifetimeOf(s), !.permitTtl = PermitLifetime]]
        /\ admissions' = [admissions EXCEPT ![s.run].toolCalls = s.gate.used + 1]
    BY <1>2 DEF ReserveCommit
  <2>2. executions \in [ToolCalls -> Execution] /\ admissions \in [Runs -> Admission]
    BY DEF ToolTypes, TypeOK
  <2>3. executions'[s.call] = [NoExecution EXCEPT !.status = "reserved", !.run = s.run,
             !.effect = s.effect, !.ttl = LifetimeOf(s), !.permitTtl = PermitLifetime]
    BY <1>1, <2>1, <2>2
  <2>4. /\ executions'[s.call].status = "reserved" /\ executions'[s.call].run = s.run
        /\ executions'[s.call].effect = s.effect /\ ~executions'[s.call].dispatched
        /\ executions'[s.call].ttl = LifetimeOf(s)
    BY <2>3 DEF NoExecution
  <2>5. /\ \A u \in ToolCalls \ {s.call} : executions'[u] = executions[u]
        /\ admissions'[s.run] = [admissions[s.run] EXCEPT !.toolCalls = s.gate.used + 1]
        /\ \A o \in Runs \ {s.run} : admissions'[o] = admissions[o]
    BY <1>1, <2>1, <2>2
  <2> QED BY <1>1, <1>2, <2>4, <2>5 DEF ReserveCommit, StillReservable, GateOpen
<1>3. CASE ~StillReservable(s)
  BY <1>1, <1>3 DEF ReserveCommit
<1> QED BY <1>2, <1>3

\* A dispatch marks one reserved call.
LEMMA DispatchMoves ==
  ASSUME ToolTypes, NEW t \in ToolCalls, Dispatch(t)
  PROVE  /\ Dispatchable(t) /\ ~Vacant(executions[t])
         /\ executions'[t].status = "reserved" /\ executions'[t].run = executions[t].run
         /\ executions'[t].effect = executions[t].effect /\ executions'[t].dispatched
         /\ executions'[t].ttl = executions[t].ttl
         /\ \A u \in ToolCalls \ {t} : executions'[u] = executions[u]
         /\ UNCHANGED <<admissions, approvals, runtimeExecutions, reserving>>
<1>1. executions \in [ToolCalls -> Execution]
  BY DEF ToolTypes, TypeOK
<1>2. executions'[t] = [[executions[t] EXCEPT !.dispatched = TRUE] EXCEPT !.dispatches = @ + 1]
  BY <1>1 DEF Dispatch
<1> DEFINE y == [executions[t] EXCEPT !.dispatched = TRUE]
<1>3. /\ y \in Execution /\ y.status = executions[t].status /\ y.run = executions[t].run
      /\ y.effect = executions[t].effect /\ y.ttl = executions[t].ttl /\ y.dispatched
  BY <1>1 DEF Execution
<1> HIDE DEF y
<1>4. /\ executions'[t].status = y.status /\ executions'[t].run = y.run
      /\ executions'[t].effect = y.effect /\ executions'[t].ttl = y.ttl
      /\ executions'[t].dispatched = y.dispatched
  BY <1>2, <1>3 DEF Execution, y
<1>5. \A u \in ToolCalls \ {t} : executions'[u] = executions[u]
  BY <1>1 DEF Dispatch
<1> QED BY <1>3, <1>4, <1>5 DEF Dispatch, Dispatchable, Vacant

\* What is left of an entry when the Runs in gone are erased.
LEMMA ErasedEntries ==
  ASSUME TypeOK, NEW gone, EraseLedgers(gone)
  PROVE  /\ \A t \in ToolCalls :
              executions'[t] = IF executions[t].run \in gone
                               THEN [NoExecution EXCEPT !.status = "deleted"] ELSE executions[t]
         /\ \A t \in ToolCalls :
              approvals'[t] = IF approvals[t].run \in gone THEN NoApproval ELSE approvals[t]
         /\ \A t \in RuntimeCalls :
              runtimeExecutions'[t] = IF runtimeExecutions[t].run \in gone
                THEN [NoRuntimeExecution EXCEPT !.status = "deleted"] ELSE runtimeExecutions[t]
BY DEF EraseLedgers

\* Calls keep their Run, or are erased with it.
LEMMA ErasedRuns ==
  ASSUME TypeOK, NEW gone, EraseLedgers(gone), NEW r \in Runs
  PROVE  /\ \A t \in ToolCalls : executions'[t].run = r <=> executions[t].run = r /\ r \notin gone
         /\ \A t \in RuntimeCalls :
              runtimeExecutions'[t].run = r <=> runtimeExecutions[t].run = r /\ r \notin gone
<1>1. ASSUME NEW t \in ToolCalls
      PROVE  executions'[t].run = r <=> executions[t].run = r /\ r \notin gone
  <2>1. CASE executions[t].run \in gone
    <3>1. executions'[t] = [NoExecution EXCEPT !.status = "deleted"]
      BY <2>1, ErasedEntries
    <3> QED BY <2>1, <3>1, VacantEntries
  <2>2. CASE executions[t].run \notin gone
    BY <2>2, ErasedEntries
  <2> QED BY <2>1, <2>2
<1>2. ASSUME NEW t \in RuntimeCalls
      PROVE  runtimeExecutions'[t].run = r <=> runtimeExecutions[t].run = r /\ r \notin gone
  <2>1. CASE runtimeExecutions[t].run \in gone
    <3>1. runtimeExecutions'[t] = [NoRuntimeExecution EXCEPT !.status = "deleted"]
      BY <2>1, ErasedEntries
    <3> QED BY <2>1, <3>1, VacantEntries
  <2>2. CASE runtimeExecutions[t].run \notin gone
    BY <2>2, ErasedEntries
  <2> QED BY <2>1, <2>2
<1> QED BY <1>1, <1>2

\* No step leaves a call to a Run that is not there.
LEMMA CallsOfRunsStep ==
  ASSUME ToolTypes, CallsOfRuns, LedgerStep
  PROVE  CallsOfRuns'
<1>0. /\ \A t \in ToolCalls : executions[t] \in Execution
      /\ \A s \in reserving : s.run \in Runs
  BY DEF ToolTypes, TypeOK, Reservation
<1>1. ASSUME NEW gone \in SUBSET Erased, Sweep(gone)
      PROVE  CallsOfRuns'
  <2>1. EraseLedgers(gone) /\ gone \subseteq Runs /\ TypeOK
    BY <1>1 DEF Sweep, Erased, ToolTypes
  <2>2. ASSUME NEW t \in ToolCalls
        PROVE  /\ OfRun(executions[t])'
               /\ Vacant(executions'[t]) => executions'[t].effect = "none"
    <3>1. CASE executions[t].run \in gone
      <4>1. executions'[t] = [NoExecution EXCEPT !.status = "deleted"]
        BY <2>1, <3>1, ErasedEntries
      <4> QED BY <4>1, VacantEntries DEF OfRun, NoExecution
    <3>2. CASE executions[t].run \notin gone
      <4>1. executions'[t] = executions[t]
        BY <2>1, <3>2, ErasedEntries
      <4> QED BY <1>1, <3>2, <4>1, SweptPresent DEF CallsOfRuns, OfRun
    <3> QED BY <3>1, <3>2
  <2>3. ASSUME NEW t \in RuntimeCalls
        PROVE  OfRun(runtimeExecutions[t])'
    <3>1. CASE runtimeExecutions[t].run \in gone
      <4>1. runtimeExecutions'[t] = [NoRuntimeExecution EXCEPT !.status = "deleted"]
        BY <2>1, <3>1, ErasedEntries
      <4> QED BY <4>1, VacantEntries DEF OfRun
    <3>2. CASE runtimeExecutions[t].run \notin gone
      <4>1. runtimeExecutions'[t] = runtimeExecutions[t]
        BY <2>1, <3>2, ErasedEntries
      <4> QED BY <1>1, <3>2, <4>1, SweptPresent DEF CallsOfRuns, OfRun
    <3> QED BY <3>1, <3>2
  <2>4. \A s \in reserving' : admissions'[s.run].status # "none"
    BY <1>0, <1>1, SweptPresent DEF Sweep, CallsOfRuns
  <2> QED BY <2>2, <2>3, <2>4 DEF CallsOfRuns
<1>2. CASE SettleStep
  <2>1. \A r \in Runs : /\ Present(admissions[r]) => Present(admissions'[r])
                        /\ admissions[r].status # "none" => admissions'[r].status # "none"
    BY <1>2 DEF SettleStep, Kept, Keeps
  <2>2. \A t \in ToolCalls : /\ executions'[t].run = executions[t].run
                             /\ executions'[t].effect = executions[t].effect
                             /\ Vacant(executions'[t]) <=> Vacant(executions[t])
    BY <1>0, <1>2, SettlesSame DEF SettleStep
  <2>3. \A t \in ToolCalls : /\ OfRun(executions[t])'
                             /\ Vacant(executions'[t]) => executions'[t].effect = "none"
    BY <2>1, <2>2 DEF CallsOfRuns, OfRun
  <2>4. \A t \in RuntimeCalls : OfRun(runtimeExecutions[t])'
    BY <1>2, <2>1 DEF SettleStep, SameRuntimeCalls, CallsOfRuns, OfRun
  <2>5. \A s \in reserving' : admissions'[s.run].status # "none"
    BY <1>0, <1>2, <2>1 DEF SettleStep, CallsOfRuns
  <2> QED BY <2>3, <2>4, <2>5 DEF CallsOfRuns
<1>3. ASSUME NEW t \in ToolCalls, NEW r \in Runs, NEW e \in Effects, ReserveBegin(t, r, e)
      PROVE  CallsOfRuns'
  <2>1. admissions[r].status # "none"
    BY <1>3 DEF ReserveBegin, GateOpen
  <2>2. \A s \in reserving' : s \in reserving \/ s.run = r
    BY <1>3 DEF ReserveBegin
  <2> QED BY <1>3, <2>1, <2>2 DEF ReserveBegin, vars, CallsOfRuns, OfRun
<1>4. ASSUME NEW s \in reserving, ReserveCommit(s)
      PROVE  CallsOfRuns'
  <2>1. \A r \in Runs : admissions'[r].status = admissions[r].status
    <3>1. \A r \in Runs : admissions[r] \in Admission
      BY DEF ToolTypes, TypeOK
    <3>2. ASSUME NEW r \in Runs
          PROVE  admissions'[r] = admissions[r]
                 \/ admissions'[r] = [admissions[r] EXCEPT !.toolCalls = s.gate.used + 1]
      BY <1>4, CommitMoves
    <3> QED BY <3>1, <3>2 DEF Admission
  <2>2. s.run \in Runs /\ s.call \in ToolCalls /\ s.effect \in Effects
    BY <1>4, CommitMoves
  <2>3. ASSUME NEW t \in ToolCalls
        PROVE  /\ OfRun(executions[t])'
               /\ Vacant(executions'[t]) => executions'[t].effect = "none"
    <3>1. CASE executions'[t] = executions[t]
      BY <2>1, <3>1 DEF CallsOfRuns, OfRun, Present
    <3>2. CASE executions'[t] # executions[t]
      <4>1. /\ t = s.call /\ executions'[t].run = s.run /\ executions'[t].status = "reserved"
            /\ admissions[s.run].status = "redeemed"
        BY <1>4, <3>2, CommitMoves
      <4> QED BY <2>1, <2>2, <4>1 DEF OfRun, Vacant, Present
    <3> QED BY <3>1, <3>2
  <2>4. \A t \in RuntimeCalls : OfRun(runtimeExecutions[t])'
    BY <1>4, <2>1 DEF ReserveCommit, CallsOfRuns, OfRun, Present
  <2>5. \A o \in reserving' : admissions'[o.run].status # "none"
    BY <1>0, <1>4, <2>1 DEF ReserveCommit, CallsOfRuns
  <2> QED BY <2>3, <2>4, <2>5 DEF CallsOfRuns
<1>5. ASSUME NEW t \in ToolCalls, Dispatch(t)
      PROVE  CallsOfRuns'
  <2>1. \A u \in ToolCalls : /\ executions'[u].run = executions[u].run
                             /\ executions'[u].effect = executions[u].effect
                             /\ Vacant(executions'[u]) <=> Vacant(executions[u])
    <3>1. executions'[t].status = "reserved" /\ ~Vacant(executions[t])
      BY <1>5, DispatchMoves
    <3>2. ~Vacant(executions'[t])
      BY <3>1 DEF Vacant
    <3> QED BY <1>5, <3>1, <3>2, DispatchMoves
  <2> QED BY <1>5, <2>1, DispatchMoves DEF CallsOfRuns, OfRun
<1>6. ASSUME NEW t \in ToolCalls, ApprovalStep(t)
      PROVE  CallsOfRuns'
  BY <1>6 DEF ApprovalStep, RecordApproval, DecideApproval, CallsOfRuns, OfRun
<1>7. ASSUME NEW t \in RuntimeCalls, NEW r \in Runs, RuntimeClaim(t, r)
      PROVE  CallsOfRuns'
  <2>1. \A o \in Runs : admissions'[o].status = admissions[o].status
    <3>1. \A o \in Runs : admissions[o] \in Admission
      BY DEF ToolTypes, TypeOK
    <3>2. admissions \in [Runs -> Admission]
      BY DEF ToolTypes, TypeOK
    <3> QED BY <1>7, <3>1, <3>2 DEF RuntimeClaim, Admission
  <2>2. \A u \in RuntimeCalls : OfRun(runtimeExecutions[u])'
    BY <1>7, <2>1 DEF RuntimeClaim, CallsOfRuns, OfRun, Present
  <2>3. \A u \in ToolCalls : /\ OfRun(executions[u])'
                             /\ Vacant(executions'[u]) => executions'[u].effect = "none"
    BY <1>7, <2>1 DEF RuntimeClaim, CallsOfRuns, OfRun, Present
  <2>4. \A o \in reserving' : admissions'[o.run].status # "none"
    BY <1>0, <1>7, <2>1 DEF RuntimeClaim, CallsOfRuns
  <2> QED BY <2>2, <2>3, <2>4 DEF CallsOfRuns
<1>8. ASSUME AgeCalls, SameRuntimeCalls
      PROVE  CallsOfRuns'
  BY <1>8, AgedCalls DEF SameRuntimeCalls, CallsOfRuns, OfRun, Present, Vacant
<1> QED BY <1>1, <1>2, <1>3, <1>4, <1>5, <1>6, <1>7, <1>8 DEF LedgerStep

-----------------------------------------------------------------------------
(* Cancellation and dispatch *)

\* No step dispatches a call of a Run that is being cancelled, or begins to cancel a
\* Run of which a call was dispatched.
LEMMA ExclusionStep ==
  ASSUME ToolTypes, CallsOfRuns, CancellationExcludesDispatch, LedgerStep
  PROVE  CancellationExcludesDispatch'
<1> SUFFICES ASSUME NEW r \in Runs, admissions'[r].cancel # "none",
                    NEW t \in ToolCalls, executions'[t].run = r, executions'[t].dispatched
             PROVE  FALSE
  BY DEF CancellationExcludesDispatch, Dispatched
<1>0. /\ \A u \in ToolCalls : executions[u] \in Execution
      /\ executions[t].run = r /\ executions[t].dispatched => admissions[r].cancel = "none"
      /\ executions[t].run = r /\ executions[t].dispatched => Dispatched(r)
  BY DEF ToolTypes, TypeOK, CancellationExcludesDispatch, Dispatched
<1>1. ASSUME NEW gone \in SUBSET Erased, Sweep(gone)
      PROVE  FALSE
  <2>1. executions[t].run \notin gone
    BY <1>1, ErasedEntries, VacantEntries DEF Sweep, ToolTypes
  <2>2. executions'[t] = executions[t] /\ r \notin gone
    BY <1>1, <2>1, ErasedEntries DEF Sweep, ToolTypes
  <2>3. Present(admissions[r])
    BY <2>2 DEF CallsOfRuns, OfRun
  <2> QED BY <1>0, <1>1, <2>2, <2>3 DEF Sweep, Kept, Keeps, Born, Present
<1>2. CASE SettleStep
  <2>1. executions'[t].run = executions[t].run /\ executions'[t].dispatched = executions[t].dispatched
    BY <1>0, <1>2, SettlesSame DEF SettleStep
  <2> QED BY <1>0, <1>2, <2>1 DEF SettleStep, Kept, Keeps
<1>3. ASSUME NEW u \in ToolCalls, NEW o \in Runs, NEW e \in Effects, ReserveBegin(u, o, e)
      PROVE  FALSE
  BY <1>0, <1>3 DEF ReserveBegin, vars
<1>4. ASSUME NEW s \in reserving, ReserveCommit(s)
      PROVE  FALSE
  <2>1. executions'[t] = executions[t] \/ ~executions'[t].dispatched
    <3>1. CASE t = s.call
      BY <1>4, <3>1, CommitMoves
    <3>2. CASE t # s.call
      BY <1>4, <3>2, CommitMoves
    <3> QED BY <3>1, <3>2
  <2>2. \A o \in Runs : admissions[o] \in Admission
    BY DEF ToolTypes, TypeOK
  <2>3. admissions'[r] = admissions[r]
        \/ admissions'[r] = [admissions[r] EXCEPT !.toolCalls = s.gate.used + 1]
    <3>1. CASE r = s.run
      BY <1>4, <3>1, CommitMoves
    <3>2. CASE r # s.run
      <4>1. admissions' = admissions \/ \A o \in Runs \ {s.run} : admissions'[o] = admissions[o]
        BY <1>4, CommitMoves
      <4> QED BY <3>2, <4>1
    <3> QED BY <3>1, <3>2
  <2> QED BY <1>0, <2>1, <2>2, <2>3 DEF Admission
<1>5. ASSUME NEW u \in ToolCalls, Dispatch(u)
      PROVE  FALSE
  BY <1>0, <1>5, DispatchMoves DEF Dispatchable
<1>6. ASSUME NEW u \in ToolCalls, ApprovalStep(u)
      PROVE  FALSE
  BY <1>0, <1>6 DEF ApprovalStep, RecordApproval, DecideApproval
<1>7. ASSUME NEW u \in RuntimeCalls, NEW o \in Runs, RuntimeClaim(u, o)
      PROVE  FALSE
  <2>1. admissions \in [Runs -> Admission]
    BY DEF ToolTypes, TypeOK
  <2>2. admissions'[r].cancel = admissions[r].cancel
    BY <1>7, <2>1 DEF RuntimeClaim, Admission
  <2> QED BY <1>0, <1>7, <2>2 DEF RuntimeClaim
<1>8. ASSUME AgeCalls
      PROVE  FALSE
  BY <1>0, <1>8, AgedCalls
<1> QED BY <1>1, <1>2, <1>3, <1>4, <1>5, <1>6, <1>7, <1>8 DEF LedgerStep

-----------------------------------------------------------------------------
(* The budget *)

RuntimeCallsOfRun(r) == {t \in RuntimeCalls : runtimeExecutions[t].run = r}

Budget(r) ==
  /\ admissions[r].toolCalls = Cardinality(CallsOf(r)) + Cardinality(RuntimeCallsOfRun(r))
  /\ admissions[r].toolCalls <= MaxToolCalls

\* Every reservation in flight was given room in its Run's budget and in its grant.
Affordable == \A s \in reserving : s.gate.used < MaxToolCalls /\ s.gate.active < GrantConcurrency
                                   /\ s.gate.left > 0 /\ s.gate.agent

\* The calls of a Run are finite sets, and one call more is one more.
LEMMA CallSets ==
  ASSUME NEW r
  PROVE  /\ IsFiniteSet(CallsOf(r)) /\ Cardinality(CallsOf(r)) \in Nat
         /\ IsFiniteSet(RuntimeCallsOfRun(r)) /\ Cardinality(RuntimeCallsOfRun(r)) \in Nat
         /\ \A t : t \notin CallsOf(r) =>
              Cardinality(CallsOf(r) \cup {t}) = Cardinality(CallsOf(r)) + 1
         /\ \A t : t \notin RuntimeCallsOfRun(r) =>
              Cardinality(RuntimeCallsOfRun(r) \cup {t}) = Cardinality(RuntimeCallsOfRun(r)) + 1
BY ToolAssumption, FS_Subset, FS_CardinalityType, FS_AddElement DEF CallsOf, RuntimeCallsOfRun

\* A Run whose row and calls are as they were keeps its budget.
LEMMA SameBudget ==
  ASSUME NEW r \in Runs, Budget(r), admissions'[r].toolCalls = admissions[r].toolCalls,
         \A t \in ToolCalls : executions'[t].run = r <=> executions[t].run = r,
         \A t \in RuntimeCalls : runtimeExecutions'[t].run = r <=> runtimeExecutions[t].run = r
  PROVE  Budget(r)'
<1>1. CallsOf(r)' = CallsOf(r) /\ RuntimeCallsOfRun(r)' = RuntimeCallsOfRun(r)
  BY DEF CallsOf, RuntimeCallsOfRun
<1> QED BY <1>1 DEF Budget

\* A Run without calls has spent nothing.
LEMMA EmptyBudget ==
  ASSUME NEW r \in Runs, admissions'[r].toolCalls = 0,
         \A t \in ToolCalls : executions'[t].run # r,
         \A t \in RuntimeCalls : runtimeExecutions'[t].run # r
  PROVE  Budget(r)'
<1>1. CallsOf(r)' = {} /\ RuntimeCallsOfRun(r)' = {}
  BY DEF CallsOf, RuntimeCallsOfRun
<1> QED BY <1>1, FS_EmptySet, ToolAssumption DEF Budget

\* Each call that is reserved is counted once, and none beyond the limit.
LEMMA BudgetStep ==
  ASSUME ToolTypes, CallsOfRuns, Affordable, \A r \in Runs : Budget(r), LedgerStep
  PROVE  \A r \in Runs : Budget(r)'
<1> SUFFICES ASSUME NEW r \in Runs
             PROVE  Budget(r)'
  OBVIOUS
<1>0. /\ \A u \in ToolCalls : executions[u] \in Execution
      /\ admissions \in [Runs -> Admission]
      /\ \A s \in reserving : s.run \in Runs /\ s.gate.used \in Nat /\ s.gate.used < MaxToolCalls
  BY DEF ToolTypes, TypeOK, Reservation, Affordable
<1>1. ASSUME NEW gone \in SUBSET Erased, Sweep(gone)
      PROVE  Budget(r)'
  <2>1. EraseLedgers(gone) /\ TypeOK /\ gone \subseteq Runs
    BY <1>1 DEF Sweep, ToolTypes, Erased
  <2>2. CASE r \in gone
    <3>1. admissions'[r].toolCalls = 0
      BY <1>1, <2>2 DEF Sweep, Deleted, Blank
    <3>2. \A t \in ToolCalls : executions'[t].run # r
      BY <2>1, <2>2, ErasedRuns
    <3>3. \A t \in RuntimeCalls : runtimeExecutions'[t].run # r
      BY <2>1, <2>2, ErasedRuns
    <3> QED BY <3>1, <3>2, <3>3, EmptyBudget
  <2>3. CASE r \notin gone
    <3>1. \A t \in ToolCalls : executions'[t].run = r <=> executions[t].run = r
      BY <2>1, <2>3, ErasedRuns
    <3>2. \A t \in RuntimeCalls : runtimeExecutions'[t].run = r <=> runtimeExecutions[t].run = r
      BY <2>1, <2>3, ErasedRuns
    <3>3. CASE Kept(r)
      BY <3>1, <3>2, <3>3, SameBudget DEF Kept, Keeps
    <3>4. CASE Born(admissions[r], admissions'[r])
      <4>1. ~Present(admissions[r])
        BY <3>4 DEF Born, Present
      <4>2. /\ \A t \in ToolCalls : executions[t].run # r
            /\ \A t \in RuntimeCalls : runtimeExecutions[t].run # r
        BY <4>1 DEF CallsOfRuns, OfRun
      <4> QED BY <3>1, <3>2, <3>4, <4>2, EmptyBudget DEF Born
    <3> QED BY <1>1, <2>3, <3>3, <3>4 DEF Sweep
  <2> QED BY <2>2, <2>3
<1>2. CASE SettleStep
  <2>1. \A t \in ToolCalls : executions'[t].run = executions[t].run
    BY <1>0, <1>2, SettlesSame DEF SettleStep
  <2> QED BY <1>2, <2>1, SameBudget DEF SettleStep, SameRuntimeCalls, Kept, Keeps
<1>3. ASSUME NEW t \in ToolCalls, NEW o \in Runs, NEW e \in Effects, ReserveBegin(t, o, e)
      PROVE  Budget(r)'
  BY <1>3, SameBudget DEF ReserveBegin, vars
<1>4. ASSUME NEW s \in reserving, ReserveCommit(s)
      PROVE  Budget(r)'
  <2>1. CASE UNCHANGED <<admissions, executions>>
    BY <1>4, <2>1, SameBudget, CommitMoves
  <2>2. CASE ~UNCHANGED <<admissions, executions>> /\ r # s.run
    <3>1. /\ s.run \in Runs /\ executions[s.call].status = "none" /\ executions'[s.call].run = s.run
          /\ \A u \in ToolCalls \ {s.call} : executions'[u] = executions[u]
          /\ admissions'[r] = admissions[r] /\ runtimeExecutions' = runtimeExecutions
      BY <1>4, <2>2, CommitMoves
    <3>2. s.call \in ToolCalls => executions[s.call].run # r
      BY <3>1 DEF CallsOfRuns, OfRun, Vacant
    <3> QED BY <2>2, <3>1, <3>2, SameBudget
  <2>3. CASE ~UNCHANGED <<admissions, executions>> /\ r = s.run
    <3>1. /\ s.call \in ToolCalls /\ executions[s.call].status = "none"
          /\ executions'[s.call].run = r
          /\ \A u \in ToolCalls \ {s.call} : executions'[u] = executions[u]
          /\ admissions'[r] = [admissions[r] EXCEPT !.toolCalls = s.gate.used + 1]
          /\ admissions[r].toolCalls = s.gate.used /\ runtimeExecutions' = runtimeExecutions
      BY <1>4, <2>3, CommitMoves
    <3>2. s.call \notin CallsOf(r)
      BY <3>1 DEF CallsOfRuns, OfRun, Vacant, CallsOf
    <3>3. CallsOf(r)' = CallsOf(r) \cup {s.call} /\ RuntimeCallsOfRun(r)' = RuntimeCallsOfRun(r)
      BY <3>1 DEF CallsOf, RuntimeCallsOfRun
    <3>4. Cardinality(CallsOf(r)') = Cardinality(CallsOf(r)) + 1
      BY <3>2, <3>3, CallSets
    <3>5. admissions'[r].toolCalls = admissions[r].toolCalls + 1
          /\ admissions'[r].toolCalls <= MaxToolCalls
      <4>1. admissions'[r].toolCalls = s.gate.used + 1
        BY <1>0, <3>1 DEF Admission
      <4> QED BY <1>0, <3>1, <4>1, ToolAssumption
    <3>6. admissions[r].toolCalls = Cardinality(CallsOf(r)) + Cardinality(RuntimeCallsOfRun(r))
      BY DEF Budget
    <3>7. admissions'[r].toolCalls = Cardinality(CallsOf(r)') + Cardinality(RuntimeCallsOfRun(r)')
      BY <3>3, <3>4, <3>5, <3>6, CallSets
    <3> QED BY <3>5, <3>7 DEF Budget
  <2> QED BY <2>1, <2>2, <2>3
<1>5. ASSUME NEW t \in ToolCalls, Dispatch(t)
      PROVE  Budget(r)'
  BY <1>5, DispatchMoves, SameBudget
<1>6. ASSUME NEW t \in ToolCalls, ApprovalStep(t)
      PROVE  Budget(r)'
  BY <1>6, SameBudget DEF ApprovalStep, RecordApproval, DecideApproval
<1>7. ASSUME NEW t \in RuntimeCalls, NEW o \in Runs, RuntimeClaim(t, o)
      PROVE  Budget(r)'
  <2>0. ~Vacant(runtimeExecutions'[t]) /\ runtimeExecutions[t].run \notin Runs
    BY <1>7 DEF RuntimeClaim, CallsOfRuns, OfRun, Vacant
  <2>1. CASE r # o
    BY <1>0, <1>7, <2>0, <2>1, SameBudget DEF RuntimeClaim
  <2>2. CASE r = o
    <3>1. t \notin RuntimeCallsOfRun(r)
      BY <2>0 DEF RuntimeCallsOfRun
    <3>2. RuntimeCallsOfRun(r)' = RuntimeCallsOfRun(r) \cup {t} /\ CallsOf(r)' = CallsOf(r)
      BY <1>7, <2>2 DEF RuntimeClaim, CallsOf, RuntimeCallsOfRun
    <3>3. Cardinality(RuntimeCallsOfRun(r)') = Cardinality(RuntimeCallsOfRun(r)) + 1
      BY <3>1, <3>2, CallSets
    <3>4. admissions'[r].toolCalls = admissions[r].toolCalls + 1
          /\ admissions[r].toolCalls < MaxToolCalls /\ admissions[r].toolCalls \in Nat
      BY <1>0, <1>7, <2>2 DEF RuntimeClaim, Admission
    <3>5. admissions[r].toolCalls = Cardinality(CallsOf(r)) + Cardinality(RuntimeCallsOfRun(r))
      BY DEF Budget
    <3>6. admissions'[r].toolCalls = Cardinality(CallsOf(r)') + Cardinality(RuntimeCallsOfRun(r)')
      BY <3>2, <3>3, <3>4, <3>5, CallSets
    <3> QED BY <3>4, <3>6, ToolAssumption DEF Budget
  <2> QED BY <2>1, <2>2
<1>8. ASSUME AgeCalls, SameRuntimeCalls
      PROVE  Budget(r)'
  BY <1>8, AgedCalls, SameBudget DEF SameRuntimeCalls
<1> QED BY <1>1, <1>2, <1>3, <1>4, <1>5, <1>6, <1>7, <1>8 DEF LedgerStep

\* Only what the policy allows is in flight.
LEMMA AffordableStep ==
  ASSUME ToolTypes, Affordable, LedgerStep
  PROVE  Affordable'
<1>1. ASSUME NEW t \in ToolCalls, NEW r \in Runs, NEW e \in Effects, ReserveBegin(t, r, e)
      PROVE  Affordable'
  BY <1>1 DEF ReserveBegin, PolicyAllows, Affordable
<1>2. CASE reserving' \subseteq reserving
  BY <1>2 DEF Affordable
<1>3. (\E t \in ToolCalls, r \in Runs, e \in Effects : ReserveBegin(t, r, e))
      \/ reserving' \subseteq reserving
  <2>1. ASSUME NEW t \in ToolCalls, Dispatch(t) \/ ApprovalStep(t)
        PROVE  reserving' \subseteq reserving
    BY <2>1 DEF Dispatch, ApprovalStep, RecordApproval, DecideApproval
  <2> QED BY <2>1 DEF LedgerStep, Sweep, SettleStep, ReserveCommit, RuntimeClaim, AgeCalls
<1> QED BY <1>1, <1>2, <1>3

-----------------------------------------------------------------------------
(* Grants and approvals *)

Live(v) ==
  {t \in ToolCalls : /\ executions[t].run \in Runs
                     /\ admissions[executions[t].run].revision = v
                     /\ executions[t].status = "reserved" /\ executions[t].ttl > 0}

\* The bound on the live reservations of a grant, which belongs to a revision.
GrantBound == \A v \in 0..MaxRevision : Cardinality(Live(v)) <= GrantConcurrency

MatchingApproval(t, r, e) ==
  approvals[t].decision = "approved" /\ approvals[t].run = r /\ approvals[t].effect = e

\* A call that needs an approval has its own, and so has a reservation in flight
\* unless its Run was erased under it.
CallsApproved ==
  \A t \in ToolCalls : executions[t].effect \in NeedApproval =>
    MatchingApproval(t, executions[t].run, executions[t].effect)

ReservationsApproved ==
  \A s \in reserving : s.effect \in NeedApproval /\ Present(admissions[s.run]) =>
    MatchingApproval(s.call, s.run, s.effect)

\* What the gate counts are the live reservations under the Run's revision.
LEMMA GateCounts ==
  ASSUME NEW r \in Runs, NEW e
  PROVE  Gate(r, e).active = Cardinality(Live(admissions[r].revision))
BY DEF Gate, SameGrant, Live

\* The live reservations of a grant are finitely many; fewer of them are no more.
LEMMA LiveSets ==
  ASSUME NEW v, NEW S, S \subseteq Live(v)
  PROVE  /\ Cardinality(S) <= Cardinality(Live(v))
         /\ Cardinality(S) \in Nat /\ Cardinality(Live(v)) \in Nat
         /\ IsFiniteSet(S)
<1>1. IsFiniteSet(Live(v))
  BY ToolAssumption, FS_Subset DEF Live
<1> QED BY <1>1, FS_Subset, FS_CardinalityType

\* A step that makes no call live keeps the bound.
LEMMA FewerLive ==
  ASSUME GrantBound, NEW v \in 0..MaxRevision, Live(v)' \subseteq Live(v)
  PROVE  Cardinality(Live(v)') <= GrantConcurrency
<1>1. Cardinality(Live(v)) <= GrantConcurrency
  BY DEF GrantBound
<1> HIDE DEF Live
<1>2. /\ Cardinality(Live(v)') <= Cardinality(Live(v))
      /\ Cardinality(Live(v)') \in Nat /\ Cardinality(Live(v)) \in Nat
  BY LiveSets
<1> QED BY <1>1, <1>2, ToolAssumption

\* A reservation is added only below the limit, as the gate counted it again.
LEMMA GrantBoundStep ==
  ASSUME ToolTypes, CallsOfRuns, Affordable, GrantBound, LedgerStep
  PROVE  GrantBound'
<1> SUFFICES ASSUME NEW v \in 0..MaxRevision
             PROVE  Cardinality(Live(v)') <= GrantConcurrency
  BY DEF GrantBound
<1>0. /\ \A u \in ToolCalls : executions[u] \in Execution
      /\ \A r \in Runs : admissions[r] \in Admission
      /\ admissions \in [Runs -> Admission]
  BY DEF ToolTypes, TypeOK
<1>1. ASSUME NEW gone \in SUBSET Erased, Sweep(gone), NEW t \in Live(v)'
      PROVE  t \in Live(v)
  <2>1. t \in ToolCalls /\ executions'[t].run \in Runs
        /\ admissions'[executions'[t].run].revision = v
        /\ executions'[t].status = "reserved" /\ executions'[t].ttl > 0
    BY <1>1 DEF Live
  <2>2. executions[t].run \notin gone /\ executions'[t] = executions[t]
    <3>1. CASE executions[t].run \in gone
      <4>1. executions'[t] = [NoExecution EXCEPT !.status = "deleted"]
        BY <1>1, <2>1, <3>1, ErasedEntries DEF Sweep, ToolTypes
      <4> QED BY <2>1, <4>1, VacantEntries
    <3>2. CASE executions[t].run \notin gone
      BY <1>1, <2>1, <3>2, ErasedEntries DEF Sweep, ToolTypes
    <3> QED BY <3>1, <3>2
  <2>3. Present(admissions[executions[t].run])
    BY <2>1, <2>2 DEF CallsOfRuns, OfRun
  <2>4. admissions'[executions[t].run].revision = admissions[executions[t].run].revision
    BY <1>1, <2>1, <2>2, <2>3 DEF Sweep, Kept, Keeps, Born, Present
  <2> QED BY <2>1, <2>2, <2>4 DEF Live
<1>2. ASSUME SettleStep, NEW t \in Live(v)'
      PROVE  t \in Live(v)
  <2>1. t \in ToolCalls /\ executions'[t].run \in Runs
        /\ admissions'[executions'[t].run].revision = v
        /\ executions'[t].status = "reserved" /\ executions'[t].ttl > 0
    BY DEF Live
  <2>2. executions'[t] = executions[t]
    BY <1>0, <1>2, <2>1, SettlesSame DEF SettleStep
  <2> QED BY <1>2, <2>1, <2>2 DEF SettleStep, Kept, Keeps, Live
<1>3. ASSUME NEW t \in ToolCalls, NEW r \in Runs, NEW e \in Effects, ReserveBegin(t, r, e)
      PROVE  Live(v)' \subseteq Live(v)
  BY <1>3 DEF ReserveBegin, vars, Live
<1>4. ASSUME NEW s \in reserving, ReserveCommit(s)
      PROVE  Cardinality(Live(v)') <= GrantConcurrency
  <2>1. CASE UNCHANGED <<admissions, executions>>
    <3>1. Live(v)' \subseteq Live(v)
      BY <2>1 DEF Live
    <3> QED BY <3>1, FewerLive
  <2>2. CASE ~UNCHANGED <<admissions, executions>>
    <3>1. /\ s.run \in Runs /\ s.call \in ToolCalls /\ StillReservable(s)
          /\ executions'[s.call].run = s.run
          /\ \A u \in ToolCalls \ {s.call} : executions'[u] = executions[u]
          /\ admissions'[s.run] = [admissions[s.run] EXCEPT !.toolCalls = s.gate.used + 1]
          /\ \A o \in Runs \ {s.run} : admissions'[o] = admissions[o]
      BY <1>4, <2>2, CommitMoves
    <3>2. \A r \in Runs : admissions'[r].revision = admissions[r].revision
      <4>1. admissions'[s.run].revision = admissions[s.run].revision
        BY <1>0, <3>1 DEF Admission
      <4> QED BY <3>1, <4>1
    <3>3. CASE v = admissions[s.run].revision
      <4>1. Live(v)' \subseteq Live(v) \cup {s.call}
        BY <3>1, <3>2 DEF Live
      <4>2. Cardinality(Live(v)) = s.gate.active
        BY <3>1, <3>3, GateCounts DEF StillReservable
      <4>3. Cardinality(Live(v)) < GrantConcurrency
        BY <4>2 DEF Affordable
      <4>4. IsFiniteSet(Live(v)) /\ Cardinality(Live(v)) \in Nat
        BY LiveSets
      <4> HIDE DEF Live
      <4>5. /\ Cardinality(Live(v) \cup {s.call}) <= Cardinality(Live(v)) + 1
            /\ IsFiniteSet(Live(v) \cup {s.call})
        BY <4>4, FS_AddElement
      <4>6. /\ Cardinality(Live(v)') <= Cardinality(Live(v) \cup {s.call})
            /\ Cardinality(Live(v)') \in Nat /\ Cardinality(Live(v) \cup {s.call}) \in Nat
        BY <4>1, <4>5, FS_Subset, FS_CardinalityType
      <4> QED BY <4>3, <4>4, <4>5, <4>6, ToolAssumption
    <3>4. CASE v # admissions[s.run].revision
      <4>1. Live(v)' \subseteq Live(v)
        BY <3>1, <3>2, <3>4 DEF Live
      <4> QED BY <4>1, FewerLive
    <3> QED BY <3>3, <3>4
  <2> QED BY <2>1, <2>2
<1>5. ASSUME NEW t \in ToolCalls, Dispatch(t)
      PROVE  Live(v)' \subseteq Live(v)
  <2>1. \A u \in ToolCalls : /\ executions'[u].run = executions[u].run
                             /\ executions'[u].status = executions[u].status
                             /\ executions'[u].ttl = executions[u].ttl
    BY <1>5, DispatchMoves DEF Dispatchable
  <2> QED BY <1>5, <2>1, DispatchMoves DEF Live
<1>6. ASSUME NEW t \in ToolCalls, ApprovalStep(t)
      PROVE  Live(v)' \subseteq Live(v)
  BY <1>6 DEF ApprovalStep, RecordApproval, DecideApproval, Live
<1>7. ASSUME NEW t \in RuntimeCalls, NEW r \in Runs, RuntimeClaim(t, r)
      PROVE  Live(v)' \subseteq Live(v)
  <2>1. \A o \in Runs : admissions'[o].revision = admissions[o].revision
    BY <1>0, <1>7 DEF RuntimeClaim, Admission
  <2> QED BY <1>7, <2>1 DEF RuntimeClaim, Live
<1>8. ASSUME AgeCalls, NEW t \in Live(v)'
      PROVE  t \in Live(v)
  <2>1. t \in ToolCalls
    BY DEF Live
  <2>2. /\ executions'[t].run = executions[t].run /\ executions'[t].status = executions[t].status
        /\ executions'[t].ttl <= executions[t].ttl /\ executions'[t].ttl \in Int
        /\ executions[t].ttl \in Int
    BY <1>0, <1>8, <2>1, AgedCalls DEF Execution
  <2>3. \A r \in Runs : admissions'[r].revision = admissions[r].revision
    BY <1>8, AgedCalls
  <2>4. executions'[t].run \in Runs /\ admissions'[executions'[t].run].revision = v
        /\ executions'[t].status = "reserved" /\ executions'[t].ttl > 0
    BY DEF Live
  <2>5. executions[t].ttl > 0
    BY <2>2, <2>4
  <2>6. /\ executions[t].run \in Runs /\ executions[t].status = "reserved"
        /\ admissions[executions[t].run].revision = v
    BY <2>2, <2>3, <2>4
  <2> QED BY <2>1, <2>5, <2>6 DEF Live
<1>9. Live(v)' \subseteq Live(v) => Cardinality(Live(v)') <= GrantConcurrency
  BY FewerLive
<1> HIDE DEF Live
<1>10. (\E gone \in SUBSET Erased : Sweep(gone)) \/ SettleStep \/ AgeCalls => Live(v)' \subseteq Live(v)
  BY <1>1, <1>2, <1>8
<1> QED BY <1>3, <1>4, <1>5, <1>6, <1>7, <1>9, <1>10 DEF LedgerStep

\* Approvals do not change hands, and are erased only with the call they are for.
LEMMA ApprovedStep ==
  ASSUME ToolTypes, CallsOfRuns, CallsApproved, ReservationsApproved, LedgerStep
  PROVE  CallsApproved' /\ ReservationsApproved'
<1>0. /\ \A u \in ToolCalls : executions[u] \in Execution
      /\ \A r \in Runs : admissions[r] \in Admission
      /\ \A s \in reserving : s.run \in Runs /\ s.call \in ToolCalls
      /\ "none" \notin NeedApproval
  BY ToolAssumption, LimitsAssumption DEF ToolTypes, TypeOK, Reservation
<1>1. ASSUME NEW gone \in SUBSET Erased, Sweep(gone)
      PROVE  CallsApproved' /\ ReservationsApproved'
  <2>1. EraseLedgers(gone) /\ TypeOK
    BY <1>1 DEF Sweep, ToolTypes
  <2>2. ASSUME NEW t \in ToolCalls, executions'[t].effect \in NeedApproval
        PROVE  MatchingApproval(t, executions[t].run, executions[t].effect)'
    <3>1. executions[t].run \notin gone
      <4>1. CASE executions[t].run \in gone
        <5>1. executions'[t] = [NoExecution EXCEPT !.status = "deleted"]
          BY <2>1, <4>1, ErasedEntries
        <5> QED BY <1>0, <2>2, <5>1 DEF NoExecution
      <4> QED BY <4>1
    <3>2. executions'[t] = executions[t]
      BY <2>1, <3>1, ErasedEntries
    <3>3. MatchingApproval(t, executions[t].run, executions[t].effect)
      BY <2>2, <3>2 DEF CallsApproved
    <3>4. approvals'[t] = approvals[t]
      BY <2>1, <3>1, <3>3, ErasedEntries DEF MatchingApproval
    <3> QED BY <3>2, <3>3, <3>4 DEF MatchingApproval
  <2>3. ASSUME NEW s \in reserving', s.effect \in NeedApproval, Present(admissions'[s.run])
        PROVE  MatchingApproval(s.call, s.run, s.effect)'
    <3>1. s \in reserving /\ s.run \in Runs /\ s.call \in ToolCalls
      BY <1>0, <1>1 DEF Sweep
    <3>2. admissions[s.run].status # "none"
      BY <3>1 DEF CallsOfRuns
    <3>3. s.run \notin gone /\ Present(admissions[s.run])
      BY <1>1, <2>3, <3>1, <3>2 DEF Sweep, Kept, Keeps, Born, Deleted, Blank, Present
    <3>4. MatchingApproval(s.call, s.run, s.effect)
      BY <2>3, <3>1, <3>3 DEF ReservationsApproved
    <3>5. approvals'[s.call] = approvals[s.call]
      BY <2>1, <3>1, <3>3, <3>4, ErasedEntries DEF MatchingApproval
    <3> QED BY <3>4, <3>5 DEF MatchingApproval
  <2> QED BY <2>2, <2>3 DEF CallsApproved, ReservationsApproved
<1>2. ASSUME approvals' = approvals,
             \A t \in ToolCalls : executions'[t].run = executions[t].run
                                  /\ executions'[t].effect = executions[t].effect,
             reserving' \subseteq reserving,
             \A r \in Runs : Present(admissions'[r]) => Present(admissions[r])
      PROVE  CallsApproved' /\ ReservationsApproved'
  BY <1>0, <1>2 DEF CallsApproved, ReservationsApproved, MatchingApproval
<1>3. CASE SettleStep
  <2>1. \A t \in ToolCalls : executions'[t].run = executions[t].run
                             /\ executions'[t].effect = executions[t].effect
    BY <1>0, <1>3, SettlesSame DEF SettleStep
  <2> QED BY <1>2, <1>3, <2>1 DEF SettleStep, Kept, Keeps
<1>4. ASSUME NEW t \in ToolCalls, NEW r \in Runs, NEW e \in Effects, ReserveBegin(t, r, e)
      PROVE  CallsApproved' /\ ReservationsApproved'
  <2>1. e \in NeedApproval => MatchingApproval(t, r, e)
    BY <1>4 DEF ReserveBegin, Approved, MatchingApproval
  <2>2. reserving' = reserving \cup {[call |-> t, run |-> r, effect |-> e, gate |-> Gate(r, e)]}
        /\ UNCHANGED <<admissions, executions, approvals>>
    BY <1>4 DEF ReserveBegin, vars
  <2>3. CallsApproved'
    BY <2>2 DEF CallsApproved, MatchingApproval
  <2>4. ReservationsApproved'
    BY <2>1, <2>2 DEF ReservationsApproved, MatchingApproval
  <2> QED BY <2>3, <2>4
<1>5. ASSUME NEW s \in reserving, ReserveCommit(s)
      PROVE  CallsApproved' /\ ReservationsApproved'
  <2>1. CASE UNCHANGED <<admissions, executions>>
    BY <1>2, <1>5, <2>1, CommitMoves
  <2>2. CASE ~UNCHANGED <<admissions, executions>>
    <3>1. /\ s.run \in Runs /\ s.call \in ToolCalls
          /\ admissions[s.run].status = "redeemed"
          /\ executions'[s.call].run = s.run /\ executions'[s.call].effect = s.effect
          /\ \A u \in ToolCalls \ {s.call} : executions'[u] = executions[u]
          /\ admissions'[s.run] = [admissions[s.run] EXCEPT !.toolCalls = s.gate.used + 1]
          /\ \A o \in Runs \ {s.run} : admissions'[o] = admissions[o]
          /\ approvals' = approvals /\ reserving' \subseteq reserving
      BY <1>5, <2>2, CommitMoves
    <3>2. admissions'[s.run].status = admissions[s.run].status
      BY <1>0, <3>1 DEF Admission
    <3>3. s.effect \in NeedApproval => MatchingApproval(s.call, s.run, s.effect)
      BY <3>1 DEF ReservationsApproved, Present
    <3>4. CallsApproved'
      BY <3>1, <3>3 DEF CallsApproved, MatchingApproval
    <3>5. \A r \in Runs : Present(admissions'[r]) => Present(admissions[r])
      BY <3>1, <3>2 DEF Present
    <3>6. ReservationsApproved'
      BY <1>0, <3>1, <3>5 DEF ReservationsApproved, MatchingApproval
    <3> QED BY <3>4, <3>6
  <2> QED BY <2>1, <2>2
<1>6. ASSUME NEW t \in ToolCalls, Dispatch(t)
      PROVE  CallsApproved' /\ ReservationsApproved'
  BY <1>2, <1>6, DispatchMoves
<1>7. ASSUME NEW t \in ToolCalls, ApprovalStep(t)
      PROVE  CallsApproved' /\ ReservationsApproved'
  <2>1. UNCHANGED <<admissions, executions, reserving>> /\ approvals[t].decision # "approved"
    BY <1>7 DEF ApprovalStep, RecordApproval, DecideApproval
  <2>2. \A u \in ToolCalls \ {t} : approvals'[u] = approvals[u]
    BY <1>7 DEF ApprovalStep, RecordApproval, DecideApproval, ToolTypes, TypeOK
  <2>3. CallsApproved'
    BY <2>1, <2>2 DEF CallsApproved, MatchingApproval
  <2>4. ReservationsApproved'
    BY <1>0, <2>1, <2>2 DEF ReservationsApproved, MatchingApproval
  <2> QED BY <2>3, <2>4
<1>8. ASSUME NEW t \in RuntimeCalls, NEW r \in Runs, RuntimeClaim(t, r)
      PROVE  CallsApproved' /\ ReservationsApproved'
  <2>1. \A o \in Runs : admissions'[o].status = admissions[o].status
    BY <1>0, <1>8 DEF RuntimeClaim, Admission, ToolTypes, TypeOK
  <2> QED BY <1>2, <1>8, <2>1 DEF RuntimeClaim, Present
<1>9. ASSUME AgeCalls
      PROVE  CallsApproved' /\ ReservationsApproved'
  BY <1>9, AgedCalls DEF CallsApproved, ReservationsApproved, MatchingApproval
<1> QED BY <1>1, <1>3, <1>4, <1>5, <1>6, <1>7, <1>8, <1>9 DEF LedgerStep

-----------------------------------------------------------------------------
(* Outcomes *)

\* An admission is retained at least Retention from its creation, as long as its age
\* is measured.
RetainedFrom(row) == Present(row) /\ row.age < AgeCap => row.keep + row.age >= Retention

\* A reserved call that is dispatched, or may still be, ends well before its Run's
\* retention does; and a dispatched one is not reserved long after its deadline.
EndsInTime(x) ==
  x.status = "reserved" =>
    /\ x.dispatched \/ x.ttl > 0 =>
         x.ttl <= MaxDuration /\ x.ttl + Retention <= admissions[x.run].keep + MaxDuration
    /\ x.dispatched => x.ttl >= -AlarmLag

CallsEndInTime ==
  /\ \A r \in Runs : RetainedFrom(admissions[r])
  /\ \A t \in ToolCalls : EndsInTime(executions[t])

\* Ageing shortens the retention by what it adds to the age.
LEMMA OlderRetained ==
  ASSUME NEW row \in Admission, RetainedFrom(row)
  PROVE  /\ RetainedFrom(Older(row))
         /\ Older(row).keep \in Nat
         /\ Present(row) /\ row.keep > 0 => Older(row).keep = row.keep - 1
         /\ Present(Older(row)) <=> Present(row)
<1> DEFINE age == IF row.age < AgeCap THEN row.age + 1 ELSE row.age
           runAge == IF row.status = "redeemed" /\ row.runAge < MaxDuration
                     THEN row.runAge + 1 ELSE row.runAge
           keep == IF row.keep > 0 THEN row.keep - 1 ELSE row.keep
<1>1. /\ AgeCap \in Nat /\ Retention \in Nat /\ AgeCap <= Retention
      /\ row.age \in Nat /\ row.age <= AgeCap /\ row.keep \in Nat /\ row.runAge \in Nat
  BY TimeAssumption DEF AgeCap, Admission
<1>2. Present(row) => Older(row) = [row EXCEPT !.age = age, !.runAge = runAge, !.keep = keep]
  BY DEF Older
<1>3. ~Present(row) => Older(row) = row
  BY DEF Older
<1>4. /\ age \in Nat /\ keep \in Nat /\ (row.keep > 0 => keep = row.keep - 1)
      /\ Present(row) /\ age < AgeCap => keep + age >= Retention
  <2>1. CASE row.age < AgeCap /\ row.keep > 0
    BY <1>1, <2>1 DEF RetainedFrom
  <2>2. CASE row.age < AgeCap /\ row.keep = 0
    BY <1>1, <2>2 DEF RetainedFrom
  <2>3. CASE row.age = AgeCap
    BY <1>1, <2>3
  <2> QED BY <1>1, <2>1, <2>2, <2>3
<1> HIDE DEF age, runAge, keep
<1>5. Present(row) => /\ Older(row).age = age /\ Older(row).keep = keep
                      /\ Older(row).status = row.status
  BY <1>2 DEF Admission
<1> QED BY <1>1, <1>3, <1>4, <1>5 DEF RetainedFrom, Present

\* The clocks of a call that is aged.
LEMMA AgedClock ==
  ASSUME ToolTypes, AgeCalls, NEW t \in ToolCalls, executions[t].status = "reserved"
  PROVE  executions'[t].ttl = IF executions[t].ttl > -(AlarmLag + 1)
                              THEN executions[t].ttl - 1 ELSE executions[t].ttl
<1> DEFINE x == executions[t]
           ttl == IF x.ttl > -(AlarmLag + 1) THEN x.ttl - 1 ELSE x.ttl
           permitTtl == IF x.permitTtl > 0 THEN x.permitTtl - 1 ELSE x.permitTtl
<1>1. x \in Execution
  BY DEF ToolTypes, TypeOK
<1>2. executions'[t] = [x EXCEPT !.ttl = ttl, !.permitTtl = permitTtl]
  BY DEF AgeCalls, AgeExecution
<1> HIDE DEF x, ttl, permitTtl
<1>3. executions'[t].ttl = ttl
  BY <1>1, <1>2 DEF Execution
<1> QED BY <1>3 DEF ttl, x

\* The calls of a Run end in time, given that the retention is longer than a Run and
\* the lateness of the alarm together.
LEMMA EndsInTimeStep ==
  ASSUME MaxDuration + AlarmLag < Retention,
         ToolTypes, CallsOfRuns, Affordable, CallsEndInTime, LedgerStep
  PROVE  CallsEndInTime'
<1>0. /\ \A u \in ToolCalls : executions[u] \in Execution
      /\ \A r \in Runs : admissions[r] \in Admission
      /\ admissions \in [Runs -> Admission]
      /\ MaxDuration \in Nat /\ Retention \in Nat /\ AlarmLag \in Nat /\ AgeCap \in Nat
  BY TimeAssumption, ToolAssumption DEF ToolTypes, TypeOK, AgeCap
<1>1. ASSUME NEW old \in Admission, NEW new, NEW dispatched, RetainedFrom(old),
             Keeps(old, new, dispatched)
      PROVE  RetainedFrom(new)
  <2>1. old.age \in Nat /\ old.keep \in Nat
    BY <1>0, <1>1 DEF Admission
  <2> QED BY <1>0, <1>1, <2>1 DEF Keeps, RetainedFrom
<1>2. ASSUME NEW r \in Runs, Born(admissions[r], admissions'[r])
      PROVE  RetainedFrom(admissions'[r])
  BY <1>0, <1>2 DEF Born, RetainedFrom
<1>3. ASSUME NEW t \in ToolCalls, EndsInTime(executions[t]), executions[t].run \in Runs,
             executions'[t].status = "reserved" => executions'[t] = executions[t],
             admissions'[executions[t].run].keep \in {admissions[executions[t].run].keep, Retention}
      PROVE  EndsInTime(executions[t])'
  <2>1. /\ executions[t].ttl \in Int
        /\ admissions[executions[t].run].keep \in Nat
    BY <1>0, <1>3 DEF Execution, Admission
  <2> QED BY <1>0, <1>3, <2>1 DEF EndsInTime
<1>4. ASSUME NEW gone \in SUBSET Erased, Sweep(gone)
      PROVE  CallsEndInTime'
  <2>1. ASSUME NEW r \in Runs
        PROVE  RetainedFrom(admissions'[r])
    <3>1. CASE r \in gone
      BY <1>4, <3>1 DEF Sweep, RetainedFrom, Deleted, Blank, Present
    <3>2. CASE r \notin gone
      BY <1>0, <1>1, <1>2, <1>4, <3>2 DEF Sweep, Kept, CallsEndInTime
    <3> QED BY <3>1, <3>2
  <2>2. ASSUME NEW t \in ToolCalls
        PROVE  EndsInTime(executions[t])'
    <3>1. CASE executions[t].run \in gone
      <4>1. executions'[t] = [NoExecution EXCEPT !.status = "deleted"]
        BY <1>4, <3>1, ErasedEntries DEF Sweep, ToolTypes
      <4> QED BY <4>1 DEF EndsInTime, NoExecution
    <3>2. CASE executions[t].run \notin gone
      <4>1. executions'[t] = executions[t]
        BY <1>4, <3>2, ErasedEntries DEF Sweep, ToolTypes
      <4>2. CASE executions[t].status # "reserved"
        BY <4>1, <4>2 DEF EndsInTime
      <4>3. CASE executions[t].status = "reserved"
        <5>1. executions[t].run \in Runs /\ Present(admissions[executions[t].run])
          BY <4>3 DEF CallsOfRuns, OfRun, Vacant
        <5>2. admissions'[executions[t].run].keep \in {admissions[executions[t].run].keep, Retention}
          BY <1>4, <3>2, <5>1 DEF Sweep, Kept, Keeps, Born, Present
        <5> QED BY <1>3, <4>1, <5>1, <5>2 DEF CallsEndInTime
      <4> QED BY <4>2, <4>3
    <3> QED BY <3>1, <3>2
  <2> QED BY <2>1, <2>2 DEF CallsEndInTime
<1>5. CASE SettleStep
  <2>1. \A r \in Runs : RetainedFrom(admissions'[r])
    BY <1>0, <1>1, <1>5 DEF SettleStep, Kept, CallsEndInTime
  <2>2. ASSUME NEW t \in ToolCalls
        PROVE  EndsInTime(executions[t])'
    <3>1. CASE executions'[t].status # "reserved"
      BY <3>1 DEF EndsInTime
    <3>2. CASE executions'[t].status = "reserved"
      <4>1. executions'[t] = executions[t]
        BY <1>0, <1>5, <3>2, SettlesSame DEF SettleStep
      <4>2. executions[t].run \in Runs
        BY <3>2, <4>1 DEF CallsOfRuns, OfRun, Vacant
      <4> QED BY <1>3, <1>5, <4>1, <4>2 DEF SettleStep, Kept, Keeps, CallsEndInTime
    <3> QED BY <3>1, <3>2
  <2> QED BY <2>1, <2>2 DEF CallsEndInTime
<1>6. ASSUME UNCHANGED <<admissions, executions>>
      PROVE  CallsEndInTime'
  BY <1>6 DEF CallsEndInTime, EndsInTime
<1>7. ASSUME NEW s \in reserving, ReserveCommit(s), ~UNCHANGED <<admissions, executions>>
      PROVE  CallsEndInTime'
  <2>1. /\ s.run \in Runs /\ s.call \in ToolCalls /\ StillReservable(s)
        /\ admissions[s.run].status = "redeemed"
        /\ executions'[s.call].run = s.run /\ executions'[s.call].ttl = LifetimeOf(s)
        /\ ~executions'[s.call].dispatched
        /\ \A u \in ToolCalls \ {s.call} : executions'[u] = executions[u]
        /\ admissions'[s.run] = [admissions[s.run] EXCEPT !.toolCalls = s.gate.used + 1]
        /\ \A o \in Runs \ {s.run} : admissions'[o] = admissions[o]
    BY <1>7, CommitMoves
  <2>2. \A r \in Runs : /\ admissions'[r].keep = admissions[r].keep
                        /\ admissions'[r].age = admissions[r].age
                        /\ admissions'[r].status = admissions[r].status
    <3>1. /\ admissions'[s.run].keep = admissions[s.run].keep
          /\ admissions'[s.run].age = admissions[s.run].age
          /\ admissions'[s.run].status = admissions[s.run].status
      BY <1>0, <2>1 DEF Admission
    <3> QED BY <2>1, <3>1
  <2>3. \A r \in Runs : RetainedFrom(admissions'[r])
    BY <2>2 DEF CallsEndInTime, RetainedFrom, Present
  <2>4. EndsInTime(executions[s.call])'
    <3> DEFINE row == admissions[s.run]
    <3>1. row \in Admission /\ row.age \in Nat /\ row.keep \in Nat
      BY <1>0, <2>1 DEF Admission
    <3>2. s.gate.left = MaxDuration - Smaller(row.age, MaxDuration) /\ s.gate.left > 0
      BY <2>1 DEF StillReservable, Gate, Affordable
    <3> HIDE DEF row
    <3>3. row.age < MaxDuration /\ s.gate.left = MaxDuration - row.age
      BY <1>0, <3>1, <3>2 DEF Smaller
    <3>4. row.age < AgeCap
      BY <1>0, <3>1, <3>3, TimeAssumption DEF AgeCap
    <3>5. row.keep + row.age >= Retention
      BY <2>1, <3>4 DEF CallsEndInTime, RetainedFrom, Present, row
    <3>6. LifetimeOf(s) \in Int /\ LifetimeOf(s) <= s.gate.left
      <4>1. ExecutionLifetime \in Int /\ s.gate.left \in Int
        BY <1>0, <3>1, <3>3, ToolAssumption
      <4> QED BY <4>1, SmallerIs DEF LifetimeOf
    <3>7. LifetimeOf(s) <= MaxDuration /\ LifetimeOf(s) + Retention <= row.keep + MaxDuration
      BY <1>0, <3>1, <3>3, <3>5, <3>6
    <3>8. admissions'[s.run].keep = row.keep
      BY <2>1, <2>2 DEF row
    <3> QED BY <2>1, <3>7, <3>8 DEF EndsInTime
  <2>5. ASSUME NEW t \in ToolCalls \ {s.call}
        PROVE  EndsInTime(executions[t])'
    <3>1. executions'[t] = executions[t]
      BY <2>1
    <3>2. executions[t].status = "reserved" => executions[t].run \in Runs
      BY DEF CallsOfRuns, OfRun, Vacant
    <3> QED BY <2>2, <3>1, <3>2 DEF CallsEndInTime, EndsInTime
  <2> QED BY <2>3, <2>4, <2>5 DEF CallsEndInTime
<1>8. ASSUME NEW t \in ToolCalls, Dispatch(t)
      PROVE  CallsEndInTime'
  <2>1. /\ executions[t].status = "reserved" /\ executions[t].ttl > 0
        /\ executions'[t].run = executions[t].run /\ executions'[t].ttl = executions[t].ttl
        /\ \A u \in ToolCalls \ {t} : executions'[u] = executions[u]
        /\ admissions' = admissions /\ executions[t].ttl \in Int
    BY <1>0, <1>8, DispatchMoves DEF Dispatchable, Execution
  <2>2. EndsInTime(executions[t])'
    BY <1>0, <2>1 DEF CallsEndInTime, EndsInTime
  <2> QED BY <2>1, <2>2 DEF CallsEndInTime, EndsInTime
<1>9. ASSUME NEW t \in RuntimeCalls, NEW r \in Runs, RuntimeClaim(t, r)
      PROVE  CallsEndInTime'
  <2>1. \A o \in Runs : /\ admissions'[o].keep = admissions[o].keep
                        /\ admissions'[o].age = admissions[o].age
                        /\ admissions'[o].status = admissions[o].status
    BY <1>0, <1>9 DEF RuntimeClaim, Admission
  <2>2. executions' = executions
    BY <1>9 DEF RuntimeClaim
  <2>3. \A u \in ToolCalls : executions[u].status = "reserved" => executions[u].run \in Runs
    BY DEF CallsOfRuns, OfRun, Vacant
  <2> QED BY <2>1, <2>2, <2>3 DEF CallsEndInTime, EndsInTime, RetainedFrom, Present
<1>10. ASSUME AgeCalls
       PROVE  CallsEndInTime'
  <2>1. \A r \in Runs : admissions'[r] = Older(admissions[r])
    BY <1>10 DEF AgeCalls, AgeAdmissions
  <2>2. \A r \in Runs : RetainedFrom(admissions'[r])
    BY <1>0, <2>1, OlderRetained DEF CallsEndInTime
  <2>3. ASSUME NEW t \in ToolCalls, executions'[t].status = "reserved"
        PROVE  EndsInTime(executions[t])'
    <3>1. /\ executions[t].status = "reserved" /\ executions'[t].run = executions[t].run
          /\ executions'[t].dispatched = executions[t].dispatched
      BY <1>10, <2>3, AgedCalls
    <3>2. executions[t].run \in Runs /\ Present(admissions[executions[t].run])
      BY <3>1 DEF CallsOfRuns, OfRun, Vacant
    <3> DEFINE ttl == executions[t].ttl
               keep == admissions[executions[t].run].keep
               later == admissions'[executions[t].run].keep
    <3>3. ttl \in Int /\ keep \in Nat /\ later \in Nat /\ (keep > 0 => later = keep - 1)
      <4>1. /\ admissions[executions[t].run] \in Admission
            /\ RetainedFrom(admissions[executions[t].run])
            /\ admissions'[executions[t].run] = Older(admissions[executions[t].run])
        BY <1>0, <2>1, <3>2 DEF CallsEndInTime
      <4> QED BY <1>0, <3>2, <4>1, OlderRetained DEF Execution, Admission
    <3>4. executions'[t].ttl = IF ttl > -(AlarmLag + 1) THEN ttl - 1 ELSE ttl
      BY <1>10, <3>1, AgedClock
    <3>5. /\ executions[t].dispatched \/ ttl > 0 => ttl <= MaxDuration /\ ttl + Retention <= keep + MaxDuration
          /\ executions[t].dispatched => ttl >= -AlarmLag
      BY <3>1 DEF CallsEndInTime, EndsInTime
    <3>6. executions[t].dispatched /\ ttl <= 0 => ttl > -AlarmLag
      BY <1>10, <3>1 DEF AgeCalls, Overdue
    <3> HIDE DEF ttl, keep, later
    <3>7. CASE executions[t].dispatched \/ ttl > 0
      <4>1. ttl > -AlarmLag /\ ttl > -(AlarmLag + 1)
        BY <1>0, <3>3, <3>6, <3>7
      <4>2. ttl <= MaxDuration /\ ttl + Retention <= keep + MaxDuration
        BY <3>5, <3>7
      <4>3. keep > 0
        BY <1>0, <3>3, <4>1, <4>2
      <4>4. executions'[t].ttl = ttl - 1 /\ later = keep - 1
        BY <3>3, <3>4, <4>1, <4>3
      <4>5. /\ executions'[t].ttl <= MaxDuration /\ executions'[t].ttl + Retention <= later + MaxDuration
            /\ executions'[t].ttl >= -AlarmLag
        BY <1>0, <3>3, <4>1, <4>2, <4>4
      <4> QED BY <3>1, <4>5 DEF EndsInTime, later
    <3>8. CASE ~(executions[t].dispatched \/ ttl > 0)
      <4>1. ~executions'[t].dispatched /\ ~(executions'[t].ttl > 0)
        BY <1>0, <3>1, <3>3, <3>4, <3>8
      <4> QED BY <4>1 DEF EndsInTime
    <3> QED BY <3>7, <3>8
  <2> QED BY <2>2, <2>3 DEF CallsEndInTime, EndsInTime
<1>11. ASSUME NEW t \in ToolCalls, ApprovalStep(t)
       PROVE  UNCHANGED <<admissions, executions>>
  BY <1>11 DEF ApprovalStep, RecordApproval, DecideApproval
<1>12. ASSUME NEW t \in ToolCalls, NEW r \in Runs, NEW e \in Effects, ReserveBegin(t, r, e)
       PROVE  UNCHANGED <<admissions, executions>>
  BY <1>12 DEF ReserveBegin, vars
<1> QED BY <1>4, <1>5, <1>6, <1>7, <1>8, <1>9, <1>10, <1>11, <1>12 DEF LedgerStep

\* What one step leaves of the outcome of a call; the third part for dispatched calls
\* of Runs that are not erased.
OutcomeKept(t) ==
  /\ executions[t].status \in {"completed", "failed", "deleted"} =>
       executions'[t].status \in {executions[t].status, "deleted"}
  /\ executions[t].status = "unknown" =>
       executions'[t].status = "unknown" \/ executions'[t].reconciliation # "none"
  /\ executions[t].status = "reserved" /\ executions[t].run \notin Erased =>
       executions'[t].status # "deleted"

\* No step of the ledger rewrites an outcome, and an unknown one keeps its Run.
LEMMA OutcomeStep ==
  ASSUME ToolTypes, CallsOfRuns, LedgerStep, NEW t \in ToolCalls
  PROVE  OutcomeKept(t)
<1>0. executions[t] \in Execution
  BY DEF ToolTypes, TypeOK
<1>1. ASSUME NEW gone \in SUBSET Erased, Sweep(gone)
      PROVE  OutcomeKept(t)
  <2>1. CASE executions[t].run \in gone
    <3>1. executions'[t] = [NoExecution EXCEPT !.status = "deleted"]
      BY <1>1, <2>1, ErasedEntries DEF Sweep, ToolTypes
    <3>2. executions'[t].status = "deleted"
      BY <3>1 DEF NoExecution
    <3>3. executions[t].run \in Erased /\ ~Unresolved(executions[t].run)
      BY <2>1 DEF Erased
    <3> QED BY <3>2, <3>3 DEF OutcomeKept, Unresolved
  <2>2. CASE executions[t].run \notin gone
    BY <1>1, <2>2, ErasedEntries DEF Sweep, ToolTypes, OutcomeKept
  <2> QED BY <2>1, <2>2
<1>2. ASSUME Settles(executions[t], executions'[t])
      PROVE  OutcomeKept(t)
  BY <1>0, <1>2 DEF Settles, OutcomeKept, Execution
<1>3. ASSUME executions'[t].status = executions[t].status
      PROVE  OutcomeKept(t)
  BY <1>3 DEF OutcomeKept
<1>4. ASSUME NEW s \in reserving, ReserveCommit(s)
      PROVE  OutcomeKept(t)
  <2>1. CASE t = s.call
    BY <1>3, <1>4, <2>1, CommitMoves DEF OutcomeKept
  <2>2. CASE t # s.call
    BY <1>3, <1>4, <2>2, CommitMoves
  <2> QED BY <2>1, <2>2
<1>5. ASSUME NEW u \in ToolCalls, Dispatch(u)
      PROVE  executions'[t].status = executions[t].status
  BY <1>5, DispatchMoves DEF Dispatchable
<1>6. ASSUME NEW u \in ToolCalls, ApprovalStep(u)
      PROVE  executions'[t].status = executions[t].status
  BY <1>6 DEF ApprovalStep, RecordApproval, DecideApproval
<1>7. ASSUME NEW u \in ToolCalls, NEW r \in Runs, NEW e \in Effects, ReserveBegin(u, r, e)
      PROVE  executions'[t].status = executions[t].status
  BY <1>7 DEF ReserveBegin, vars
<1>8. ASSUME NEW u \in RuntimeCalls, NEW r \in Runs, RuntimeClaim(u, r)
      PROVE  executions'[t].status = executions[t].status
  BY <1>8 DEF RuntimeClaim
<1>9. ASSUME AgeCalls
      PROVE  executions'[t].status = executions[t].status
  BY <1>9, AgedCalls
<1> QED BY <1>1, <1>2, <1>3, <1>4, <1>5, <1>6, <1>7, <1>8, <1>9 DEF LedgerStep, SettleStep

\* The Run of a dispatched call without an answer is not erased.
LEMMA DispatchedNotErased ==
  ASSUME MaxDuration + AlarmLag < Retention, ToolTypes, CallsOfRuns, CallsEndInTime,
         NEW t \in ToolCalls, executions[t].status = "reserved", executions[t].dispatched
  PROVE  executions[t].run \notin Erased
<1>1. executions[t].run \in Runs
  BY DEF CallsOfRuns, OfRun, Vacant
<1>2. /\ executions[t].ttl \in Int /\ admissions[executions[t].run].keep \in Nat
      /\ MaxDuration \in Nat /\ Retention \in Nat /\ AlarmLag \in Nat
  BY <1>1, TimeAssumption, ToolAssumption DEF ToolTypes, TypeOK, Execution, Admission
<1>3. /\ executions[t].ttl + Retention <= admissions[executions[t].run].keep + MaxDuration
      /\ executions[t].ttl >= -AlarmLag
  BY DEF CallsEndInTime, EndsInTime
<1>4. admissions[executions[t].run].keep > 0
  BY <1>2, <1>3
<1> QED BY <1>2, <1>4 DEF Erased, PastRetention

-----------------------------------------------------------------------------
(* The inductive invariants and the theorems *)

LedgerInv ==
  /\ CallsOfRuns /\ CancellationExcludesDispatch
  /\ Affordable /\ (\A r \in Runs : Budget(r)) /\ GrantBound
  /\ CallsApproved /\ ReservationsApproved

\* An empty ledger.
LEMMA LedgerInit ==
  ASSUME ToolInit
  PROVE  LedgerInv /\ CallsEndInTime
<1>1. /\ \A t \in ToolCalls : executions[t] = NoExecution
      /\ \A t \in RuntimeCalls : runtimeExecutions[t] = NoRuntimeExecution
      /\ \A r \in Runs : admissions[r] = Blank
      /\ reserving = {}
  BY DEF ToolInit, Init
<1>2. CallsOfRuns
  BY <1>1, VacantEntries DEF CallsOfRuns, OfRun, NoExecution
<1>3. CancellationExcludesDispatch /\ Affordable /\ ReservationsApproved
  BY <1>1 DEF CancellationExcludesDispatch, Affordable, ReservationsApproved, Blank
<1>4. ASSUME NEW r \in Runs
      PROVE  Budget(r)
  <2>1. CallsOf(r) = {} /\ RuntimeCallsOfRun(r) = {}
    BY <1>1, VacantEntries DEF CallsOf, RuntimeCallsOfRun
  <2>2. admissions[r].toolCalls = 0
    BY <1>1 DEF Blank
  <2> QED BY <2>1, <2>2, FS_EmptySet, ToolAssumption DEF Budget
<1>5. GrantBound
  <2>1. \A v : Live(v) = {}
    BY <1>1, VacantEntries DEF Live
  <2> QED BY <2>1, FS_EmptySet, ToolAssumption DEF GrantBound
<1>6. CallsApproved
  BY <1>1, ToolAssumption, LimitsAssumption DEF CallsApproved, NoExecution
<1>7. CallsEndInTime
  BY <1>1 DEF CallsEndInTime, RetainedFrom, EndsInTime, Present, Blank, NoExecution
<1> QED BY <1>2, <1>3, <1>4, <1>5, <1>6, <1>7 DEF LedgerInv

\* The conjuncts support each other.
LEMMA LedgerInvStep ==
  ASSUME ToolTypes, LedgerInv, LedgerStep
  PROVE  LedgerInv'
BY CallsOfRunsStep, ExclusionStep, AffordableStep, BudgetStep, GrantBoundStep, ApprovedStep
   DEF LedgerInv

\* The invariant implies what the runs check.
LEMMA LedgerInvImplies ==
  ASSUME ToolTypes, LedgerInv
  PROVE  CancellationExcludesDispatch /\ BudgetConserved /\ GrantRespected
<1>1. BudgetConserved
  BY DEF LedgerInv, Budget, RuntimeCallsOfRun, BudgetConserved
<1>2. ASSUME NEW r \in Runs
      PROVE  Gate(r, "none").active <= GrantConcurrency
  <2>1. admissions[r].revision \in 0..MaxRevision
    BY DEF ToolTypes, TypeOK, Admission
  <2> QED BY <2>1, GateCounts DEF LedgerInv, GrantBound
<1>3. GrantRespected
  BY <1>2 DEF LedgerInv, CallsApproved, MatchingApproval, GrantRespected
<1> QED BY <1>1, <1>3 DEF LedgerInv

\* The invariant of the composed ledger.
THEOREM ToolLedger == ToolSpec => [](ToolTypes /\ LedgerInv)
<1>1. ToolInit => LedgerInv
  BY LedgerInit
<1>2. ToolTypes /\ LedgerInv /\ [ToolNext]_toolVars => LedgerInv'
  BY ToolNextIsLedgerStep, LedgerInvStep DEF ToolTypes
<1>3. ToolSpec => []ToolTypes
  BY ToolTypeCorrect, ToolTypesIs, PTL
<1> QED BY <1>1, <1>2, <1>3, PTL DEF ToolSpec

\* While a cancellation of a Run is requested or complete, none of its calls has
\* reached a provider, however cancellations and dispatches interleave.
THEOREM Exclusion == ToolSpec => []CancellationExcludesDispatch
BY ToolLedger, LedgerInvImplies, PTL

\* The counter of a Run's row is the number of its calls in both ledgers and never
\* passes the budget, though a reservation is decided across an await.
THEOREM BudgetHolds == ToolSpec => []BudgetConserved
BY ToolLedger, LedgerInvImplies, PTL

\* No interleaving of reservations takes a grant past its concurrency, and no call
\* that needs the owner's approval is reserved without that very approval.
THEOREM GrantsHold == ToolSpec => []GrantRespected
BY ToolLedger, LedgerInvImplies, PTL

\* Outcomes are final. That a dispatched write is not forgotten needs a retention
\* that is longer than a Run and the lateness of the alarm together.
THEOREM OutcomesStand ==
  ASSUME MaxDuration + AlarmLag < Retention
  PROVE  ToolSpec => OutcomeIsFinal
<1>1. ToolInit => CallsEndInTime
  BY LedgerInit
<1>2. ToolTypes /\ LedgerInv /\ CallsEndInTime /\ [ToolNext]_toolVars => CallsEndInTime'
  BY ToolNextIsLedgerStep, EndsInTimeStep DEF ToolTypes, LedgerInv
<1>3. ToolTypes /\ LedgerInv /\ CallsEndInTime /\ [ToolNext]_toolVars =>
        [\A t \in ToolCalls :
          /\ executions[t].status \in {"completed", "failed", "deleted"} =>
               executions'[t].status \in {executions[t].status, "deleted"}
          /\ executions[t].status = "unknown" =>
               executions'[t].status = "unknown" \/ executions'[t].reconciliation # "none"
          /\ /\ executions[t].status = "reserved" /\ executions[t].dispatched
             /\ executions[t].effect \notin Reads
             => executions'[t].status # "deleted"]_toolVars
  BY ToolNextIsLedgerStep, OutcomeStep, DispatchedNotErased DEF ToolTypes, LedgerInv, OutcomeKept
<1> QED BY <1>1, <1>2, <1>3, ToolLedger, PTL DEF ToolSpec, OutcomeIsFinal
-----------------------------------------------------------------------------
(* The guarantees of the admissions beside the calls *)

\* Repairing an inbox entry only changes the inbox of a row that a session completed.
LEMMA RepairedRow ==
  ASSUME NEW rows \in [Runs -> Admission], NEW failed, NEW r \in Runs
  PROVE  \/ Repaired(rows, failed)[r] = rows[r]
         \/ /\ Repaired(rows, failed)[r] = [rows[r] EXCEPT !.inbox = "failed"]
            /\ rows[r].inbox = "completed"
BY DEF Repaired

\* A cleanup of some rows and a repair of some inbox entries is an admission step: the
\* settlement of overdue calls, and the end of an alarm.
LEMMA RepairStep ==
  ASSUME TypeOK, Consistent, NEW rows \in [Runs -> Admission], NEW failed,
         \A r \in Runs : rows[r] \in {CleanRow(r), admissions[r]},
         admissions' = Repaired(rows, failed), UNCHANGED <<authority, loading>>
  PROVE  AdmissionStep
<1>1. ASSUME NEW r \in Runs
      PROVE  RowStep(r) /\ Life!Swept(Lived(r), Lives(r))
  <2> DEFINE old == admissions[r]
             new == admissions'[r]
  <2>1. old \in Admission /\ rows[r] \in Admission
    BY DEF TypeOK
  <2>2. \/ new = rows[r]
        \/ new = [rows[r] EXCEPT !.inbox = "failed"] /\ rows[r].inbox = "completed"
    BY RepairedRow
  <2>3. (Quiet(old, rows[r]) \/ Erases(old, rows[r])) /\ Life!Swept(Lived(r), LifeOf(rows[r]))
    <3>1. CASE rows[r] = CleanRow(r)
      BY <3>1, QuietCleanRow, CleanRowSwept
    <3>2. CASE rows[r] = old
      BY <3>2, SameRow DEF Lived, Life!Swept
    <3> QED BY <3>1, <3>2
  <2>4. CASE new = rows[r]
    BY <2>3, <2>4 DEF RowStep, Lives
  <2>5. CASE new = [rows[r] EXCEPT !.inbox = "failed"] /\ rows[r].inbox = "completed"
    <3>1. rows[r] # Deleted /\ rows[r] # Blank
      BY <2>5 DEF Deleted, Blank
    <3>2. Quiet(old, rows[r])
      BY <2>3, <3>1 DEF Erases
    <3>3. old.status \notin {"none", "deleted"}
      BY <3>1, <3>2 DEF Quiet, Consistent
    <3>4. /\ new.request = rows[r].request /\ new.fleet = rows[r].fleet
          /\ new.revision = rows[r].revision /\ new.redeemer = rows[r].redeemer
          /\ new.modelCalls = rows[r].modelCalls /\ new.toolCalls = rows[r].toolCalls
          /\ new.status = rows[r].status /\ new.nonce = rows[r].nonce
          /\ new.cancel = rows[r].cancel /\ new.runAge = rows[r].runAge /\ new.inbox = "failed"
      BY <2>1, <2>5 DEF Admission
    <3>5. Quiet(old, new)
      BY <3>2, <3>3, <3>4, <2>5 DEF Quiet, SameIdentity, Consuming, Present
    <3>6. LifeOf(new) = LifeOf(rows[r])
      BY <3>4, SameLife
    <3> QED BY <2>3, <3>5, <3>6 DEF RowStep, Lives
  <2> QED BY <2>2, <2>4, <2>5
<1>2. [Life!LifeNext]_[r \in Runs |-> LifeOf(admissions[r])]
  BY <1>1, NothingBorn, AllSwept
<1> QED BY <1>1, <1>2 DEF AdmissionStep, RowsMove, AuthorityMove, LoadMove

\* A settlement repairs the rows as they are.
LEMMA SettlementStep ==
  ASSUME TypeOK, Consistent,
         ReconcileExpired \/ \E r \in Runs, blocked \in BOOLEAN : InspectRun(r, blocked)
  PROVE  AdmissionStep
<1>1. PICK failed : admissions' = Repaired(admissions, failed) /\ UNCHANGED <<authority, loading>>
  BY DEF ReconcileExpired, InspectRun
<1> QED BY <1>1, RepairStep DEF TypeOK

\* One more call of a Run that is working under current authority is a claim.
LEMMA ToolClaimStep ==
  ASSUME TypeOK, Consistent, NEW r \in Runs, NEW n, n = admissions[r].toolCalls + 1,
         admissions' = [admissions EXCEPT ![r].toolCalls = n],
         admissions[r].status = "redeemed", admissions[r].cancel = "none",
         ~Superseded(admissions[r]), UNCHANGED <<authority, loading>>
  PROVE  AdmissionStep
<1>1. admissions[r] \in Admission /\ admissions \in [Runs -> Admission]
  BY DEF TypeOK
<1>2. admissions'[r] = [admissions[r] EXCEPT !.toolCalls = n]
  BY <1>1
<1>3. \A o \in Runs \ {r} : admissions'[o] = admissions[o]
  BY <1>1
<1>4. Claims(admissions[r], admissions'[r])
  BY <1>1, <1>2 DEF Claims, SameIdentity, Consuming, Present, Admission
<1> QED BY <1>3, <1>4, ClaimStep

\* A reservation that is still possible when it is committed is a claim: the gate reads
\* the authority again.
LEMMA CommitStep ==
  ASSUME ToolTypes, Consistent, Affordable, NEW s \in reserving, ReserveCommit(s)
  PROVE  AdmissionStep
<1>1. TypeOK /\ s.run \in Runs
  BY DEF ToolTypes, Reservation
<1>2. CASE ~StillReservable(s)
  BY <1>2, SameRowsStep DEF ReserveCommit
<1>3. CASE StillReservable(s)
  <2>1. /\ admissions[s.run].status = "redeemed" /\ admissions[s.run].cancel = "none"
        /\ admissions[s.run].fleet = authority.fleet
        /\ admissions[s.run].toolCalls = s.gate.used
    BY <1>3 DEF StillReservable, GateOpen
  <2>2. authority.agent = "active" /\ authority.revision = admissions[s.run].revision
    <3>1. Gate(s.run, s.effect).agent
      BY <1>3 DEF StillReservable, Affordable
    <3> QED BY <3>1 DEF Gate
  <2>3. ~Superseded(admissions[s.run])
    BY <2>1, <2>2 DEF Superseded
  <2>4. /\ admissions' = [admissions EXCEPT ![s.run].toolCalls = s.gate.used + 1]
        /\ UNCHANGED <<authority, loading>>
    BY <1>3 DEF ReserveCommit
  <2> QED BY <1>1, <2>1, <2>3, <2>4, ToolClaimStep
<1> QED BY <1>2, <1>3

\* Every operation on calls is an admission step.
LEMMA CallNextStep ==
  ASSUME ToolTypes, Consistent, Affordable, CallNext
  PROVE  AdmissionStep
<1>1. TypeOK
  BY DEF ToolTypes
<1>2. CASE \E s \in reserving : ReserveCommit(s)
  BY <1>2, CommitStep
<1>3. CASE \E r \in Runs, blocked \in BOOLEAN : InspectRun(r, blocked)
  BY <1>1, <1>3, SettlementStep
<1>4. CASE \E t \in ToolCalls, r \in Runs, e \in Effects :
             ReserveBegin(t, r, e) \/ RecordApproval(t, r, e)
  BY <1>4, SameRowsStep DEF ReserveBegin, RecordApproval, vars
<1>5. CASE \E t \in ToolCalls :
             \/ Dispatch(t)
             \/ \E outcome \in {"completed", "failed", "unknown"}, oversized \in BOOLEAN :
                  Complete(t, outcome, oversized)
             \/ \E resolution \in {"applied", "not_applied"} : Reconcile(t, resolution)
             \/ \E decision \in {"approved", "rejected"} : DecideApproval(t, decision)
  BY <1>5, SameRowsStep DEF Dispatch, Complete, Reconcile, DecideApproval
<1> QED BY <1>2, <1>3, <1>4, <1>5 DEF CallNext

\* So is every step of the composition.
LEMMA ToolNextStep ==
  ASSUME ToolTypes, Consistent, Affordable, [ToolNext]_toolVars
  PROVE  AdmissionStep
<1>1. TypeOK
  BY DEF ToolTypes
<1>2. CASE AdmissionsNext /\ UNCHANGED reserving
  BY <1>1, <1>2, OperationStep
<1>3. CASE CallNext
  BY <1>3, CallNextStep
<1>4. CASE ReconcileExpired
  BY <1>1, <1>4, SettlementStep
<1>5. CASE ToolTick
  BY <1>1, <1>5, TimeStep DEF ToolTick, AgeCalls
<1>6. CASE ToolRestart \/ UNCHANGED toolVars
  BY <1>6, SameRowsStep DEF ToolRestart, toolVars, vars
<1> QED BY <1>2, <1>3, <1>4, <1>5, <1>6 DEF ToolNext

\* The composition behaves towards the admissions as the ledger alone does.
LEMMA ToolSpecBehaves == ToolSpec => AdmissionBehaviour
<1>1. ToolInit => Init
  BY DEF ToolInit
<1>2. ToolTypes /\ LedgerInv /\ [ToolNext]_toolVars => [Consistent => AdmissionStep]_vars
  BY ToolNextStep DEF LedgerInv
<1>3. ToolTypes => TypeOK
  BY DEF ToolTypes
<1> QED BY <1>1, <1>2, <1>3, ToolLedger, PTL DEF ToolSpec, AdmissionBehaviour

\* What the admission ledger promises it promises beside the calls that draw on its
\* rows: reservations decided across an await spend a Run's budget, a settlement
\* repairs its inbox entry, and still no superseded or cancelled Run gets one call
\* more and every step is a step of the Run's life.
THEOREM ToolAdmissions ==
  ToolSpec => /\ [](OneRunPerKey /\ NewestPermitRedeems /\ CapacityRespected)
              /\ CancelledIsFinal /\ RevocationIsFinal /\ StatusOrder /\ StaleLoadRefused
              /\ ImplementsRunLife
<1>1. AdmissionInv => OneRunPerKey /\ NewestPermitRedeems /\ CapacityRespected
  BY DEF AdmissionInv
<1> QED BY <1>1, ToolSpecBehaves, AdmissionInvariant, BehaviourCancels, BehaviourRevokes,
           BehaviourOrders, BehaviourLoads, BehaviourLives, PTL
=============================================================================
