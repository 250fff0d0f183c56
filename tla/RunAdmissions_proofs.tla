------------------------ MODULE RunAdmissions_proofs ------------------------
(***************************************************************************)
(* Proofs about the admission ledger. What a step may do to one row is     *)
(* proved once, as the lemma RowSteps; the theorems follow from it. At the *)
(* end, the ledger is shown to implement the abstract life of its Runs:    *)
(* every step advances at most one Run by one step of its life, while any  *)
(* others are refused or collected.                                        *)
(***************************************************************************)
EXTENDS RunLifeRefinement, FiniteSetTheorems, TLAPS

-----------------------------------------------------------------------------
(* Types *)

\* A row that was never used and the row of a deleted Run are well typed.
LEMMA BlankType == Blank \in Admission /\ Deleted \in Admission
<1>1. AgeCap \in Nat
  BY TimeAssumption DEF AgeCap
<1>2. Blank \in Admission
  BY <1>1, TimeAssumption, LimitsAssumption DEF Blank, Admission
<1> QED BY <1>2 DEF Deleted, Admission

\* Expiring the permit of a row (module.ts:1325-1339) keeps it well typed.
LEMMA ExpiredType ==
  ASSUME NEW row \in Admission
  PROVE  Expired(row) \in Admission
  BY DEF Expired, Admission

\* What #cleanup does to one row keeps it well typed.
LEMMA CleanRowType ==
  ASSUME TypeOK, NEW r \in Runs
  PROVE  CleanRow(r) \in Admission
<1>1. admissions[r] \in Admission
  BY DEF TypeOK
<1>2. Expired(admissions[r]) \in Admission
  BY <1>1, ExpiredType
<1>3. [Expired(admissions[r]) EXCEPT !.keep = Retention] \in Admission
  BY <1>2, TimeAssumption DEF Admission
<1> QED BY <1>2, <1>3, BlankType DEF CleanRow

\* The whole cleanup keeps the ledger well typed.
LEMMA CleanedType ==
  ASSUME TypeOK
  PROVE  Cleaned \in [Runs -> Admission]
  BY CleanRowType DEF Cleaned

\* The rows of tools, approvals and Sandboxes that a cleanup deletes with their
\* admission stay well typed.
LEMMA LedgersType ==
  ASSUME TypeOK, CleanLedgers
  PROVE  /\ executions' \in [ToolCalls -> Execution]
         /\ approvals' \in [ToolCalls -> Approval]
         /\ runtimeExecutions' \in [RuntimeCalls -> RuntimeExecution]
<1>1. [NoExecution EXCEPT !.status = "deleted"] \in Execution
  <2>1. NoExecution \in Execution
    BY DEF NoExecution, Execution
  <2> QED BY <2>1 DEF Execution
<1>2. NoApproval \in Approval
  BY DEF NoApproval, Approval
<1>3. [NoRuntimeExecution EXCEPT !.status = "deleted"] \in RuntimeExecution
  <2>1. NoRuntimeExecution \in RuntimeExecution
    BY DEF NoRuntimeExecution, RuntimeExecution
  <2> QED BY <2>1 DEF RuntimeExecution
<1> QED BY <1>1, <1>2, <1>3 DEF CleanLedgers, EraseLedgers, TypeOK

\* The empty ledger of a new owner is well typed.
THEOREM TypeInit == Init => TypeOK
<1> SUFFICES ASSUME Init PROVE TypeOK
  OBVIOUS
<1>1. authority \in Authority
  BY LimitsAssumption DEF Init, Authority
<1>2. NoExecution \in Execution /\ NoApproval \in Approval /\ NoRuntimeExecution \in RuntimeExecution
  BY DEF NoExecution, Execution, NoApproval, Approval, NoRuntimeExecution, RuntimeExecution
<1> QED BY <1>1, <1>2, BlankType DEF Init, TypeOK

\* Writing one field of one row keeps a ledger well typed.
LEMMA FieldTypes ==
  ASSUME NEW rows \in [Runs -> Admission], NEW r \in Runs
  PROVE  /\ \A v \in {"issued", "redeemed", "expired"} :
              [rows EXCEPT ![r].status = v] \in [Runs -> Admission]
         /\ \A v \in {"none", "requested", "cancelled"} :
              [rows EXCEPT ![r].cancel = v] \in [Runs -> Admission]
         /\ \A v \in {"none"} \cup RunStatuses :
              [rows EXCEPT ![r].inbox = v] \in [Runs -> Admission]
         /\ \A v \in BOOLEAN : [rows EXCEPT ![r].recorded = v] \in [Runs -> Admission]
         /\ \A v \in BOOLEAN : [rows EXCEPT ![r].brief = v] \in [Runs -> Admission]
         /\ \A v \in 0..MaxNonce : [rows EXCEPT ![r].redeemer = v] \in [Runs -> Admission]
<1> DEFINE row == rows[r]
<1>1. row \in Admission
  OBVIOUS
<1>2. ASSUME NEW new \in Admission
      PROVE  [rows EXCEPT ![r] = new] \in [Runs -> Admission]
  OBVIOUS
<1>3. ASSUME NEW v \in {"issued", "redeemed", "expired"}
      PROVE  [rows EXCEPT ![r].status = v] \in [Runs -> Admission]
  <2>1. [row EXCEPT !.status = v] \in Admission
    BY <1>1 DEF Admission
  <2> QED BY <1>2, <2>1
<1>4. ASSUME NEW v \in {"none", "requested", "cancelled"}
      PROVE  [rows EXCEPT ![r].cancel = v] \in [Runs -> Admission]
  <2>1. [row EXCEPT !.cancel = v] \in Admission
    BY <1>1 DEF Admission
  <2> QED BY <1>2, <2>1
<1>5. ASSUME NEW v \in {"none"} \cup RunStatuses
      PROVE  [rows EXCEPT ![r].inbox = v] \in [Runs -> Admission]
  <2>1. [row EXCEPT !.inbox = v] \in Admission
    BY <1>1 DEF Admission
  <2> QED BY <1>2, <2>1
<1>6. ASSUME NEW v \in BOOLEAN
      PROVE  [rows EXCEPT ![r].recorded = v] \in [Runs -> Admission]
  <2>1. [row EXCEPT !.recorded = v] \in Admission
    BY <1>1 DEF Admission
  <2> QED BY <1>2, <2>1
<1>7. ASSUME NEW v \in BOOLEAN
      PROVE  [rows EXCEPT ![r].brief = v] \in [Runs -> Admission]
  <2>1. [row EXCEPT !.brief = v] \in Admission
    BY <1>1 DEF Admission
  <2> QED BY <1>2, <2>1
<1>8. ASSUME NEW v \in 0..MaxNonce
      PROVE  [rows EXCEPT ![r].redeemer = v] \in [Runs -> Admission]
  <2>1. [row EXCEPT !.redeemer = v] \in Admission
    BY <1>1 DEF Admission
  <2> QED BY <1>2, <2>1
<1> QED BY <1>3, <1>4, <1>5, <1>6, <1>7, <1>8

\* Every action but the owner's writes rows of admissions only, after a cleanup or
\* without one.
LEMMA AdmissionsStepType ==
  ASSUME TypeOK, AdmissionsNext
  PROVE  TypeOK'
<1> DEFINE Same == UNCHANGED <<executions, approvals, runtimeExecutions>>
<1>1. Same => /\ executions' \in [ToolCalls -> Execution]
              /\ approvals' \in [ToolCalls -> Approval]
              /\ runtimeExecutions' \in [RuntimeCalls -> RuntimeExecution]
  BY DEF TypeOK
<1> USE CleanedType, LedgersType
<1>0. admissions \in [Runs -> Admission]
  BY DEF TypeOK
<1>2. ASSUME NEW q \in Requests, NEW b \in BriefUse, CreateNew(q, b)
      PROVE  TypeOK'
  <2>1. NewAdmission(q, b) \in Admission
    <3>1. b \in BOOLEAN /\ 1 \in 0..MaxNonce
      BY LimitsAssumption
    <3>2. authority.fleet \in 0..MaxRevision /\ authority.revision \in 0..MaxRevision
      BY LimitsAssumption DEF TypeOK, Authority
    <3>3. ASSUME NEW granted \in BOOLEAN
          PROVE  [Blank EXCEPT !.status = "issued", !.request = q, !.nonce = 1,
                    !.fleet = authority.fleet, !.revision = authority.revision,
                    !.granted = granted, !.brief = b, !.keep = Retention] \in Admission
      <4>1. Retention \in 0..Retention
        BY TimeAssumption
      <4>2. [Blank EXCEPT !.status = "issued", !.request = q, !.nonce = 1] \in Admission
        BY <3>1, BlankType DEF Admission
      <4> DEFINE issued == [Blank EXCEPT !.status = "issued", !.request = q, !.nonce = 1]
      <4>3. [issued EXCEPT !.fleet = authority.fleet, !.revision = authority.revision,
                           !.granted = granted, !.brief = b, !.keep = Retention] \in Admission
        <5> HIDE DEF issued
        <5> QED BY <3>1, <3>2, <4>1, <4>2 DEF Admission, issued
      <4> QED BY <4>3
    <3>4. (authority.grant = "active") \in BOOLEAN
      OBVIOUS
    <3> QED BY <3>3, <3>4 DEF NewAdmission
  <2> QED BY <1>2, <2>1 DEF CreateNew, TypeOK
<1>3. ASSUME NEW q \in Requests, CreateReissue(q)
      PROVE  TypeOK'
  <2>1. PICK r \in Runs : /\ Cleaned[r].nonce < MaxNonce
                          /\ admissions' = [Cleaned EXCEPT ![r].nonce = @ + 1]
    BY <1>3 DEF CreateReissue, Matching
  <2>2. Cleaned[r].nonce + 1 \in 0..MaxNonce
    BY <2>1, LimitsAssumption DEF Admission
  <2>3. admissions' \in [Runs -> Admission]
    BY <2>1, <2>2 DEF Admission
  <2> QED BY <1>3, <2>3 DEF CreateReissue, TypeOK
<1>4. ASSUME NEW q \in Requests, CreateStale(q)
      PROVE  TypeOK'
  <2>1. admissions' \in [Runs -> Admission]
    BY <1>4 DEF CreateStale, Matching, Admission
  <2> QED BY <1>4, <2>1 DEF CreateStale, TypeOK
<1>5. ASSUME Cleanup
      PROVE  TypeOK'
  BY <1>5 DEF Cleanup, TypeOK
<1>6. ASSUME NEW r \in Runs, RequestCancellation(r) \/ CompleteCancellation(r) \/ ReleaseCancellation(r)
      PROVE  TypeOK'
  <2>1. admissions' \in [Runs -> Admission]
    <3>1. PICK v \in {"none", "requested", "cancelled"} : admissions' = [admissions EXCEPT ![r].cancel = v]
      BY <1>6 DEF RequestCancellation, CompleteCancellation, ReleaseCancellation
    <3> QED BY <1>0, <3>1, FieldTypes
  <2> QED BY <1>1, <1>6, <2>1
       DEF RequestCancellation, CompleteCancellation, ReleaseCancellation, ledgers, TypeOK
<1>7. ASSUME NEW r \in Runs, NEW nonce \in 1..MaxNonce, NEW delivered \in BOOLEAN,
             Verify(r, nonce, delivered)
      PROVE  TypeOK'
  <2>1. admissions' \in [Runs -> Admission]
    BY <1>7 DEF Verify, Admission
  <2>2. loading' \subseteq Permits
    BY <1>7 DEF Verify, Permits, TypeOK
  <2> QED BY <1>7, <2>1, <2>2 DEF Verify, TypeOK
<1>8. ASSUME NEW r \in Runs, NEW nonce \in 1..MaxNonce, Confirm(r, nonce)
      PROVE  TypeOK'
  <2>1. nonce \in 0..MaxNonce
    OBVIOUS
  <2>2. admissions' \in [Runs -> Admission]
    <3>1. [Cleaned EXCEPT ![r].status = "redeemed", ![r].redeemer = nonce] \in [Runs -> Admission]
      <4> DEFINE marked == [Cleaned EXCEPT ![r].status = "redeemed"]
      <4>1. marked \in [Runs -> Admission]
        BY FieldTypes
      <4>2. [marked EXCEPT ![r].redeemer = nonce] \in [Runs -> Admission]
        <5> HIDE DEF marked
        <5> QED BY <2>1, <4>1, FieldTypes
      <4> QED BY <4>2
    <3>2. [Cleaned EXCEPT ![r].status = "expired"] \in [Runs -> Admission]
      BY FieldTypes
    <3> QED BY <1>8, <3>1, <3>2 DEF Confirm
  <2> QED BY <1>8, <2>2 DEF Confirm, TypeOK
<1>9. ASSUME NEW r \in Runs, NEW b \in BriefUse, VerifyActive(r, b)
      PROVE  TypeOK'
  <2>1. ClaimsModelCall(Cleaned[r], b) => Cleaned[r].modelCalls + 1 \in 0..MaxModelCalls
    BY LimitsAssumption DEF ClaimsModelCall, Admission
  <2>2. admissions' \in [Runs -> Admission]
    BY <1>9, <2>1 DEF VerifyActive, Admission
  <2> QED BY <1>9, <2>2 DEF VerifyActive, TypeOK
<1>10. ASSUME NEW r \in Runs, DiscardRecord(r) \/ ReleaseBriefContext(r)
       PROVE  TypeOK'
  <2>1. admissions' \in [Runs -> Admission]
    <3>1. ASSUME NEW x \in BOOLEAN
          PROVE  [admissions EXCEPT ![r].recorded = x] \in [Runs -> Admission]
      BY <1>0, FieldTypes
    <3>2. ASSUME NEW x \in BOOLEAN
          PROVE  [admissions EXCEPT ![r].brief = x] \in [Runs -> Admission]
      BY <1>0, FieldTypes
    <3>3. FALSE \in BOOLEAN
      OBVIOUS
    <3> QED BY <1>10, <3>1, <3>2, <3>3 DEF DiscardRecord, ReleaseBriefContext
  <2> QED BY <1>1, <1>10, <2>1 DEF DiscardRecord, ReleaseBriefContext, ledgers, TypeOK
<1>11. ASSUME NEW r \in Runs, NEW s \in Reported, RecordRun(r, s)
       PROVE  TypeOK'
  <2>1. admissions' \in [Runs -> Admission]
    <3>1. Recorded(r, s) \in {"none"} \cup RunStatuses
      BY LimitsAssumption DEF Recorded, RunStatuses
    <3> QED BY <1>0, <1>11, <3>1, FieldTypes DEF RecordRun
  <2> QED BY <1>1, <1>11, <2>1 DEF RecordRun, ledgers, TypeOK
<1>12. ASSUME NEW p \in loading, NEW loaded \in BOOLEAN, NEW delivered \in BOOLEAN,
              VerifyLoaded(p, loaded, delivered)
       PROVE  TypeOK'
  <2>1. p.run \in Runs
    BY DEF TypeOK, Permits
  <2>2. admissions' \in [Runs -> Admission]
    <3>1. [admissions EXCEPT ![p.run].status = "expired"] \in [Runs -> Admission]
      BY <1>0, <2>1, FieldTypes
    <3>2. [admissions EXCEPT ![p.run].recorded = @ \/ delivered] \in [Runs -> Admission]
      <4>1. (admissions[p.run].recorded \/ delivered) \in BOOLEAN
        OBVIOUS
      <4> DEFINE v == admissions[p.run].recorded \/ delivered
      <4>2. [admissions EXCEPT ![p.run].recorded = v] \in [Runs -> Admission]
        <5> HIDE DEF v
        <5> QED BY <1>0, <2>1, <4>1, FieldTypes DEF v
      <4> QED BY <4>2
    <3> QED BY <1>12, <3>1, <3>2 DEF VerifyLoaded, TypeOK
  <2> QED BY <1>1, <1>12, <2>2 DEF VerifyLoaded, ledgers, TypeOK
<1>13. ASSUME ChangeAuthority
       PROVE  TypeOK'
  <2>1. authority' \in Authority
    <3> USE LimitsAssumption DEF TypeOK, Authority
    <3>1. CASE ConfigureFleet
      BY <3>1 DEF ConfigureFleet
    <3>2. CASE UpdateAgent
      <4>1. authority.revision + 1 \in 1..MaxRevision
        BY <3>2 DEF UpdateAgent
      <4>2. (IF authority.grant = "active" THEN "active" ELSE "none") \in {"active", "none"}
        OBVIOUS
      <4> QED BY <3>2, <4>1, <4>2 DEF UpdateAgent
    <3>3. CASE DisableAgent \/ RevokeGrant
      BY <3>3 DEF DisableAgent, RevokeGrant
    <3>4. CASE RevokeConnection
      BY <3>4 DEF RevokeConnection
    <3>5. CASE ChangeCatalog
      BY <3>5 DEF ChangeCatalog
    <3>6. CASE ChangeSkill
      BY <3>6 DEF ChangeSkill
    <3> QED BY <1>13, <3>1, <3>2, <3>3, <3>4, <3>5, <3>6 DEF ChangeAuthority
  <2> QED BY <1>1, <1>13, <2>1 DEF ChangeAuthority, ledgers, TypeOK
<1>14. ASSUME NEW q \in Requests, CreateAnswered(q)
       PROVE  TypeOK'
  BY <1>5, <1>14 DEF CreateAnswered
<1> QED
  BY <1>2, <1>3, <1>4, <1>5, <1>6, <1>7, <1>8, <1>9, <1>10, <1>11, <1>12, <1>13, <1>14
  DEF AdmissionsNext, CreateNext, RunNext, LoadNext

\* The passing of time stops at its bounds: a row that ages stays well typed.
LEMMA AgeType ==
  ASSUME TypeOK, AgeAdmissions
  PROVE  admissions' \in [Runs -> Admission]
<1>1. ASSUME NEW r \in Runs
      PROVE  Older(admissions[r]) \in Admission
  <2>1. AgeCap \in Nat
    BY TimeAssumption DEF AgeCap
  <2> DEFINE row == admissions[r]
             age == IF row.age < AgeCap THEN row.age + 1 ELSE row.age
             runAge == IF row.status = "redeemed" /\ row.runAge < MaxDuration
                       THEN row.runAge + 1 ELSE row.runAge
             keep == IF row.keep > 0 THEN row.keep - 1 ELSE row.keep
  <2>2. row \in Admission
    BY DEF TypeOK
  <2>3. age \in 0..AgeCap /\ runAge \in 0..MaxDuration /\ keep \in 0..Retention
    BY <2>1, <2>2, TimeAssumption DEF Admission
  <2>4. [row EXCEPT !.age = age, !.runAge = runAge, !.keep = keep] \in Admission
    <3> HIDE DEF age, runAge, keep, row
    <3> QED BY <2>2, <2>3 DEF Admission
  <2> QED BY <2>2, <2>4 DEF Older
<1> QED BY <1>1 DEF AgeAdmissions

\* Every reachable state of the ledger is well typed.
THEOREM TypeCorrect == Spec => []TypeOK
<1>1. Init => TypeOK
  BY TypeInit
<1>2. TypeOK /\ [Next]_vars => TypeOK'
  <2> SUFFICES ASSUME TypeOK, [Next]_vars PROVE TypeOK'
    OBVIOUS
  <2>1. CASE AdmissionsNext
    BY <2>1, AdmissionsStepType
  <2>2. CASE Tick
    BY <2>2, AgeType DEF Tick, ledgers, TypeOK
  <2>3. CASE Restart
    BY <2>3 DEF Restart, ledgers, TypeOK
  <2>4. CASE UNCHANGED vars
    BY <2>4 DEF vars, TypeOK
  <2> QED BY <2>1, <2>2, <2>3, <2>4 DEF Next
<1> QED BY <1>1, <1>2, PTL DEF Spec
-----------------------------------------------------------------------------
(* What one step may do to one row *)

SameIdentity(old, new) ==
  /\ new.request = old.request
  /\ new.fleet = old.fleet
  /\ new.revision = old.revision

\* The row is left alone, or expires, ages, is reissued, or changes where the
\* theorems do not look; it does not begin to hold a slot.
Quiet(old, new) ==
  /\ SameIdentity(old, new)
  /\ new.redeemer = old.redeemer
  /\ new.modelCalls = old.modelCalls /\ new.toolCalls = old.toolCalls
  /\ new.status = old.status \/ (old.status = "issued" /\ new.status = "expired")
  /\ new.nonce = old.nonce \/ (old.status = "issued" /\ new.status = "issued")
  /\ old.cancel = "cancelled" => new.cancel = "cancelled"
  /\ Consuming(new) => Consuming(old)
  /\ old.status \in {"none", "deleted"} => new = old

Erases(old, new) == Present(old) /\ new = Deleted

\* The newest permit starts the Run.
Redeems(old, new) ==
  /\ SameIdentity(old, new)
  /\ old.status = "issued" /\ new.status = "redeemed"
  /\ old.cancel = "none" /\ new.cancel = "none"
  /\ new.nonce = old.nonce /\ new.redeemer = new.nonce
  /\ new.modelCalls = old.modelCalls /\ new.toolCalls = old.toolCalls

\* The Run claims a model call, or a tool call.
Claims(old, new) ==
  /\ SameIdentity(old, new)
  /\ old.status = "redeemed" /\ new.status = "redeemed"
  /\ old.cancel = "none" /\ new.cancel = "none"
  /\ new.nonce = old.nonce /\ new.redeemer = old.redeemer
  /\ \/ new.modelCalls = old.modelCalls + 1 /\ new.toolCalls = old.toolCalls
     \/ new.modelCalls = old.modelCalls /\ new.toolCalls = old.toolCalls + 1
  /\ Consuming(new) => Consuming(old)

Admits(r) ==
  /\ admissions[r].status = "none"
  /\ \E q \in Requests, b \in BOOLEAN : admissions'[r] = NewAdmission(q, b)
  /\ \A o \in Runs \ {r} :
       Present(admissions'[o]) => admissions'[o].request.key # admissions'[r].request.key
  /\ Cardinality({o \in Runs \ {r} : Consuming(admissions'[o])}) < MaxConcurrentRuns

RowStep(r) ==
  LET old == admissions[r] new == admissions'[r] IN
  \/ Quiet(old, new)
  \/ Erases(old, new)
  \/ (Redeems(old, new) \/ Claims(old, new)) /\ ~Superseded(old)
  \/ Admits(r)

\* A new admission carries the revisions that are current when it is created.
LEMMA AdmitsFresh ==
  ASSUME NEW r \in Runs, Admits(r)
  PROVE  /\ admissions'[r].status = "issued"
         /\ admissions'[r].fleet = authority.fleet
         /\ admissions'[r].revision = authority.revision
BY DEF Admits, NewAdmission, Blank

\* The cleanup either deletes a row or does it no harm: it starts no Run and
\* frees or takes no slot but by expiry.
LEMMA QuietCleanRow ==
  ASSUME TypeOK, NEW r \in Runs
  PROVE  Quiet(admissions[r], CleanRow(r)) \/ Erases(admissions[r], CleanRow(r))
<1>1. admissions[r] \in Admission
  BY DEF TypeOK
<1>2. Quiet(admissions[r], Expired(admissions[r]))
  BY <1>1 DEF Quiet, SameIdentity, Expired, Consuming, Present, Admission
<1>3. ASSUME Present(admissions[r])
      PROVE  Quiet(admissions[r], [Expired(admissions[r]) EXCEPT !.keep = Retention])
  BY <1>1, <1>3 DEF Quiet, SameIdentity, Expired, Consuming, Present, Admission
<1> QED BY <1>1, <1>2, <1>3 DEF CleanRow, PastRetention, Erases

\* The cleanup leaves a row that can still be used as it was.
LEMMA CleanRowUsable ==
  ASSUME TypeOK, NEW r \in Runs, CleanRow(r).status \in {"issued", "redeemed"}
  PROVE  CleanRow(r) = [admissions[r] EXCEPT !.keep = CleanRow(r).keep]
<1>1. admissions[r] \in Admission
  BY DEF TypeOK
<1>2. CleanRow(r) \in {admissions[r], [admissions[r] EXCEPT !.keep = Retention]}
  BY <1>1 DEF CleanRow, PastRetention, Expired, Deleted, Blank, Admission
<1> QED BY <1>1, <1>2 DEF Admission

\* Every Run that holds a slot is counted by the capacity check of create
\* (module.ts:576): the count is never too low.
LEMMA ConsumingIsActive ==
  ASSUME NEW row \in Admission, Consuming(row)
  PROVE  Active(row)
<1>1. Present(row)
  BY DEF Consuming
<1>2. CASE row.cancel = "requested"
  <2>1. Projected(row) = "cancelling"
    BY <1>2 DEF Projected
  <2> QED BY <1>1, <2>1 DEF Active
<1>3. CASE row.cancel = "none" /\ row.status = "issued"
  <2>1. Projected(row) = "queued"
    BY <1>3 DEF Projected
  <2> QED BY <1>1, <2>1 DEF Active
<1>4. CASE row.cancel = "none" /\ row.status = "redeemed" /\ row.inbox = "running"
  <2>1. Projected(row) = "running"
    BY <1>4 DEF Projected
  <2> QED BY <1>1, <2>1 DEF Active
<1>5. CASE row.cancel = "none" /\ row.status = "redeemed" /\ row.inbox = "none"
  <2>1. row.runAge < MaxDuration
    BY <1>5 DEF Consuming
  <2>2. Projected(row) = IF row.runAge >= MaxDuration THEN "failed" ELSE "running"
    BY <1>5 DEF Projected
  <2>3. row.runAge \in Nat /\ MaxDuration \in Nat
    BY TimeAssumption DEF Admission
  <2> QED BY <1>1, <2>1, <2>2, <2>3 DEF Active
<1> QED BY <1>2, <1>3, <1>4, <1>5 DEF Consuming, Admission

\* create inserts a row only where none has its key and a slot is free.
LEMMA AdmitStep ==
  ASSUME TypeOK, NEW q \in Requests, NEW b \in BriefUse, CreateNew(q, b), NEW r \in Runs
  PROVE  RowStep(r)
<1>1. Cleaned \in [Runs -> Admission]
  BY CleanedType
<1>2. PICK s \in Runs : /\ admissions[s].status = "none"
                        /\ admissions' = [Cleaned EXCEPT ![s] = NewAdmission(q, b)]
  BY DEF CreateNew
<1>3. CASE r # s
  <2>1. admissions'[r] = CleanRow(r)
    BY <1>2, <1>3 DEF Cleaned
  <2> QED BY <2>1, QuietCleanRow DEF RowStep
<1>4. CASE r = s
  <2>1. admissions'[r] = NewAdmission(q, b) /\ admissions'[r].request = q
    BY <1>1, <1>2, <1>4 DEF NewAdmission, Blank
  <2>2. \A o \in Runs \ {r} : admissions'[o] = Cleaned[o] /\ admissions'[o] \in Admission
    BY <1>1, <1>2, <1>4
  <2>3. ASSUME NEW o \in Runs \ {r}, Present(admissions'[o])
        PROVE  admissions'[o].request.key # admissions'[r].request.key
    BY <2>1, <2>2, <2>3 DEF CreateNew, Matching
  <2>4. Cardinality({o \in Runs \ {r} : Consuming(admissions'[o])}) < MaxConcurrentRuns
    <3> DEFINE Others == {o \in Runs \ {r} : Consuming(admissions'[o])}
    <3>1. Others \subseteq ActiveRuns(Cleaned)
      BY <2>2, ConsumingIsActive DEF ActiveRuns
    <3>2. IsFiniteSet(ActiveRuns(Cleaned))
      BY LimitsAssumption, FS_Subset DEF ActiveRuns
    <3>3. Cardinality(ActiveRuns(Cleaned)) < MaxConcurrentRuns
      BY DEF CreateNew, HasCapacity
    <3>4. IsFiniteSet(Others) /\ Cardinality(Others) <= Cardinality(ActiveRuns(Cleaned))
      BY <3>1, <3>2, FS_Subset
    <3>5. Cardinality(Others) \in Nat /\ Cardinality(ActiveRuns(Cleaned)) \in Nat
      BY <3>2, <3>4, FS_CardinalityType
    <3> HIDE DEF Others
    <3>6. Cardinality(Others) < MaxConcurrentRuns
      BY <3>3, <3>4, <3>5, LimitsAssumption
    <3> QED BY <3>6 DEF Others
  <2>5. b \in BOOLEAN
    BY LimitsAssumption
  <2> QED BY <1>2, <1>4, <2>1, <2>3, <2>4, <2>5 DEF RowStep, Admits
<1> QED BY <1>3, <1>4

\* A row that is left alone takes a quiet step.
LEMMA SameRow ==
  ASSUME NEW row
  PROVE  Quiet(row, row)
BY DEF Quiet, SameIdentity

\* An expiry of an issued permit is a quiet step.
LEMMA ExpiringRow ==
  ASSUME NEW row \in Admission, row.status = "issued"
  PROVE  Quiet(row, [row EXCEPT !.status = "expired"])
BY DEF Quiet, SameIdentity, Consuming, Present, Admission

\* After a cleanup that left r usable, an expiry of r is still a quiet step.
LEMMA ExpiringCleanRow ==
  ASSUME TypeOK, NEW r \in Runs, CleanRow(r).status = "issued"
  PROVE  Quiet(admissions[r], [CleanRow(r) EXCEPT !.status = "expired"])
<1>1. admissions[r] \in Admission
  BY DEF TypeOK
<1>2. CleanRow(r) = [admissions[r] EXCEPT !.keep = CleanRow(r).keep]
  BY CleanRowUsable
<1> QED BY <1>1, <1>2 DEF Quiet, SameIdentity, Consuming, Present, Admission

\* A replay of create only raises the nonce, or expires the admission.
LEMMA ReissueStep ==
  ASSUME TypeOK, NEW q \in Requests, CreateReissue(q) \/ CreateStale(q), NEW r \in Runs
  PROVE  RowStep(r)
<1>1. Cleaned \in [Runs -> Admission] /\ admissions \in [Runs -> Admission]
  BY CleanedType DEF TypeOK
<1>2. PICK s \in Runs :
        /\ Cleaned[s].status = "issued"
        /\ \/ admissions' = [Cleaned EXCEPT ![s].nonce = @ + 1]
           \/ admissions' = [Cleaned EXCEPT ![s].status = "expired"]
  BY DEF CreateReissue, CreateStale, Matching
<1>3. CASE r # s
  <2>1. admissions'[r] = CleanRow(r)
    BY <1>2, <1>3 DEF Cleaned
  <2> QED BY <2>1, QuietCleanRow DEF RowStep
<1>4. CASE r = s
  <2>1. CleanRow(r).status = "issued" /\ Cleaned[r] = CleanRow(r)
    BY <1>2, <1>4 DEF Cleaned
  <2>2. CleanRow(r) = [admissions[r] EXCEPT !.keep = CleanRow(r).keep]
    BY <2>1, CleanRowUsable
  <2>3. CASE admissions' = [Cleaned EXCEPT ![s].nonce = @ + 1]
    <3>1. admissions'[r] = [CleanRow(r) EXCEPT !.nonce = @ + 1]
      BY <1>1, <1>4, <2>1, <2>3
    <3>2. Quiet(admissions[r], admissions'[r])
      BY <1>1, <2>1, <2>2, <3>1 DEF Quiet, SameIdentity, Consuming, Present, Admission
    <3> QED BY <3>2 DEF RowStep
  <2>4. CASE admissions' = [Cleaned EXCEPT ![s].status = "expired"]
    <3>1. admissions'[r] = [CleanRow(r) EXCEPT !.status = "expired"]
      BY <1>1, <1>4, <2>1, <2>4
    <3> QED BY <2>1, <3>1, ExpiringCleanRow DEF RowStep
  <2> QED BY <1>2, <2>3, <2>4
<1> QED BY <1>3, <1>4

\* The transitions of a cancellation, and those that the session's record and the
\* inbox drive, start no Run and give no slot.
LEMMA CancellationStep ==
  ASSUME TypeOK, NEW s \in Runs, NEW r \in Runs,
         \/ RequestCancellation(s) \/ CompleteCancellation(s) \/ ReleaseCancellation(s)
         \/ DiscardRecord(s) \/ ReleaseBriefContext(s)
         \/ \E report \in Reported : RecordRun(s, report)
  PROVE  RowStep(r)
<1>1. admissions \in [Runs -> Admission]
  BY DEF TypeOK
<1>2. CASE r # s
  <2>1. admissions'[r] = admissions[r]
    BY <1>1, <1>2 DEF RequestCancellation, CompleteCancellation, ReleaseCancellation,
       DiscardRecord, ReleaseBriefContext, RecordRun
  <2> QED BY <2>1, SameRow DEF RowStep
<1>3. CASE r = s
  <2> USE <1>1, <1>3 DEF Quiet, SameIdentity, Consuming, Present, Admission
  <2>1. CASE RequestCancellation(s)
    BY <2>1 DEF RequestCancellation, RowStep
  <2>2. CASE CompleteCancellation(s)
    BY <2>2 DEF CompleteCancellation, RowStep
  <2>3. CASE ReleaseCancellation(s)
    BY <2>3 DEF ReleaseCancellation, RowStep
  <2>4. CASE DiscardRecord(s)
    BY <2>4 DEF DiscardRecord, RowStep
  <2>5. CASE ReleaseBriefContext(s)
    BY <2>5 DEF ReleaseBriefContext, RowStep
  <2>6. ASSUME NEW report \in Reported, RecordRun(s, report)
        PROVE  RowStep(r)
    <3>1. Recorded(s, report) \in RunStatuses
      BY LimitsAssumption DEF Recorded, RunStatuses
    <3> QED BY <2>6, <3>1 DEF RecordRun, RowStep, RunStatuses
  <2> QED BY <2>1, <2>2, <2>3, <2>4, <2>5, <2>6
<1> QED BY <1>2, <1>3

\* A configuration that the checks accept was not superseded.
LEMMA ActiveNotSuperseded ==
  ASSUME NEW row, ConfigurationActive(row)
  PROVE  ~Superseded(row)
BY DEF ConfigurationActive, Superseded

\* verify may expire an admission and lets the session store its record; it starts
\* no Run.
LEMMA VerifyStep ==
  ASSUME TypeOK, NEW s \in Runs, NEW nonce \in 1..MaxNonce, NEW delivered \in BOOLEAN,
         Verify(s, nonce, delivered), NEW r \in Runs
  PROVE  RowStep(r)
<1>1. Cleaned \in [Runs -> Admission] /\ admissions \in [Runs -> Admission]
  BY CleanedType DEF TypeOK
<1>2. CASE r # s \/ admissions' = Cleaned
  <2>1. admissions'[r] = CleanRow(r)
    BY <1>1, <1>2 DEF Verify, Cleaned
  <2> QED BY <2>1, QuietCleanRow DEF RowStep
<1>3. CASE r = s /\ admissions' # Cleaned
  <2>1. CleanRow(r).status = "issued" /\ Cleaned[r] = CleanRow(r)
    BY <1>3 DEF Verify, MatchesIssuedPermit, Cleaned
  <2>2. CleanRow(r) = [admissions[r] EXCEPT !.keep = CleanRow(r).keep]
    BY <2>1, CleanRowUsable
  <2>3. \/ admissions'[r] = [CleanRow(r) EXCEPT !.status = "expired"]
        \/ admissions'[r] = [CleanRow(r) EXCEPT !.recorded = @ \/ (delivered /\ ~SkillsBound)]
    BY <1>1, <1>3, <2>1 DEF Verify
  <2>4. ASSUME NEW x \in BOOLEAN
        PROVE  Quiet(admissions[r], [CleanRow(r) EXCEPT !.recorded = x])
    BY <1>1, <2>1, <2>2 DEF Quiet, SameIdentity, Consuming, Present, Admission
  <2>5. CleanRow(r).recorded \/ (delivered /\ ~SkillsBound) \in BOOLEAN
    OBVIOUS
  <2> QED BY <2>1, <2>3, <2>4, <2>5, ExpiringCleanRow DEF RowStep
<1> QED BY <1>2, <1>3

\* Neither does the second transaction of verify, after its packages were loaded.
LEMMA VerifyLoadedStep ==
  ASSUME TypeOK, NEW p \in loading, NEW loaded \in BOOLEAN, NEW delivered \in BOOLEAN,
         VerifyLoaded(p, loaded, delivered), NEW r \in Runs
  PROVE  RowStep(r)
<1>1. admissions \in [Runs -> Admission] /\ p.run \in Runs
  BY DEF TypeOK, Permits
<1>2. CASE r # p.run \/ admissions' = admissions
  BY <1>1, <1>2, SameRow DEF VerifyLoaded, RowStep
<1>3. CASE r = p.run /\ admissions' # admissions
  <2>1. admissions[r].status = "issued"
    BY <1>3 DEF VerifyLoaded, MatchesIssuedPermit
  <2>2. \/ admissions'[r] = [admissions[r] EXCEPT !.status = "expired"]
        \/ admissions'[r] = [admissions[r] EXCEPT !.recorded = @ \/ delivered]
    BY <1>1, <1>3 DEF VerifyLoaded
  <2>3. ASSUME NEW x \in BOOLEAN
        PROVE  Quiet(admissions[r], [admissions[r] EXCEPT !.recorded = x])
    BY <1>1, <2>1 DEF Quiet, SameIdentity, Consuming, Present, Admission
  <2> QED BY <1>1, <2>1, <2>2, <2>3, ExpiringRow DEF RowStep
<1> QED BY <1>2, <1>3

\* confirm redeems a Run by its newest permit only, under current authority.
LEMMA ConfirmStep ==
  ASSUME TypeOK, NEW s \in Runs, NEW nonce \in 1..MaxNonce, Confirm(s, nonce), NEW r \in Runs
  PROVE  RowStep(r)
<1>1. Cleaned \in [Runs -> Admission] /\ admissions \in [Runs -> Admission]
  BY CleanedType DEF TypeOK
<1>2. CASE r # s \/ admissions' = Cleaned
  <2>1. admissions'[r] = CleanRow(r)
    BY <1>1, <1>2 DEF Confirm, Cleaned
  <2> QED BY <2>1, QuietCleanRow DEF RowStep
<1>3. CASE r = s /\ admissions' # Cleaned
  <2>1. Cleaned[r] = CleanRow(r) /\ MatchesIssuedPermit(CleanRow(r), nonce)
    BY <1>3 DEF Confirm, Cleaned
  <2>2. CleanRow(r).status = "issued" /\ CleanRow(r).cancel = "none" /\ CleanRow(r).nonce = nonce
    BY <2>1 DEF MatchesIssuedPermit
  <2>3. CleanRow(r) = [admissions[r] EXCEPT !.keep = CleanRow(r).keep]
    BY <2>2, CleanRowUsable
  <2>4. CASE ConfigurationActive(CleanRow(r))
    <3>1. ~Superseded(admissions[r])
      BY <1>1, <2>3, <2>4, ActiveNotSuperseded DEF Superseded, Admission
    <3> DEFINE started == [CleanRow(r) EXCEPT !.status = "redeemed"]
    <3>2. admissions'[r] = [started EXCEPT !.redeemer = nonce]
      BY <1>1, <1>3, <2>1, <2>4 DEF Confirm
    <3>3. Redeems(admissions[r], [started EXCEPT !.redeemer = nonce])
      BY <1>1, <2>2, <2>3 DEF Redeems, SameIdentity, Admission
    <3> QED BY <3>1, <3>2, <3>3 DEF RowStep
  <2>5. CASE ~ConfigurationActive(CleanRow(r))
    <3>1. admissions'[r] = [CleanRow(r) EXCEPT !.status = "expired"]
      BY <1>1, <1>3, <2>1, <2>5 DEF Confirm
    <3> QED BY <2>2, <3>1, ExpiringCleanRow DEF RowStep
  <2> QED BY <2>4, <2>5
<1> QED BY <1>2, <1>3

\* A claim of a model call needs a redeemed Run that is not being cancelled, under
\* current authority.
LEMMA VerifyActiveStep ==
  ASSUME TypeOK, NEW s \in Runs, NEW b \in BriefUse, VerifyActive(s, b), NEW r \in Runs
  PROVE  RowStep(r)
<1>1. Cleaned \in [Runs -> Admission] /\ admissions \in [Runs -> Admission]
  BY CleanedType DEF TypeOK
<1>2. CASE r # s \/ admissions' = Cleaned
  <2>1. admissions'[r] = CleanRow(r)
    BY <1>1, <1>2 DEF VerifyActive, Cleaned
  <2> QED BY <2>1, QuietCleanRow DEF RowStep
<1>3. CASE r = s /\ admissions' # Cleaned
  <2>1. Cleaned[r] = CleanRow(r) /\ ClaimsModelCall(CleanRow(r), b)
    BY <1>3 DEF VerifyActive, Cleaned
  <2>2. CleanRow(r).status = "redeemed" /\ CleanRow(r).cancel = "none"
    BY <2>1 DEF ClaimsModelCall
  <2>3. CleanRow(r) = [admissions[r] EXCEPT !.keep = CleanRow(r).keep]
    BY <2>2, CleanRowUsable
  <2>4. ~Superseded(admissions[r])
    BY <1>1, <2>1, <2>3, ActiveNotSuperseded DEF ClaimsModelCall, Superseded, Admission
  <2>5. admissions'[r] = [CleanRow(r) EXCEPT !.modelCalls = @ + 1]
    BY <1>1, <1>3, <2>1 DEF VerifyActive
  <2>6. Claims(admissions[r], admissions'[r])
    BY <1>1, <2>2, <2>3, <2>5 DEF Claims, SameIdentity, Consuming, Present, Admission
  <2> QED BY <2>4, <2>6 DEF RowStep
<1> QED BY <1>2, <1>3

\* Time only makes a row older; it may free a slot, it never takes one.
LEMMA AgeStep ==
  ASSUME TypeOK, AgeAdmissions, NEW r \in Runs
  PROVE  RowStep(r)
<1>1. admissions[r] \in Admission
  BY DEF TypeOK
<1>2. admissions'[r] = Older(admissions[r])
  BY DEF AgeAdmissions
<1> DEFINE row == admissions[r]
           age == IF row.age < AgeCap THEN row.age + 1 ELSE row.age
           runAge == IF row.status = "redeemed" /\ row.runAge < MaxDuration
                     THEN row.runAge + 1 ELSE row.runAge
           keep == IF row.keep > 0 THEN row.keep - 1 ELSE row.keep
<1>3. Older(row) = IF Present(row)
                   THEN [row EXCEPT !.age = age, !.runAge = runAge, !.keep = keep] ELSE row
  BY DEF Older
<1>4. runAge < MaxDuration => row.runAge < MaxDuration
  BY <1>1, TimeAssumption DEF Admission
<1>5. ASSUME Present(row)
      PROVE  Quiet(row, [row EXCEPT !.age = age, !.runAge = runAge, !.keep = keep])
  <2> HIDE DEF age, runAge, keep, row
  <2>1. row \in Admission
    BY <1>1 DEF row
  <2> QED BY <1>4, <1>5, <2>1 DEF Quiet, SameIdentity, Consuming, Present, Admission
<1> QED BY <1>2, <1>3, <1>5, SameRow DEF RowStep

\* Every action on admissions takes one of the four kinds of step on every row.
LEMMA RowSteps ==
  ASSUME TypeOK, AdmissionsNext, NEW r \in Runs
  PROVE  RowStep(r)
<1>1. ASSUME Cleanup
      PROVE  RowStep(r)
  BY <1>1, QuietCleanRow DEF Cleanup, Cleaned, RowStep
<1>2. CASE CreateNext
  <2>1. PICK q \in Requests : \/ \E b \in BriefUse : CreateNew(q, b)
                              \/ CreateReissue(q) \/ CreateStale(q) \/ CreateAnswered(q)
    BY <1>2 DEF CreateNext
  <2> QED BY <1>1, <2>1, AdmitStep, ReissueStep DEF CreateAnswered
<1>3. CASE RunNext
  BY <1>3, CancellationStep, VerifyStep, ConfirmStep, VerifyActiveStep DEF RunNext
<1>4. CASE LoadNext
  BY <1>4, VerifyLoadedStep DEF LoadNext
<1>5. CASE ChangeAuthority
  BY <1>5, SameRow DEF ChangeAuthority, RowStep
<1> QED BY <1>1, <1>2, <1>3, <1>4, <1>5 DEF AdmissionsNext

-----------------------------------------------------------------------------
(* What every step of the ledger does, and what follows from it              *)

RowsMove == \A r \in Runs : RowStep(r)

\* Only the owner's own changes touch what is allowed.
AuthorityMove == authority' = authority \/ ChangeAuthority

\* Permits leave the Skill load by the second transaction of verify, or when the
\* rows are left alone.
LoadMove ==
  \/ loading \subseteq loading'
  \/ admissions' = admissions
  \/ \E p \in loading, loaded, delivered \in BOOLEAN : VerifyLoaded(p, loaded, delivered)

\* The strengthening that the action properties need: an unused or deleted Run id has
\* no history, and no row is bound to a revision that does not exist yet.
Consistent ==
  \A r \in Runs :
    /\ admissions[r].status = "none" => admissions[r] = Blank
    /\ admissions[r].status = "deleted" => admissions[r] = Deleted
    /\ admissions[r].fleet <= authority.fleet
    /\ admissions[r].revision <= authority.revision

\* OneRunPerKey is inductive: an admission is only inserted when no retained row
\* has its key, and no step changes the key of a row.
LEMMA UniqueKeyStep ==
  ASSUME OneRunPerKey, RowsMove
  PROVE  OneRunPerKey'
<1> SUFFICES ASSUME NEW r1 \in Runs, NEW r2 \in Runs,
                    Present(admissions'[r1]), Present(admissions'[r2]),
                    admissions'[r1].request.key = admissions'[r2].request.key
             PROVE  r1 = r2
  BY DEF OneRunPerKey
<1>1. RowStep(r1) /\ RowStep(r2)
  BY DEF RowsMove
<1>2. CASE Admits(r1) \/ Admits(r2)
  BY <1>2 DEF Admits
<1>3. CASE ~Admits(r1) /\ ~Admits(r2)
  <2>1. ASSUME NEW r \in Runs, RowStep(r), ~Admits(r), Present(admissions'[r])
        PROVE  Present(admissions[r]) /\ admissions'[r].request = admissions[r].request
    BY <2>1 DEF RowStep, Quiet, Erases, Redeems, Claims, SameIdentity, Present, Deleted, Blank
  <2>2. /\ Present(admissions[r1]) /\ admissions'[r1].request = admissions[r1].request
        /\ Present(admissions[r2]) /\ admissions'[r2].request = admissions[r2].request
    BY <1>1, <1>3, <2>1
  <2> QED BY <2>2 DEF OneRunPerKey
<1> QED BY <1>2, <1>3

\* The nonce that redeemed a Run is the last one that was issued for it: a permit
\* superseded by a replay never starts the Run.
LEMMA NewestPermitStep ==
  ASSUME NewestPermitRedeems, RowsMove
  PROVE  NewestPermitRedeems'
<1> SUFFICES ASSUME NEW r \in Runs, admissions'[r].status = "redeemed"
             PROVE  admissions'[r].redeemer = admissions'[r].nonce
  BY DEF NewestPermitRedeems
<1>1. RowStep(r)
  BY DEF RowsMove
<1>2. ~Erases(admissions[r], admissions'[r])
  BY DEF Erases, Deleted, Blank
<1>3. ~Admits(r)
  BY AdmitsFresh
<1> QED BY <1>1, <1>2, <1>3 DEF RowStep, Quiet, Redeems, Claims, NewestPermitRedeems

\* The Runs that hold a slot never exceed the fleet's capacity: only an admission
\* adds to them, and it counts them, and more, first.
LEMMA CapacityStep ==
  ASSUME CapacityRespected, RowsMove
  PROVE  CapacityRespected'
<1> DEFINE Holding == {o \in Runs : Consuming(admissions[o])}
<1>2. IsFiniteSet(Holding) /\ IsFiniteSet(Holding')
  BY LimitsAssumption, FS_Subset
<1>3. /\ Cardinality(Holding) \in Nat /\ Cardinality(Holding') \in Nat
      /\ Cardinality(Holding) <= MaxConcurrentRuns
  BY <1>2, FS_CardinalityType DEF CapacityRespected
<1>4. CASE \E r \in Runs : Admits(r)
  <2>1. PICK r \in Runs : Admits(r)
    BY <1>4
  <2> DEFINE Others == {o \in Runs \ {r} : Consuming(admissions'[o])}
  <2>2. IsFiniteSet(Others) /\ Cardinality(Others) < MaxConcurrentRuns
    BY <2>1, LimitsAssumption, FS_Subset DEF Admits
  <2>3. Holding' \subseteq Others \cup {r}
    OBVIOUS
  <2>4. Cardinality(Others \cup {r}) <= Cardinality(Others) + 1
        /\ IsFiniteSet(Others \cup {r})
    <3>1. r \notin Others
      OBVIOUS
    <3> HIDE DEF Others
    <3>2. Cardinality(Others) \in Nat
      BY <2>2, FS_CardinalityType
    <3>3. IsFiniteSet(Others \cup {r}) /\ Cardinality(Others \cup {r}) = Cardinality(Others) + 1
      BY <2>2, <3>1, FS_AddElement
    <3> QED BY <3>2, <3>3
  <2>5. Cardinality(Holding') <= Cardinality(Others \cup {r})
    BY <2>3, <2>4, FS_Subset
  <2>6. Cardinality(Others) \in Nat /\ Cardinality(Others \cup {r}) \in Nat
    BY <2>2, <2>4, FS_CardinalityType
  <2>7. Cardinality(Holding') <= MaxConcurrentRuns
    <3> HIDE DEF Others, Holding
    <3> QED BY <1>3, <2>2, <2>4, <2>5, <2>6, LimitsAssumption
  <2> QED BY <2>7 DEF CapacityRespected
<1>5. CASE \A r \in Runs : ~Admits(r)
  <2>1. ASSUME NEW r \in Runs, Consuming(admissions'[r])
        PROVE  Consuming(admissions[r])
    <3>1. RowStep(r) /\ ~Admits(r)
      BY <1>5 DEF RowsMove
    <3>2. ~Erases(admissions[r], admissions'[r])
      BY <2>1 DEF Erases, Consuming, Present, Deleted, Blank
    <3> QED BY <2>1, <3>1, <3>2 DEF RowStep, Quiet, Redeems, Claims, Consuming, Present
  <2>2. Holding' \subseteq Holding
    BY <2>1
  <2>3. Cardinality(Holding') <= Cardinality(Holding)
    BY <1>2, <2>2, FS_Subset
  <2>4. Cardinality(Holding') <= MaxConcurrentRuns
    <3> HIDE DEF Holding
    <3> QED BY <1>3, <2>3, LimitsAssumption
  <2> QED BY <2>4 DEF CapacityRespected
<1> QED BY <1>4, <1>5

\* Revisions only grow and a disabled Agent stays disabled, so what was superseded
\* once is superseded for ever.
LEMMA AuthorityGrows ==
  ASSUME TypeOK, AuthorityMove
  PROVE  /\ authority.fleet \in Nat /\ authority.revision \in Nat
         /\ authority'.fleet \in Nat /\ authority'.revision \in Nat
         /\ authority'.fleet >= authority.fleet /\ authority'.revision >= authority.revision
         /\ authority.agent = "disabled" => authority'.agent = "disabled"
<1>1. authority \in Authority
  BY DEF TypeOK
<1>2. authority.fleet \in Nat /\ authority.revision \in Nat
  BY <1>1, LimitsAssumption DEF Authority
<1>3. CASE authority' = authority
  BY <1>2, <1>3
<1>4. CASE ChangeAuthority
  <2>1. CASE ConfigureFleet
    BY <1>1, <1>2, <2>1 DEF ConfigureFleet, Authority
  <2>2. CASE UpdateAgent
    <3>1. /\ authority'.revision = authority.revision + 1
          /\ authority'.fleet = authority.fleet
          /\ authority'.agent = authority.agent
      BY <1>1, <2>2 DEF UpdateAgent, Authority
    <3> QED BY <1>2, <3>1
  <2>3. CASE DisableAgent \/ RevokeGrant
    BY <1>1, <1>2, <2>3 DEF DisableAgent, RevokeGrant, Authority
  <2>4. CASE RevokeConnection
    <3>1. /\ authority'.revision = authority.revision
          /\ authority'.fleet = authority.fleet
          /\ authority'.agent = authority.agent
      BY <1>1, <2>4 DEF RevokeConnection, Authority
    <3> QED BY <1>2, <3>1
  <2>5. CASE ChangeCatalog \/ ChangeSkill
    BY <1>1, <1>2, <2>5 DEF ChangeCatalog, ChangeSkill, Authority
  <2> QED BY <1>4, <2>1, <2>2, <2>3, <2>4, <2>5 DEF ChangeAuthority
<1> QED BY <1>3, <1>4 DEF AuthorityMove

\* Consistent is inductive beside the types.
LEMMA ConsistentStep ==
  ASSUME TypeOK, Consistent, RowsMove, AuthorityMove
  PROVE  Consistent'
<1> SUFFICES ASSUME NEW r \in Runs
             PROVE  /\ admissions'[r].status = "none" => admissions'[r] = Blank
                    /\ admissions'[r].status = "deleted" => admissions'[r] = Deleted
                    /\ admissions'[r].fleet <= authority'.fleet
                    /\ admissions'[r].revision <= authority'.revision
  BY DEF Consistent
<1>1. RowStep(r)
  BY DEF RowsMove
<1>2. /\ admissions'[r].status = "none" => admissions'[r] = Blank
      /\ admissions'[r].status = "deleted" => admissions'[r] = Deleted
  <2>1. CASE Quiet(admissions[r], admissions'[r])
    BY <2>1 DEF Quiet, Consistent
  <2>2. CASE Erases(admissions[r], admissions'[r])
    BY <2>2 DEF Erases, Deleted, Blank
  <2>3. CASE Redeems(admissions[r], admissions'[r]) \/ Claims(admissions[r], admissions'[r])
    BY <2>3 DEF Redeems, Claims
  <2>4. CASE Admits(r)
    BY <2>4, AdmitsFresh
  <2> QED BY <1>1, <2>1, <2>2, <2>3, <2>4 DEF RowStep
<1>3. \/ admissions'[r].fleet = 0 /\ admissions'[r].revision = 0
      \/ SameIdentity(admissions[r], admissions'[r])
      \/ admissions'[r].fleet = authority.fleet /\ admissions'[r].revision = authority.revision
  BY <1>1, AdmitsFresh DEF RowStep, Quiet, Erases, Redeems, Claims, Deleted, Blank
<1>4. /\ admissions[r].fleet \in Nat /\ admissions[r].revision \in Nat
      /\ admissions[r].fleet <= authority.fleet /\ admissions[r].revision <= authority.revision
  BY DEF Consistent, TypeOK, Admission
<1> QED BY <1>2, <1>3, <1>4, AuthorityGrows DEF SameIdentity

\* A completed cancellation is final, whatever permits are still in flight.
LEMMA CancelledStays ==
  ASSUME Consistent, RowsMove, NEW r \in Runs, admissions[r].cancel = "cancelled"
  PROVE  \/ admissions'[r].status = "deleted"
         \/ admissions'[r].cancel = "cancelled" /\ Spent(r)' = Spent(r)
<1> SUFFICES ASSUME admissions'[r].status # "deleted"
             PROVE  admissions'[r].cancel = "cancelled" /\ Spent(r)' = Spent(r)
  OBVIOUS
<1>1. RowStep(r)
  BY DEF RowsMove
<1>2. ~Admits(r) /\ ~Erases(admissions[r], admissions'[r])
  BY DEF Admits, Erases, Consistent, Blank, Deleted
<1>3. Quiet(admissions[r], admissions'[r])
  BY <1>1, <1>2 DEF RowStep, Redeems, Claims
<1> QED BY <1>3 DEF Quiet, Spent

\* A Run admitted under a configuration that was replaced, or for an Agent that
\* was disabled, does no more work; nor does any later step make it current again.
LEMMA SupersededStays ==
  ASSUME TypeOK, Consistent, RowsMove, AuthorityMove,
         NEW r \in Runs, Present(admissions[r]), Superseded(admissions[r])
  PROVE  \/ admissions'[r].status = "deleted"
         \/ Spent(r)' = Spent(r) /\ Superseded(admissions[r])'
<1> SUFFICES ASSUME admissions'[r].status # "deleted"
             PROVE  Spent(r)' = Spent(r) /\ Superseded(admissions[r])'
  OBVIOUS
<1>1. RowStep(r)
  BY DEF RowsMove
<1>2. ~Admits(r) /\ ~Erases(admissions[r], admissions'[r])
  BY DEF Admits, Erases, Present, Blank, Deleted
<1>3. Quiet(admissions[r], admissions'[r])
  BY <1>1, <1>2 DEF RowStep
<1>4. /\ admissions[r].fleet \in Nat /\ admissions[r].revision \in Nat
      /\ admissions[r].fleet <= authority.fleet /\ admissions[r].revision <= authority.revision
  BY DEF Consistent, TypeOK, Admission
<1>5. Superseded(admissions[r])'
  BY <1>3, <1>4, AuthorityGrows DEF Quiet, SameIdentity, Superseded
<1> QED BY <1>3, <1>5 DEF Quiet, Spent, Present

\* The order of the states of a Run.
LEMMA OrderKept ==
  ASSUME RowsMove, NEW r \in Runs
  PROVE  /\ admissions[r].status = "deleted" => admissions'[r] = admissions[r]
         /\ admissions[r].status \in {"redeemed", "expired"} =>
              admissions'[r].status \in {admissions[r].status, "deleted"}
<1>1. RowStep(r)
  BY DEF RowsMove
<1> QED BY <1>1 DEF RowStep, Quiet, Erases, Redeems, Claims, Admits, Present, Deleted, Blank

\* Only the second transaction of verify takes a permit out of the load and stores the
\* record, and it looks at the Run, the permit and the configuration again.
LEMMA LoadChecked ==
  ASSUME TypeOK, LoadMove, NEW p \in loading, ~admissions[p.run].recorded,
         admissions'[p.run].recorded, p \notin loading'
  PROVE  /\ admissions[p.run].nonce = p.nonce
         /\ admissions[p.run].cancel = "none"
         /\ admissions[p.run].age < Lifetime
         /\ ~Superseded(admissions[p.run])
<1>1. PICK o \in loading, loaded, delivered \in BOOLEAN : VerifyLoaded(o, loaded, delivered)
  BY DEF LoadMove
<1>2. o = p
  BY <1>1 DEF VerifyLoaded
<1>3. MatchesIssuedPermit(admissions[p.run], p.nonce)
  BY <1>1, <1>2 DEF VerifyLoaded
<1>4. ConfigurationActive(admissions[p.run])
  <2>1. admissions \in [Runs -> Admission] /\ p.run \in Runs
    BY DEF TypeOK, Permits
  <2> QED BY <1>1, <1>2, <1>3, <2>1 DEF VerifyLoaded
<1> QED BY <1>3, <1>4, ActiveNotSuperseded DEF MatchesIssuedPermit

-----------------------------------------------------------------------------
(* The refinement of RunLife *)

Lived(r) == LifeOf(admissions[r])

\* What a step makes of the life of r.
Lives(r) == LifeOf(admissions'[r])

OthersSwept(s) == \A o \in Runs \ {s} : Life!Swept(Lived(o), Lives(o))

-----------------------------------------------------------------------------
(* Rows and lives *)

\* Rows that differ only in what is the ledger's own live the same life.
LEMMA SameLife ==
  ASSUME NEW old, NEW new,
         new.status = old.status, new.request = old.request, new.cancel = old.cancel,
         new.modelCalls = old.modelCalls, new.toolCalls = old.toolCalls
  PROVE  LifeOf(new) = LifeOf(old)
BY DEF LifeOf, PhaseOf

\* An admission that expires is refused.
LEMMA ExpiredLife ==
  ASSUME NEW old, NEW new,
         old.status = "issued", new.status = "expired", new.request = old.request,
         new.cancel = old.cancel, new.modelCalls = old.modelCalls, new.toolCalls = old.toolCalls
  PROVE  Life!Refused(LifeOf(old), LifeOf(new))
BY DEF LifeOf, PhaseOf, Life!Refused

\* A row that is deleted is collected, and for good.
LEMMA DeletedLife ==
  ASSUME NEW old, Present(old)
  PROVE  Life!Collected(LifeOf(old), LifeOf(Deleted))
<1>1. Life!Retained(LifeOf(old))
  BY DEF LifeOf, PhaseOf, Life!Retained, Present
<1>2. LifeOf(Deleted) = Life!Gone
  BY DEF LifeOf, PhaseOf, Deleted, Blank, NoRequest, Life!Gone, Life!Unborn, Life!NoLifeRequest
<1> QED BY <1>1, <1>2 DEF Life!Collected

\* An unused row is an unborn Run.
LEMMA BlankLife == LifeOf(Blank) = Life!Unborn
BY DEF LifeOf, PhaseOf, Blank, NoRequest, Life!Unborn, Life!NoLifeRequest

\* The cleanup refuses a Run, collects it or leaves it alone.
LEMMA CleanRowSwept ==
  ASSUME TypeOK, NEW r \in Runs
  PROVE  Life!Swept(Lived(r), LifeOf(CleanRow(r)))
<1>1. admissions[r] \in Admission
  BY DEF TypeOK
<1>2. CASE CleanRow(r) = Deleted /\ Present(admissions[r])
  BY <1>2, DeletedLife DEF Lived, Life!Swept
<1>3. CASE ~(CleanRow(r) = Deleted /\ Present(admissions[r]))
  <2>1. CleanRow(r) = Expired(admissions[r])
        \/ CleanRow(r) = [Expired(admissions[r]) EXCEPT !.keep = Retention]
    BY <1>3 DEF CleanRow, PastRetention
  <2>2. /\ CleanRow(r).request = admissions[r].request
        /\ CleanRow(r).cancel = admissions[r].cancel
        /\ CleanRow(r).modelCalls = admissions[r].modelCalls
        /\ CleanRow(r).toolCalls = admissions[r].toolCalls
        /\ \/ CleanRow(r).status = admissions[r].status
           \/ admissions[r].status = "issued" /\ CleanRow(r).status = "expired"
    BY <1>1, <2>1 DEF Expired, Admission
  <2> QED BY <2>2, SameLife, ExpiredLife DEF Lived, Life!Swept
<1> QED BY <1>2, <1>3

\* The lives as one function, before and after.
LEMMA LifeRows ==
  ASSUME NEW r \in Runs
  PROVE  /\ [o \in Runs |-> LifeOf(admissions[o])][r] = Lived(r)
         /\ [o \in Runs |-> LifeOf(admissions'[o])][r] = Lives(r)
BY DEF Lived, Lives

\* A step that moves one Run by one step of its life, and only sweeps the others,
\* is a step of the abstract specification.
LEMMA OneRunMoves ==
  ASSUME NEW s \in Runs, OthersSwept(s), Lived(s) # Life!Unborn \/ ~Life!Retained(Lives(s)),
         \/ Life!Started(Lived(s), Lives(s)) \/ Life!Spends(Lived(s), Lives(s))
         \/ Life!CancelRequested(Lived(s), Lives(s)) \/ Life!CancelDecided(Lived(s), Lives(s))
         \/ Life!Swept(Lived(s), Lives(s))
  PROVE  Life!LifeNext
BY LifeRows DEF OthersSwept, Life!LifeNext, Life!LifeStep

\* So is an admission under a key that no retained Run has.
LEMMA OneRunAdmitted ==
  ASSUME NEW s \in Runs, OthersSwept(s), Life!Admitted(Lived(s), Lives(s)),
         \A o \in Runs \ {s} :
           Life!Retained(Lives(o)) => Lives(o).request.key # Lives(s).request.key
  PROVE  Life!LifeNext
BY LifeRows DEF OthersSwept, Life!LifeNext, Life!LifeStep

\* A step that only sweeps is a step of the abstract specification or a stutter.
LEMMA AllSwept ==
  ASSUME \A r \in Runs : Life!Swept(Lived(r), Lives(r)),
         \A r \in Runs : Lived(r) = Life!Unborn => ~Life!Retained(Lives(r))
  PROVE  [Life!LifeNext]_[r \in Runs |-> LifeOf(admissions[r])]
<1>1. CASE Runs = {}
  BY <1>1
<1>2. CASE Runs # {}
  <2>1. PICK s \in Runs : TRUE
    BY <1>2
  <2>2. OthersSwept(s)
    BY DEF OthersSwept
  <2> QED BY <2>1, <2>2, OneRunMoves
<1> QED BY <1>1, <1>2

-----------------------------------------------------------------------------
(* The steps of the ledger *)

\* A step that leaves the life of every Run as it was.
LEMMA NoneMoves ==
  ASSUME \A r \in Runs : Lives(r) = Lived(r)
  PROVE  UNCHANGED [r \in Runs |-> LifeOf(admissions[r])]
BY DEF Lived, Lives

\* Rows but one that take part in a cleanup, or are left alone, are only swept.
LEMMA OthersCleaned ==
  ASSUME TypeOK, NEW s \in Runs,
         \A o \in Runs \ {s} : admissions'[o] \in {CleanRow(o), admissions[o]}
  PROVE  OthersSwept(s)
BY CleanRowSwept DEF OthersSwept, Lived, Lives, Life!Swept

\* No cleanup brings a Run back to life, or to it.
LEMMA NothingBorn ==
  ASSUME TypeOK, NEW r \in Runs, Life!Swept(Lived(r), Lives(r))
  PROVE  Lived(r) = Life!Unborn => ~Life!Retained(Lives(r))
BY DEF Life!Swept, Life!Refused, Life!Collected, Life!Unborn, Life!Gone, Life!Retained

\* The cleanup alone.
LEMMA CleanupLife ==
  ASSUME TypeOK, \A r \in Runs : admissions'[r] \in {CleanRow(r), admissions[r]}
  PROVE  [Life!LifeNext]_[r \in Runs |-> LifeOf(admissions[r])]
<1>1. \A r \in Runs : Life!Swept(Lived(r), Lives(r))
  BY CleanRowSwept DEF Lived, Lives, Life!Swept
<1> QED BY <1>1, NothingBorn, AllSwept

\* create admits an unborn Run under a key that no retained Run has.
LEMMA CreateLife ==
  ASSUME TypeOK, Consistent, NEW q \in Requests, NEW b \in BriefUse, CreateNew(q, b)
  PROVE  Life!LifeNext
<1>1. Cleaned \in [Runs -> Admission]
  BY CleanedType
<1>2. PICK s \in Runs : /\ admissions[s].status = "none"
                        /\ admissions' = [Cleaned EXCEPT ![s] = NewAdmission(q, b)]
  BY DEF CreateNew
<1>3. Lived(s) = Life!Unborn
  BY <1>2, BlankLife DEF Consistent, Lived
<1>4. admissions'[s] = NewAdmission(q, b)
  BY <1>1, <1>2
<1>5. Lives(s) = [Life!Unborn EXCEPT !.phase = "admitted", !.request = q]
  <2>1. /\ admissions'[s].status = "issued" /\ admissions'[s].request = q
        /\ admissions'[s].cancel = "none"
        /\ admissions'[s].modelCalls = 0 /\ admissions'[s].toolCalls = 0
    BY <1>4 DEF NewAdmission, Blank
  <2>2. PhaseOf(admissions'[s].status) = "admitted"
    BY <2>1 DEF PhaseOf
  <2>3. admissions'[s].modelCalls + admissions'[s].toolCalls = 0
    BY <2>1
  <2>4. Lives(s) = [phase |-> "admitted", request |-> q, cancel |-> "none", spent |-> 0]
    BY <2>1, <2>2, <2>3 DEF Lives, LifeOf
  <2>5. ASSUME NEW x
        PROVE  [Life!Unborn EXCEPT !.phase = "admitted", !.request = x]
                 = [phase |-> "admitted", request |-> x, cancel |-> "none", spent |-> 0]
    <3> DEFINE admitted == [Life!Unborn EXCEPT !.phase = "admitted"]
    <3>1. admitted = [phase |-> "admitted", request |-> Life!NoLifeRequest,
                      cancel |-> "none", spent |-> 0]
      BY DEF Life!Unborn
    <3> HIDE DEF admitted
    <3>2. [admitted EXCEPT !.request = x]
            = [phase |-> "admitted", request |-> x, cancel |-> "none", spent |-> 0]
      BY <3>1
    <3> QED BY <3>2 DEF admitted
  <2> QED BY <2>4, <2>5
<1>6. q \in Life!LifeRequests
  BY DEF Requests, Life!LifeRequests
<1>7. Life!Admitted(Lived(s), Lives(s))
  BY <1>3, <1>5, <1>6 DEF Life!Admitted
<1>8. OthersSwept(s)
  BY <1>1, <1>2, OthersCleaned DEF Cleaned
<1>9. ASSUME NEW o \in Runs \ {s}, Life!Retained(Lives(o))
      PROVE  Lives(o).request.key # Lives(s).request.key
  <2>1. admissions'[o] = Cleaned[o] /\ Cleaned[o] \in Admission
    BY <1>1, <1>2
  <2>2. Present(Cleaned[o])
    BY <1>9, <2>1 DEF Lives, LifeOf, PhaseOf, Life!Retained, Present, Admission
  <2>3. Cleaned[o].request.key # q.key
    BY <2>2 DEF CreateNew, Matching
  <2>4. Lives(o).request = Cleaned[o].request /\ Lives(s).request = q
    BY <1>5, <2>1 DEF Lives, LifeOf, Life!Unborn
  <2> QED BY <2>3, <2>4
<1> QED BY <1>7, <1>8, <1>9, OneRunAdmitted

\* A step on one row that starts the Run, spends of its budget, or is quiet and leaves
\* its cancellation alone, beside a cleanup of the others.
LEMMA RowLife ==
  ASSUME TypeOK, Consistent, NEW s \in Runs,
         \A o \in Runs \ {s} : admissions'[o] \in {CleanRow(o), admissions[o]},
         \/ Redeems(admissions[s], admissions'[s])
         \/ Claims(admissions[s], admissions'[s])
         \/ /\ Quiet(admissions[s], admissions'[s])
            /\ admissions'[s].cancel = admissions[s].cancel
         \/ Erases(admissions[s], admissions'[s])
  PROVE  Life!LifeNext
<1> DEFINE old == admissions[s]
           new == admissions'[s]
<1>1. OthersSwept(s)
  BY OthersCleaned
<1>2. old \in Admission
  BY DEF TypeOK
<1>3. CASE Redeems(old, new)
  <2>1. Life!Started(Lived(s), Lives(s))
    BY <1>3 DEF Redeems, SameIdentity, Lived, Lives, LifeOf, PhaseOf, Life!Started
  <2>2. Lived(s) # Life!Unborn
    BY <2>1 DEF Life!Started, Life!Unborn
  <2> QED BY <1>1, <2>1, <2>2, OneRunMoves
<1>4. CASE Claims(old, new)
  <2>1. new.modelCalls + new.toolCalls = (old.modelCalls + old.toolCalls) + 1
    BY <1>2, <1>4, LimitsAssumption DEF Claims, Admission
  <2>2. Life!Spends(Lived(s), Lives(s))
    BY <1>4, <2>1 DEF Claims, SameIdentity, Lived, Lives, LifeOf, PhaseOf, Life!Spends
  <2>3. Lived(s) # Life!Unborn
    BY <2>2 DEF Life!Spends, Life!Unborn
  <2> QED BY <1>1, <2>2, <2>3, OneRunMoves
<1>5. CASE Quiet(old, new) /\ new.cancel = old.cancel
  <2>1. Life!Swept(Lived(s), Lives(s))
    BY <1>5, SameLife, ExpiredLife DEF Quiet, SameIdentity, Lived, Lives, Life!Swept
  <2> QED BY <1>1, <2>1, NothingBorn, OneRunMoves
<1>6. CASE Erases(old, new)
  <2>1. Life!Swept(Lived(s), Lives(s))
    BY <1>6, DeletedLife DEF Erases, Lived, Lives, Life!Swept
  <2> QED BY <1>1, <2>1, NothingBorn, OneRunMoves
<1> QED BY <1>3, <1>4, <1>5, <1>6

\* The transitions of a cancellation.
LEMMA CancellationLife ==
  ASSUME TypeOK, NEW s \in Runs,
         RequestCancellation(s) \/ CompleteCancellation(s) \/ ReleaseCancellation(s)
  PROVE  Life!LifeNext
<1>1. admissions \in [Runs -> Admission]
  BY DEF TypeOK
<1>2. PICK v \in {"none", "requested", "cancelled"} :
        /\ admissions' = [admissions EXCEPT ![s].cancel = v]
        /\ Present(admissions[s])
        /\ \/ /\ v = "requested" /\ admissions[s].cancel = "none"
              /\ admissions[s].status # "expired"
           \/ v \in {"none", "cancelled"} /\ admissions[s].cancel = "requested"
  BY DEF RequestCancellation, CompleteCancellation, ReleaseCancellation
<1>3. OthersSwept(s)
  BY <1>1, <1>2, OthersCleaned
<1>4. admissions'[s] = [admissions[s] EXCEPT !.cancel = v]
  BY <1>1, <1>2
<1>5. Lives(s) = [Lived(s) EXCEPT !.cancel = v]
  BY <1>1, <1>4 DEF Lived, Lives, LifeOf, PhaseOf, Admission
<1>6. /\ Lived(s).cancel = admissions[s].cancel
      /\ Life!Retained(Lived(s))
      /\ admissions[s].status # "expired" => Lived(s).phase \in {"admitted", "started"}
  BY <1>2 DEF Lived, LifeOf, PhaseOf, Present, Life!Retained
<1>7. Life!CancelRequested(Lived(s), Lives(s)) \/ Life!CancelDecided(Lived(s), Lives(s))
  BY <1>2, <1>5, <1>6 DEF Life!CancelRequested, Life!CancelDecided
<1>8. Lived(s) # Life!Unborn
  BY <1>6 DEF Life!Retained, Life!Unborn
<1> QED BY <1>3, <1>7, <1>8, OneRunMoves

\* A step that the lemmas about rows describe and that leaves the cancellation of
\* an admitted Run alone.
LEMMA UsedRowLife ==
  ASSUME TypeOK, Consistent, NEW s \in Runs, RowStep(s),
         \A o \in Runs \ {s} : admissions'[o] \in {CleanRow(o), admissions[o]},
         admissions[s].status # "none", admissions'[s].cancel = admissions[s].cancel
  PROVE  Life!LifeNext
<1>1. ~Admits(s)
  BY DEF Admits
<1> QED BY <1>1, RowLife DEF RowStep

\* The same for a row that a cleanup left usable.
LEMMA CleanedRowLife ==
  ASSUME TypeOK, Consistent, NEW s \in Runs, RowStep(s),
         \A o \in Runs \ {s} : admissions'[o] = CleanRow(o),
         CleanRow(s).status \in {"issued", "redeemed"},
         admissions'[s].cancel = CleanRow(s).cancel
  PROVE  Life!LifeNext
<1>1. admissions[s] \in Admission
  BY DEF TypeOK
<1>2. CleanRow(s) = [admissions[s] EXCEPT !.keep = CleanRow(s).keep]
  BY CleanRowUsable
<1>3. CleanRow(s).status = admissions[s].status /\ CleanRow(s).cancel = admissions[s].cancel
  BY <1>1, <1>2 DEF Admission
<1> QED BY <1>3, UsedRowLife

\* Every operation of the ledger is a step of a Run's life, or of none.
LEMMA AdmissionsLife ==
  ASSUME TypeOK, Consistent, AdmissionsNext
  PROVE  [Life!LifeNext]_[r \in Runs |-> LifeOf(admissions[r])]
<1>0. /\ admissions \in [Runs -> Admission] /\ Cleaned \in [Runs -> Admission]
      /\ \A r \in Runs : Cleaned[r] = CleanRow(r)
  BY CleanedType DEF TypeOK, Cleaned
<1>1. ASSUME NEW q \in Requests, NEW b \in BriefUse, CreateNew(q, b)
      PROVE  Life!LifeNext
  BY <1>1, CreateLife
<1>2. ASSUME NEW q \in Requests, CreateReissue(q) \/ CreateStale(q)
      PROVE  Life!LifeNext
  <2>1. PICK s \in Runs :
          /\ Cleaned[s].status = "issued"
          /\ \/ admissions' = [Cleaned EXCEPT ![s].nonce = @ + 1]
             \/ admissions' = [Cleaned EXCEPT ![s].status = "expired"]
    BY <1>2 DEF CreateReissue, CreateStale, Matching
  <2>2. \A o \in Runs \ {s} : admissions'[o] = CleanRow(o)
    BY <1>0, <2>1
  <2>3. admissions'[s].cancel = CleanRow(s).cancel
    BY <1>0, <2>1 DEF Admission
  <2>4. RowStep(s)
    BY <1>2, ReissueStep
  <2> QED BY <1>0, <2>1, <2>2, <2>3, <2>4, CleanedRowLife
<1>3. ASSUME admissions' = Cleaned
      PROVE  [Life!LifeNext]_[r \in Runs |-> LifeOf(admissions[r])]
  BY <1>0, <1>3, CleanupLife
<1>4. ASSUME NEW s \in Runs, NEW nonce \in 1..MaxNonce, NEW delivered \in BOOLEAN,
             Verify(s, nonce, delivered), admissions' # Cleaned
      PROVE  Life!LifeNext
  <2>1. /\ CleanRow(s).status = "issued"
        /\ \/ admissions' = [Cleaned EXCEPT ![s].status = "expired"]
           \/ admissions' = [Cleaned EXCEPT ![s].recorded = @ \/ (delivered /\ ~SkillsBound)]
    BY <1>0, <1>4 DEF Verify, MatchesIssuedPermit
  <2>2. \A o \in Runs \ {s} : admissions'[o] = CleanRow(o)
    BY <1>0, <2>1
  <2>3. admissions'[s].cancel = CleanRow(s).cancel
    BY <1>0, <2>1 DEF Admission
  <2>4. RowStep(s)
    BY <1>4, VerifyStep
  <2> QED BY <2>1, <2>2, <2>3, <2>4, CleanedRowLife
<1>5. ASSUME NEW s \in Runs, NEW nonce \in 1..MaxNonce, Confirm(s, nonce), admissions' # Cleaned
      PROVE  Life!LifeNext
  <2>1. /\ CleanRow(s).status = "issued"
        /\ \/ admissions' = [Cleaned EXCEPT ![s].status = "expired"]
           \/ admissions' = [Cleaned EXCEPT ![s].status = "redeemed", ![s].redeemer = nonce]
    BY <1>0, <1>5 DEF Confirm, MatchesIssuedPermit
  <2>2. \A o \in Runs \ {s} : admissions'[o] = CleanRow(o)
    BY <1>0, <2>1
  <2>3. admissions'[s].cancel = CleanRow(s).cancel
    BY <1>0, <2>1 DEF Admission
  <2>4. RowStep(s)
    BY <1>5, ConfirmStep
  <2> QED BY <2>1, <2>2, <2>3, <2>4, CleanedRowLife
<1>6. ASSUME NEW s \in Runs, NEW b \in BriefUse, VerifyActive(s, b), admissions' # Cleaned
      PROVE  Life!LifeNext
  <2>1. /\ CleanRow(s).status = "redeemed"
        /\ admissions' = [Cleaned EXCEPT ![s].modelCalls = @ + 1]
    BY <1>0, <1>6 DEF VerifyActive, ClaimsModelCall
  <2>2. \A o \in Runs \ {s} : admissions'[o] = CleanRow(o)
    BY <1>0, <2>1
  <2>3. admissions'[s].cancel = CleanRow(s).cancel
    BY <1>0, <2>1 DEF Admission
  <2>4. RowStep(s)
    BY <1>6, VerifyActiveStep
  <2> QED BY <2>1, <2>2, <2>3, <2>4, CleanedRowLife
<1>7. ASSUME NEW s \in Runs,
             \/ DiscardRecord(s) \/ ReleaseBriefContext(s)
             \/ \E report \in Reported : RecordRun(s, report)
      PROVE  Life!LifeNext
  <2>1. /\ admissions[s].status # "none"
        /\ \A o \in Runs \ {s} : admissions'[o] = admissions[o]
        /\ admissions'[s].cancel = admissions[s].cancel
    BY <1>0, <1>7 DEF DiscardRecord, ReleaseBriefContext, RecordRun, Present, Admission
  <2>2. RowStep(s)
    BY <1>7, CancellationStep
  <2> QED BY <2>1, <2>2, UsedRowLife
<1>8. ASSUME NEW p \in loading, NEW loaded \in BOOLEAN, NEW delivered \in BOOLEAN,
             VerifyLoaded(p, loaded, delivered), admissions' # admissions
      PROVE  Life!LifeNext
  <2>1. p.run \in Runs
    BY DEF TypeOK, Permits
  <2>2. /\ admissions[p.run].status = "issued"
        /\ \/ admissions' = [admissions EXCEPT ![p.run].status = "expired"]
           \/ admissions' = [admissions EXCEPT ![p.run].recorded = @ \/ delivered]
    BY <1>8 DEF VerifyLoaded, MatchesIssuedPermit
  <2>3. \A o \in Runs \ {p.run} : admissions'[o] = admissions[o]
    BY <1>0, <2>2
  <2>4. admissions'[p.run].cancel = admissions[p.run].cancel
    BY <1>0, <2>1, <2>2 DEF Admission
  <2>5. RowStep(p.run)
    BY <1>8, <2>1, VerifyLoadedStep
  <2> QED BY <2>1, <2>2, <2>3, <2>4, <2>5, UsedRowLife
<1>9. ASSUME NEW s \in Runs,
             RequestCancellation(s) \/ CompleteCancellation(s) \/ ReleaseCancellation(s)
      PROVE  Life!LifeNext
  BY <1>9, CancellationLife
<1>10. ASSUME admissions' = admissions
       PROVE  UNCHANGED [r \in Runs |-> LifeOf(admissions[r])]
  BY <1>10
<1>11. CASE CreateNext
  <2>1. PICK q \in Requests :
          (\E b \in BriefUse : CreateNew(q, b)) \/ CreateReissue(q) \/ CreateStale(q)
          \/ CreateAnswered(q)
    BY <1>11 DEF CreateNext
  <2> QED BY <1>1, <1>2, <1>3, <2>1 DEF CreateAnswered, Cleanup
<1>12. CASE RunNext
  BY <1>3, <1>4, <1>5, <1>6, <1>7, <1>9, <1>12 DEF RunNext
<1>13. CASE LoadNext
  BY <1>8, <1>10, <1>13 DEF LoadNext
<1>14. CASE Cleanup
  BY <1>3, <1>14 DEF Cleanup
<1>15. CASE ChangeAuthority
  BY <1>10, <1>15 DEF ChangeAuthority
<1> QED BY <1>11, <1>12, <1>13, <1>14, <1>15 DEF AdmissionsNext

\* Time changes no life.
LEMMA AgeLife ==
  ASSUME TypeOK, AgeAdmissions
  PROVE  UNCHANGED [r \in Runs |-> LifeOf(admissions[r])]
<1>1. ASSUME NEW r \in Runs
      PROVE  Lives(r) = Lived(r)
  <2>1. admissions[r] \in Admission /\ admissions'[r] = Older(admissions[r])
    BY DEF TypeOK, AgeAdmissions
  <2>2. /\ admissions'[r].status = admissions[r].status
        /\ admissions'[r].request = admissions[r].request
        /\ admissions'[r].cancel = admissions[r].cancel
        /\ admissions'[r].modelCalls = admissions[r].modelCalls
        /\ admissions'[r].toolCalls = admissions[r].toolCalls
    BY <2>1 DEF Older, Admission
  <2> QED BY <2>2, SameLife DEF Lived, Lives
<1> QED BY <1>1, NoneMoves

-----------------------------------------------------------------------------
(* The guarantees of every specification whose steps are admission steps     *)

AdmissionStep ==
  /\ RowsMove /\ AuthorityMove /\ LoadMove
  /\ [Life!LifeNext]_[r \in Runs |-> LifeOf(admissions[r])]

AdmissionInv == Consistent /\ OneRunPerKey /\ NewestPermitRedeems /\ CapacityRespected

\* An empty ledger.
LEMMA AdmissionInit ==
  ASSUME Init
  PROVE  AdmissionInv /\ Life!LifeInit
<1>1. /\ \A r \in Runs : admissions[r] = Blank
      /\ authority.fleet = 1 /\ authority.revision = 1
  BY DEF Init
<1>2. Consistent /\ OneRunPerKey /\ NewestPermitRedeems
  <2>1. \A r \in Runs : admissions[r].status = "none" /\ admissions[r].fleet = 0
                         /\ admissions[r].revision = 0
    BY <1>1 DEF Blank
  <2>2. Consistent
    BY <1>1, <2>1 DEF Consistent
  <2> QED BY <2>1, <2>2 DEF OneRunPerKey, NewestPermitRedeems, Present
<1>3. {r \in Runs : Consuming(admissions[r])} = {}
  BY <1>1 DEF Consuming, Present, Blank
<1>4. CapacityRespected
  BY <1>3, FS_EmptySet, LimitsAssumption DEF CapacityRespected
<1>5. Life!LifeInit
  BY BlankLife DEF Init, Life!LifeInit
<1> QED BY <1>2, <1>4, <1>5 DEF AdmissionInv

\* The conjuncts are inductive beside the types.
LEMMA AdmissionInvStep ==
  ASSUME TypeOK, AdmissionInv, AdmissionStep
  PROVE  AdmissionInv'
BY UniqueKeyStep, NewestPermitStep, CapacityStep, ConsistentStep DEF AdmissionInv, AdmissionStep

\* A step that leaves rows and authority alone.
LEMMA SameRowsStep ==
  ASSUME UNCHANGED <<authority, admissions>>
  PROVE  AdmissionStep
BY SameRow DEF AdmissionStep, RowsMove, RowStep, AuthorityMove, LoadMove

\* Every operation of the ledger is an admission step.
LEMMA OperationStep ==
  ASSUME TypeOK, Consistent, AdmissionsNext
  PROVE  AdmissionStep
<1>1. RowsMove
  BY RowSteps DEF RowsMove
<1>2. CASE CreateNext
  <2>1. AuthorityMove /\ LoadMove
    BY <1>2 DEF CreateNext, CreateNew, CreateReissue, CreateStale, CreateAnswered, Cleanup,
       AuthorityMove, LoadMove
  <2> QED BY <1>1, <2>1, AdmissionsLife DEF AdmissionStep
<1>3. CASE RunNext
  <2>1. authority' = authority /\ loading \subseteq loading'
    BY <1>3
    DEF RunNext, RequestCancellation, CompleteCancellation, ReleaseCancellation, Verify, Confirm,
        VerifyActive, DiscardRecord, ReleaseBriefContext, RecordRun
  <2> QED BY <1>1, <2>1, AdmissionsLife DEF AdmissionStep, AuthorityMove, LoadMove
<1>4. CASE LoadNext \/ Cleanup
  <2>1. AuthorityMove /\ LoadMove
    BY <1>4 DEF LoadNext, VerifyLoaded, Cleanup, AuthorityMove, LoadMove
  <2> QED BY <1>1, <2>1, AdmissionsLife DEF AdmissionStep
<1>5. CASE ChangeAuthority
  BY <1>1, <1>5, AdmissionsLife DEF AdmissionStep, ChangeAuthority, AuthorityMove, LoadMove
<1> QED BY <1>2, <1>3, <1>4, <1>5 DEF AdmissionsNext

\* So is the passage of time.
LEMMA TimeStep ==
  ASSUME TypeOK, AgeAdmissions, UNCHANGED <<authority, loading>>
  PROVE  AdmissionStep
BY AgeStep, AgeLife DEF AdmissionStep, RowsMove, AuthorityMove, LoadMove

\* So is the claim of one call by a Run under current authority.
LEMMA ClaimStep ==
  ASSUME TypeOK, Consistent, NEW s \in Runs, Claims(admissions[s], admissions'[s]),
         ~Superseded(admissions[s]), UNCHANGED <<authority, loading>>,
         \A o \in Runs \ {s} : admissions'[o] = admissions[o]
  PROVE  AdmissionStep
<1>1. RowsMove
  BY SameRow DEF RowsMove, RowStep
<1>2. Life!LifeNext
  BY RowLife
<1> QED BY <1>1, <1>2 DEF AdmissionStep, AuthorityMove, LoadMove

\* The steps of the ledger alone.
LEMMA NextStep ==
  ASSUME TypeOK, Consistent, [Next]_vars
  PROVE  AdmissionStep
<1>1. CASE Tick
  BY <1>1, TimeStep DEF Tick
<1>2. CASE Restart \/ UNCHANGED vars
  BY <1>2, SameRowsStep DEF Restart, vars
<1> QED BY <1>1, <1>2, OperationStep DEF Next

\* A behaviour of typed states that starts empty and takes admission steps only.
AdmissionBehaviour == Init /\ []TypeOK /\ [][Consistent => AdmissionStep]_vars

\* The invariant of every such behaviour.
LEMMA AdmissionInvariant == AdmissionBehaviour => []AdmissionInv
<1>1. Init => AdmissionInv
  BY AdmissionInit
<1>2. TypeOK /\ AdmissionInv /\ [Consistent => AdmissionStep]_vars => AdmissionInv'
  <2> SUFFICES ASSUME TypeOK, AdmissionInv, [Consistent => AdmissionStep]_vars
               PROVE  AdmissionInv'
    OBVIOUS
  <2>1. AdmissionStep
    BY SameRowsStep DEF AdmissionInv, vars
  <2> QED BY <2>1, AdmissionInvStep
<1> QED BY <1>1, <1>2, PTL DEF AdmissionBehaviour

\* A completed cancellation is final in every such behaviour.
LEMMA BehaviourCancels == AdmissionBehaviour => CancelledIsFinal
<1>1. Consistent /\ [Consistent => AdmissionStep]_vars =>
        [\A r \in Runs :
          admissions[r].cancel = "cancelled" =>
            \/ admissions'[r].status = "deleted"
            \/ admissions'[r].cancel = "cancelled" /\ Spent(r)' = Spent(r)]_vars
  BY CancelledStays DEF AdmissionStep
<1>2. AdmissionInv => Consistent
  BY DEF AdmissionInv
<1> QED BY <1>1, <1>2, AdmissionInvariant, PTL DEF AdmissionBehaviour, CancelledIsFinal

\* So is the loss of authority.
LEMMA BehaviourRevokes == AdmissionBehaviour => RevocationIsFinal
<1>1. TypeOK /\ Consistent /\ [Consistent => AdmissionStep]_vars =>
        [\A r \in Runs :
          (Present(admissions[r]) /\ Superseded(admissions[r])) =>
            \/ admissions'[r].status = "deleted"
            \/ Spent(r)' = Spent(r) /\ Superseded(admissions[r])']_vars
  BY SupersededStays DEF AdmissionStep
<1>2. AdmissionInv => Consistent
  BY DEF AdmissionInv
<1> QED BY <1>1, <1>2, AdmissionInvariant, PTL DEF AdmissionBehaviour, RevocationIsFinal

\* The states of a Run keep their order.
LEMMA BehaviourOrders == AdmissionBehaviour => StatusOrder
<1>1. Consistent /\ [Consistent => AdmissionStep]_vars =>
        [\A r \in Runs :
          /\ admissions[r].status = "deleted" => admissions'[r] = admissions[r]
          /\ admissions[r].status \in {"redeemed", "expired"} =>
               admissions'[r].status \in {admissions[r].status, "deleted"}]_vars
  BY OrderKept DEF AdmissionStep
<1>2. AdmissionInv => Consistent
  BY DEF AdmissionInv
<1> QED BY <1>1, <1>2, AdmissionInvariant, PTL DEF AdmissionBehaviour, StatusOrder

\* A stale load starts no session.
LEMMA BehaviourLoads == AdmissionBehaviour => StaleLoadRefused
<1>1. TypeOK /\ Consistent /\ [Consistent => AdmissionStep]_vars =>
        [\A p \in loading :
          (~admissions[p.run].recorded /\ admissions'[p.run].recorded /\ p \notin loading') =>
            /\ admissions[p.run].nonce = p.nonce
            /\ admissions[p.run].cancel = "none"
            /\ admissions[p.run].age < Lifetime
            /\ ~Superseded(admissions[p.run])]_vars
  BY LoadChecked DEF AdmissionStep
<1>2. AdmissionInv => Consistent
  BY DEF AdmissionInv
<1> QED BY <1>1, <1>2, AdmissionInvariant, PTL DEF AdmissionBehaviour, StaleLoadRefused

\* Runs live as RunLife says.
LEMMA BehaviourLives == AdmissionBehaviour => ImplementsRunLife
<1>1. Init => Life!LifeInit
  BY AdmissionInit
<1>2. Consistent /\ [Consistent => AdmissionStep]_vars =>
        [Life!LifeNext]_[r \in Runs |-> LifeOf(admissions[r])]
  BY SameRowsStep DEF AdmissionStep, vars
<1>3. AdmissionInv => Consistent
  BY DEF AdmissionInv
<1> QED BY <1>1, <1>2, <1>3, AdmissionInvariant, PTL
    DEF AdmissionBehaviour, ImplementsRunLife, Life!LifeSpec

-----------------------------------------------------------------------------
(* The theorems about the ledger alone *)

\* The ledger alone behaves so.
LEMMA SpecBehaves == Spec => AdmissionBehaviour
<1>1. TypeOK /\ [Next]_vars => [Consistent => AdmissionStep]_vars
  BY NextStep
<1> QED BY <1>1, TypeCorrect, PTL DEF Spec, AdmissionBehaviour

\* However requests are repeated, an idempotency key names one retained Run.
THEOREM UniqueKey == Spec => []OneRunPerKey
<1>1. AdmissionInv => OneRunPerKey
  BY DEF AdmissionInv
<1> QED BY <1>1, SpecBehaves, AdmissionInvariant, PTL

\* A permit superseded by a replay never starts the Run.
THEOREM OnlyNewestPermit == Spec => []NewestPermitRedeems
<1>1. AdmissionInv => NewestPermitRedeems
  BY DEF AdmissionInv
<1> QED BY <1>1, SpecBehaves, AdmissionInvariant, PTL

\* The Runs that hold a slot never exceed the fleet's capacity.
THEOREM Capacity == Spec => []CapacityRespected
<1>1. AdmissionInv => CapacityRespected
  BY DEF AdmissionInv
<1> QED BY <1>1, SpecBehaves, AdmissionInvariant, PTL

\* An unused or deleted Run id has no history, and no row is ahead of the owner's
\* revisions: the strengthening that the action properties rest on.
THEOREM LedgerConsistent == Spec => []Consistent
<1>1. AdmissionInv => Consistent
  BY DEF AdmissionInv
<1> QED BY <1>1, SpecBehaves, AdmissionInvariant, PTL

\* A completed cancellation is final, whatever permits are still in flight.
THEOREM CancellationFinal == Spec => CancelledIsFinal
BY SpecBehaves, BehaviourCancels, PTL

\* A Run admitted under a configuration that was replaced, or for an Agent that
\* was disabled, does no more work; nor does any later step make it current again.
THEOREM RevocationFinal == Spec => RevocationIsFinal
BY SpecBehaves, BehaviourRevokes, PTL

\* The order of the states of a Run.
THEOREM StatusOrdered == Spec => StatusOrder
BY SpecBehaves, BehaviourOrders, PTL

\* A permit that was being loaded while its Run was cancelled, reissued, expired or
\* superseded lets no session start.
THEOREM StaleLoad == Spec => StaleLoadRefused
BY SpecBehaves, BehaviourLoads, PTL

\* The ledger implements the abstract life of its Runs.
THEOREM RunLifeImplemented == Spec => ImplementsRunLife
BY SpecBehaves, BehaviourLives, PTL
=============================================================================
