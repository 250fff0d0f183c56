--------------------------- MODULE RunAdmissions ---------------------------
(***************************************************************************)
(* The Run admission ledger of one owner: the run_admissions table of the  *)
(* OwnerControlPlane Durable Object and every operation of the class       *)
(* RunAdmissions on it.                                                    *)
(*                                                                         *)
(* An operation of the class is one SQLite transaction and so one action.  *)
(* The only operation that awaits between two transactions is verify,      *)
(* which loads Skill packages from object storage in the middle; it is two *)
(* actions, and everything else may run between them.                      *)
(*                                                                         *)
(* Time is kept per row, as the number of ticks since an instant (age,     *)
(* runAge) or until one (keep), so the state space needs no clock bound.   *)
(* A row without an admission has status "none" (its random Run id has not *)
(* been drawn yet) or "deleted" (the retention cleanup removed it).        *)
(***************************************************************************)
EXTENDS Integers, FiniteSets

CONSTANTS
  Runs,                \* Run ids, drawn at random and never drawn twice
  Keys,                \* (client, idempotency key) pairs
  Payloads,            \* what the request digest is computed from
  MaxConcurrentRuns,   \* fleet capacity.maxConcurrentRuns
  MaxAdmissions,       \* MAXIMUM_RUN_ADMISSIONS_PER_OWNER
  MaxModelCalls,       \* budgetReservation.maxModelCalls
  Lifetime,            \* RUN_ADMISSION_LIFETIME_MS, in ticks
  MaxDuration,         \* budgetReservation.maxDurationSeconds, in ticks
  Retention,           \* budgetReservation.retentionSeconds, in ticks
  SkillsBound,         \* the Agent's plan names at least one Skill
  ToolCalls,           \* tool call ids of the external tool ledger
  RuntimeCalls,        \* tool call ids of the runtime tool ledger
  Effects,             \* effect digests of external tool actions
  Volatile,            \* kinds of authority change this instance lets happen
  BriefUse,            \* whether a request names Briefs: a subset of BOOLEAN
  Reported,            \* the Run statuses sessions report in this instance
  MaxRevision,         \* bound on fleet and Agent revisions
  MaxNonce             \* bound on the permits issued for one Run

AuthorityChanges == {"fleet", "revise", "disable", "connection", "grant", "catalog", "skills"}

RunStatuses == {"running", "completed", "failed", "cancelled"}

ASSUME LimitsAssumption ==
  /\ MaxConcurrentRuns \in Nat /\ MaxAdmissions \in Nat /\ MaxModelCalls \in Nat
  /\ MaxRevision \in Nat \ {0} /\ MaxNonce \in Nat \ {0}
  /\ SkillsBound \in BOOLEAN
  /\ Volatile \subseteq AuthorityChanges
  /\ BriefUse \subseteq BOOLEAN /\ Reported \subseteq RunStatuses
  /\ IsFiniteSet(Runs) /\ "none" \notin Runs \cup Effects

\* The contracts: a permit lives 30 seconds, a Run at most an hour, and the
\* shortest retention is an hour.
ASSUME TimeAssumption ==
  /\ Lifetime \in Nat \ {0} /\ MaxDuration \in Nat \ {0} /\ Retention \in Nat \ {0}
  /\ Lifetime <= Retention /\ MaxDuration <= Retention

VARIABLES
  authority,           \* what the owner currently allows
  admissions,          \* run_admissions, one row per Run id
  loading,             \* permits whose verify awaits the Skill load
  executions,          \* tool_executions, changed by module ToolExecutions
  approvals,           \* tool_approvals, changed by module ToolExecutions
  runtimeExecutions    \* runtime_tool_executions, by module RuntimeToolExecutions

ledgers == <<executions, approvals, runtimeExecutions>>
vars == <<authority, admissions, loading, executions, approvals, runtimeExecutions>>

NoRequest == [key |-> "none", payload |-> "none"]
Requests == [key : Keys, payload : Payloads]
AgeCap == IF Lifetime > MaxDuration THEN Lifetime ELSE MaxDuration

\* recorded is the record of the Run in the storage of its CrewSession; redeemer
\* is history only, the nonce that redeemed the row.
Admission ==
  [status : {"none", "issued", "redeemed", "expired", "deleted"},
   request : Requests \cup {NoRequest},
   nonce : 0..MaxNonce,
   redeemer : 0..MaxNonce,
   fleet : 0..MaxRevision,
   revision : 0..MaxRevision,
   granted : BOOLEAN,
   brief : BOOLEAN,
   recorded : BOOLEAN,
   cancel : {"none", "requested", "cancelled"},
   inbox : {"none"} \cup RunStatuses,
   modelCalls : 0..MaxModelCalls,
   toolCalls : Nat,
   age : 0..AgeCap,
   runAge : 0..MaxDuration,
   keep : 0..Retention]

Blank ==
  [status |-> "none", request |-> NoRequest, nonce |-> 0, redeemer |-> 0, fleet |-> 0,
   revision |-> 0, granted |-> FALSE, brief |-> FALSE, recorded |-> FALSE, cancel |-> "none",
   inbox |-> "none",
   modelCalls |-> 0, toolCalls |-> 0, age |-> 0, runAge |-> 0,
   keep |-> 0]

Deleted == [Blank EXCEPT !.status = "deleted"]

Authority ==
  [fleet : 1..MaxRevision,
   revision : 1..MaxRevision,
   agent : {"active", "disabled"},
   connection : {"active", "revoked"},
   grant : {"active", "revoked", "none"},
   compiles : BOOLEAN,
   skills : BOOLEAN]

Permits == [run : Runs, nonce : 1..MaxNonce]

Execution ==
  [status : {"none", "reserved", "completed", "failed", "unknown", "deleted"},
   run : Runs \cup {"none"},
   effect : Effects \cup {"none"},
   dispatched : BOOLEAN,
   dispatches : Nat,
   ttl : Int,
   permitTtl : Nat,
   reconciliation : {"none", "applied", "not_applied"}]

NoExecution ==
  [status |-> "none", run |-> "none", effect |-> "none", dispatched |-> FALSE, dispatches |-> 0,
   ttl |-> 0, permitTtl |-> 0, reconciliation |-> "none"]

\* The digest an approval is bound to stands for the Run and the effect.
Approval ==
  [decision : {"none", "pending", "approved", "rejected"},
   run : Runs \cup {"none"},
   effect : Effects \cup {"none"},
   ttl : Nat]

NoApproval == [decision |-> "none", run |-> "none", effect |-> "none", ttl |-> 0]

RuntimeExecution ==
  [status : {"none", "reserved", "completed", "failed", "unknown", "deleted"},
   run : Runs \cup {"none"},
   tool : {"none", "web", "sandbox"},
   dispatched : BOOLEAN,
   cleaned : BOOLEAN,
   permitTtl : Nat,
   ttl : Int,
   retry : Nat]

NoRuntimeExecution ==
  [status |-> "none", run |-> "none", tool |-> "none", dispatched |-> FALSE, cleaned |-> TRUE,
   permitTtl |-> 0, ttl |-> 0, retry |-> 0]

-----------------------------------------------------------------------------
(* Queries *)

Present(row) == row.status \in {"issued", "redeemed", "expired"}

Dispatched(r) == \E t \in ToolCalls : executions[t].run = r /\ executions[t].dispatched

\* Mutation: only the Sandboxes are looked at.
UnresolvedSandbox(r) ==
  \E t \in RuntimeCalls : runtimeExecutions[t].run = r /\ ~runtimeExecutions[t].cleaned

\* What keeps an admission past its retention: an external effect of unknown
\* outcome, or a Sandbox whose destruction is not confirmed.
Unresolved(r) ==
  \/ \E t \in ToolCalls : executions[t].run = r /\ executions[t].status = "unknown"
  \/ \E t \in RuntimeCalls : runtimeExecutions[t].run = r /\ ~runtimeExecutions[t].cleaned

\* What makes a Run that reports completion a failed one, given the ledger x of
\* its calls: an unresolved outcome, or a failed call and no completed one.
ProjectsFailed(r, x) ==
  \/ \E t \in ToolCalls :
       x[t].run = r /\ x[t].status = "unknown" /\ x[t].reconciliation = "none"
  \/ /\ \E t \in ToolCalls : x[t].run = r /\ x[t].status = "failed"
     /\ ~\E t \in ToolCalls : x[t].run = r /\ x[t].status = "completed"

Projected(row) ==
  CASE row.cancel = "cancelled" -> "cancelled"
    [] row.cancel = "requested" -> "cancelling"
    [] row.cancel = "none" /\ row.status = "issued" -> "queued"
    [] row.cancel = "none" /\ row.status = "expired" -> "failed"
    [] row.cancel = "none" /\ row.status = "redeemed" /\ row.inbox # "none" -> row.inbox
    [] row.cancel = "none" /\ row.status = "redeemed" /\ row.inbox = "none" ->
         IF row.runAge >= MaxDuration THEN "failed" ELSE "running"
    [] OTHER -> "absent"

Active(row) == Present(row) /\ Projected(row) \in {"queued", "running", "cancelling"}

ActiveRuns(adm) == {r \in Runs : Active(adm[r])}

\* The grants of the current revision can be reserved: none of them hangs on a
\* connection that is not active. A revoked grant is left out, not refused.
GrantsAvailable == authority.grant = "none" \/ authority.connection = "active"

\* Mutation: the configuration is compared by the fleet's revision only.
ConfigurationOfFleet(row) ==
  /\ authority.fleet = row.fleet
  /\ GrantsAvailable
  /\ row.granted = (authority.grant = "active")

ConfigurationActive(row) ==
  /\ authority.fleet = row.fleet
  /\ authority.revision = row.revision
  /\ authority.agent = "active"
  /\ authority.compiles
  /\ row.status = "issued" => (SkillsBound => authority.skills)
  /\ GrantsAvailable
  /\ row.granted = (authority.grant = "active")

-----------------------------------------------------------------------------
(* The retention cleanup, which runs first in most operations *)

Expired(row) ==
  IF row.status = "issued" /\ row.age >= Lifetime THEN [row EXCEPT !.status = "expired"] ELSE row

\* Mutation: admissions that never started are not collected.
PastRetentionStarted(row) == row.status = "redeemed" /\ row.keep = 0 /\ ~row.brief

PastRetention(row) == Present(row) /\ row.keep = 0 /\ ~row.brief

CleanRow(r) ==
  IF PastRetention(admissions[r])
  THEN IF Unresolved(r) THEN [Expired(admissions[r]) EXCEPT !.keep = Retention] ELSE Deleted
  ELSE Expired(admissions[r])

Cleaned == [r \in Runs |-> CleanRow(r)]

Erased == {r \in Runs : PastRetention(admissions[r]) /\ ~Unresolved(r)}

\* Deleting an admission deletes its rows in the three tool tables.
EraseLedgers(gone) ==
  /\ executions' = [t \in ToolCalls |->
       IF executions[t].run \in gone
       THEN [NoExecution EXCEPT !.status = "deleted"] ELSE executions[t]]
  /\ approvals' = [t \in ToolCalls |->
       IF approvals[t].run \in gone THEN NoApproval ELSE approvals[t]]
  /\ runtimeExecutions' = [t \in RuntimeCalls |->
       IF runtimeExecutions[t].run \in gone
       THEN [NoRuntimeExecution EXCEPT !.status = "deleted"] ELSE runtimeExecutions[t]]

CleanLedgers == EraseLedgers(Erased)

Cleanup ==
  /\ admissions' = Cleaned
  /\ CleanLedgers
  /\ UNCHANGED <<authority, loading>>

-----------------------------------------------------------------------------
(* create *)

\* Mutation: the look-up by idempotency key sees only issued admissions.
MatchingIssued(adm, q) == {r \in Runs : adm[r].status = "issued" /\ adm[r].request.key = q.key}

Matching(adm, q) == {r \in Runs : Present(adm[r]) /\ adm[r].request.key = q.key}

AgentAdmits ==
  /\ authority.agent = "active"
  /\ authority.compiles
  /\ SkillsBound => authority.skills
  /\ GrantsAvailable

\* Mutation: off by one.
HasCapacityPlusOne(adm) ==
  /\ Cardinality({r \in Runs : Present(adm[r])}) <= MaxAdmissions
  /\ Cardinality(ActiveRuns(adm)) <= MaxConcurrentRuns

HasCapacity(adm) ==
  /\ Cardinality({r \in Runs : Present(adm[r])}) < MaxAdmissions
  /\ Cardinality(ActiveRuns(adm)) < MaxConcurrentRuns

NewAdmission(q, withBrief) ==
  [Blank EXCEPT !.status = "issued", !.request = q, !.nonce = 1,
                !.fleet = authority.fleet, !.revision = authority.revision,
                !.granted = (authority.grant = "active"), !.brief = withBrief,
                !.keep = Retention]

\* A first request: a new Run id and a permit with a fresh nonce.
CreateNew(q, withBrief) ==
  /\ Matching(Cleaned, q) = {}
  /\ AgentAdmits
  /\ HasCapacity(Cleaned)
  /\ \E r \in Runs :
       /\ admissions[r].status = "none"
       /\ admissions' = [Cleaned EXCEPT ![r] = NewAdmission(q, withBrief)]
  /\ CleanLedgers
  /\ UNCHANGED <<authority, loading>>

\* A replay of a request whose admission is still issued: the same Run, a fresh
\* nonce, and every earlier permit is dead.
CreateReissue(q) ==
  /\ \E r \in Matching(Cleaned, q) :
       /\ Cleaned[r].request = q
       /\ Cleaned[r].status = "issued"
       /\ ConfigurationActive(Cleaned[r])
       /\ Cleaned[r].nonce < MaxNonce
       /\ admissions' = [Cleaned EXCEPT ![r].nonce = @ + 1]
  /\ CleanLedgers
  /\ UNCHANGED <<authority, loading>>

\* The same replay when the admitted configuration is gone.
CreateStale(q) ==
  /\ \E r \in Matching(Cleaned, q) :
       /\ Cleaned[r].request = q
       /\ Cleaned[r].status = "issued"
       /\ ~ConfigurationActive(Cleaned[r])
       /\ admissions' = [Cleaned EXCEPT ![r].status = "expired"]
  /\ CleanLedgers
  /\ UNCHANGED <<authority, loading>>

\* Every other answer leaves only what the cleanup did: a conflicting payload, a
\* replay of a redeemed or expired admission, an unavailable Agent, no capacity.
CreateAnswered(q) ==
  /\ IF Matching(Cleaned, q) = {}
     THEN ~AgentAdmits \/ ~HasCapacity(Cleaned)
     ELSE \E r \in Matching(Cleaned, q) :
            Cleaned[r].request # q \/ Cleaned[r].status # "issued"
  /\ Cleanup

-----------------------------------------------------------------------------
(* Cancellation *)

RequestCancellation(r) ==
  /\ Present(admissions[r])
  /\ admissions[r].cancel = "none"
  /\ admissions[r].status # "expired"
  /\ ~Dispatched(r)
  /\ admissions' = [admissions EXCEPT ![r].cancel = "requested"]
  /\ UNCHANGED <<authority, loading, ledgers>>

CompleteCancellation(r) ==
  /\ Present(admissions[r])
  /\ admissions[r].cancel = "requested"
  /\ admissions' = [admissions EXCEPT ![r].cancel = "cancelled"]
  /\ UNCHANGED <<authority, loading, ledgers>>

ReleaseCancellation(r) ==
  /\ Present(admissions[r])
  /\ admissions[r].cancel = "requested"
  /\ admissions' = [admissions EXCEPT ![r].cancel = "none"]
  /\ UNCHANGED <<authority, loading, ledgers>>

-----------------------------------------------------------------------------
(* Redemption of a permit by the Run's CrewSession. A permit may be presented *)
(* late, twice, or after a newer one was issued.                              *)

\* Mutations: any permit of the Run will do; a cancellation is not looked at.
MatchesAnyPermit(row, nonce) ==
  row.status = "issued" /\ row.cancel = "none" /\ row.age < Lifetime

MatchesCancelledPermit(row, nonce) ==
  row.status = "issued" /\ row.nonce = nonce /\ row.age < Lifetime

MatchesIssuedPermit(row, nonce) ==
  /\ row.status = "issued"
  /\ row.cancel = "none"
  /\ row.nonce = nonce
  /\ row.age < Lifetime

\* The first transaction of verify, whole when the plan names no Skill. If the
\* answer reaches the session (delivered), it stores its record of the Run.
Verify(r, nonce, delivered) ==
  /\ nonce \in 1..admissions[r].nonce
  /\ LET row == Cleaned[r]
         matches == MatchesIssuedPermit(row, nonce)
         accepted == matches /\ ConfigurationActive(row) IN
     /\ admissions' =
          IF ~matches THEN Cleaned
          ELSE IF ~accepted THEN [Cleaned EXCEPT ![r].status = "expired"]
          ELSE [Cleaned EXCEPT ![r].recorded = @ \/ (delivered /\ ~SkillsBound)]
     /\ loading' = IF accepted /\ SkillsBound
                   THEN loading \cup {[run |-> r, nonce |-> nonce]} ELSE loading
  /\ CleanLedgers
  /\ UNCHANGED authority

\* Mutation: what the first transaction found is trusted after the load.
VerifyLoadedTrusting(p, loaded, delivered) ==
  /\ p \in loading
  /\ loading' = loading \ {p}
  /\ admissions' = IF loaded /\ delivered /\ Present(admissions[p.run])
                   THEN [admissions EXCEPT ![p.run].recorded = TRUE] ELSE admissions
  /\ UNCHANGED <<authority, ledgers>>

\* The second transaction, after the Skill packages were loaded or not.
VerifyLoaded(p, loaded, delivered) ==
  /\ p \in loading
  /\ loading' = loading \ {p}
  /\ LET row == admissions[p.run]
         accepted == loaded /\ ConfigurationActive(row) IN
     admissions' =
       IF ~MatchesIssuedPermit(row, p.nonce) THEN admissions
       ELSE IF ~accepted THEN [admissions EXCEPT ![p.run].status = "expired"]
       ELSE [admissions EXCEPT ![p.run].recorded = @ \/ delivered]
  /\ UNCHANGED <<authority, ledgers>>

\* Only a session that has stored its record asks for confirmation.
Confirm(r, nonce) ==
  /\ nonce \in 1..admissions[r].nonce
  /\ admissions[r].recorded
  /\ LET row == Cleaned[r]
         redeemable == MatchesIssuedPermit(row, nonce) IN
     admissions' = IF ~redeemable THEN Cleaned
                   ELSE IF ConfigurationActive(row)
                        THEN [Cleaned EXCEPT ![r].status = "redeemed", ![r].redeemer = nonce]
                        ELSE [Cleaned EXCEPT ![r].status = "expired"]
  /\ CleanLedgers
  /\ UNCHANGED <<authority, loading>>

\* Mutation: the model call budget is not looked at.
ClaimsUnbounded(row, withBrief) ==
  row.status = "redeemed" /\ row.cancel = "none" /\ row.keep > 0 /\ row.brief = withBrief

ClaimsModelCall(row, withBrief) ==
  /\ row.status = "redeemed"
  /\ row.cancel = "none"
  /\ row.keep > 0
  /\ row.modelCalls < MaxModelCalls
  /\ row.brief = withBrief
  /\ ConfigurationActive(row)

\* verifyActive: the session claims one model call, with the same brief context
\* it was admitted with (withBrief).
VerifyActive(r, withBrief) ==
  /\ admissions' = IF ClaimsModelCall(Cleaned[r], withBrief)
                   THEN [Cleaned EXCEPT ![r].modelCalls = @ + 1] ELSE Cleaned
  /\ CleanLedgers
  /\ UNCHANGED <<authority, loading>>

\* The session discards the record of a Run it could not submit.
DiscardRecord(r) ==
  /\ admissions[r].status = "redeemed"
  /\ admissions[r].recorded
  /\ admissions[r].inbox = "none"
  /\ admissions' = [admissions EXCEPT ![r].recorded = FALSE]
  /\ UNCHANGED <<authority, loading, ledgers>>

\* The clean-up of the session's own record, due when its retention has passed,
\* releases the Brief reference of the admission.
ReleaseBriefContext(r) ==
  /\ Present(admissions[r])
  /\ admissions[r].brief
  /\ admissions[r].recorded
  /\ admissions[r].keep = 0
  /\ admissions' = [admissions EXCEPT ![r].brief = FALSE]
  /\ UNCHANGED <<authority, loading, ledgers>>

Recorded(r, runStatus) ==
  IF runStatus = "completed" /\ ProjectsFailed(r, executions) THEN "failed" ELSE runStatus

\* AgentInbox.recordRun: the projection of the Run delivered by its session. An
\* event no newer than the stored one is ignored, and the session reports no
\* progress after a terminal status, so a terminal entry is only replaced by
\* the owner's own record of a cancellation. A completion the tool ledger does
\* not bear out is stored as a failure.
RecordRun(r, runStatus) ==
  /\ \/ admissions[r].status = "redeemed"
     \/ Present(admissions[r]) /\ runStatus = "cancelled" /\ admissions[r].cancel = "cancelled"
  /\ \/ admissions[r].inbox \in {"none", "running"}
     \/ runStatus = "cancelled" /\ admissions[r].cancel = "cancelled"
  /\ admissions' = [admissions EXCEPT ![r].inbox = Recorded(r, runStatus)]
  /\ UNCHANGED <<authority, loading, ledgers>>

-----------------------------------------------------------------------------
(* The owner changes what is allowed. Disabling and revoking are permanent.  *)

ConfigureFleet ==
  /\ "fleet" \in Volatile
  /\ authority.fleet < MaxRevision
  /\ authority' = [authority EXCEPT !.fleet = @ + 1]

\* The new revision carries copies of the active grants and no others.
UpdateAgent ==
  /\ "revise" \in Volatile
  /\ authority.revision < MaxRevision
  /\ authority' = [authority EXCEPT
       !.revision = @ + 1, !.grant = IF @ = "active" THEN "active" ELSE "none"]

DisableAgent ==
  /\ "disable" \in Volatile
  /\ authority.agent = "active"
  /\ authority' = [authority EXCEPT !.agent = "disabled"]

RevokeConnection ==
  /\ "connection" \in Volatile
  /\ authority.connection = "active"
  /\ authority' = [authority EXCEPT
       !.connection = "revoked", !.grant = IF @ = "active" THEN "revoked" ELSE @]

RevokeGrant ==
  /\ "grant" \in Volatile
  /\ authority.grant = "active"
  /\ authority' = [authority EXCEPT !.grant = "revoked"]

\* The model catalog, or a deployment prerequisite, comes and goes.
ChangeCatalog ==
  /\ "catalog" \in Volatile
  /\ authority' = [authority EXCEPT !.compiles = ~@]

ChangeSkill ==
  /\ "skills" \in Volatile
  /\ authority' = [authority EXCEPT !.skills = ~@]

ChangeAuthority ==
  /\ \/ ConfigureFleet \/ UpdateAgent \/ DisableAgent \/ RevokeConnection
     \/ RevokeGrant \/ ChangeCatalog \/ ChangeSkill
  /\ UNCHANGED <<admissions, loading, ledgers>>

-----------------------------------------------------------------------------
(* Time *)

Older(row) ==
  IF Present(row)
  THEN [row EXCEPT !.age = IF @ < AgeCap THEN @ + 1 ELSE @,
                   !.runAge = IF row.status = "redeemed" /\ @ < MaxDuration THEN @ + 1 ELSE @,
                   !.keep = IF @ > 0 THEN @ - 1 ELSE @]
  ELSE row

AgeAdmissions == admissions' = [r \in Runs |-> Older(admissions[r])]

Tick ==
  /\ AgeAdmissions
  /\ UNCHANGED <<authority, loading, ledgers>>

\* The Durable Object is evicted or crashes: storage stays, suspended calls go.
Restart ==
  /\ loading' = {}
  /\ UNCHANGED <<authority, admissions, ledgers>>

-----------------------------------------------------------------------------
(* The specification *)

Init ==
  /\ authority = [fleet |-> 1, revision |-> 1, agent |-> "active", connection |-> "active",
                  grant |-> "active", compiles |-> TRUE, skills |-> TRUE]
  /\ admissions = [r \in Runs |-> Blank]
  /\ loading = {}
  /\ executions = [t \in ToolCalls |-> NoExecution]
  /\ approvals = [t \in ToolCalls |-> NoApproval]
  /\ runtimeExecutions = [t \in RuntimeCalls |-> NoRuntimeExecution]

CreateNext ==
  \E q \in Requests :
    \/ \E withBrief \in BriefUse : CreateNew(q, withBrief)
    \/ CreateReissue(q)
    \/ CreateStale(q)
    \/ CreateAnswered(q)

RunNext ==
  \E r \in Runs :
    \/ RequestCancellation(r)
    \/ CompleteCancellation(r)
    \/ ReleaseCancellation(r)
    \/ \E nonce \in 1..MaxNonce :
         (\E delivered \in BOOLEAN : Verify(r, nonce, delivered)) \/ Confirm(r, nonce)
    \/ \E withBrief \in BriefUse : VerifyActive(r, withBrief)
    \/ DiscardRecord(r)
    \/ ReleaseBriefContext(r)
    \/ \E s \in Reported : RecordRun(r, s)

LoadNext == \E p \in loading, loaded, delivered \in BOOLEAN : VerifyLoaded(p, loaded, delivered)

\* Everything but the passage of time and a restart.
AdmissionsNext == CreateNext \/ RunNext \/ LoadNext \/ Cleanup \/ ChangeAuthority

Next == AdmissionsNext \/ Tick \/ Restart

Spec == Init /\ [][Next]_vars

\* The clock runs, the alarm set to nextCleanupAt runs the cleanup, and the
\* session retries releaseBriefContext until it is acknowledged.
Fairness ==
  /\ WF_vars(Tick)
  /\ WF_vars(Cleanup)
  /\ \A r \in Runs : WF_vars(ReleaseBriefContext(r))

FairSpec == Spec /\ Fairness

-----------------------------------------------------------------------------
(* Properties *)

TypeOK ==
  /\ authority \in Authority
  /\ admissions \in [Runs -> Admission]
  /\ loading \subseteq Permits
  /\ executions \in [ToolCalls -> Execution]
  /\ approvals \in [ToolCalls -> Approval]
  /\ runtimeExecutions \in [RuntimeCalls -> RuntimeExecution]

\* However often and however concurrently a client repeats a request, its
\* idempotency key names one retained Run.
OneRunPerKey ==
  \A r1, r2 \in Runs :
    (Present(admissions[r1]) /\ Present(admissions[r2])
      /\ admissions[r1].request.key = admissions[r2].request.key) => r1 = r2

\* A Run is redeemed only by the newest permit issued for it, so of several
\* permits handed out by replays at most one ever starts the Run.
NewestPermitRedeems ==
  \A r \in Runs : admissions[r].status = "redeemed" => admissions[r].redeemer = admissions[r].nonce

\* Runs that hold a slot whatever the inbox or a cancellation request says.
Consuming(row) ==
  /\ Present(row)
  /\ row.cancel # "cancelled"
  /\ \/ row.status = "issued"
     \/ row.status = "redeemed" /\ row.runAge < MaxDuration /\ row.inbox \in {"none", "running"}

\* The fleet capacity bounds the Runs that can be working at one time, through
\* replays, cancellations that are requested and released, expiry and erasure.
CapacityRespected == Cardinality({r \in Runs : Consuming(admissions[r])}) <= MaxConcurrentRuns

Spent(r) == <<admissions[r].status = "redeemed", admissions[r].modelCalls, admissions[r].toolCalls>>

\* Once a cancellation is recorded as complete the Run never starts, claims a
\* model call or reserves a tool call again.
CancelledIsFinal ==
  [][\A r \in Runs :
       admissions[r].cancel = "cancelled" =>
         \/ admissions'[r].status = "deleted"
         \/ admissions'[r].cancel = "cancelled" /\ Spent(r)' = Spent(r)]_vars

\* A Run admitted under a fleet or Agent revision that is no longer current, or
\* for an Agent that is disabled, never starts or claims a model call again.
Superseded(row) ==
  row.fleet # authority.fleet \/ row.revision # authority.revision \/ authority.agent = "disabled"

RevocationIsFinal ==
  [][\A r \in Runs :
       (Present(admissions[r]) /\ Superseded(admissions[r])) =>
         \/ admissions'[r].status = "deleted"
         \/ Spent(r)' = Spent(r) /\ Superseded(admissions[r])']_vars

\* The Skill load gives a permit no more time: a session never starts to work on
\* a Run that was cancelled, reissued, expired or superseded during the load.
StaleLoadRefused ==
  [][\A p \in loading :
       (~admissions[p.run].recorded /\ admissions'[p.run].recorded /\ p \notin loading') =>
         /\ admissions[p.run].nonce = p.nonce
         /\ admissions[p.run].cancel = "none"
         /\ admissions[p.run].age < Lifetime
         /\ ~Superseded(admissions[p.run])]_vars

\* A deleted Run id is never used again, a redeemed Run stays redeemed and an
\* expired one is never revived.
StatusOrder ==
  [][\A r \in Runs :
       /\ admissions[r].status = "deleted" => admissions'[r] = admissions[r]
       /\ admissions[r].status \in {"redeemed", "expired"} =>
            admissions'[r].status \in {admissions[r].status, "deleted"}]_vars

\* No admission outlives its retention for ever, so none keeps its slot, its key
\* or its Brief: unless no session holds a record of the Run any more, or yet.
Orphaned(row) == row.brief /\ ~row.recorded

NothingRetainedForever ==
  \A r \in Runs : []<>(~Present(admissions[r]) \/ Orphaned(admissions[r]))
=============================================================================
