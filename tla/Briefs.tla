------------------------------- MODULE Briefs -------------------------------
(***************************************************************************)
(* The Briefs of an owner (owner/briefs/module.ts): immutable revisions    *)
(* whose metadata are rows and whose content is an object in a bucket. A   *)
(* create or a revision puts its object first and commits its row after    *)
(* that, a deletion seals the Brief, removes the objects one by one and    *)
(* then the rows. Between any two of these steps other calls go on, and a  *)
(* call may die. What holds a Brief are the frozen contexts of Runs and    *)
(* Workflows, and the definitions of Schedules and Event triggers.         *)
(*                                                                         *)
(* External: the bucket, which answers a conditional put, a head or a      *)
(* delete, or fails with the put done or not done.                         *)
(***************************************************************************)
EXTENDS Naturals, FiniteSets

CONSTANTS
  BriefKeys,          \* idempotency keys; the key of a create is the id of its Brief
  BriefContents,
  BriefNames,
  MaxBriefRevision,   \* MAXIMUM_BRIEF_VERSIONS
  MaxBriefs,          \* MAXIMUM_BRIEFS_PER_OWNER
  BriefCallers        \* how many calls run side by side

ASSUME BriefsAssumption ==
  MaxBriefRevision \in Nat \ {0} /\ MaxBriefs \in Nat /\ "none" \notin BriefContents

VARIABLES
  briefs,             \* the rows of Briefs
  briefVersions,      \* content of each committed revision
  briefObjects,       \* what the bucket has for each revision
  briefMutations,     \* the request each key was used for
  frozenBriefs,       \* revisions that a Run or a Workflow holds
  standingBriefs,     \* Briefs that a live Schedule or Event trigger refers to
  briefCalls

briefRows == <<briefs, briefVersions, briefMutations>>
briefHolders == <<frozenBriefs, standingBriefs>>
briefVars == <<briefRows, briefObjects, briefHolders, briefCalls>>

BriefRevisions == 1..MaxBriefRevision

Brief == [status : {"none", "active", "deleting", "deleted"}, revision : 0..MaxBriefRevision,
          name : BriefNames \cup {"none"}]

NoBrief == [status |-> "none", revision |-> 0, name |-> "none"]

BriefRequest == [op : {"create", "revise"}, brief : BriefKeys, content : BriefContents,
                 revision : BriefRevisions, name : BriefNames \cup {"none"}]

BriefPhases == {"idle", "putting", "comparing", "committing", "cleaning", "erasing",
                "finishing", "loading", "freeze", "attach"}

\* created: the put of this call made the object; left: revisions still to delete.
BriefCall == [phase : BriefPhases, key : BriefKeys \cup {"none"},
              op : {"none", "create", "revise", "freeze", "attach"},
              brief : BriefKeys \cup {"none"}, content : BriefContents \cup {"none"},
              revision : 0..MaxBriefRevision, name : BriefNames \cup {"none"},
              created : BOOLEAN, left : SUBSET BriefRevisions]

IdleBriefCall == [phase |-> "idle", key |-> "none", op |-> "none", brief |-> "none",
                  content |-> "none", revision |-> 0, name |-> "none",
                  created |-> FALSE, left |-> {}]

BriefCallIs(c, phase) == briefCalls[c].phase = phase
BriefCallGoes(c, phase) == briefCalls' = [briefCalls EXCEPT ![c].phase = phase]
BriefCallOver(c) == briefCalls' = [briefCalls EXCEPT ![c] = IdleBriefCall]

BriefMutation(call) == [op |-> call.op, brief |-> call.brief, content |-> call.content,
                        revision |-> call.revision, name |-> call.name]

-----------------------------------------------------------------------------
(* create and revise *)

\* The key was not used by a request that was committed.
FreshBriefKey(key) == briefMutations[key] = {}

\* A Brief that is being deleted still counts, and no longer has its name.
BriefCreatable(name) ==
  /\ Cardinality({b \in BriefKeys : briefs[b].status \in {"active", "deleting"}}) < MaxBriefs
  /\ \A b \in BriefKeys : briefs[b].status = "active" => briefs[b].name # name

BriefRevisable(b, revision, content) ==
  /\ briefs[b].status = "active"
  /\ briefs[b].revision + 1 = revision
  /\ briefs[b].revision < MaxBriefRevision
  /\ briefVersions[b][briefs[b].revision] # content

Valid(call) ==
  IF call.op = "create" THEN BriefCreatable(call.name)
  ELSE BriefRevisable(call.brief, call.revision, call.content)

BeginBriefCall(c, call) ==
  /\ BriefCallIs(c, "idle")
  /\ briefCalls' = [briefCalls EXCEPT ![c] = call]
  /\ UNCHANGED <<briefRows, briefObjects, briefHolders>>

CreateBrief(c, key, content, name) ==
  /\ FreshBriefKey(key) /\ BriefCreatable(name)
  /\ BeginBriefCall(c, [IdleBriefCall EXCEPT !.phase = "putting", !.key = key, !.op = "create",
       !.brief = key, !.content = content, !.revision = 1, !.name = name])

ReviseBrief(c, key, b, content) ==
  /\ FreshBriefKey(key)
  /\ BriefRevisable(b, briefs[b].revision + 1, content)
  /\ BeginBriefCall(c, [IdleBriefCall EXCEPT !.phase = "putting", !.key = key, !.op = "revise",
       !.brief = b, !.content = content, !.revision = briefs[b].revision + 1])

\* The put takes place only where there is no object.
PutBrief(c) ==
  LET call == briefCalls[c] IN
  /\ BriefCallIs(c, "putting")
  /\ IF briefObjects[call.brief][call.revision] = "none"
     THEN /\ briefObjects' = [briefObjects EXCEPT ![call.brief][call.revision] = call.content]
          /\ briefCalls' = [briefCalls EXCEPT ![c].phase = "committing", ![c].created = TRUE]
     ELSE BriefCallGoes(c, "comparing") /\ UNCHANGED briefObjects
  /\ UNCHANGED <<briefRows, briefHolders>>

CompareBrief(c) ==
  LET call == briefCalls[c] IN
  /\ BriefCallIs(c, "comparing")
  /\ IF briefObjects[call.brief][call.revision] = call.content
     THEN BriefCallGoes(c, "committing") ELSE BriefCallOver(c)
  /\ UNCHANGED <<briefRows, briefObjects, briefHolders>>

\* The bucket fails, or the call dies: the put may have taken place.
PutBriefLost(c, landed) ==
  LET call == briefCalls[c] IN
  /\ BriefCallIs(c, "putting")
  /\ briefObjects' =
       IF landed /\ briefObjects[call.brief][call.revision] = "none"
       THEN [briefObjects EXCEPT ![call.brief][call.revision] = call.content] ELSE briefObjects
  /\ BriefCallOver(c)
  /\ UNCHANGED <<briefRows, briefHolders>>

BriefCommits(call) == FreshBriefKey(call.key) /\ Valid(call)

\* A replay of the same request answers, and nothing is cleaned up.
BriefReplays(call) ==
  /\ briefMutations[call.key] = {BriefMutation(call)}
  /\ briefVersions[call.brief][call.revision] # "none"

\* Whether the object this call has put belongs to a committed revision; a create
\* looks only when its transaction threw.
BriefCommitted(call) == briefVersions[call.brief][call.revision] = call.content

CommitBrief(c) ==
  LET call == briefCalls[c] IN
  /\ BriefCallIs(c, "committing")
  /\ BriefCommits(call)
  /\ briefs' = [briefs EXCEPT ![call.brief].status = "active",
                              ![call.brief].revision = call.revision,
                              ![call.brief].name = IF call.op = "create" THEN call.name ELSE @]
  /\ briefVersions' = [briefVersions EXCEPT ![call.brief][call.revision] = call.content]
  /\ briefMutations' = [briefMutations EXCEPT ![call.key] = {BriefMutation(call)}]
  /\ BriefCallOver(c)
  /\ UNCHANGED <<briefObjects, briefHolders>>

\* The transaction refuses the call, or throws.
RefuseBrief(c, threw) ==
  LET call == briefCalls[c]
      keeps == ~call.created \/ ((threw \/ call.op = "revise") /\ BriefCommitted(call)) IN
  /\ BriefCallIs(c, "committing")
  /\ threw \/ ~BriefCommits(call)
  /\ IF keeps \/ (~threw /\ BriefReplays(call)) THEN BriefCallOver(c)
     ELSE BriefCallGoes(c, "cleaning")
  /\ UNCHANGED <<briefRows, briefObjects, briefHolders>>

-----------------------------------------------------------------------------
(* The removal of an object: head, delete *)

HeadBriefObject(c) ==
  LET call == briefCalls[c] IN
  /\ BriefCallIs(c, "cleaning")
  /\ IF briefObjects[call.brief][call.revision] = call.content
     THEN BriefCallGoes(c, "erasing") ELSE BriefCallOver(c)
  /\ UNCHANGED <<briefRows, briefObjects, briefHolders>>

EraseBriefObject(c) ==
  LET call == briefCalls[c] IN
  /\ BriefCallIs(c, "erasing")
  /\ briefObjects' = [briefObjects EXCEPT ![call.brief][call.revision] = "none"]
  /\ IF call.op = "none"
     THEN briefCalls' = [briefCalls EXCEPT ![c].phase = "finishing",
                                           ![c].left = @ \ {call.revision}]
     ELSE BriefCallOver(c)
  /\ UNCHANGED <<briefRows, briefHolders>>

BriefCallDies(c) ==
  /\ ~BriefCallIs(c, "idle")
  /\ BriefCallOver(c)
  /\ UNCHANGED <<briefRows, briefObjects, briefHolders>>

-----------------------------------------------------------------------------
(* delete *)

Referenced(b) == frozenBriefs[b] # {} \/ b \in standingBriefs

CommittedRevisions(b) == {r \in BriefRevisions : briefVersions[b][r] # "none"}

Finishing(c, b) ==
  briefCalls' = [briefCalls EXCEPT ![c] =
    [IdleBriefCall EXCEPT !.phase = "finishing", !.brief = b, !.left = CommittedRevisions(b)]]

Sealable(b) == briefs[b].status = "active" /\ ~Referenced(b)

\* The revision the caller expects is the current one.
DeleteBrief(c, b) ==
  /\ BriefCallIs(c, "idle")
  /\ Sealable(b)
  /\ briefs' = [briefs EXCEPT ![b].status = "deleting"]
  /\ Finishing(c, b)
  /\ UNCHANGED <<briefVersions, briefMutations, briefObjects, briefHolders>>

\* The same request again.
FinishDelete(c, b) ==
  /\ BriefCallIs(c, "idle")
  /\ briefs[b].status = "deleting" /\ ~Referenced(b)
  /\ Finishing(c, b)
  /\ UNCHANGED <<briefRows, briefObjects, briefHolders>>

\* The next object; another one of the same key, or a failing bucket, ends the call.
HeadVersion(c, r) ==
  LET call == briefCalls[c]
      found == briefObjects[call.brief][r] IN
  /\ BriefCallIs(c, "finishing") /\ r \in call.left
  /\ \A other \in call.left : r <= other
  /\ briefCalls' =
       CASE found = "none" -> [briefCalls EXCEPT ![c].left = @ \ {r}]
         [] found # "none" /\ found = briefVersions[call.brief][r] ->
              [briefCalls EXCEPT ![c].phase = "erasing", ![c].revision = r]
         [] OTHER -> [briefCalls EXCEPT ![c] = IdleBriefCall]
  /\ UNCHANGED <<briefRows, briefObjects, briefHolders>>

EraseBrief(c) ==
  LET b == briefCalls[c].brief IN
  /\ BriefCallIs(c, "finishing") /\ briefCalls[c].left = {}
  /\ briefs' = [briefs EXCEPT ![b] = [NoBrief EXCEPT !.status = "deleted"]]
  /\ briefVersions' = [briefVersions EXCEPT ![b] = [r \in BriefRevisions |-> "none"]]
  /\ BriefCallOver(c)
  /\ UNCHANGED <<briefMutations, briefObjects, briefHolders>>

-----------------------------------------------------------------------------
(* Who holds a Brief *)

\* materialize reads the rows and awaits the object.
BeginMaterialize(c, b, r, op) ==
  /\ briefs[b].status = "active" /\ briefVersions[b][r] # "none"
  /\ BeginBriefCall(c, [IdleBriefCall EXCEPT !.phase = "loading", !.op = op, !.brief = b,
                                             !.revision = r, !.content = briefVersions[b][r]])

BeginFreeze(c, b, r) == BeginMaterialize(c, b, r, "freeze")
BeginAttach(c, b) == BeginMaterialize(c, b, briefs[b].revision, "attach")

\* An object that is missing or another one ends the call.
LoadBrief(c) ==
  LET call == briefCalls[c] IN
  /\ BriefCallIs(c, "loading")
  /\ IF briefObjects[call.brief][call.revision] = call.content
     THEN BriefCallGoes(c, call.op) ELSE BriefCallOver(c)
  /\ UNCHANGED <<briefRows, briefObjects, briefHolders>>

\* Mutation: the context is not compared with the rows again.
FrozenUnvalidated(call) == TRUE

\* validateFrozen
FrozenValid(call) ==
  briefs[call.brief].status = "active" /\ briefVersions[call.brief][call.revision] = call.content

\* The transaction that admits a Run or starts a Workflow.
FreezeBrief(c) ==
  LET call == briefCalls[c] IN
  /\ BriefCallIs(c, "freeze")
  /\ FrozenValid(call)
  /\ frozenBriefs' = [frozenBriefs EXCEPT ![call.brief] = @ \cup {call.revision}]
  /\ BriefCallOver(c)
  /\ UNCHANGED <<briefRows, briefObjects, standingBriefs>>

\* The configuration of a Schedule or an Event trigger.
AttachBrief(c) ==
  LET call == briefCalls[c] IN
  /\ BriefCallIs(c, "attach")
  /\ standingBriefs' = standingBriefs \cup {call.brief}
  /\ BriefCallOver(c)
  /\ UNCHANGED <<briefRows, briefObjects, frozenBriefs>>

ReleaseFrozen(b) ==
  /\ frozenBriefs[b] # {}
  /\ \E r \in frozenBriefs[b] : frozenBriefs' = [frozenBriefs EXCEPT ![b] = @ \ {r}]
  /\ UNCHANGED <<briefRows, briefObjects, standingBriefs, briefCalls>>

DetachBrief(b) ==
  /\ b \in standingBriefs
  /\ standingBriefs' = standingBriefs \ {b}
  /\ UNCHANGED <<briefRows, briefObjects, frozenBriefs, briefCalls>>

-----------------------------------------------------------------------------
BriefsInit ==
  /\ briefs = [b \in BriefKeys |-> NoBrief]
  /\ briefVersions = [b \in BriefKeys |-> [r \in BriefRevisions |-> "none"]]
  /\ briefObjects = [b \in BriefKeys |-> [r \in BriefRevisions |-> "none"]]
  /\ briefMutations = [k \in BriefKeys |-> {}]
  /\ frozenBriefs = [b \in BriefKeys |-> {}]
  /\ standingBriefs = {}
  /\ briefCalls = [c \in BriefCallers |-> IdleBriefCall]

BriefCallNext(c) ==
  \/ \E k \in BriefKeys, content \in BriefContents :
       \/ \E name \in BriefNames : CreateBrief(c, k, content, name)
       \/ \E b \in BriefKeys : ReviseBrief(c, k, b, content)
  \/ PutBrief(c) \/ CompareBrief(c) \/ CommitBrief(c)
  \/ \E flag \in BOOLEAN : PutBriefLost(c, flag) \/ RefuseBrief(c, flag)
  \/ HeadBriefObject(c) \/ EraseBriefObject(c) \/ BriefCallDies(c)
  \/ \E b \in BriefKeys : DeleteBrief(c, b) \/ FinishDelete(c, b) \/ BeginAttach(c, b)
  \/ \E r \in BriefRevisions : HeadVersion(c, r) \/ \E b \in BriefKeys : BeginFreeze(c, b, r)
  \/ EraseBrief(c) \/ FreezeBrief(c) \/ AttachBrief(c) \/ LoadBrief(c)

BriefsNext ==
  \/ \E c \in BriefCallers : BriefCallNext(c)
  \/ \E b \in BriefKeys : ReleaseFrozen(b) \/ DetachBrief(b)

BriefsSpec == BriefsInit /\ [][BriefsNext]_briefVars

-----------------------------------------------------------------------------
(* Properties *)

BriefsTypeOK ==
  /\ briefs \in [BriefKeys -> Brief]
  /\ briefVersions \in [BriefKeys -> [BriefRevisions -> BriefContents \cup {"none"}]]
  /\ briefObjects \in [BriefKeys -> [BriefRevisions -> BriefContents \cup {"none"}]]
  /\ \A k \in BriefKeys : briefMutations[k] \subseteq BriefRequest
  /\ frozenBriefs \in [BriefKeys -> SUBSET BriefRevisions]
  /\ standingBriefs \subseteq BriefKeys
  /\ briefCalls \in [BriefCallers -> BriefCall]

\* What a Run or a Workflow has frozen is a committed revision of an active Brief
\* for as long as it is held, although the content is read before it is frozen and
\* deletions, which take several steps, run beside it.
FrozenBriefStands ==
  \A b \in BriefKeys : \A r \in frozenBriefs[b] :
    briefs[b].status = "active" /\ briefVersions[b][r] # "none"
=============================================================================
