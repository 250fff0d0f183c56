---------------------------- MODULE Publications ----------------------------
(***************************************************************************)
(* The publication of a Recipe: an owner's MCP request asks the Registry   *)
(* for an authorization, a publisher approves it in the browser, the owner *)
(* confirms a plan, and publishBundle reserves the versions, stores the    *)
(* packages and commits. Every request to the Registry's database and      *)
(* bucket is a step of its own, a call may die at each of them, and the    *)
(* hourly maintenance quarantines and cleans up what was abandoned and     *)
(* indexes what was published.                                             *)
(*                                                                         *)
(* There is one publisher, with one Recipe and one Skill. A digest is the  *)
(* content it is a digest of; that of a Recipe holds the Skill it depends  *)
(* on. Time is counted in hours. A request to the database or the bucket   *)
(* takes at most one of them, an invocation of publishBundle at most two,  *)
(* one of the maintenance at most one. RequestCalls gives the invocations  *)
(* a request may be repeated in.                                           *)
(***************************************************************************)
EXTENDS Naturals, Sequences, FiniteSets, SequencesExt

CONSTANTS PublicationRequests, RequestId, Candidate, PublishCalls, RequestCalls,
          MaxHour, MaxAuthorizations, MaxDailyArtifacts

ASSUME PublicationsAssumption ==
  /\ IsFiniteSet(PublicationRequests)
  /\ MaxHour \in Nat /\ MaxAuthorizations \in Nat /\ MaxDailyArtifacts \in Nat

VARIABLES
  wishes,          \* the owner's requests: authorization asked for, plan confirmed
  authorizations,  \* publish_authorizations, by idempotency key
  publication,     \* publish_mutations, by idempotency key
  intents,         \* publish_upload_intents with their publish_upload_artifacts
  published,       \* artifact_versions: the contents of each name, by version
  packages,        \* the objects of the bucket
  dailyUsage,      \* publisher_daily_usage of the day
  pendingIndex,    \* Recipe versions with semanticState "pending"
  vector,          \* the Recipe version whose embedding the index holds
  publishCalls,    \* the invocations of publishBundle
  maintenance,     \* the invocation of runRegistryMaintenance
  hour

registryRows ==
  <<authorizations, publication, intents, published, packages, dailyUsage,
    pendingIndex, vector>>
publicationVars == <<wishes, registryRows, publishCalls, maintenance, hour>>

ArtifactNames == {"skill", "recipe"}

\* derivedPublicationRequestKey: a hash of nothing but the id of the JSON-RPC request.
PublicationKey(r) == RequestId[r]

PublicationKeys == {PublicationKey(r) : r \in PublicationRequests}

NoBundle == [skill |-> 0, recipe |-> 0, publishes |-> FALSE, content |-> <<>>]
NoIntent == [phase |-> "none", bundle |-> NoBundle, touched |-> 0, lease |-> 0]
IdlePublishCall ==
  [phase |-> "idle", request |-> "none", bundle |-> NoBundle, at |-> 0, since |-> 0, left |-> <<>>]
IdleMaintenance == [phase |-> "idle", key |-> "none", seen |-> "none", at |-> 0, left |-> {}]

PublicationsInit ==
  /\ wishes = [r \in PublicationRequests |->
                 [authorization |-> 0, plan |-> NoBundle]]
  /\ authorizations = [k \in PublicationKeys |-> [id |-> 0, approved |-> FALSE]]
  /\ publication = [k \in PublicationKeys |-> NoBundle]
  /\ intents = [k \in PublicationKeys |-> NoIntent]
  /\ published = [n \in ArtifactNames |-> <<>>]
  /\ packages = {}
  /\ dailyUsage = 0
  /\ pendingIndex = {} /\ vector = 0
  /\ publishCalls = [p \in PublishCalls |-> IdlePublishCall]
  /\ maintenance = IdleMaintenance
  /\ hour = 0

-----------------------------------------------------------------------------
(* Authorization: authorizePublication, createPublishAuthorization, approve *)

AuthorizationsIssued ==
  LET ids == {authorizations[k].id : k \in PublicationKeys}
             \cup {wishes[r].authorization : r \in PublicationRequests} IN
  CHOOSE n \in ids : \A i \in ids : i <= n

\* An unexpired authorization of the challenge and the key is answered again.
AuthorizePublish(r) ==
  LET k == PublicationKey(r) IN
  /\ wishes[r].authorization = 0
  /\ IF authorizations[k].id # 0
     THEN /\ wishes' = [wishes EXCEPT ![r].authorization = authorizations[k].id]
          /\ UNCHANGED authorizations
     ELSE /\ AuthorizationsIssued < MaxAuthorizations
          /\ authorizations' = [authorizations EXCEPT ![k] =
                                  [id |-> AuthorizationsIssued + 1, approved |-> FALSE]]
          /\ wishes' = [wishes EXCEPT ![r].authorization = AuthorizationsIssued + 1]
  /\ UNCHANGED <<publication, intents, published, packages, dailyUsage, pendingIndex, vector,
                 publishCalls, maintenance, hour>>

\* The publisher is signed in at the Registry and submits the page of the authorization.
ApprovePublishAuthorization(k) ==
  /\ authorizations[k].id # 0 /\ ~authorizations[k].approved
  /\ authorizations' = [authorizations EXCEPT ![k].approved = TRUE]
  /\ UNCHANGED <<wishes, publication, intents, published, packages, dailyUsage, pendingIndex,
                 vector, publishCalls, maintenance, hour>>

\* After twenty minutes no query finds the row any more.
AuthorizationExpires(k) ==
  /\ authorizations[k].id # 0
  /\ authorizations' = [authorizations EXCEPT ![k] = [id |-> 0, approved |-> FALSE]]
  /\ wishes' = [r \in PublicationRequests |->
                  IF wishes[r].authorization = authorizations[k].id
                  THEN [wishes[r] EXCEPT !.authorization = 0] ELSE wishes[r]]
  /\ UNCHANGED <<publication, intents, published, packages, dailyUsage, pendingIndex, vector,
                 publishCalls, maintenance, hour>>

\* publishAuthorizationPublisher: the row of this id, approved by an active publisher.
AuthorizedPublisher(r) ==
  LET row == authorizations[PublicationKey(r)] IN
  row.id # 0 /\ row.id = wishes[r].authorization /\ row.approved

-----------------------------------------------------------------------------
(* The plan: RecipePublications.#buildPlan *)

LatestVersion(n) == Len(published[n])
LatestIs(n, content) == published[n] # <<>> /\ Last(published[n]) = content

\* Versions of the Skill with the owner's content, for a decision to refer to one.
SkillTargets(r) == {v \in 1..LatestVersion("skill") : published["skill"][v] = Candidate[r].skill}

\* A Skill is published as the next version, or refers to one the Registry has.
PlannedSkills(r) ==
  IF Candidate[r].decision = "publish"
  THEN IF LatestIs("skill", Candidate[r].skill) THEN {} ELSE {LatestVersion("skill") + 1}
  ELSE SkillTargets(r)

Planned(r, v) ==
  [skill |-> v, recipe |-> LatestVersion("recipe") + 1,
   publishes |-> Candidate[r].decision = "publish",
   content |-> <<Candidate[r].recipe, v, Candidate[r].skill>>]

Plans(r) ==
  {b \in {Planned(r, v) : v \in PlannedSkills(r)} : ~LatestIs("recipe", b.content)}

PreviewPublish(r) ==
  /\ AuthorizedPublisher(r)
  /\ \E b \in Plans(r) : wishes' = [wishes EXCEPT ![r].plan = b]
  /\ UNCHANGED <<registryRows, publishCalls, maintenance, hour>>

-----------------------------------------------------------------------------
(* publishBundle, from the owner's request on *)

Publishing(p, phase) == publishCalls[p].phase = phase
BundleKey(p) == PublicationKey(publishCalls[p].request)
PublishGoes(p, phase) ==
  publishCalls' = [publishCalls EXCEPT ![p].phase = phase, ![p].since = hour]
PublishEnds(p) == publishCalls' = [publishCalls EXCEPT ![p] = IdlePublishCall]

\* The objects of a bundle, in the order in which they are stored.
BundleArtifacts(b) ==
  LET recipe == [name |-> "recipe", version |-> b.recipe, digest |-> b.content]
      skill == [name |-> "skill", version |-> b.skill, digest |-> b.content[3]] IN
  IF b.publishes THEN <<skill, recipe>> ELSE <<recipe>>

\* The confirmed plan is built again before the bundle is sent.
BeginPublish(p, r) ==
  /\ p \in RequestCalls[r] /\ Publishing(p, "idle") /\ wishes[r].plan # NoBundle
  /\ AuthorizedPublisher(r)
  /\ wishes[r].plan \in Plans(r)
  /\ publishCalls' = [publishCalls EXCEPT ![p] =
       [phase |-> "checking", request |-> r, bundle |-> wishes[r].plan,
        at |-> hour, since |-> hour, left |-> <<>>]]
  /\ UNCHANGED <<wishes, registryRows, maintenance, hour>>

\* successfulPublication: what was published under the key is answered again, or, when
\* it was another bundle, refused.
Replay(p) ==
  /\ Publishing(p, "checking")
  /\ IF publication[BundleKey(p)] = NoBundle THEN PublishGoes(p, "touching") ELSE PublishEnds(p)
  /\ UNCHANGED <<wishes, registryRows, maintenance, hour>>

\* touchPendingPublication: the interrupted upload of the same bundle.
Touchable(k, b) == intents[k].phase \in {"uploading", "finalizing"} /\ intents[k].bundle = b

Store(p) ==
  publishCalls' = [publishCalls EXCEPT ![p].phase = "storing", ![p].since = hour,
                                       ![p].left = BundleArtifacts(publishCalls[p].bundle)]

\* The clock is read once, after the replay.
TouchPending(p) ==
  LET k == BundleKey(p) IN
  /\ Publishing(p, "touching")
  /\ IF Touchable(k, publishCalls[p].bundle)
     THEN /\ intents' = [intents EXCEPT ![k].touched = hour]
          /\ publishCalls' = [publishCalls EXCEPT ![p].phase = "resuming", ![p].since = hour,
                                                  ![p].at = hour]
     ELSE /\ publishCalls' = [publishCalls EXCEPT ![p].phase = "asserting", ![p].since = hour,
                                                  ![p].at = hour]
          /\ UNCHANGED intents
  /\ UNCHANGED <<wishes, authorizations, publication, published, packages, dailyUsage,
                 pendingIndex, vector, maintenance, hour>>

\* assertVersions: each artifact is the next version of its name.
NextVersions(b) ==
  \A n \in 1..Len(BundleArtifacts(b)) :
    LET a == BundleArtifacts(b)[n] IN a.version = LatestVersion(a.name) + 1

\* assertDependencies: the Skill is in the bundle, or published with this digest.
DependencyHolds(b) ==
  b.publishes \/ (b.skill <= LatestVersion("skill") /\ published["skill"][b.skill] = b.content[3])

\* The daily quota is read here and charged with the reservation.
QuotaLeft(b) == dailyUsage + Len(BundleArtifacts(b)) <= MaxDailyArtifacts

AssertPublishable(p) ==
  LET b == publishCalls[p].bundle
      pending == Publishing(p, "resuming") IN
  /\ Publishing(p, "asserting") \/ pending
  /\ IF NextVersions(b) /\ DependencyHolds(b) /\ (pending \/ QuotaLeft(b))
     THEN IF pending THEN Store(p) ELSE PublishGoes(p, "reserving")
     ELSE PublishEnds(p)
  /\ UNCHANGED <<wishes, registryRows, maintenance, hour>>

\* The primary keys of the upload rows: one intent of a key, one of each coordinate.
NoIntentHolds(k, b) ==
  /\ intents[k].phase = "none"
  /\ \A o \in PublicationKeys :
       intents[o].phase # "none" =>
         \A m \in 1..Len(BundleArtifacts(b)), n \in 1..Len(BundleArtifacts(intents[o].bundle)) :
           LET a == BundleArtifacts(b)[m]
               c == BundleArtifacts(intents[o].bundle)[n] IN
           <<a.name, a.version>> # <<c.name, c.version>>

ReservePublication(p) ==
  LET k == BundleKey(p)
      b == publishCalls[p].bundle IN
  /\ Publishing(p, "reserving")
  /\ \/ /\ NoIntentHolds(k, b)
        /\ intents' = [intents EXCEPT ![k] =
             [phase |-> "uploading", bundle |-> b, touched |-> publishCalls[p].at, lease |-> 0]]
        /\ dailyUsage' = dailyUsage + Len(BundleArtifacts(b))
        /\ Store(p)
     \/ /\ ~NoIntentHolds(k, b) /\ Touchable(k, b)
        /\ intents' = [intents EXCEPT ![k].touched = publishCalls[p].at]
        /\ Store(p) /\ UNCHANGED dailyUsage
     \/ /\ ~NoIntentHolds(k, b) /\ ~Touchable(k, b)
        /\ PublishEnds(p) /\ UNCHANGED <<intents, dailyUsage>>
  /\ UNCHANGED <<wishes, authorizations, publication, published, packages, pendingIndex, vector,
                 maintenance, hour>>

\* storeObjects: an object that is there has the same digest, which its key names.
StoreObject(p) ==
  LET left == publishCalls[p].left IN
  /\ Publishing(p, "storing")
  /\ packages' = packages \cup {Head(left)}
  /\ publishCalls' = [publishCalls EXCEPT ![p].left = Tail(left), ![p].since = hour,
                        ![p].phase = IF Tail(left) = <<>> THEN "claiming" ELSE "storing"]
  /\ UNCHANGED <<wishes, authorizations, publication, intents, published, dailyUsage,
                 pendingIndex, vector, maintenance, hour>>

\* claimPublicationFinalization; a call that comes too late reads what another published.
ClaimFinalization(p) ==
  LET k == BundleKey(p)
      b == publishCalls[p].bundle IN
  /\ Publishing(p, "claiming")
  /\ IF Touchable(k, b)
     THEN /\ intents' = [intents EXCEPT ![k].phase = "finalizing", ![k].lease = 0,
                                        ![k].touched = hour]
          /\ PublishGoes(p, "committing")
     ELSE PublishEnds(p) /\ UNCHANGED intents
  /\ UNCHANGED <<wishes, authorizations, publication, published, packages, dailyUsage, pendingIndex,
                 vector, maintenance, hour>>

\* The keys of artifact_versions: each next version, and no content published before.
Committable(k, b) ==
  /\ publication[k] = NoBundle
  /\ NextVersions(b)
  /\ \A n \in 1..Len(BundleArtifacts(b)) :
       LET a == BundleArtifacts(b)[n] IN a.digest \notin ToSet(published[a.name])

CommitPublication(p) ==
  LET k == BundleKey(p)
      b == publishCalls[p].bundle IN
  /\ Publishing(p, "committing")
  /\ IF Committable(k, b)
     THEN /\ published' = [published EXCEPT
                !["recipe"] = Append(@, b.content),
                !["skill"] = IF b.publishes THEN Append(@, b.content[3]) ELSE @]
          /\ pendingIndex' = pendingIndex \cup {b.recipe}
          /\ publication' = [publication EXCEPT ![k] = b]
          /\ intents' = [intents EXCEPT ![k] = IF @.phase = "finalizing" THEN NoIntent ELSE @]
     ELSE UNCHANGED <<published, pendingIndex, publication, intents>>
  /\ PublishEnds(p)
  /\ UNCHANGED <<wishes, authorizations, packages, dailyUsage, vector, maintenance, hour>>

\* The invocation ends between two of its requests.
PublishDies(p) ==
  /\ ~Publishing(p, "idle")
  /\ PublishEnds(p)
  /\ UNCHANGED <<wishes, registryRows, maintenance, hour>>

-----------------------------------------------------------------------------
(* runRegistryMaintenance: what has expired, abandoned uploads, the index *)

\* More than an hour before the invocation began.
Expired(moment, at) == moment + 1 < at

StaleUpload(k, at) ==
  intents[k].phase \in {"uploading", "finalizing"} /\ Expired(intents[k].touched, at)

\* Mutation: what is in quarantine is cleaned up without a second grace period.
Ungraced(k, at) == intents[k].phase \in {"quarantine", "cleanup"}

ExpiredLease(k, at) ==
  intents[k].phase \in {"quarantine", "cleanup"} /\ Expired(intents[k].lease, at)

Maintaining(phase) == maintenance.phase = phase
MaintenanceGoes(phase) == maintenance' = [maintenance EXCEPT !.phase = phase]
MaintenanceEnds == maintenance' = IdleMaintenance

UnchangedByMaintenance ==
  UNCHANGED <<wishes, authorizations, publication, published, dailyUsage, publishCalls, hour>>

\* A candidate is selected with the phase it has then.
SelectCandidate(k) ==
  /\ Maintaining("idle")
  /\ StaleUpload(k, hour) \/ ExpiredLease(k, hour)
  /\ maintenance' = [phase |-> "selected", key |-> k, seen |-> intents[k].phase, at |-> hour,
                     left |-> {}]
  /\ UnchangedByMaintenance /\ UNCHANGED <<intents, packages, pendingIndex, vector>>

\* An abandoned upload is only put in quarantine.
Quarantines(seen) == seen \in {"uploading", "finalizing"}

QuarantineUpload ==
  LET k == maintenance.key IN
  /\ Maintaining("selected") /\ Quarantines(maintenance.seen)
  /\ intents' = IF StaleUpload(k, maintenance.at)
                THEN [intents EXCEPT ![k].phase = "quarantine", ![k].lease = maintenance.at]
                ELSE intents
  /\ MaintenanceEnds
  /\ UnchangedByMaintenance /\ UNCHANGED <<packages, pendingIndex, vector>>

ClaimCleanup ==
  LET k == maintenance.key IN
  /\ Maintaining("selected") /\ ~Quarantines(maintenance.seen)
  /\ IF ExpiredLease(k, maintenance.at)
     THEN /\ intents' = [intents EXCEPT ![k].phase = "cleanup", ![k].lease = maintenance.at]
          /\ maintenance' = [maintenance EXCEPT !.phase = "deleting",
                               !.left = ToSet(BundleArtifacts(intents[k].bundle))]
     ELSE MaintenanceEnds /\ UNCHANGED intents
  /\ UnchangedByMaintenance /\ UNCHANGED <<packages, pendingIndex, vector>>

DeletePackageObject ==
  /\ Maintaining("deleting")
  /\ \E a \in maintenance.left :
       /\ packages' = packages \ {a}
       /\ maintenance' = [maintenance EXCEPT !.left = @ \ {a}]
  /\ UnchangedByMaintenance /\ UNCHANGED <<intents, pendingIndex, vector>>

DeleteIntent ==
  LET k == maintenance.key IN
  /\ Maintaining("deleting") /\ maintenance.left = {}
  /\ intents' = IF intents[k].phase = "cleanup" /\ intents[k].lease = maintenance.at
                THEN [intents EXCEPT ![k] = NoIntent] ELSE intents
  /\ MaintenanceEnds
  /\ UnchangedByMaintenance /\ UNCHANGED <<packages, pendingIndex, vector>>

\* indexPendingRecipes: the rows are read, embedded and written into the index, where
\* all versions of a Recipe have the same id, and then marked.
ReadPendingRecipes ==
  /\ Maintaining("idle") /\ pendingIndex # {}
  /\ maintenance' = [IdleMaintenance EXCEPT !.phase = "embedding", !.at = hour,
                                            !.left = pendingIndex]
  /\ UnchangedByMaintenance /\ UNCHANGED <<intents, packages, pendingIndex, vector>>

UpsertVectors ==
  /\ Maintaining("embedding")
  /\ vector' = CHOOSE v \in maintenance.left : \A o \in maintenance.left : o <= v
  /\ MaintenanceGoes("marking")
  /\ UnchangedByMaintenance /\ UNCHANGED <<intents, packages, pendingIndex>>

MarkIndexed ==
  /\ Maintaining("marking")
  /\ pendingIndex' = pendingIndex \ maintenance.left
  /\ MaintenanceEnds
  /\ UnchangedByMaintenance /\ UNCHANGED <<intents, packages, vector>>

MaintenanceDies ==
  /\ ~Maintaining("idle")
  /\ MaintenanceEnds
  /\ UnchangedByMaintenance /\ UNCHANGED <<intents, packages, pendingIndex, vector>>

\* An hour passes; no request and no invocation takes longer than it may.
HourPasses ==
  /\ hour < MaxHour
  /\ \A p \in PublishCalls :
       Publishing(p, "idle") \/ (publishCalls[p].since = hour /\ hour < publishCalls[p].at + 2)
  /\ Maintaining("idle") \/ maintenance.at = hour
  /\ hour' = hour + 1
  /\ UNCHANGED <<wishes, registryRows, publishCalls, maintenance>>

-----------------------------------------------------------------------------

MaintenanceNext ==
  \/ \E k \in PublicationKeys : SelectCandidate(k)
  \/ QuarantineUpload \/ ClaimCleanup \/ DeletePackageObject \/ DeleteIntent
  \/ ReadPendingRecipes \/ UpsertVectors \/ MarkIndexed
  \/ MaintenanceDies

PublicationsNext ==
  \/ \E r \in PublicationRequests : AuthorizePublish(r) \/ PreviewPublish(r)
  \/ \E k \in PublicationKeys : ApprovePublishAuthorization(k) \/ AuthorizationExpires(k)
  \/ \E p \in PublishCalls :
       \/ \E r \in PublicationRequests : BeginPublish(p, r)
       \/ Replay(p) \/ TouchPending(p) \/ AssertPublishable(p) \/ ReservePublication(p)
       \/ StoreObject(p) \/ ClaimFinalization(p) \/ CommitPublication(p)
       \/ PublishDies(p)
  \/ MaintenanceNext
  \/ HourPasses

PublicationsSpec == PublicationsInit /\ [][PublicationsNext]_publicationVars

IntentPhases == {"none", "uploading", "finalizing", "quarantine", "cleanup"}

PublicationsTypeOK ==
  /\ \A r \in PublicationRequests : wishes[r].authorization \in 0..MaxAuthorizations
  /\ \A k \in PublicationKeys :
       /\ authorizations[k].id \in 0..MaxAuthorizations
       /\ intents[k].phase \in IntentPhases /\ intents[k].touched \in 0..MaxHour
  /\ \A a \in packages : a.name \in ArtifactNames
  /\ vector \in 0..LatestVersion("recipe")
  /\ pendingIndex \subseteq 1..LatestVersion("recipe")
  /\ \A p \in PublishCalls :
       publishCalls[p].phase \in {"idle", "checking", "touching", "resuming", "asserting",
                                  "reserving", "storing", "claiming", "committing"}
  /\ hour \in 0..MaxHour

\* A published version keeps its package (apps/registry/README.md:21).
PackagesKept ==
  \A n \in ArtifactNames : \A v \in 1..LatestVersion(n) :
    [name |-> n, version |-> v, digest |-> published[n][v]] \in packages

\* A Recipe refers to a version of the Skill with the content it was published for.
DependenciesKept ==
  \A v \in 1..LatestVersion("recipe") :
    LET content == published["recipe"][v] IN
    content[2] <= LatestVersion("skill") /\ published["skill"][content[2]] = content[3]

\* No object is left that neither a version nor an upload accounts for.
PackagesAccounted ==
  \A a \in packages :
    \/ a.version <= LatestVersion(a.name) /\ published[a.name][a.version] = a.digest
    \/ \E k \in PublicationKeys :
         intents[k].phase # "none" /\ a \in ToSet(BundleArtifacts(intents[k].bundle))

\* The Registry stays whole, whichever invocation of a publication or of the
\* maintenance dies between which two of its requests, and however late the others
\* go on: packages and dependencies are kept, no package is left over, a key
\* publishes once, and a version marked indexed is in the index, or a later one is.
RegistryStaysWhole ==
  /\ PackagesKept /\ DependenciesKept /\ PackagesAccounted
  /\ Cardinality({k \in PublicationKeys : publication[k] # NoBundle}) = LatestVersion("recipe")
  /\ \A v \in (1..LatestVersion("recipe")) \ pendingIndex : v <= vector
=============================================================================
