------------------------------- MODULE Skills -------------------------------
(***************************************************************************)
(* The Skill library of an owner (owner/skills/module.ts). A publication   *)
(* reserves the bytes of its package, puts the package in a bucket under   *)
(* its digest and commits a version after that; other calls go on during   *)
(* the put, and a call may die. Objects and their rows are never deleted.  *)
(*                                                                         *)
(* A package stands for everything its digest covers, its name included.   *)
(* Previews change nothing and are left out.                               *)
(*                                                                         *)
(* External: the bucket, which may fail with the put done or not done, and *)
(* may lose an object, which is what the repair of a version is for.       *)
(***************************************************************************)
EXTENDS Naturals, Sequences, FiniteSets

CONSTANTS
  SkillPackages,
  SkillName,          \* the name in each package
  SkillBytes,         \* the size of each package
  MaxSkillBytes,      \* MAXIMUM_SKILL_LIBRARY_BYTES
  MaxSkills,          \* MAXIMUM_SKILLS
  MaxSkillVersions,   \* MAXIMUM_SKILL_VERSIONS
  SkillKeys,          \* idempotency keys, each with its client
  SkillCallers        \* how many calls run side by side

ASSUME SkillsAssumption ==
  /\ DOMAIN SkillName = SkillPackages
  /\ SkillBytes \in [SkillPackages -> Nat]
  /\ MaxSkillBytes \in Nat /\ MaxSkills \in Nat \ {0} /\ MaxSkillVersions \in Nat \ {0}

VARIABLES
  skills,             \* status and versions of each Skill
  skillObjects,       \* the row of each package
  skillBucket,        \* the packages the bucket has
  skillMutations,     \* the requests that were applied, with what they made
  skillCalls

skillLibrary == <<skills, skillObjects, skillMutations>>
skillVars == <<skillLibrary, skillBucket, skillCalls>>

SkillIds == 1..MaxSkills

\* The last version is the current one.
Skill == [status : {"none", "active", "retired"}, versions : Seq(SkillPackages)]

\* A new Skill (skill 0), a new version, or the repair of a version.
SkillRequests ==
  {q \in [key : SkillKeys, skill : 0..MaxSkills, expected : 0..MaxSkillVersions,
          repair : 0..MaxSkillVersions, package : SkillPackages] :
     IF q.repair # 0 THEN q.skill # 0 /\ q.expected = 0 ELSE (q.skill = 0) = (q.expected = 0)}

\* A version of a Skill; the answer to a call that is refused has skill 0.
SkillVersion == [skill : 0..MaxSkills, version : 0..MaxSkillVersions]
Refusal == [skill |-> 0, version |-> 0]

NoSkillCall == [phase |-> "idle", request |-> {}, created |-> FALSE, answer |-> Refusal]

SkillCallIs(c, phase) == skillCalls[c].phase = phase

\* The only request of a call that is not idle.
RequestOf(c) == CHOOSE q \in skillCalls[c].request : TRUE

SkillAnswers(c, version) ==
  skillCalls' = [skillCalls EXCEPT ![c] =
    [NoSkillCall EXCEPT !.phase = "answered", !.answer = version]]

CurrentVersion(s) == Len(skills[s].versions)
CurrentPackage(s) == skills[s].versions[CurrentVersion(s)]

-----------------------------------------------------------------------------
(* validatePublish *)

\* The sum of the sizes, as a number of bytes: each is one of a package, at a place.
BytesOf(packages) == Cardinality(UNION {{p} \X (1..SkillBytes[p]) : p \in packages})

\* Mutation: only the bytes that were committed count.
CommittedSkillBytes == BytesOf({p \in SkillPackages : skillObjects[p] = "committed"})

StoredSkillBytes == BytesOf({p \in SkillPackages : skillObjects[p] # "none"})

SkillFits(p) == skillObjects[p] = "none" => StoredSkillBytes + SkillBytes[p] <= MaxSkillBytes

SkillNameFree(p, s) ==
  \A other \in SkillIds \ {s} :
    skills[other].status = "active" => SkillName[CurrentPackage(other)] # SkillName[p]

\* Mutation: the name of a new Skill is not looked for among the others.
CreatesSkillAnyName(q) == q.skill = 0 /\ \E s \in SkillIds : skills[s].status = "none"

CreatesSkill(q) ==
  /\ q.skill = 0
  /\ \E s \in SkillIds : skills[s].status = "none"
  /\ SkillNameFree(q.package, 0)

\* Also of a retired Skill.
RepairsVersion(q) ==
  /\ q.skill # 0 /\ q.repair \in 1..CurrentVersion(q.skill)
  /\ skills[q.skill].versions[q.repair] = q.package

\* What a version that may be changed needs.
Changeable(q) ==
  /\ q.skill # 0 /\ q.repair = 0
  /\ skills[q.skill].status = "active" /\ CurrentVersion(q.skill) = q.expected

RepeatsVersion(q) == Changeable(q) /\ CurrentPackage(q.skill) = q.package

AddsVersion(q) ==
  /\ Changeable(q) /\ CurrentPackage(q.skill) # q.package
  /\ CurrentVersion(q.skill) < MaxSkillVersions /\ SkillNameFree(q.package, q.skill)

Publishable(q) ==
  /\ SkillFits(q.package)
  /\ CreatesSkill(q) \/ RepairsVersion(q) \/ RepeatsVersion(q) \/ AddsVersion(q)

-----------------------------------------------------------------------------
(* publish *)

Applied(key) == {m \in skillMutations : m.request.key = key}

\* The same request gets the same answer, another one is refused.
ReplayOf(q) ==
  IF \E m \in skillMutations : m.op = "publish" /\ m.request = q
  THEN (CHOOSE m \in skillMutations : m.request = q).made ELSE Refusal

\* Validation and reservation happen at once.
PublishSkill(c, q) ==
  /\ SkillCallIs(c, "idle")
  /\ Applied(q.key) = {} /\ Publishable(q)
  /\ skillObjects' = [skillObjects EXCEPT ![q.package] = IF @ = "none" THEN "pending" ELSE @]
  /\ skillCalls' = [skillCalls EXCEPT ![c].phase = "putting", ![c].request = {q}]
  /\ UNCHANGED <<skills, skillMutations, skillBucket>>

PublishAnswered(c, q) ==
  /\ SkillCallIs(c, "idle")
  /\ Applied(q.key) # {} \/ ~Publishable(q)
  /\ SkillAnswers(c, ReplayOf(q))
  /\ UNCHANGED <<skillLibrary, skillBucket>>

\* The put takes place only where there is no object.
PutSkill(c) ==
  LET p == RequestOf(c).package IN
  /\ SkillCallIs(c, "putting")
  /\ skillBucket' = skillBucket \cup {p}
  /\ skillCalls' = [skillCalls EXCEPT ![c].phase = "committing", ![c].created = p \notin skillBucket]
  /\ UNCHANGED skillLibrary

PutSkillFails(c, landed) ==
  /\ SkillCallIs(c, "putting")
  /\ skillBucket' = IF landed THEN skillBucket \cup {RequestOf(c).package} ELSE skillBucket
  /\ SkillAnswers(c, Refusal)
  /\ UNCHANGED skillLibrary

SkillCommitted(p) == skillObjects' = [skillObjects EXCEPT ![p] = "committed"]

SkillApplied(op, q, made) ==
  skillMutations' = skillMutations \cup {[op |-> op, request |-> q, made |-> made]}

\* A request with the key was applied meanwhile, the request is not valid any more,
\* or the transaction throws.
CommitRefused(c, threw) ==
  LET q == RequestOf(c) IN
  /\ SkillCallIs(c, "committing")
  /\ threw \/ Applied(q.key) # {} \/ ~Publishable(q)
  /\ SkillAnswers(c, IF threw THEN Refusal ELSE ReplayOf(q))
  /\ UNCHANGED <<skillLibrary, skillBucket>>

Commits(c) ==
  /\ SkillCallIs(c, "committing")
  /\ Applied(RequestOf(c).key) = {} /\ SkillFits(RequestOf(c).package)

\* Nothing to change: an object that was missing counts as repaired.
CommitUnchanged(c) ==
  LET q == RequestOf(c)
      made == [skill |-> q.skill,
               version |-> IF q.repair = 0 THEN CurrentVersion(q.skill) ELSE q.repair] IN
  /\ Commits(c) /\ (RepairsVersion(q) \/ RepeatsVersion(q))
  /\ SkillCommitted(q.package)
  /\ IF skillCalls[c].created
     THEN SkillApplied("publish", q, made) /\ SkillAnswers(c, made)
     ELSE SkillAnswers(c, Refusal) /\ UNCHANGED skillMutations
  /\ UNCHANGED <<skills, skillBucket>>

\* Which id a new Skill gets does not matter.
CommitVersion(c) ==
  LET q == RequestOf(c)
      s == IF q.skill = 0 THEN CHOOSE new \in SkillIds : skills[new].status = "none" ELSE q.skill
      made == [skill |-> s, version |-> CurrentVersion(s) + 1] IN
  /\ Commits(c) /\ (CreatesSkill(q) \/ AddsVersion(q))
  /\ skills' = [skills EXCEPT ![s].status = "active", ![s].versions = Append(@, q.package)]
  /\ SkillCommitted(q.package)
  /\ SkillApplied("publish", q, made) /\ SkillAnswers(c, made)
  /\ UNCHANGED skillBucket

\* The caller goes on.
SkillAnswerTaken(c) ==
  /\ SkillCallIs(c, "answered")
  /\ skillCalls' = [skillCalls EXCEPT ![c] = NoSkillCall]
  /\ UNCHANGED <<skillLibrary, skillBucket>>

SkillCallDies(c) ==
  /\ skillCalls[c].phase \in {"putting", "committing"}
  /\ skillCalls' = [skillCalls EXCEPT ![c] = NoSkillCall]
  /\ UNCHANGED <<skillLibrary, skillBucket>>

-----------------------------------------------------------------------------
(* retire, and what happens to the bucket *)

RetireSkill(key, s) ==
  LET current == CurrentVersion(s)
      q == [key |-> key, skill |-> s, expected |-> current, repair |-> 0,
            package |-> CurrentPackage(s)] IN
  /\ skills[s].status = "active" /\ Applied(key) = {}
  /\ skills' = [skills EXCEPT ![s].status = "retired"]
  /\ SkillApplied("retire", q, [skill |-> s, version |-> current])
  /\ UNCHANGED <<skillObjects, skillBucket, skillCalls>>

LoseSkillObject(p) ==
  /\ p \in skillBucket
  /\ skillBucket' = skillBucket \ {p}
  /\ UNCHANGED <<skillLibrary, skillCalls>>

-----------------------------------------------------------------------------
SkillsInit ==
  /\ skills = [s \in SkillIds |-> [status |-> "none", versions |-> <<>>]]
  /\ skillObjects = [p \in SkillPackages |-> "none"]
  /\ skillBucket = {}
  /\ skillMutations = {}
  /\ skillCalls = [c \in SkillCallers |-> NoSkillCall]

\* What goes on in a call once it was started.
SkillCallGoesOn(c) ==
  \/ PutSkill(c) \/ CommitUnchanged(c) \/ CommitVersion(c)
  \/ \E flag \in BOOLEAN : PutSkillFails(c, flag) \/ CommitRefused(c, flag)

SkillsNext ==
  \/ \E c \in SkillCallers, q \in SkillRequests : PublishSkill(c, q) \/ PublishAnswered(c, q)
  \/ \E c \in SkillCallers : SkillCallGoesOn(c) \/ SkillAnswerTaken(c) \/ SkillCallDies(c)
  \/ \E k \in SkillKeys, s \in SkillIds : RetireSkill(k, s)
  \/ \E p \in SkillPackages : LoseSkillObject(p)

SkillsSpec == SkillsInit /\ [][SkillsNext]_skillVars

-----------------------------------------------------------------------------
(* Properties *)

SkillsTypeOK ==
  /\ skills \in [SkillIds -> Skill]
  /\ skillObjects \in [SkillPackages -> {"none", "pending", "committed"}]
  /\ skillBucket \subseteq SkillPackages
  /\ \A m \in skillMutations : m.op \in {"publish", "retire"} /\ m.made \in SkillVersion
  /\ \A c \in SkillCallers :
       /\ skillCalls[c].phase \in {"idle", "putting", "committing", "answered"}
       /\ skillCalls[c].created \in BOOLEAN /\ skillCalls[c].answer \in SkillVersion

\* What the library counts and what the bucket holds stay within the limit, with any
\* number of publications between their reservation and their commit and with dead
\* ones.
SkillLibraryBounded ==
  BytesOf({p \in SkillPackages : skillObjects[p] # "none"} \cup skillBucket) <= MaxSkillBytes

\* What was validated before a put still holds when it is committed: versions are only
\* of committed packages, and no two active Skills share a name, whichever other
\* publications were committed meanwhile.
LibraryConsistent ==
  /\ \A s \in SkillIds, n \in 1..MaxSkillVersions :
       n <= CurrentVersion(s) => skillObjects[skills[s].versions[n]] = "committed"
  /\ \A s, other \in SkillIds :
       /\ s # other /\ skills[s].status = "active" /\ skills[other].status = "active"
       => SkillName[CurrentPackage(s)] # SkillName[CurrentPackage(other)]
=============================================================================
