------------------------- MODULE RecipeInstallations -------------------------
(***************************************************************************)
(* The installation of a Recipe (owner/recipes/module.ts): a row with the  *)
(* confirmed plan, then one Skill after the other, a disabled Agent, and   *)
(* the receipt that says what was made. Any client may take an             *)
(* installation up again, also while another call is still at it; each     *)
(* call goes on from the receipt it read.                                  *)
(*                                                                         *)
(* The plan is the list of the packages to import; Connections, Briefs and *)
(* operations of a plan are only kept with it.                             *)
(*                                                                         *)
(* External: the Recipe registry, which a call waits for before it inserts *)
(* the row.                                                                *)
(***************************************************************************)
EXTENDS Skills

CONSTANTS
  Installations,     \* each stands for the idempotency key of its client as well
  InstallationClient,
  RecipePlan,        \* the packages of the Skills, in their order
  RecipeClients,
  MaxIncomplete      \* MAXIMUM_INCOMPLETE_RECIPE_INSTALLATIONS

ASSUME RecipesAssumption ==
  /\ RecipePlan \in Seq(SkillPackages) /\ MaxIncomplete \in Nat \ {0}
  /\ "none" \notin Installations \cup RecipeClients
  /\ InstallationClient \in [Installations -> RecipeClients]

VARIABLES
  installations,     \* the rows
  agentCreations,    \* Agents, with the idempotency key each was created under
  recipeCalls

recipeRows == <<installations, agentCreations>>
recipeVars == <<skillVars, recipeRows, recipeCalls>>

\* agent 0 stands for none.
Receipt(status, skillsMade, agent) == [status |-> status, skills |-> skillsMade, agent |-> agent]

NoInstallation == [status |-> "none", receipt |-> Receipt("none", <<>>, 0)]

IdleRecipeCall == [phase |-> "idle", client |-> "none", installation |-> "none",
                   receipt |-> Receipt("none", <<>>, 0)]

RecipeCallIs(c, phase) == recipeCalls[c].phase = phase
RecipeCallOver(c) == recipeCalls' = [recipeCalls EXCEPT ![c] = IdleRecipeCall]

\* The Skill a call is at.
NextSkill(c) == Len(recipeCalls[c].receipt.skills) + 1

Imports(c) == RecipeCallIs(c, "importing") /\ NextSkill(c) <= Len(RecipePlan)
Imported(c) == RecipeCallIs(c, "importing") /\ NextSkill(c) > Len(RecipePlan)

-----------------------------------------------------------------------------
(* install and recover *)

Incomplete == {i \in Installations : installations[i].status = "installing"}

BeginInstall(c, i) ==
  /\ RecipeCallIs(c, "idle") /\ SkillCallIs(c, "idle")
  /\ installations[i].status = "none"
  /\ Cardinality(Incomplete) < MaxIncomplete
  /\ recipeCalls' = [recipeCalls EXCEPT ![c] =
       [IdleRecipeCall EXCEPT !.phase = "previewing", !.client = InstallationClient[i],
                              !.installation = i]]
  /\ UNCHANGED <<skillVars, recipeRows>>

\* The bound is not checked again; another row with the key makes the insert fail.
InsertInstallation(c) ==
  LET i == recipeCalls[c].installation
      receipt == Receipt("installing", <<>>, 0) IN
  /\ RecipeCallIs(c, "previewing")
  /\ IF installations[i].status # "none" THEN RecipeCallOver(c) /\ UNCHANGED installations
     ELSE /\ installations' = [installations EXCEPT ![i] =
               [status |-> "installing", receipt |-> receipt]]
          /\ recipeCalls' = [recipeCalls EXCEPT ![c].phase = "importing", ![c].receipt = receipt]
  /\ UNCHANGED <<skillVars, agentCreations>>

CreationOf(i) ==
  {a \in agentCreations : a.client = InstallationClient[i] /\ a.installation = i}

\* matchesVersionDigest
MatchesVersion(v, p) ==
  /\ v.skill \in SkillIds /\ v.version \in 1..CurrentVersion(v.skill)
  /\ skills[v.skill].versions[v.version] = p

\* What a row needs to be gone on with, or to be answered with if it is installed.
Consistent(i) ==
  LET row == installations[i]
      receipt == row.receipt
      complete == Len(receipt.skills) = Len(RecipePlan) IN
  /\ receipt.status = row.status
  /\ Len(receipt.skills) <= Len(RecipePlan)
  /\ \A n \in 1..Len(receipt.skills) : MatchesVersion(receipt.skills[n], RecipePlan[n])
  /\ receipt.agent # 0 =>
       complete /\ \E a \in CreationOf(i) : a.agent = receipt.agent /\ a.skills = receipt.skills
  /\ row.status = "installed" => receipt.agent # 0 /\ complete

\* A replay of install by its client, or recover by any client.
Continue(c, client, i) ==
  /\ RecipeCallIs(c, "idle") /\ SkillCallIs(c, "idle")
  /\ installations[i].status = "installing" /\ Consistent(i)
  /\ recipeCalls' = [recipeCalls EXCEPT ![c] =
       [phase |-> "importing", client |-> client, installation |-> i,
        receipt |-> installations[i].receipt]]
  /\ UNCHANGED <<skillVars, recipeRows>>

-----------------------------------------------------------------------------
(* #continue: the Skills *)

\* The receipt the call has read is written back with one Skill more.
Recorded(c, made) ==
  LET receipt == [recipeCalls[c].receipt EXCEPT !.skills = Append(@, made)] IN
  /\ installations' = [installations EXCEPT ![recipeCalls[c].installation].receipt = receipt]
  /\ recipeCalls' = [recipeCalls EXCEPT ![c].phase = "importing", ![c].receipt = receipt]

\* findActiveVersionByDigest: the first version of some active Skill.
ActiveVersions(p) ==
  {v \in SkillVersion :
    /\ v.skill # 0 /\ skills[v.skill].status = "active"
    /\ v.version \in 1..CurrentVersion(v.skill) /\ skills[v.skill].versions[v.version] = p
    /\ \A n \in 1..(v.version - 1) : skills[v.skill].versions[n] # p}

ReuseSkill(c) ==
  /\ Imports(c)
  /\ \E v \in ActiveVersions(RecipePlan[NextSkill(c)]) : Recorded(c, v)
  /\ UNCHANGED <<skillVars, agentCreations>>

\* The key is of the installation and the Skill, for the client of this call.
ImportSkill(c) ==
  LET q == [key |-> <<recipeCalls[c].client, recipeCalls[c].installation, NextSkill(c)>>,
            skill |-> 0, expected |-> 0, repair |-> 0, package |-> RecipePlan[NextSkill(c)]] IN
  /\ Imports(c)
  /\ ActiveVersions(q.package) = {}
  /\ PublishSkill(c, q) \/ PublishAnswered(c, q)
  /\ recipeCalls' = [recipeCalls EXCEPT ![c].phase = "publishing"]
  /\ UNCHANGED recipeRows

RecordSkill(c) ==
  LET answer == skillCalls[c].answer IN
  /\ RecipeCallIs(c, "publishing")
  /\ SkillAnswerTaken(c)
  /\ IF answer = Refusal THEN RecipeCallOver(c) /\ UNCHANGED installations
     ELSE Recorded(c, answer)
  /\ UNCHANGED agentCreations

-----------------------------------------------------------------------------
(* #continue: the Agent, and the end *)

\* Mutation: the Agent is created under the client of the call.
CreatorCalling(c) == recipeCalls[c].client

Creator(c) == InstallationClient[recipeCalls[c].installation]

\* Agents that were created under the key this call uses.
EarlierCreations(c) ==
  {a \in agentCreations : a.client = Creator(c) /\ a.installation = recipeCalls[c].installation}

\* The same request, with the same Skills, gets the Agent it made before.
AgentGranted(c) == \A a \in EarlierCreations(c) : a.skills = recipeCalls[c].receipt.skills

AgentMade(c) ==
  IF EarlierCreations(c) # {} THEN (CHOOSE a \in EarlierCreations(c) : TRUE).agent
  ELSE Cardinality(agentCreations) + 1

\* The row once there is an Agent: the receipt names it, and then it is finished.
\* Either write may fail.
Finished(c, agent, finished) ==
  LET receipt == Receipt(IF finished THEN "installed" ELSE recipeCalls[c].receipt.status,
                         recipeCalls[c].receipt.skills, agent) IN
  installations' = [installations EXCEPT ![recipeCalls[c].installation] =
    [status |-> IF finished THEN "installed" ELSE @.status, receipt |-> receipt]]

CreateAgent(c, recorded, finished) ==
  /\ Imported(c) /\ recipeCalls[c].receipt.agent = 0 /\ AgentGranted(c)
  /\ agentCreations' = agentCreations \cup
       {[client |-> Creator(c), installation |-> recipeCalls[c].installation,
         skills |-> recipeCalls[c].receipt.skills, agent |-> AgentMade(c)]}
  /\ IF recorded THEN Finished(c, AgentMade(c), finished) ELSE UNCHANGED installations
  /\ RecipeCallOver(c)
  /\ UNCHANGED skillVars

FinishInstallation(c) ==
  /\ Imported(c) /\ recipeCalls[c].receipt.agent # 0
  /\ Finished(c, recipeCalls[c].receipt.agent, TRUE)
  /\ RecipeCallOver(c)
  /\ UNCHANGED <<skillVars, agentCreations>>

\* Other Skills than before, or a limit: the installation stays incomplete.
AgentDenied(c) ==
  /\ Imported(c) /\ recipeCalls[c].receipt.agent = 0
  /\ RecipeCallOver(c)
  /\ UNCHANGED <<skillVars, recipeRows>>

RecipeCallDies(c) ==
  /\ ~RecipeCallIs(c, "idle")
  /\ RecipeCallOver(c)
  /\ skillCalls' = [skillCalls EXCEPT ![c] = NoSkillCall]
  /\ UNCHANGED <<skillLibrary, skillBucket, recipeRows>>

-----------------------------------------------------------------------------
RecipesInit ==
  /\ SkillsInit
  /\ installations = [i \in Installations |-> NoInstallation]
  /\ agentCreations = {}
  /\ recipeCalls = [c \in SkillCallers |-> IdleRecipeCall]

RecipeCallNext(c) ==
  \/ \E client \in RecipeClients, i \in Installations :
       BeginInstall(c, i) \/ Continue(c, client, i)
  \/ InsertInstallation(c) \/ ReuseSkill(c) \/ ImportSkill(c)
  \/ \E recorded, finished \in BOOLEAN : CreateAgent(c, recorded, finished)
  \/ FinishInstallation(c) \/ AgentDenied(c) \/ RecipeCallDies(c)

\* An answer of the library is taken before anything else goes on.
RecipesNext ==
  IF \E c \in SkillCallers : SkillCallIs(c, "answered")
  THEN \E c \in SkillCallers :
         \/ RecordSkill(c)
         \/ RecipeCallIs(c, "publishing") /\ RecipeCallDies(c)
         \/ RecipeCallIs(c, "idle") /\ SkillAnswerTaken(c) /\ UNCHANGED <<recipeRows, recipeCalls>>
  ELSE \/ \E c \in SkillCallers : RecipeCallNext(c)
       \/ /\ \/ \E c \in SkillCallers :
                  SkillCallGoesOn(c) \/ (RecipeCallIs(c, "idle") /\ SkillCallDies(c))
             \/ \E c \in SkillCallers, q \in SkillRequests :
                  RecipeCallIs(c, "idle") /\ PublishSkill(c, q)
             \/ \E k \in SkillKeys, s \in SkillIds : RetireSkill(k, s)
             \/ \E p \in SkillPackages : LoseSkillObject(p)
          /\ UNCHANGED <<recipeRows, recipeCalls>>

RecipesSpec == RecipesInit /\ [][RecipesNext]_recipeVars

-----------------------------------------------------------------------------
(* Properties *)

RecipesTypeOK ==
  /\ SkillsTypeOK
  /\ \A i \in Installations :
       /\ installations[i].status \in {"none", "installing", "installed"}
       /\ installations[i].receipt.skills \in Seq(SkillVersion)
  /\ \A a \in agentCreations : a.client \in RecipeClients /\ a.skills \in Seq(SkillVersion)
  /\ \A c \in SkillCallers :
       recipeCalls[c].phase \in {"idle", "previewing", "importing", "publishing"}

\* What the receipt of an installation names was made for it: each Skill is a
\* version of the package that was planned, and the Agent is the only one of the
\* installation and has just these Skills, whichever calls of whichever clients
\* were at it side by side and wherever they ended.
ReceiptIsTrue ==
  \A i \in Installations :
    LET receipt == installations[i].receipt IN
    /\ \A n \in 1..Len(receipt.skills) :
         \E s \in SkillIds :
           /\ receipt.skills[n].skill = s
           /\ receipt.skills[n].version \in 1..CurrentVersion(s)
           /\ skills[s].versions[receipt.skills[n].version] = RecipePlan[n]
    /\ Cardinality({a \in agentCreations : a.installation = i}) <= 1
    /\ receipt.agent # 0 =>
         \E a \in agentCreations : a.installation = i /\ a.agent = receipt.agent
                                   /\ a.skills = receipt.skills

\* An installation no call is at can be taken up again, or is complete
\* (docs/product/recipes.md:138).
InstallationResumable ==
  \A i \in Installations :
    \/ installations[i].status = "none" \/ Consistent(i)
    \/ \E c \in SkillCallers : recipeCalls[c].installation = i
=============================================================================
