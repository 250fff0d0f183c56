---------------------------- MODULE MCOwnerWork -----------------------------
(***************************************************************************)
(* Small instances of what the owner's object does between provider,       *)
(* runtime and registry: the provider operations of Event triggers, a      *)
(* Workflow, Briefs, the installation of a Recipe with the Skills it       *)
(* imports, and the publication of a Recipe. "focus" names what a          *)
(* behaviour is about and never changes.                                   *)
(***************************************************************************)
EXTENDS EventTriggers, Workflows, Briefs, RecipeInstallations, Publications

CONSTANTS
  Focuses,
  MaxLate       \* bound on the provider requests that are late at a time

VARIABLE focus

ownerVars == <<focus, eventTriggerVars, workflowVars, briefVars, recipeVars, publicationVars>>

MCSkillName == [p \in SkillPackages |-> IF p = "p3" THEN "p1" ELSE p]
MCSkillBytes == [p \in SkillPackages |-> IF p = "p2" THEN 2 ELSE 1]
MCSkillKeys == {<<"c2", "direct", 0>>}
MCInstallationClient == [i \in Installations |-> "c1"]
MCRecipePlan == <<"p1">>
MCLongRecipePlan == <<"p1", "p2">>
MCRequestId == [r \in PublicationRequests |-> r]
MCCandidate ==
  [r \in PublicationRequests |->
     IF r = "first" THEN [recipe |-> "x", skill |-> "x", decision |-> "publish"]
     ELSE [recipe |-> "y", skill |-> "x", decision |-> "reference"]]
MCRequestCalls == [r \in PublicationRequests |-> IF r = "first" THEN {1} ELSE {2}]
MCRepeatedCalls == [r \in PublicationRequests |-> PublishCalls]

OwnerInit ==
  /\ focus \in Focuses
  /\ EventTriggersInit /\ WorkflowsInit /\ BriefsInit /\ RecipesInit
  /\ PublicationsInit

\* All are created with the same content.
BriefStep ==
  BriefsNext /\ \A c \in BriefCallers : briefCalls'[c].op = "create" => briefCalls'[c].content = "x"

\* One of the callers only installs.
RecipeStep == RecipesNext /\ (recipeCalls'[1].phase = "idle" => skillCalls'[1].phase = "idle")

OperationStep == OperationNext /\ Cardinality(late') <= MaxLate

OwnerNext ==
  /\ UNCHANGED focus
  /\ \/ focus = "operations" /\ OperationStep /\ UNCHANGED eventVars
     \/ focus = "workflow" /\ WorkflowsNext
     \/ focus = "briefs" /\ BriefStep
     \/ focus = "recipes" /\ RecipeStep
     \/ focus = "publications" /\ PublicationsNext
  /\ focus # "operations" => UNCHANGED eventTriggerVars
  /\ focus # "workflow" => UNCHANGED workflowVars
  /\ focus # "briefs" => UNCHANGED briefVars
  /\ focus # "recipes" => UNCHANGED recipeVars
  /\ focus # "publications" => UNCHANGED publicationVars

OwnerSpec == OwnerInit /\ [][OwnerNext]_ownerVars

\* The rows of triggers, Workflows, Briefs, Skills and installations are well typed, and
\* so are those of the Registry.
OwnerTypeOK ==
  /\ EventTriggersTypeOK /\ WorkflowsTypeOK /\ BriefsTypeOK /\ RecipesTypeOK
  /\ PublicationsTypeOK
=============================================================================
