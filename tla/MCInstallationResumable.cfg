SPECIFICATION OwnerSpec
CONSTANTS
  Focuses = {"recipes"}
  Triggers = {1, 2}
  Events = {1, 2}
  MaxTriggerRevision = 3
  MaxLate = 2
  MaxInstances = 3
  MaxOperationAttempts = 2
  MaxReplays = 0
  MaxEventAttempts = 2
  MaxPendingEvents = 1
  MaxRetainedEvents = 2
  LastStage = 2
  Deferrable = {1}
  Delayed = {1}
  MaxStageRuns = 1
  MaxDeferrals = 1
  BriefKeys = {"b1", "b2"}
  BriefContents = {"x", "y"}
  BriefNames = {"n1"}
  MaxBriefRevision = 2
  MaxBriefs = 2
  BriefCallers = {1, 2}
  SkillPackages = {"p1", "p2", "p3"}
  SkillName <- MCSkillName
  SkillBytes <- MCSkillBytes
  MaxSkillBytes = 3
  MaxSkills = 2
  MaxSkillVersions = 2
  SkillKeys <- MCSkillKeys
  SkillCallers = {1, 2}
  Installations = {"i1"}
  InstallationClient <- MCInstallationClient
  RecipePlan <- MCLongRecipePlan
  RecipeClients = {"c1", "c2"}
  MaxIncomplete = 1
  PublicationRequests = {"first"}
  RequestId <- MCRequestId
  Candidate <- MCCandidate
  PublishCalls = {1, 2}
  RequestCalls <- MCRequestCalls
  MaxHour = 0
  MaxAuthorizations = 2
  MaxDailyArtifacts = 3
INVARIANTS InstallationResumable
CHECK_DEADLOCK FALSE
