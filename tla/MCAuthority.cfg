SPECIFICATION FairSpec
CONSTANTS
  r1 = r1
  r2 = r2
  k1 = k1
  k2 = k2
  Runs <- MCOneRun
  Keys = {"k"}
  Payloads = {"p"}
  MaxConcurrentRuns = 1
  MaxAdmissions = 2
  MaxModelCalls = 1
  Lifetime = 1
  MaxDuration = 1
  Retention = 1
  SkillsBound = TRUE
  ToolCalls = {}
  RuntimeCalls = {}
  Effects = {}
  Volatile = {"fleet", "revise", "disable", "grant", "catalog", "skills"}
  BriefUse = {TRUE, FALSE}
  Reported = {"completed"}
  MaxRevision = 2
  MaxNonce = 2
PROPERTIES RevocationIsFinal StaleLoadRefused NothingRetainedForever
CHECK_DEADLOCK FALSE
