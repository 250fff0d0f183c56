SPECIFICATION FocusSpec
CONSTANTS
  Focuses = {"ledger", "grant", "external", "runtime"}
  Early = 1
  r1 = r1
  r2 = r2
  k1 = k1
  k2 = k2
  t1 = t1
  t2 = t2
  Runs <- MCTwoRuns
  Keys <- MCTwoKeys
  Payloads = {"p"}
  MaxConcurrentRuns = 2
  MaxAdmissions = 2
  MaxModelCalls = 0
  Lifetime = 1
  MaxDuration = 1
  Retention = 3
  SkillsBound = FALSE
  ToolCalls <- MCTwoCalls
  RuntimeCalls = {"c"}
  Effects = {"write", "post", "get"}
  Shared = {"write"}
  RemoteEffects = {"post"}
  Volatile = {"connection"}
  BriefUse = {FALSE}
  Reported = {}
  MaxRevision = 1
  MaxNonce = 1
  Reads = {"get"}
  NeedApproval = {"write"}
  MaxToolCalls = 2
  GrantConcurrency = 1
  GrantCalls = 2
  DuplicateLimit = 2
  ExecutionLifetime = 1
  PermitLifetime = 1
  ApprovalLifetime = 1
  AlarmLag = 1
  Tools = {"sandbox", "web"}
  RuntimeLifetime = 1
  CompletionGrace = 1
  CleanupGrace = 1
  CleanupRetry = 1
  OpenWindow = 1
  Horizon = 2
  CleanupBatch = 1
SYMMETRY MCSymmetry
INVARIANTS GrantRespected AnswerIsTrue CancellationExcludesDispatch
PROPERTIES OutcomeIsFinal
CHECK_DEADLOCK FALSE
