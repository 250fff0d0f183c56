SPECIFICATION ToolSpec
CONSTANTS
  r1 = r1
  r2 = r2
  t1 = t1
  t2 = t2
  write = write
  Runs <- MCTwoRuns
  Keys = {"k1", "k2"}
  Payloads = {"p"}
  MaxConcurrentRuns = 2
  MaxAdmissions = 2
  MaxModelCalls = 0
  Lifetime = 1
  MaxDuration = 1
  Retention = 2
  SkillsBound = FALSE
  ToolCalls <- MCTwoCalls
  RuntimeCalls = {}
  Effects = {write}
  Volatile = {}
  BriefUse = {FALSE}
  Reported = {"completed"}
  MaxRevision = 1
  MaxNonce = 1
  Reads = {}
  NeedApproval = {}
  MaxToolCalls = 1
  GrantConcurrency = 1
  GrantCalls = 2
  DuplicateLimit = 2
  ExecutionLifetime = 1
  PermitLifetime = 1
  ApprovalLifetime = 1
  AlarmLag = 0
INVARIANTS UnresolvedProjectsFailed
CHECK_DEADLOCK FALSE
