SPECIFICATION FairRuntimeSpec
CONSTANTS
  r1 = r1
  t1 = t1
  c1 = c1
  write = write
  Runs = {r1}
  Keys = {"k"}
  Payloads = {"p"}
  MaxConcurrentRuns = 1
  MaxAdmissions = 1
  MaxModelCalls = 0
  Lifetime = 1
  MaxDuration = 2
  Retention = 3
  SkillsBound = FALSE
  ToolCalls = {t1}
  RuntimeCalls = {c1}
  Effects = {write}
  Volatile = {"disable"}
  BriefUse = {FALSE}
  Reported = {}
  MaxRevision = 1
  MaxNonce = 1
  Reads = {}
  NeedApproval = {}
  MaxToolCalls = 1
  GrantConcurrency = 1
  GrantCalls = 2
  DuplicateLimit = 2
  ExecutionLifetime = 1
  PermitLifetime = 1
  ApprovalLifetime = 1
  AlarmLag = 1
  Tools = {"sandbox", "web"}
  RuntimeLifetime = 1
  CompletionGrace = 1
  CleanupGrace = 1
  CleanupRetry = 1
  OpenWindow = 1
  Horizon = 2
  CleanupBatch = 1
INVARIANTS RuntimeTypeOK SandboxGoneBeforeForgotten BudgetConserved
PROPERTIES LedgersSettle
CHECK_DEADLOCK FALSE
