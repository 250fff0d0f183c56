SPECIFICATION Spec
CONSTANTS
  r1 = r1
  r2 = r2
  k1 = k1
  k2 = k2
  Runs <- MCRuns
  Keys <- MCKeys
  Payloads = {"p", "q"}
  MaxConcurrentRuns = 1
  MaxAdmissions = 2
  MaxModelCalls = 1
  Lifetime = 1
  MaxDuration = 2
  Retention = 2
  SkillsBound = FALSE
  ToolCalls = {}
  RuntimeCalls = {}
  Effects = {}
  Volatile = {}
  BriefUse = {FALSE}
  Reported = {"running", "completed"}
  MaxRevision = 1
  MaxNonce = 2
SYMMETRY MCSymmetry
INVARIANTS TypeOK OneRunPerKey NewestPermitRedeems CapacityRespected
PROPERTIES ImplementsRunLife
CHECK_DEADLOCK FALSE
