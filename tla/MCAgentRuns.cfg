SPECIFICATION FairAgentRunsSpec
CONSTANTS
  Focuses = {"session", "inbox", "directory", "repeats"}
  Contracts = {"text", "json"}
  MaxOutputRetries = 1
  InboxRuns = {1}
  Triggered = {}
  MaxItems = 1
  Retention = 3
  MaxMoment = 3
  SessionRuns = {"a", "b"}
  Sessions = {"s"}
  Starts <- MCStarts
  WorkflowRuns = {"b"}
  MaxBranch = 2
INVARIANTS AgentRunsTypeOK CompletedIsValidAndStands TurnDrainedBeforeDeletion
PROPERTIES AgentRunsSettle InboxKeepsWhatMatters NoRoutedRunLost
CHECK_DEADLOCK FALSE
