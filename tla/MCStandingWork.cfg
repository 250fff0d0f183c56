SPECIFICATION StandingSpec
CONSTANTS
  StandingFocuses = {"schedule", "events"}
  MaxOccurrences = 3
  MaxRevision = 2
  MaxAttempts = 2
  RecoveryDelay = 1
  Interval = 2
  Triggers = {1}
  Events = {1, 2}
  MaxTriggerRevision = 3
  MaxInstances = 3
  MaxOperationAttempts = 2
  MaxReplays = 0
  MaxEventAttempts = 2
  MaxPendingEvents = 1
  MaxRetainedEvents = 2
INVARIANTS StandingTypeOK OccurrencesInOrder OneRunPerEvent
PROPERTIES StandingWorkSettles
CHECK_DEADLOCK FALSE
