SPECIFICATION Spec
CONSTANTS
  Key = {1}
  Hold = {1, 2}
  Cooldown = {2}
  Gap = 1
  Retry = 1
  Retention = 2
  Batch = 1
  MaxActive = 1
  HistoryLimit = 2
  AuditLimit = 1
  Epoch = 3
  MaxTime = 9
  MaxRevision = 2
INVARIANTS HistoryAlternates StateReopens
PROPERTIES AttemptsAreSpaced CooldownIsKept HoldIsRespected
\* The monitor may be disabled for good.
CHECK_DEADLOCK FALSE
