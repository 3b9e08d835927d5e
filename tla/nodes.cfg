SPECIFICATION NodeFairSpec
CONSTANTS
  Operator = {o1, o2}
  Controller = {c1}
  ScanTTL = 1
  PlanTTL = 1
  SecretTTL = 2
  MaxSecrets = 2
  MaxFaults = 2
  MaxTasks = 1
  MaxNodeChanges = 2
INVARIANT TypeOK
INVARIANT InstalledOnce
INVARIANT FailedMeansUntouched
INVARIANT PlanKeepsCredential
INVARIANT OnlyConfirmedNodeRemoved
INVARIANT DeletedMeansGone
PROPERTY VerdictStays
PROPERTY CredentialsGo
PROPERTY TasksEnd
