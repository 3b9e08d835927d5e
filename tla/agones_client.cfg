SPECIFICATION FairSpec
CONSTANTS
  Profile = {p1, p2}
  MaxUid = 6
  None = None
INVARIANT InstanceIsCounted
PROPERTY CredentialsAreKept
PROPERTY KeepsSlot
PROPERTY EndIsNoticed
PROPERTY CredentialsAreRemoved
