SPECIFICATION LockFairSpec
CONSTANTS
  Holders = {h1, h2}
  Server = server
  NoHolder = NoHolder
  Lease = 2
  MaxSkew = 1
  MaxClocks = 3
INVARIANTS
  SafeHolderOwnsLock
PROPERTY OrphanIsRecovered
CHECK_DEADLOCK FALSE
