SPECIFICATION FairSpec
CONSTANTS
  Ids = {1, 2, 3}
  Values = {0, 1, 2}
  Either = {1, 2, 3}
  Limit = 1
  Servers <- MCServers
  Domains = {{0, 1}, {1, 2}}
  Sorts <- MCSorts
  None = None
INVARIANTS
  ShownOnce
  ShownAtEnd
PROPERTIES
  WalkEnds
CHECK_DEADLOCK FALSE
