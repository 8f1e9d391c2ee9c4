SPECIFICATION FairSpec
CONSTANTS
  Writers = {w1, w2, w3}
  States = {"draft", "open", "closed"}
  Initial = "open"
  Legal <- OrderMachine
  Retrying = {w3}
  Deletable = TRUE
  MaxRetries = 1
INVARIANTS
  TrailIsLegal
  NoLostUpdate
  MissIsDiagnosed
PROPERTY EveryWriterSettles
CHECK_DEADLOCK FALSE
