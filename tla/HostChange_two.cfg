\* A daemon and a command line on one database, either failing anywhere.
CONSTANTS
  Proc = {"daemon", "cli"}
  Daemon = {"daemon"}
  Modes = {"scan", "learn"}
  Rec <- PairRec
  Toggled <- AllToggles
  Ignored = {}
  Retention = 0
  MaxDay = 0
  CanFail = TRUE
SPECIFICATION FairSpec
INVARIANTS TypeOK Accounted FindingsAccounted
PROPERTIES LedgerSpec FoundIsAlerted
