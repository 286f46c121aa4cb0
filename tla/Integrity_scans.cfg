\* A daemon that scans, and a command line that scans and builds baselines.
CONSTANTS
  Proc = {"daemon", "cli"}
  Builders = {"cli"}
  Path = {"p", "q"}
  Entries = {"q"}
  Ignored = {}
  Content = {"x", "y"}
  FileMode = {"r", "w"}
  FirstDisks <- Disks
  Becomes <- Changed
  MaxDrops = 1
  MaxTime = 1
  MaxRuns = 2
  MaxChanges = 1
SPECIFICATION Spec
INVARIANTS TypeOK FindingsBorneOut DropsKept DropsBounded
PROPERTIES ScanExact BaselineWhole LedgerSpec
CHECK_DEADLOCK FALSE
