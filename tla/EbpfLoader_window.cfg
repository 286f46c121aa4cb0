\* Windows of the daemon, stopped by a signal at any time.
CONSTANTS
  Event = {"execve", "other"}
  Wanted = {"execve"}
  MaxBuffered = 2
  PipeSize = 1
  MaxPrinted = 4
  CanCrash = TRUE
SPECIFICATION FairSpec
INVARIANTS TypeOK ReadIsAccounted
PROPERTIES QueueSpec SignalStops ReaderEnds
CHECK_DEADLOCK FALSE
