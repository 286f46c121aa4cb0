\* Both orders of snapshot and window, on a host that goes on in between.
CONSTANTS
  Pid = {"p", "q"}
  Name = {"s", "t", "u"}
  Socket = {"s", "u"}
  Lasting = {"t"}
  Deeds <- Execute
  Traits <- Plain
  Multithreaded = {"q"}
  Mine = {"p"}
  PacketSockets = 0
  Capacity = 1
  Modes = {"daemon","scan"}
  Enabled <- All
  Roots = {TRUE, FALSE}
  MaxRuns = 1
  MaxMoves = 2
SPECIFICATION Spec
INVARIANTS TypeOK EveryAlarmHasItsEvent HiddenFound PortFound
PROPERTIES HiddenOnly PortOnly
CHECK_DEADLOCK FALSE
