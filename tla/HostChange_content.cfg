\* Two contents of one file with the same evidence.
CONSTANTS
  Proc = {"daemon"}
  Daemon = {"daemon"}
  Modes = {}
  Rec <- CollidingRec
  Toggled <- AllToggles
  Ignored = {}
  Retention = 0
  MaxDay = 0
  CanFail = FALSE
SPECIFICATION Spec
INVARIANTS EachContentReported
