\* The comparisons by less than the record, a shared port, a daemon that prunes.
CONSTANTS
  Proc = {"daemon"}
  Daemon = {"daemon"}
  Modes = {}
  Rec <- PortRec
  Toggled <- AllToggles
  Ignored = {}
  Retention = 1
  MaxDay = 2
  CanFail = FALSE
SPECIFICATION Spec
INVARIANTS Accounted ForgottenOnlyExpired
