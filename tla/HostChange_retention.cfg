\* The daemon prunes rows of what is still there.
CONSTANTS
  Proc = {"daemon"}
  Daemon = {"daemon"}
  Modes = {}
  Rec <- KeptRec
  Toggled <- AllToggles
  Ignored = {"stick"}
  Retention = 1
  MaxDay = 3
  CanFail = FALSE
SPECIFICATION Spec
PROPERTY FlaggedIsFirstSeen
