\* Two ingestions from the command line.
CONSTANTS
  Key = {"ip"}
  User = {""}
  Window <- SmallWindow
  Threshold <- SmallThreshold
  MaxTracked = 1
  Enabled <- AttackerRules
  Line <- Attacker
  Port = {p1, p2}
  Raw <- Raws
  Units <- UnitList
  Ignored = {}
  Modes = {"cli"}
  CliSince = {"last-run"}
  FirstSpan = 2
  YearLength = 4
  Gap = 1
  MinEvidence = 2
  MaxTime = 3
  MaxLines = 2
  Flaky = {}
  CanFail = FALSE
SPECIFICATION Spec
INVARIANTS EveryRunAlerts
