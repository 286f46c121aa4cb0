\* Ticks and --since last-run runs one after the other, failing anywhere.
CONSTANTS
  Key = {"ip"}
  User = {""}
  Window <- SmallWindow
  Threshold <- SmallThreshold
  MaxTracked = 1
  Enabled <- AttackerRules
  Line <- Attacker
  Port = {p1, p2}
  Raw <- Raws
  Units <- UnitList
  Ignored = {}
  Modes = {"daemon", "cli"}
  CliSince = {"last-run"}
  FirstSpan = 2
  YearLength = 4
  Gap = 1
  MinEvidence = 2
  MaxTime = 3
  MaxLines = 3
  Flaky = {"auth"}
  CanFail = TRUE
SYMMETRY PortSymmetry
SPECIFICATION Spec
INVARIANTS TypeOK Sound Complete NoneBehindCursor IncidentsAreRuns
