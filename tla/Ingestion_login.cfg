\* Failures further apart than their own window, then a login.
CONSTANTS
  Key = {"ip"}
  User = {""}
  Window <- LongWindow
  Threshold <- SmallThreshold
  MaxTracked = 1
  Enabled = {"repeated_failed_login", "success_after_failures"}
  Line <- Logins
  Port = {p1}
  Raw <- Raws
  Units <- UnitList
  Ignored = {}
  Modes = {"daemon"}
  CliSince = {"last-run"}
  FirstSpan = 2
  YearLength = 5
  Gap = 1
  MinEvidence = 2
  MaxTime = 4
  MaxLines = 3
  Flaky = {}
  CanFail = FALSE
SPECIFICATION Spec
INVARIANTS SuccessReported
