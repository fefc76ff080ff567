SPECIFICATION WorkflowSpec
CONSTANTS
  a = a
  b = b
  t1 = t1
  t2 = t2
  Nobody = Nobody
  Proc <- MCProc
  Mortal <- MCMortal
  Slow <- MCProc
  HoldAtMost = 1
  Updates = 2
  MaxTries = 8
  StaleAfter = 2
  Leader = leader
  Descendants = {d1}
  MaxOutput = 1
  MaxWritten = 2
  Pollers = {p1, p2}
  MaxPolls = 2
  MaxDeaths = 1
  Layers <- MCLayers
  DependsOn <- MCDependsOn
  Enabled = {"ship_prep"}
  MaxBuildParallel = 1
  MaxParallel = 1
  MaxFix = 1
  Retries = 0
  Reports <- MCReports
  Lossy = {}
  MaxLaunches = 2
  Lenses <- MCLenses
  Places = {place1}
  Severities = {"blocker", "nit"}
  MaxFindings = 2
  Panel = 1
  Silent = Silent
INVARIANTS
  NoFalseGreen
CHECK_DEADLOCK FALSE
