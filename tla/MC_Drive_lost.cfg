SPECIFICATION BuildSpec
CONSTANTS
  a = a
  b = b
  c = c
  p = p
  q = q
  r = r
  Tasks <- MCTasks
  Paths <- MCPaths
  layers <- MCLayers
  writeScope <- MCWriteScope
  Checkout = "branch"
  Histories <- MCFreshHistories
  Unsayable = {}
  MaxRuns = 1
  MaxLost = 0
  f = f
  g = g
  s1 = s1
  s2 = s2
  Dead = Dead
  PhaseDefs <- MCPhaseDefs
  Optional <- MCOptional
  Closeout <- MCCloseout
  SkipSets <- MCSkipSets
  Findings <- MCFindings
  Reported <- MCReported
  Dimensions <- MCDimensions
  Outputs <- MCOutputs
  VerifierPanel <- MCVerifierPanel
  MaxRefusals = 1
  MaxDrives = 2
INVARIANT NoEditLost
CHECK_DEADLOCK FALSE
