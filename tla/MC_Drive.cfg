SPECIFICATION MCSpec
CONSTANTS
  a = a
  b = b
  c = c
  p = p
  q = q
  r = r
  Tasks <- MCTasks
  Paths <- MCPaths
  layers <- MCLayers
  writeScope <- MCWriteScope
  Checkout = "branch"
  Histories <- MCHistories
  Unsayable = {}
  MaxRuns = 3
  MaxLost = 1
  f = f
  g = g
  s1 = s1
  s2 = s2
  Dead = Dead
  PhaseDefs <- MCPhaseDefs
  Optional <- MCOptional
  Closeout <- MCCloseout
  SkipSets <- MCSkipSets
  Findings <- MCFindings
  Reported <- MCReported
  Dimensions <- MCDimensions
  Outputs <- MCOutputs
  VerifierPanel <- MCVerifierPanel
  MaxRefusals = 1
  MaxDrives = 2
INVARIANTS
  IntegratedOnce
  LayerBarrier
  CommitsWhatWasReviewed
  ConvergesOnItsOwnEvidence
PROPERTIES
  RecordsWhatIsReachable
  GreenIsComplete
  AdvanceIsAnswered
CHECK_DEADLOCK FALSE
