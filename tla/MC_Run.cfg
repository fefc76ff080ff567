SPECIFICATION MCSpec
CONSTANTS
  s1 = s1
  s2 = s2
  planA = planA
  planB = planB
  NoPlan = NoPlan
  Sessions <- MCSessions
  Plans <- MCPlans
  MaxCommands = 4
  t1 = t1
  t2 = t2
  build = build
  test = test
  f1 = f1
  f2 = f2
  drift = drift
  Unbound = Unbound
  Absent = Absent
  Tasks <- MCTasks
  Phases <- MCPhases
  LimitSets <- MCLimitSets
  CallTimeouts <- MCCallTimeouts
  Measured <- MCMeasured
  Fingerprints <- MCFingerprints
  Triggers <- MCTriggers
  MaxBarriers = 3
  MaxReports = 1
  Dirs <- MCDirs
  Root = "root"
  parentDir <- parent
  Inputs <- MCInputs
  Multiline = {"lines", "e lines"}
  Patterns = {"$&"}
  MaxSurvivors = 2
  MaxRoutes = 3
  MaxHumanEdits = 1
  Jobs <- MCJobs
  MaxCreates = 4
  MaxTeardowns = 2
INVARIANTS
  NeverOversubscribed
  EveryCallChargedOnce
  ExecutorsNeedApproval
  NeverStacked
PROPERTIES
  StopDrains
  NoProgressStopIsEarned
  OneMovePerApprovedBase
  
CHECK_DEADLOCK FALSE
