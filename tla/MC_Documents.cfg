SPECIFICATION MCSpec
CONSTANTS
  op = op
  c1 = c1
  c2 = c2
  None = None
  Operators <- MCOperators
  Consumers <- MCConsumers
  Actions <- MCActions
  MaxChanges = 2
  MaxEdits = 1
  CommandLines <- MCCommandLines
  Capturers = {k1, k2}
  Drafts <- MCDrafts
  MaxIncidents = 1
  Plans <- MCPlans
  Edits <- MCEdits
  ChangedPaths <- MCChangedPaths
  MaxPlans = 1
  a = a
  b = b
  c = c
  x = x
  i1 = i1
  i2 = i2
  Absent = Absent
  Units <- MCUnits
  Unknown <- MCUnknown
  UnitStates <- MCUnitStates
  PhaseStates <- MCPhaseStates
  DepLists <- MCDepLists
  Required <- MCRequired
  Optional <- MCOptional
  Others <- MCOthers
  RequiredLists <- MCRequiredLists
  Findings <- MCFindings
  Pipelines <- MCPipelines
  Recipes <- MCRecipes
  key1 = key1
  key2 = key2
  v1 = v1
  Unset = Unset
  NoDoc = NoDoc
  Keys <- MCKeys
  Values <- MCValues
  MaxRecords = 4
  Flows = {w1, w2}
  Agents = {a1}
  MaxAppends = 2
SYMMETRY Interchangeable
INVARIANTS
  ConsumedAtMostOnce
  ActsOnWhatWasApproved
  CapturedOnce
  ScopeGatesAgree
  ScopeNeverShrinks
  SafeToBuild
  OneAnswer
  StatusAgrees
  GatesAgree
  RootIsTheCause
  OverlayIsHonest
PROPERTIES
  ImplementsOneUseToken
  DoneOwesNothing
  ImplementsDurableDoc
CHECK_DEADLOCK FALSE
