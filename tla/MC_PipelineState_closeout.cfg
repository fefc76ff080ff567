INIT StateInit
NEXT StateNext
CONSTANTS
  PhaseDefs <- MCPhaseDefs
INVARIANT CloseoutRunsAfterBumpyPass
CHECK_DEADLOCK FALSE
