CONSTANTS
  Env <- MCTwoEnv
  IPAddress <- MCIPAddress
  Zones <- MCZones
  Text <- MCText
  Kernels = {TRUE}
  MaxFaults = 1
  MaxRestarts = 1
SPECIFICATION Spec
INVARIANT ListsExact
