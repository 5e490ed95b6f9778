CONSTANTS
  Env <- MCTwoEnv
  IPAddress <- MCIPAddress
  Zones <- MCZones
  Text <- MCText
  Kernels = {TRUE, FALSE}
  MaxFaults = 2
  MaxRestarts = 2
SPECIFICATION FairSpec
PROPERTIES
  EventuallyHealthy
  RouterAdvertisementsReapplied
  ImplementsExitNode
