CONSTANTS
  Env <- MCEnv
  IPAddress <- MCIPAddress
  Zones <- MCZones
  Text <- MCText
  Kernels = {TRUE}
  MaxFaults = 2
  MaxRestarts = 1
SPECIFICATION Spec
INVARIANTS
  TypeOK
  EnvironmentReachesServices
  NewContainerListsExact
  
  OfferedOnlyGuarded
  PreparedPortsGuarded
PROPERTIES
  RejectedEnvironmentWritesNothing
  UserSettingsKept
