CONSTANTS
  Version <- MCVersion
  Moving <- MCVersions
  MaxChanges = 2
  MaxFaults = 2
SPECIFICATION Spec
INVARIANTS
  TypeOK
  Homogeneous
  ReleasedTested
  TagsTellVersion
