CONSTANTS
  Version <- MCVersion
  Moving <- MCPassWall
  MaxChanges = 1
  MaxFaults = 1
SPECIFICATION RerunSpec
INVARIANT TagsTellVersion
