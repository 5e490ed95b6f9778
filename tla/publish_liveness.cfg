CONSTANTS
  Version <- MCVersion
  Moving <- MCMonitored
  MaxChanges = 2
  MaxFaults = 1
SPECIFICATION FairSpec
PROPERTIES
  LatestCatchesUp
  UnchangedInputsSkipped
