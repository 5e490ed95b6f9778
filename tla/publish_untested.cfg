CONSTANTS
  Version <- MCVersion
  Moving <- MCMonitored
  MaxChanges = 0
  MaxFaults = 0
SPECIFICATION FairSpec
INVARIANT OnlyTestedPushed
