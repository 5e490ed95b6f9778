CONSTANTS
  Version <- MCVersion
  Moving <- MCMonitored
  MaxChanges = 1
  MaxFaults = 0
SPECIFICATION FairSpec
PROPERTY FeedFollowed
