CONSTANTS
  ReadyTicks = 10
  WaitTicks = 22
  Defects <- MCDefects
SPECIFICATION FairSpec
INVARIANTS
  TypeOK
  NoFalsePass
  RenewalSeen
  FailureExplained
  NothingLeft
PROPERTY SmokeEnds
