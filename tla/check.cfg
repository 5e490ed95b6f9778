CONSTANTS
  None = None
  Attempts = 3
  PageSize = 2
  MaxPages = 3
  MinVersion <- MCMinVersion
  PinnedKey = 1
  NotElf = {3}
  Revision = 1
  InitTags <- MCInitTags
  InitReleases <- MCInitReleases
  InitFiles <- MCInitFiles
  InitImages <- MCInitImages
  NewImages <- MCNewImages
  NewTags <- MCNewTags
  NewReleases <- MCNewReleases
  NewFiles <- MCNewFiles
  MaxChanges = 1
  Hiccups = {0, 503}
  Refusals = {403, 404}
  RetryAfter <- MCRetryAfter
SPECIFICATION FairSpec
INVARIANTS
  TypeOK
  BlipsSurvived
  NewestTagFound
  NoNeedlessBuild
PROPERTIES
  KeepsPromise
  CheckEnds
CHECK_DEADLOCK FALSE
