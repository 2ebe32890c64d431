SPECIFICATION Spec
CONSTANTS
  Window = 2
  Values <- MCValues
  Chapters <- MCChapters
  Updates <- MCUpdates
  RetryLimit = 2
  ScoreLimit = 2
  SpeedLimit = 2
  BoredPct = 90
  NearPct = 70
INVARIANT WindowsHoldLatestValues
