SPECIFICATION Spec
CONSTANTS
  Frames <- MCFrames
  Retries <- MCRetries
  FrameMax <- MCFrameMax
  Lateness <- MCLateness
  MaxLate <- MCMaxLate
  DeviceSets <- MCDeviceSets
  FollowerLow <- MCFollowerLow
  Talks <- MCTalks
  AckRest <- MCAckRest
INVARIANTS
  TypeOK
  NoStrayCallback
  WireReleased
PROPERTIES
  FrameOnTheWire
  OkMeansAnswered
  RetryMeansUnanswered
  ClaimAvoidsUsed
  EveryCallReturns
