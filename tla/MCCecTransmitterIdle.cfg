SPECIFICATION Spec
CONSTANTS
  Frames <- MCFrames
  Retries <- MCRetries
  FrameMax <- MCFrameMax
  Lateness <- MCLateness
  MaxLate <- MCMaxLate
  DeviceSets <- MCDeviceSets
  FollowerLow <- MCFollowerLow
  Talks <- MCTalks
  AckRest <- MCAckRest
PROPERTIES
  StartsOnAnIdleBus
