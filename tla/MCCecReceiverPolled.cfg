SPECIFICATION Spec
CONSTANTS
  Frames <- MCFrames
  FrameMax <- MCFrameMax
  Claimable <- MCClaimable
  StartLow <- MCStartLow
  StartTotal <- MCStartTotal
  OneLow <- MCOneLow
  ZeroLow <- MCZeroLow
  BitTotal <- MCBitTotal
  MaxSince <- MCMaxSince
PROPERTIES
  EveryFrameIsReported
