SPECIFICATION Spec
CONSTANTS
  Frames <- MCFrames
  FrameMax <- MCFrameMax
  Claimable <- MCClaimable
  StartLow <- MCStartLow
  StartTotal <- MCStartTotal
  OneLow <- MCOneLow
  ZeroLow <- MCZeroLow
  BitTotal <- MCSlowBitTotal
  MaxSince <- MCMaxSince
PROPERTIES
  AcceptsTheFrameOnTheWire
