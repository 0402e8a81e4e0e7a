SPECIFICATION Spec
CONSTANTS
  Frames <- MCTvFrames
  FrameMax <- MCFrameMax
  Claimable <- MCClaimable
  StartLow <- MCStartLow
  StartTotal <- MCStartTotal
  OneLow <- MCOneLow
  ZeroLow <- MCZeroLow
  BitTotal <- MCBitTotal
  MaxSince <- MCMaxSince
INVARIANTS
  AcksOnlyItsOwnAddress
