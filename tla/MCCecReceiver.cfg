SPECIFICATION Spec
CONSTANTS
  Frames <- MCFrames
  FrameMax <- MCFrameMax
  Claimable <- MCClaimable
  StartLow <- MCStartLow
  StartTotal <- MCStartTotal
  OneLow <- MCOneLow
  ZeroLow <- MCZeroLow
  BitTotal <- MCBitTotal
  MaxSince <- MCMaxSince
INVARIANTS
  TypeOK
  AckNeverHitsData
  StoresInsideTheBuffer
PROPERTIES
  AcceptsTheFrameOnTheWire
  UnpolledFrameIsReported
  RxRearms
