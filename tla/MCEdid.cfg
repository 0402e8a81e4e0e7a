SPECIFICATION Spec
CONSTANTS
  Displays <- MCDisplays
  Noise <- MCNoise
INVARIANTS
  TypeOK
  FreedBeforeFirstStart
PROPERTIES
  AddressIsTheDisplays
  ReasonIsOfThisDiscovery
  DiscoveryReturns
