SPECIFICATION Spec
CONSTANTS
  Displays <- MCDisplays
  Noise <- MCNoise
PROPERTIES
  ExtractsTheAddress
