SPECIFICATION Spec
CONSTANTS
  SettablePa <- MCSettablePa
  DiscoverPa <- MCDiscoverPa
  Claimable <- MCClaimable
  Torn <- MCTorn
  BusFrames <- MCBusFrames
  MaxCuts <- MCMaxCuts
PROPERTIES
  SetPaSurvivesReboot
