SPECIFICATION Spec
CONSTANTS
  SettablePa <- MCSettablePa
  DiscoverPa <- MCDiscoverPa
  Claimable <- MCClaimable
  Torn <- MCTorn
  BusFrames <- MCBusFrames
  MaxCuts <- MCMaxCuts
INVARIANTS
  TypeOK
  PcKnowsStandby
  NeverBroadcastsUnknown
PROPERTIES
  StandbySaidOnce
  BootsWithLastSet
  AnswersOnlyWhatIsAsked
  EveryCommandIsAnswered
  DeadTvIsReported
