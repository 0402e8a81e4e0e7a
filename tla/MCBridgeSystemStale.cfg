SPECIFICATION Spec
CONSTANTS
  MaxCycles <- MCMaxCycles
  MaxUses <- MCMaxUses
  MaxEvents <- MCMaxEvents
PROPERTIES
  OnlyTheRemoteSuspends
CHECK_DEADLOCK FALSE
