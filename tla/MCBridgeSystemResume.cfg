SPECIFICATION Spec
CONSTANTS
  MaxCycles <- MCMaxCycles
  MaxUses <- MCMaxUses
  MaxEvents <- MCMaxEvents
PROPERTIES
  EveryResumeTurnsTvOn
CHECK_DEADLOCK FALSE
