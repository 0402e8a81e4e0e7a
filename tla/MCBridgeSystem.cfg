SPECIFICATION Spec
CONSTANTS
  MaxCycles <- MCMaxCycles
  MaxUses <- MCMaxUses
  MaxEvents <- MCMaxEvents
INVARIANTS
  TypeOK
  EndsWithPwrOn
PROPERTIES
  ResumeTurnsTvOn
  StandbySuspends
CHECK_DEADLOCK FALSE
