SPECIFICATION Spec
CONSTANTS
  Calls <- MCCalls
  Commands <- MCCommands
  cmd <- MCCmd
  CtlTimeout <- MCCtlTimeout
  MaxLosses <- MCMaxLosses
  MaxEvents <- MCMaxEvents
  None = None
  c1 = c1
  c2 = c2
  c3 = c3
INVARIANTS
  Exit2MeansNotRunning
