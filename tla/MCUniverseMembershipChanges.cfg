SPECIFICATION Spec
CONSTANTS
  NInstruments = 3
  LastDate = 3
  Revisions = {1, 2}
  MaxRuns = 2
INVARIANTS
  EveryEntryIsAChange
