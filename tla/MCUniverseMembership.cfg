SPECIFICATION Spec
CONSTANTS
  NInstruments = 3
  LastDate = 3
  Revisions = {1, 2}
  MaxRuns = 3
INVARIANTS
  TypeOK
  PointReadsAgree
  RangeReadsAgree
  ReadsBackAsEvaluated
  EntriesAreEvidenced
  StaysAreMaximal
PROPERTIES
  ImplementsSeries
