\* Entities of up to four columns; statements of up to three places.
SPECIFICATION PipelineSpec
CONSTANTS
  MaxCols = 4
  OwnRefs <- MCOwnRefs
  MaxOwn = 3
INVARIANTS
  RoundTrip
  RefusedForCause
  OwnRowOnly
  SubstitutionExact
CHECK_DEADLOCK FALSE
