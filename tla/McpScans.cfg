SPECIFICATION FairSpec
CONSTANTS
  Jobs = {j1}
  Stops = {c1}
  MaxScans = 1
  MaxStarts = 1
  MaxFindings = 1
  MaxBeats = 1
INVARIANTS
  CancelledWasAsked
  CancelIsFinal
  EndingCountsAll
PROPERTIES
  ImplementsRecord
  RecordedEnds
CHECK_DEADLOCK FALSE
