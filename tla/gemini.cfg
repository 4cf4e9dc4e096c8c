\* An analysis is over once.  Up to two items, two workers, two attempts, intervals of 0.1 to 0.4 seconds.
SPECIFICATION FairSpec
CONSTANTS
  MaxItems = 2
  Workers = {w1, w2}
  Main = main
  Attempts = 2
  MinInterval = 10
  MaxInterval = 40
  FirstInterval = 20
  Beat = 20
  CancelAllowed = TRUE
INVARIANTS Inv CancelStops
PROPERTIES Spaced AnalysisEnds
CHECK_DEADLOCK FALSE
