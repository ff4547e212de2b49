SPECIFICATION Spec
CONSTANTS
  c1 = c1
  c2 = c2
  NoReview = NoReview
  Controllers <- MCOne
  MaxFindings = 2
  MaxCrashes = 1
INVARIANT CompletedMeansSatisfied
CHECK_DEADLOCK FALSE
