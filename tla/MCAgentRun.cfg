SPECIFICATION Spec
CONSTANTS
  c1 = c1
  c2 = c2
  NoReview = NoReview
  Controllers <- MCTwo
  MaxFindings = 2
  MaxCrashes = 1
INVARIANTS
  IInv
  AcceptedWorkWasDone
PROPERTIES
  ReviewIsFinal
  EveryRunIsReviewed
CHECK_DEADLOCK FALSE
