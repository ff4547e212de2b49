SPECIFICATION FairSpec
CONSTANTS
  e1 = e1
  e2 = e2
  s1 = s1
  s2 = s2
  other = other
  Reviewer = Reviewer
  Absent = Absent
  Torn = Torn
  Executors <- MCExecutors
  Signers <- MCSigners
  Others <- MCOthers
  MaxEdits = 1
  MaxCrashes = 2
  MaxSignings = 2
INVARIANTS SignatureIsApproved 
PROPERTIES DecisionStands LockIsReleased
CHECK_DEADLOCK FALSE
