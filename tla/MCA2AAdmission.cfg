SPECIFICATION Spec
CONSTANTS
  i1 = i1
  i2 = i2
  i3 = i3
  src = src
  file = file
  doc = doc
  tokens = tokens
  wall = wall
  read = read
  write = write
  NoParent = NoParent
  Ids <- MCIds
  Paths <- MCPaths
  Beneath <- MCBeneath
  Keys <- MCKeys
  MaxBudget = 3
  Effects <- MCEffects
  Grants <- MCGrants
  Workers <- MCWorkers
  Requests <- MCRequests
SYMMETRY IdSymmetry
INVARIANTS
  CeilingIsShared
  ChildrenFitParent
  DelegationOnlyNarrows
  ResubmissionIsIdempotent
CHECK_DEADLOCK FALSE
