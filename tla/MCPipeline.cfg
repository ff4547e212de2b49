SPECIFICATION Spec
CONSTANTS
  Unknown = Unknown
  NoLock = NoLock
  Evaluate <- EvaluateExpression
  EvaluatePartially <- Evaluate3
  FieldsOf <- ReferencedFields
  PartsOf <- Subexpressions
  Specs <- MCSpecs
  Limits <- MCLimits
  Baselines <- MCBaselines
  Refactorings <- MCRefactorings
  Mappings <- MCMappings
  NetworkSpecs <- MCNetworkSpecs
  FaultSets <- MCFaultSets
  SlotLists <- MCSlotLists
  MaxStateSpace = 1000
  None = None
  Absent = Absent
  Missing = Missing
  Earlier = Earlier
  p1 = p1
  p2 = p2
  k1 = k1
  k2 = k2
  Payloads <- MCPayloads
  Words <- MCWords
  MaxLayers = 2
  Candidates <- MCCandidates
  Budgets <- MCBudgets
  Sources <- MCSources
  Original = "original"
  MaxAttempts = 2
  Components <- MCComponents
  Places <- MCPlaces
  MaxWorkers = 2
INVARIANTS
  VerdictIsExact LockMakesAtomic ProvedIsIsomorphism
  VerdictIsTheNetworks ClaimIsTheCodes LoopStops SystemIsItsComponents
PROPERTIES NeverStrengthened
CHECK_DEADLOCK FALSE
