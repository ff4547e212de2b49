SPECIFICATION EquivalenceSpec
CONSTANTS
  Baselines <- MCBaselines
  Refactorings <- MCRefactorings
  Mappings <- MCMappings
INVARIANTS ProvedMachinesAreEquivalent
CHECK_DEADLOCK FALSE
