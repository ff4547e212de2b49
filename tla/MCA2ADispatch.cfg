SPECIFICATION Spec
CONSTANTS
  c1 = c1
  c2 = c2
  c3 = c3
  id1 = id1
  id2 = id2
  patch = patch
  NoId = NoId
  NoResult = NoResult
  Unfit = Unfit
  NoCaller = NoCaller
  Callers <- MCCallers
  RemoteIds <- MCRemoteIds
  Results <- MCResults
  Replies <- MCReplies
SYMMETRY CallerSymmetry
INVARIANTS
  SentAtMostOnce
  IInv
  OutcomeWasReported
  ConflictsAreFlagged
  NeverStranded
PROPERTIES
  ImplementsOutcome
CHECK_DEADLOCK FALSE
