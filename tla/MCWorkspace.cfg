SPECIFICATION WorkspaceSpec
CONSTANTS
  r1 = r1
  r2 = r2
  p1 = p1
  p2 = p2
  NoDomain = NoDomain
  Nobody = Nobody
  Requests <- MCRequests
  Publishers <- MCPublishers
  MaxCrashes = 2
  MaxVoids = 1
  c1 = c1
  c2 = c2
  m1 = m1
  m2 = m2
  Clients <- MCClients
  Candidates <- MCCandidates
  MaxRevisions = 5
  None = None
  Foreign = Foreign
  q1 = q1
  q2 = q2
  q3 = q3
  Stagers <- MCStagers
  NameCount = 2
  Free = Free
  States <- MCStates
  MaxRecords = 4
  MaxTampers = 2
  MaxOutput = 2
  MaxWritten = 4
INVARIANTS
  ReceiptMeansPublished FinalizedWasPublished AllOrNothing
  CommittedIsValid FinishedIsContained
PROPERTIES ImplementsRegister PublicationIsFinished RetryIsNotRefused CandidateIsFrozen ExecutionEnds
CHECK_DEADLOCK FALSE
