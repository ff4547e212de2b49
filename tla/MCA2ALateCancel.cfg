SPECIFICATION ServiceSpec
CONSTANTS
  c1 = c1
  c2 = c2
  id1 = id1
  id2 = id2
  patch = patch
  NoId = NoId
  NoResult = NoResult
  Unfit = Unfit
  NoCaller = NoCaller
  AnswersLateCancel = FALSE
  Callers <- MCCallers
  RemoteIds <- MCRemoteIds
  Results <- MCResults
  Replies = {}
PROPERTY FinishedWorkIsRecorded
CHECK_DEADLOCK FALSE
