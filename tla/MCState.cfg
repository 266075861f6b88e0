CONSTANTS
  Uri = {u1}
  Kind = {"session"}
  ActionKind = {"session", "chat"}
  RequestId = {r1}
  MaxSeq = 3
  MaxIntents = 1
  MaxPage = 2
  Malformed = Malformed
  None = None
  idA = idA
  idB = idB
  idC = idC
  aClient = aClient
  Absent = Absent
SPECIFICATION StateSpec
INVARIANTS ReplicaWellFormed StatusTellsTruth ToolsAreGoverned AnswersAreHonest
PROPERTIES HistoryIsKept ToolCallsOnlyAdvance ReferencesAreCleared
CHECK_DEADLOCK FALSE
