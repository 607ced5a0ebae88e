\* Every task makes one call; the process dies at most once.
SPECIFICATION Spec
CONSTANTS
  a1 = a1
  a2 = a2
  editor = editor
  remover = remover
  reader = reader
  Id = {a1, a2}
  NoId = NoId
  Task = {editor, remover, reader}
  NoTask = NoTask
  Torn = Torn
  CallsOf <- CallPlan
  MaxCrashes = 1
INVARIANTS
  OpTypeOK
  NeverHalfWritten
  SelectionAgrees
  RosterAgrees
  NothingElseLost
CHECK_DEADLOCK FALSE
