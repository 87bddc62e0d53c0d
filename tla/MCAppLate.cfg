SPECIFICATION Spec
CONSTANTS
  Room = {a, b}
  Pointer = {p}
  None = None
  MaxRequest = 1
PROPERTY CommitAnswersItsCard
