SPECIFICATION Spec
CONSTANTS
  LEN = 5
  HIST = 2
  Letters = {"a"}
  Others = {}
  Keys = {"Enter", "Recall"}
  Paced = FALSE
  Roomy = FALSE
  MaxLine = 9
  MaxKeys = 6
INVARIANT
  ReadBehindWrite
CHECK_DEADLOCK FALSE
