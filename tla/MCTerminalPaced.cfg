SPECIFICATION Spec
CONSTANTS
  LEN = 8
  HIST = 2
  Letters = {"a", "b"}
  Others = {"ESC"}
  Keys = {"Enter", "Backspace", "Left", "Right", "Recall"}
  Paced = TRUE
  Roomy = TRUE
  MaxLine = 2
  MaxKeys = 0
INVARIANTS
  TypeOK
  LineCounted
PROPERTY
  EditsLine
CHECK_DEADLOCK FALSE
