SPECIFICATION Spec
CONSTANTS
  Cmds = {"save", "erase"}
  Params = {1, 2}
  POLLS = 4
  Kinds = {"plain", "param"}
  PassPages = {}
  Lossy = {"poll"}
  Slow = FALSE
INVARIANT
  OkMeansRan
