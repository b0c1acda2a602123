SPECIFICATION FairSpec
CONSTANTS
  Cmds = {"save", "erase"}
  Params = {1, 2}
  POLLS = 4
  Kinds = {"plain", "param", "pass"}
  PassPages = {4}
  Lossy = {"select", "page", "cmd", "idle", "read"}
  Slow = FALSE
INVARIANTS
  TypeOK
  OkMeansRan
  AtMostOnce
  NothingPending
PROPERTY
  CallReturns
