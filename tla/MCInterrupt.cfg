SPECIFICATION FairSpec
CONSTANTS
  Phy = {TRUE}
  Boot = 2
  CHARS = 2
  MAXKEYS = 2
INVARIANTS
  TypeOK
  NothingOverwritten
  EnabledInLoop
PROPERTIES
  CallsReturn
  InterruptsServed
