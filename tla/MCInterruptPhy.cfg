SPECIFICATION FairSpec
CONSTANTS
  Phy = {TRUE, FALSE}
  Boot = 0
  CHARS = 2
  MAXKEYS = 2
PROPERTY
  CallsReturn
