SPECIFICATION FairSpec
CONSTANTS
  BITS = 3
  WIDTH = 3
  Dev <- MCDev
  Wide <- MCWide
  Addrs <- MCAddrs
  Offsets <- MCOffsets
  Sent <- MCSent
  Held <- MCHeld
  Reads = {1, 3}
  Writes = {2}
  Refuses = TRUE
  Stretches = {"byte"}
  MaxRestarts = 1
INVARIANTS
  TypeOK
  OkMeansDone
  OnlyAsAsked
  OkMeansFree
PROPERTIES
  CallReturns
  BusRecovers
