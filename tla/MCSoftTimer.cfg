SPECIFICATION FairSpec
CONSTANTS
  TIMER_NUM = 2
  ADDED = 3
  JIFFIES_MAX = 9
  LOW = 2
  Timeouts = {1, 2}
  InitialTimeout <- MCTimeout
  Settable = {1}
  Commanded = {1, 2}
  Delays = {4}
  FreeRun = FALSE
INVARIANTS
  TypeOK
  ExpiryInReach
  DueInTime
  EnablesRestored
  DelayLongEnough
PROPERTIES
  DelayEnds
  TimerKeepsRunning
CHECK_DEADLOCK FALSE
