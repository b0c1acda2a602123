SPECIFICATION FairSpec
CONSTANTS
  TASK_NUM = 4
  terminal = terminal
  timer = timer
  app = app
  INVALID = INVALID
  TaskIds = {terminal, timer, app}
  BootTasks <- MCBootTasks
  Levels = {1}
  PostedBy <- UartOnly
  MaxWork = 3
INVARIANTS
  TypeOK
  FastQueueShape
  RemovesWhatItRan
  FastResponse
PROPERTY
  EventsServed
