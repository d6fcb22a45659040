\* Every identifier is a UUID of the server's; agents outrun the progress channel.
SPECIFICATION FairSpec
CONSTANTS
  r1 = r1
  r2 = r2
  r3 = r3
  r4 = r4
  t1 = t1
  t2 = t2
  t3 = t3
  t4 = t4
  Requests = {r1, r2}
  TaskIds = {t1, t2}
  SuppliedIds = {}
  Threads = 2
  MaxTasks = 2
  ProgressCapacity = 1
  MaxEvents = 2
  NoTask = NoTask
  Nothing = Nothing
INVARIANT TypeOK
PROPERTIES RefinesTaskBoard AnsweredUnlessLost HeldReceiverEnds
CHECK_DEADLOCK FALSE
