\* One task, whose future may be dropped.
SPECIFICATION FairSpec
CONSTANTS
  t1 = t1
  t2 = t2
  Tasks = {t1}
  MaxSessions = 1
  MaxOutput <- Chatty
  Faults = {"drop"}
PROPERTY AvailableAgain
CHECK_DEADLOCK FALSE
