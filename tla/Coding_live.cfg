\* Two tasks for one agent, room for one session, one command that writes up to two chunks.
SPECIFICATION FairSpec
CONSTANTS
  t1 = t1
  t2 = t2
  Tasks = {t1, t2}
  MaxSessions = 1
  MaxOutput <- Chatty
  Faults = {"crash", "read", "drop", "prompt"}
INVARIANTS BusyHeld OutputInOrder OkIsComplete
PROPERTY TaskEnds
CHECK_DEADLOCK FALSE
