\* Two calls of any tool, two identifiers, room for one session.
SPECIFICATION FairSpec
CONSTANTS
  c1 = c1
  c2 = c2
  c3 = c3
  i1 = i1
  i2 = i2
  i3 = i3
  Calls = {c1, c2}
  Ids = {i1, i2}
  MaxSessions = 1
  Tools = {"create", "spawn", "read", "readClear", "write", "status", "kill", "list"}
  Faults = {"expire", "read", "open", "detach"}
  MaxOutput = 0
  Fits = {{}}
  NoSession = NoSession
INVARIANT SessionLimit
PROPERTIES CallsEnd ReaderEnds ExitRecorded
CHECK_DEADLOCK FALSE
