\* Two pty_spawn calls, no fault.
SPECIFICATION FairSpec
CONSTANTS
  c1 = c1
  c2 = c2
  c3 = c3
  i1 = i1
  i2 = i2
  i3 = i3
  Calls = {c1, c2}
  Ids = {i1}
  MaxSessions = 1
  Tools = {"spawn"}
  Faults = {}
  MaxOutput = 0
  Fits = {{}}
  NoSession = NoSession
PROPERTY ExitSeen
CHECK_DEADLOCK FALSE
