\* Three calls on one identifier: concurrent spawns, clearing reads and kills.
SPECIFICATION Spec
CONSTANTS
  c1 = c1
  c2 = c2
  c3 = c3
  i1 = i1
  i2 = i2
  i3 = i3
  Calls = {c1, c2, c3}
  Ids = {i1}
  MaxSessions = 2
  Tools = {"spawn", "readClear", "kill"}
  Faults = {}
  MaxOutput = 2
  Fits = {{}, {1}, {2}}
  NoSession = NoSession
SYMMETRY CallSymmetry
INVARIANTS TypeOK SpawnedOnce RunningHasChild
PROPERTIES ExitFinal LossExplained
CHECK_DEADLOCK FALSE
