\* Requests may share the client-chosen identifier t1; t2 and t3 are UUIDs.
SPECIFICATION Spec
CONSTANTS
  r1 = r1
  r2 = r2
  r3 = r3
  r4 = r4
  t1 = t1
  t2 = t2
  t3 = t3
  t4 = t4
  Requests = {r1, r2, r3}
  TaskIds = {t1, t2, t3}
  SuppliedIds = {t1}
  Threads = 2
  MaxTasks = 1
  ProgressCapacity = 1
  MaxEvents = 1
  NoTask = NoTask
  Nothing = Nothing
SYMMETRY RequestSymmetry
INVARIANTS WorkingIsOwned ToldIsStored ArtifactIsOwn CapacityOvershoot
PROPERTY NoReopening
CHECK_DEADLOCK FALSE
