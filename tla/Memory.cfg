SPECIFICATION Spec
CONSTANTS
  m1 = m1 m2 = m2 m3 = m3
  planner = planner writer = writer r1 = r1 t1 = t1
  None = None
  Memories <- SomeMemories
  Agents <- SomeAgents
  Readers <- SomeReaders
  Owner <- Owners
  Tasks <- SomeTasks
  TaskOf <- TasksOf
  Type <- SomeTypes
  Text <- Texts
  Importance <- Importances
  Tokens <- Sizes
  Kinds <- SomeKinds
  Shares <- SomeShares
  Threshold = 7
  Size = 2
  MaxResults = 2
  Budget = 5
  TakeRecent = 2
  TakeOwn = 1
  MaxCrash = 1
INVARIANTS TypeOK PersistedIsKept ImportantIsKept AgentSeesAll ContextFits
CHECK_DEADLOCK FALSE
