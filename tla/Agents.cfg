\* Two tasks of each agent; one permit of the model's client; research with two slots.
SPECIFICATION Spec
CONSTANTS
  t1 = t1 t2 = t2
  Callers <- SomeCallers
  Permits = 1
  MaxRetries = 1
  Bodies <- SomeBodies
  Setups <- SomeSetups
  Slots = 2
  MaxResults = 2
INVARIANTS TypeOK PermitsConserved ClaimsOwned AnswersReadable
PROPERTY EndsUnlessHung
CHECK_DEADLOCK FALSE
