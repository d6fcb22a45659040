--------------------------- MODULE A2AServerProofs ---------------------------
(***************************************************************************)
(* Proofs about A2AServer, for every set of requests, every set of task    *)
(* identifiers and every value of the bounds.                              *)
(***************************************************************************)
EXTENDS A2AServer, FiniteSetTheorems, TLAPS

USE DEF Goto, Tell, Store, Prefix, InFlight

-----------------------------------------------------------------------------
(* Type correctness.                                                       *)

LEMMA InitType == Init => TypeOK
BY ChannelBounds DEF Init, TypeOK

LEMMA NextType == TypeOK /\ [Next]_vars => TypeOK'
<1> SUFFICES ASSUME TypeOK, [Next]_vars PROVE TypeOK'
  OBVIOUS
<1> USE ChannelBounds DEF TypeOK, streamVars, TaskStates
<1>1. CASE UNCHANGED vars
  BY <1>1 DEF vars
<1>2. ASSUME NEW r \in Requests, Handler(r) PROVE TypeOK'
  <2>1. CASE CheckCapacity(r)
    BY <2>1 DEF CheckCapacity
  <2>2. CASE CheckCollision(r)
    BY <2>2 DEF CheckCollision
  <2>3. CASE InsertWorking(r)
    BY <2>3 DEF InsertWorking, Task
  <2> QED
    BY <1>2, <2>1, <2>2, <2>3 DEF Handler
<1>3. ASSUME NEW r \in Requests, SendReturns(r) PROVE TypeOK'
  BY <1>3 DEF SendReturns, Task
<1>4. ASSUME NEW r \in Requests, Agent(r) PROVE TypeOK'
  BY <1>4 DEF Agent, AgentEnds, AgentReports
<1>5. ASSUME NEW r \in Requests, Stream(r) PROVE TypeOK'
  <2>1. CASE EmitStarting(r)
    BY <2>1 DEF EmitStarting
  <2>2. CASE SelectPends(r)
    BY <2>2 DEF SelectPends
  <2>3. CASE SelectProgress(r)
    <3>1. rx' \in [Requests -> {"none", "held", "taken", "lost"}]
      BY <2>3 DEF SelectProgress, ReceiverAfterProgress
    <3>2. backlog' \in [Requests -> 0..ProgressCapacity]
      BY <2>3 DEF SelectProgress
    <3> QED
      BY <2>3, <3>1, <3>2, ZenonT(60) DEF SelectProgress
  <2>4. CASE SelectResult(r)
    BY <2>4 DEF SelectResult, Task
  <2>5. CASE CompleteStream(r)
    BY <2>5 DEF CompleteStream, Task
  <2> QED
    BY <1>5, <2>1, <2>2, <2>3, <2>4, <2>5 DEF Stream
<1>6. ASSUME NEW r \in Requests, Environment(r) PROVE TypeOK'
  <2>1. CASE Malformed(r)
    BY <2>1 DEF Malformed
  <2>2. CASE Receive(r)
    BY <2>2 DEF Receive
  <2>3. CASE TasksGet(r)
    BY <2>3 DEF TasksGet, Task
  <2>4. CASE TasksCancel(r)
    BY <2>4 DEF TasksCancel, Task
  <2>5. CASE AgentProgress(r)
    <3>1. sent[r] \in 0..MaxEvents /\ backlog[r] \in 0..ProgressCapacity
      OBVIOUS
    <3>2. sent' \in [Requests -> 0..MaxEvents]
      BY <2>5, <3>1 DEF AgentProgress
    <3>3. backlog' \in [Requests -> 0..ProgressCapacity]
      BY <2>5, <3>1 DEF AgentProgress
    <3>4. lagged' \in [Requests -> BOOLEAN]
      BY <2>5 DEF AgentProgress
    <3> QED
      BY <2>5, <3>2, <3>3, <3>4 DEF AgentProgress
  <2>6. CASE SendDropped(r)
    BY <2>6 DEF SendDropped
  <2>7. CASE StreamDropped(r)
    BY <2>7 DEF StreamDropped
  <2> QED
    BY <1>6, <2>1, <2>2, <2>3, <2>4, <2>5, <2>6, <2>7 DEF Environment
<1> QED
  BY <1>1, <1>2, <1>3, <1>4, <1>5, <1>6 DEF Next

\* The variables keep their types, and the progress channel its capacity.
THEOREM TypeCorrect == Spec => []TypeOK
<1>1. Init => TypeOK
  BY InitType
<1>2. TypeOK /\ [Next]_vars => TypeOK'
  BY NextType
<1> QED
  BY <1>1, <1>2, PTL DEF Spec
-----------------------------------------------------------------------------
(* The table: who owns an entry, and what the entry says.                  *)

Inserted == InFlight \cup {"done", "dropped"}

\* A message request past its reception works on an identifier; one not yet received
\* has none and was told nothing.
IdsInv == \A r \in Requests :
  /\ pc[r] \in Prefix \cup Inserted => taskId[r] \in TaskIds
  /\ pc[r] = "idle" => taskId[r] = Nothing /\ told[r] = "nothing"

\* A request past its insert has an entry in the table: nothing removes entries.
InsertedInv == \A r \in Requests : pc[r] \in Inserted => tasks[taskId[r]] # NoTask

\* An entry's message is of a request that was inserted under that identifier, and
\* which has not ended while the entry reads "working".
OwnerInv == \A id \in TaskIds : tasks[id] # NoTask =>
  /\ taskId[tasks[id].message] = id
  /\ pc[tasks[id].message] \in Inserted
  /\ tasks[id].state = "working" => pc[tasks[id].message] # "done"

\* Only a request that ended has been told so.
ToldInv == \A r \in Requests :
  taskId[r] # Nothing /\ told[r] \in {"completed", "failed"} => pc[r] = "done"

TableInv == TypeOK /\ IdsInv /\ InsertedInv /\ OwnerInv /\ ToldInv /\ ArtifactIsOwn

LEMMA InitTable == Init => TableInv
<1> SUFFICES ASSUME Init PROVE TableInv
  OBVIOUS
<1>1. TypeOK
  BY InitType
<1>2. IdsInv /\ InsertedInv /\ OwnerInv /\ ToldInv
  BY DEF Init, IdsInv, InsertedInv, OwnerInv, ToldInv, Inserted
<1>3. ArtifactIsOwn
  BY DEF Init, ArtifactIsOwn, Stored
<1> QED
  BY <1>1, <1>2, <1>3 DEF TableInv

LEMMA NextTable == TableInv /\ [Next]_vars => TableInv'
<1> SUFFICES ASSUME TableInv, [Next]_vars PROVE TableInv'
  OBVIOUS
<1>0. TypeOK'
  BY NextType DEF TableInv
<1> DEFINE Rest == IdsInv /\ InsertedInv /\ OwnerInv /\ ToldInv /\ ArtifactIsOwn
<1> SUFFICES Rest'
  BY <1>0 DEF TableInv
<1> USE Sentinels DEF TableInv, TypeOK, IdsInv, InsertedInv, OwnerInv, ToldInv,
      ArtifactIsOwn, Stored, Inserted, Task, TaskStates, streamVars
<1>1. CASE UNCHANGED vars
  BY <1>1 DEF vars
<1>2. ASSUME NEW r \in Requests, Handler(r) PROVE Rest'
  <2>1. CASE CheckCapacity(r)
    BY <2>1 DEF CheckCapacity
  <2>2. CASE CheckCollision(r)
    BY <2>2 DEF CheckCollision
  <2>3. CASE InsertWorking(r)
    BY <2>3 DEF InsertWorking
  <2> QED
    BY <1>2, <2>1, <2>2, <2>3 DEF Handler
<1>3. ASSUME NEW r \in Requests, SendReturns(r) PROVE Rest'
  BY <1>3 DEF SendReturns
<1>4. ASSUME NEW r \in Requests, Agent(r) PROVE Rest'
  BY <1>4 DEF Agent, AgentEnds, AgentReports
<1>5. ASSUME NEW r \in Requests, Stream(r) PROVE Rest'
  <2>1. CASE EmitStarting(r)
    BY <2>1 DEF EmitStarting
  <2>2. CASE SelectPends(r)
    BY <2>2 DEF SelectPends
  <2>3. CASE SelectProgress(r)
    BY <2>3 DEF SelectProgress
  <2>4. CASE SelectResult(r)
    <3>1. CASE outcome[r] = "ok"
      BY <2>4, <3>1 DEF SelectResult
    <3>2. CASE outcome[r] # "ok"
      <4>1. /\ pc[r] = "streaming" /\ pc' = [pc EXCEPT ![r] = "done"]
            /\ told' = [told EXCEPT ![r] = "failed"] /\ UNCHANGED <<kind, taskId>>
            /\ tasks' = [tasks EXCEPT ![taskId[r]] =
                           [state |-> "failed", message |-> r, artifact |-> Nothing]]
        BY <2>4, <3>2 DEF SelectResult
      <4>2. taskId[r] \in TaskIds
        BY <4>1
      <4>3. IdsInv' /\ ToldInv'
        BY <4>1, <4>2
      <4>4. InsertedInv'
        BY <4>1, <4>2
      <4>5. OwnerInv'
        BY <4>1, <4>2
      <4>6. ArtifactIsOwn'
        BY <4>1, <4>2
      <4> QED
        BY <4>3, <4>4, <4>5, <4>6
    <3> QED
      BY <3>1, <3>2
  <2>5. CASE CompleteStream(r)
    <3>1. IdsInv' /\ ToldInv'
      BY <2>5 DEF CompleteStream
    <3>2. InsertedInv'
      BY <2>5 DEF CompleteStream
    <3>3. OwnerInv'
      BY <2>5 DEF CompleteStream
    <3>4. ArtifactIsOwn'
      BY <2>5 DEF CompleteStream
    <3> QED
      BY <3>1, <3>2, <3>3, <3>4
  <2> QED
    BY <1>5, <2>1, <2>2, <2>3, <2>4, <2>5 DEF Stream
<1>6. ASSUME NEW r \in Requests, Environment(r) PROVE Rest'
  <2>1. CASE Malformed(r)
    BY <2>1 DEF Malformed
  <2>2. CASE Receive(r)
    BY <2>2 DEF Receive
  <2>3. CASE TasksGet(r)
    BY <2>3 DEF TasksGet
  <2>4. CASE TasksCancel(r)
    BY <2>4 DEF TasksCancel
  <2>5. CASE AgentProgress(r)
    BY <2>5 DEF AgentProgress
  <2>6. CASE SendDropped(r)
    BY <2>6 DEF SendDropped
  <2>7. CASE StreamDropped(r)
    BY <2>7 DEF StreamDropped
  <2> QED
    BY <1>6, <2>1, <2>2, <2>3, <2>4, <2>5, <2>6, <2>7 DEF Environment
<1> QED
  BY <1>1, <1>2, <1>3, <1>4, <1>5, <1>6 DEF Next

LEMMA TableInvariant == Spec => []TableInv
<1>1. Init => TableInv
  BY InitTable
<1>2. TableInv /\ [Next]_vars => TableInv'
  BY NextTable
<1> QED
  BY <1>1, <1>2, PTL DEF Spec

\* An entry that reads "working" belongs to a request that may still end it, or that
\* was dropped on the way.
THEOREM WorkingAlwaysOwned == Spec => []WorkingIsOwned
<1>1. TableInv => WorkingIsOwned
  BY DEF TableInv, OwnerInv, WorkingIsOwned, Stored, Inserted
<1> QED
  BY <1>1, TableInvariant, PTL

\* A reply or status event that says a task ended never runs ahead of the table.
THEOREM ToldAlwaysStored == Spec => []ToldIsStored
<1>1. TableInv => ToldIsStored
  <2> SUFFICES ASSUME TableInv, NEW r \in Requests, taskId[r] # Nothing,
                      told[r] \in {"completed", "failed"},
                      tasks[taskId[r]].message = r
               PROVE  tasks[taskId[r]].state # "working"
    BY DEF ToldIsStored
  <2>1. pc[r] = "done"
    BY DEF TableInv, ToldInv
  <2>2. taskId[r] \in TaskIds /\ tasks[taskId[r]] # NoTask
    BY <2>1 DEF TableInv, IdsInv, InsertedInv, Inserted
  <2> QED
    BY <2>1, <2>2 DEF TableInv, OwnerInv
<1> QED
  BY <1>1, TableInvariant, PTL

\* A completed task holds the result of the message it stores, also when requests
\* collide on its identifier.
THEOREM ArtifactAlwaysOwn == Spec => []ArtifactIsOwn
<1>1. TableInv => ArtifactIsOwn
  BY DEF TableInv
<1> QED
  BY <1>1, TableInvariant, PTL

\* A task that ended is only reopened by a second request admitted in the window
\* between contains_key and insert.
THEOREM ReopenedOnlyByRace == Spec => NoReopening
<1>1. TableInv /\ [Next]_vars => [ReopeningNeedsRace]_vars
  <2> SUFFICES ASSUME TableInv, Next, NEW id \in TaskIds,
                      tasks[id] # NoTask, tasks[id].state # "working",
                      tasks'[id].state = "working"
               PROVE  \E r \in OwnersOf(id) : r # tasks[id].message /\ pc[r] = "insert"
    BY DEF ReopeningNeedsRace
  <2> USE DEF TableInv, TypeOK, streamVars
  <2>1. PICK r \in Requests :
          Handler(r) \/ SendReturns(r) \/ Agent(r) \/ Stream(r) \/ Environment(r)
    BY DEF Next
  <2>2. tasks'[id] # tasks[id]
    OBVIOUS
  <2>3. CASE Handler(r)
    <3>1. InsertWorking(r) /\ taskId[r] = id
      BY <2>2, <2>3 DEF Handler, CheckCapacity, CheckCollision, InsertWorking
    <3>2. pc[r] = "insert" /\ r \in OwnersOf(id)
      BY <3>1 DEF InsertWorking, OwnersOf, Admitted
    <3>3. r # tasks[id].message
      BY <3>2 DEF OwnerInv, Inserted
    <3> QED
      BY <3>2, <3>3
  <2>4. CASE SendReturns(r)
    BY <2>2, <2>4 DEF SendReturns, Task
  <2>5. CASE Agent(r)
    BY <2>2, <2>5 DEF Agent, AgentEnds, AgentReports
  <2>6. CASE Stream(r)
    BY <2>2, <2>6 DEF Stream, EmitStarting, SelectPends, SelectProgress, SelectResult,
       CompleteStream, Task
  <2>7. CASE Environment(r)
    <3>1. TasksCancel(r)
      BY <2>2, <2>7 DEF Environment, Malformed, Receive, TasksGet, AgentProgress,
         SendDropped, StreamDropped
    <3> QED
      BY <2>2, <3>1 DEF TasksCancel, Task
  <2> QED
    BY <2>1, <2>3, <2>4, <2>5, <2>6, <2>7
<1> QED
  BY <1>1, TableInvariant, PTL DEF Spec, NoReopening

-----------------------------------------------------------------------------
(* The two races of the await-free prefix, bounded by the number of threads. *)

\* Requests that passed the capacity check and have not inserted.
Passed == {r \in Requests : pc[r] \in {"collision", "insert"}}

\* Every request that is about to insert one more entry was counted against a thread
\* when the table still had room.
CountInv ==
  /\ Cardinality(MidCheck) <= Threads
  /\ IsFiniteSet(Stored)
  /\ Cardinality(Stored) + Cardinality(Passed) < MaxTasks + Threads
  /\ CollisionBound

\* The sets of requests the counts are about are finite.
LEMMA RequestSetsFinite ==
  ASSUME NEW S \in SUBSET Requests
  PROVE  /\ IsFiniteSet(S) /\ Cardinality(S) \in Nat
         /\ \A T \in SUBSET S : IsFiniteSet(T) /\ Cardinality(T) \in Nat
                               /\ Cardinality(T) <= Cardinality(S)
<1>1. IsFiniteSet(S)
  BY RequestsFinite, FS_Subset
<1> QED
  BY <1>1, FS_Subset, FS_CardinalityType

\* Adding or removing one element changes a cardinality by at most one.
LEMMA AddOne ==
  ASSUME NEW S, IsFiniteSet(S), NEW x
  PROVE  /\ IsFiniteSet(S \cup {x})
         /\ Cardinality(S \cup {x}) <= Cardinality(S) + 1
         /\ Cardinality(S \cup {x}) \in Nat /\ Cardinality(S) \in Nat
<1>1. Cardinality(S) \in Nat
  BY FS_CardinalityType
<1>2. CASE x \in S
  <2>1. S \cup {x} = S
    BY <1>2
  <2> QED
    BY <1>1, <2>1
<1>3. CASE x \notin S
  BY <1>1, <1>3, FS_AddElement
<1> QED
  BY <1>2, <1>3

LEMMA RemoveOne ==
  ASSUME NEW S, IsFiniteSet(S), NEW x \in S
  PROVE  Cardinality(S \ {x}) = Cardinality(S) - 1
BY FS_RemoveElement

LEMMA InitCount == Init => CountInv
<1> SUFFICES ASSUME Init PROVE CountInv
  OBVIOUS
<1>1. MidCheck = {} /\ Stored = {} /\ Passed = {}
  BY DEF Init, MidCheck, Stored, Passed
<1>2. \A id \in TaskIds : OwnersOf(id) = {}
  BY DEF Init, OwnersOf, Admitted
<1> QED
  BY <1>1, <1>2, FS_EmptySet, ThreadsPositive, MaxTasksPositive DEF CountInv, CollisionBound

\* What a step does to the four sets that are counted.  Only Receive adds to MidCheck,
\* only a passed CheckCapacity to Passed, only InsertWorking to Stored, and only a
\* passed CheckCollision to the owners of an identifier.
QuietStep ==
  /\ MidCheck' \subseteq MidCheck
  /\ Passed' \subseteq Passed
  /\ Stored' = Stored
  /\ \A id \in TaskIds : OwnersOf(id)' \subseteq OwnersOf(id)

LEMMA MostStepsQuiet ==
  ASSUME TableInv, NEW r \in Requests,
         SendReturns(r) \/ Agent(r) \/ Stream(r) \/ Malformed(r) \/ TasksGet(r)
           \/ TasksCancel(r) \/ AgentProgress(r) \/ SendDropped(r) \/ StreamDropped(r)
  PROVE  QuietStep
<1> USE DEF TableInv, TypeOK, streamVars, QuietStep, MidCheck, Passed, OwnersOf, Admitted
<1>1. TypeOK'
  BY NextType DEF Next, Environment, TableInv
<1>2. \A q \in Requests : taskId'[q] = taskId[q] /\
        \/ pc'[q] = pc[q]
        \/ pc'[q] \in {"closed", "done", "dropped", "streaming", "artifact"}
           /\ pc[q] \notin Prefix /\ (pc'[q] # "closed" => pc[q] \in InFlight)
  BY DEF SendReturns, Agent, AgentEnds, AgentReports, Stream, EmitStarting, SelectPends,
     SelectProgress, SelectResult, CompleteStream, Malformed, TasksGet, TasksCancel,
     AgentProgress, SendDropped, StreamDropped
<1>3. \A id \in TaskIds : tasks'[id] = NoTask <=> tasks[id] = NoTask
  <2>1. CASE UNCHANGED tasks
    BY <2>1
  <2>2. CASE SendReturns(r) \/ SelectResult(r) \/ CompleteStream(r)
    BY <2>2, Sentinels DEF SendReturns, SelectResult, CompleteStream, InsertedInv, Inserted,
       Task, TaskStates
  <2>3. CASE TasksCancel(r)
    BY <2>3, Sentinels DEF TasksCancel, Task, TaskStates
  <2> QED
    BY <2>1, <2>2, <2>3 DEF SendReturns, Agent, AgentEnds, AgentReports, Stream, EmitStarting,
       SelectPends, SelectProgress, Malformed, TasksGet, AgentProgress, SendDropped,
       StreamDropped
<1>4. Stored' = Stored
  BY <1>3 DEF Stored
<1> QED
  BY <1>2, <1>4

LEMMA QuietKeepsCount == TableInv /\ CountInv /\ QuietStep => CountInv'
<1> SUFFICES ASSUME CountInv, QuietStep PROVE CountInv'
  OBVIOUS
<1> USE DEF CountInv, QuietStep
<1>1. Cardinality(MidCheck') <= Cardinality(MidCheck) /\ Cardinality(MidCheck') \in Nat
      /\ Cardinality(MidCheck) \in Nat
  BY RequestSetsFinite DEF MidCheck
<1>2. Cardinality(Passed') <= Cardinality(Passed) /\ Cardinality(Passed') \in Nat
      /\ Cardinality(Passed) \in Nat
  BY RequestSetsFinite DEF Passed
<1>3. Cardinality(Stored) \in Nat
  BY FS_CardinalityType
<1>4. ASSUME NEW id \in TaskIds
      PROVE  Cardinality(OwnersOf(id)') <= Threads
  <2>1. Cardinality(OwnersOf(id)') <= Cardinality(OwnersOf(id))
        /\ Cardinality(OwnersOf(id)') \in Nat /\ Cardinality(OwnersOf(id)) \in Nat
    BY RequestSetsFinite DEF OwnersOf
  <2> QED
    BY <2>1, ThreadsPositive DEF CollisionBound
<1> QED
  BY <1>1, <1>2, <1>3, <1>4, ThreadsPositive, MaxTasksPositive DEF CollisionBound

\* Receive takes a thread that was free.
LEMMA ReceiveKeepsCount ==
  ASSUME TableInv, CountInv, NEW r \in Requests, Receive(r)
  PROVE  CountInv'
<1> USE DEF TableInv, TypeOK, Receive
<1>1. MidCheck' = MidCheck \cup {r} /\ MidCheck \in SUBSET Requests
  BY DEF MidCheck
<1>2. Cardinality(MidCheck') <= Cardinality(MidCheck) + 1
  <2>1. IsFiniteSet(MidCheck)
    BY <1>1, RequestSetsFinite
  <2> HIDE DEF TableInv, TypeOK, Receive
  <2> QED
    BY <1>1, <2>1, AddOne
<1>3. Cardinality(MidCheck') \in Nat /\ Cardinality(MidCheck) \in Nat
  BY RequestSetsFinite DEF MidCheck
<1>4. Stored' = Stored
  BY DEF Stored
<1>5. Passed' = Passed
  BY DEF Passed
<1>6. \A id \in TaskIds : OwnersOf(id)' = OwnersOf(id)
  BY Sentinels DEF OwnersOf, Admitted, IdsInv
<1> QED
  BY <1>2, <1>3, <1>4, <1>5, <1>6, ThreadsPositive DEF CountInv, CollisionBound

\* A passed capacity check adds one request to those about to insert, at a moment when
\* the table has room and at most Threads requests, this one among them, are mid-check.
LEMMA CapacityKeepsCount ==
  ASSUME TableInv, CountInv, NEW r \in Requests, CheckCapacity(r)
  PROVE  CountInv'
<1> USE DEF TableInv, TypeOK, CheckCapacity, streamVars
<1>1. MidCheck' \subseteq MidCheck /\ Passed' \subseteq MidCheck'
  BY DEF MidCheck, Passed
<1>2. /\ Cardinality(Passed') <= Cardinality(MidCheck')
      /\ Cardinality(MidCheck') <= Cardinality(MidCheck)
      /\ Cardinality(MidCheck') \in Nat /\ Cardinality(Passed') \in Nat
      /\ Cardinality(MidCheck) \in Nat
  BY <1>1, RequestSetsFinite DEF MidCheck, Passed
<1>3. Stored' = Stored
  BY DEF Stored
<1>4. \A id \in TaskIds : OwnersOf(id)' = OwnersOf(id)
  BY DEF OwnersOf, Admitted
<1>5. Cardinality(Stored) \in Nat
  BY FS_CardinalityType DEF CountInv
<1>6. CASE Cardinality(Stored) >= MaxTasks
  <2>1. Passed' = Passed
    BY <1>6 DEF Passed
  <2> QED
    BY <1>2, <1>3, <1>4, <1>5, <2>1, ThreadsPositive DEF CountInv, CollisionBound
<1>7. CASE ~(Cardinality(Stored) >= MaxTasks)
  <2>1. Cardinality(Stored) + Cardinality(Passed') < MaxTasks + Threads
    BY <1>2, <1>5, <1>7, ThreadsPositive, MaxTasksPositive DEF CountInv
  <2> QED
    BY <1>2, <1>3, <1>4, <2>1, ThreadsPositive DEF CountInv, CollisionBound
<1> QED
  BY <1>6, <1>7

\* When contains_key finds nothing, whoever else was admitted for the identifier has not
\* inserted either, so all of them are mid-check and share the threads.
LEMMA CollisionKeepsCount ==
  ASSUME TableInv, CountInv, NEW r \in Requests, CheckCollision(r)
  PROVE  CountInv'
<1> USE DEF TableInv, TypeOK, CheckCollision, streamVars
<1>1. MidCheck' \subseteq MidCheck /\ Passed' \subseteq Passed
  BY DEF MidCheck, Passed
<1>2. /\ Cardinality(MidCheck') <= Cardinality(MidCheck)
      /\ Cardinality(Passed') <= Cardinality(Passed)
      /\ Cardinality(MidCheck') \in Nat /\ Cardinality(Passed') \in Nat
      /\ Cardinality(MidCheck) \in Nat /\ Cardinality(Passed) \in Nat
  BY <1>1, RequestSetsFinite DEF MidCheck, Passed
<1>3. Stored' = Stored
  BY DEF Stored
<1>4. Cardinality(Stored) \in Nat
  BY FS_CardinalityType DEF CountInv
<1>5. ASSUME NEW id \in TaskIds
      PROVE  Cardinality(OwnersOf(id)') <= Threads
  <2>1. CASE tasks[taskId[r]] # NoTask \/ taskId[r] # id
    <3>1. OwnersOf(id)' \subseteq OwnersOf(id)
      BY <2>1 DEF OwnersOf, Admitted
    <3>2. Cardinality(OwnersOf(id)') <= Cardinality(OwnersOf(id))
          /\ Cardinality(OwnersOf(id)') \in Nat /\ Cardinality(OwnersOf(id)) \in Nat
      BY <3>1, RequestSetsFinite DEF OwnersOf
    <3> QED
      BY <3>2, ThreadsPositive DEF CountInv, CollisionBound
  <2>2. CASE tasks[taskId[r]] = NoTask /\ taskId[r] = id
    <3>1. OwnersOf(id)' \subseteq MidCheck
      BY <2>2 DEF OwnersOf, Admitted, MidCheck, InsertedInv, Inserted
    <3>2. Cardinality(OwnersOf(id)') <= Cardinality(MidCheck)
          /\ Cardinality(OwnersOf(id)') \in Nat
      BY <3>1, RequestSetsFinite DEF MidCheck
    <3> QED
      BY <1>2, <3>2, ThreadsPositive DEF CountInv
  <2> QED
    BY <2>1, <2>2
<1> QED
  BY <1>2, <1>3, <1>4, <1>5, ThreadsPositive, MaxTasksPositive DEF CountInv, CollisionBound

\* An insert trades one request about to insert for at most one more entry.
LEMMA InsertKeepsCount ==
  ASSUME TableInv, CountInv, NEW r \in Requests, InsertWorking(r)
  PROVE  CountInv'
<1> USE DEF TableInv, TypeOK, InsertWorking
<1>0. taskId[r] \in TaskIds
  BY DEF IdsInv
<1>1. MidCheck' \subseteq MidCheck
  BY DEF MidCheck
<1>2. Cardinality(MidCheck') <= Cardinality(MidCheck)
      /\ Cardinality(MidCheck') \in Nat /\ Cardinality(MidCheck) \in Nat
  BY <1>1, RequestSetsFinite DEF MidCheck
<1>3. Passed' = Passed \ {r} /\ r \in Passed
  BY DEF Passed
<1>4. Cardinality(Passed') = Cardinality(Passed) - 1 /\ Cardinality(Passed) \in Nat
  <2>1. IsFiniteSet(Passed) /\ Cardinality(Passed) \in Nat
    BY RequestSetsFinite DEF Passed
  <2> HIDE DEF TableInv, TypeOK, InsertWorking
  <2> QED
    BY <1>3, <2>1, RemoveOne
<1>5. Stored' = Stored \cup {taskId[r]}
  BY <1>0, Sentinels DEF Stored, Task, TaskStates
<1>6. IsFiniteSet(Stored') /\ Cardinality(Stored') <= Cardinality(Stored) + 1
      /\ Cardinality(Stored') \in Nat /\ Cardinality(Stored) \in Nat
  <2>1. IsFiniteSet(Stored)
    BY DEF CountInv
  <2> HIDE DEF TableInv, TypeOK, InsertWorking
  <2>2. IsFiniteSet(Stored') /\ Cardinality(Stored') <= Cardinality(Stored) + 1
    BY <1>5, <2>1, AddOne
  <2> QED
    BY <2>1, <2>2, FS_CardinalityType
<1>7. \A id \in TaskIds : OwnersOf(id)' = OwnersOf(id)
  BY DEF OwnersOf, Admitted
<1> QED
  BY <1>2, <1>4, <1>6, <1>7, ThreadsPositive, MaxTasksPositive DEF CountInv, CollisionBound

LEMMA NextCount == TableInv /\ CountInv /\ [Next]_vars => CountInv'
<1> SUFFICES ASSUME TableInv, CountInv, [Next]_vars PROVE CountInv'
  OBVIOUS
<1>1. CASE UNCHANGED vars
  <2>1. QuietStep
    BY <1>1 DEF vars, QuietStep, MidCheck, Passed, Stored, OwnersOf
  <2> QED
    BY <2>1, QuietKeepsCount
<1>2. ASSUME NEW r \in Requests,
             Handler(r) \/ SendReturns(r) \/ Agent(r) \/ Stream(r) \/ Environment(r)
      PROVE  CountInv'
  <2>1. CASE Handler(r)
    BY <2>1, CapacityKeepsCount, CollisionKeepsCount, InsertKeepsCount DEF Handler
  <2>2. CASE Receive(r)
    BY <2>2, ReceiveKeepsCount
  <2>3. CASE ~Handler(r) /\ ~Receive(r)
    <3>1. QuietStep
      BY <1>2, <2>3, MostStepsQuiet DEF Environment
    <3> QED
      BY <3>1, QuietKeepsCount
  <2> QED
    BY <2>1, <2>2, <2>3
<1> QED
  BY <1>1, <1>2 DEF Next

LEMMA CountInvariant == Spec => []CountInv
<1>1. Init => CountInv
  BY InitCount
<1>2. TableInv /\ CountInv /\ [Next]_vars => CountInv'
  BY NextCount
<1> QED
  BY <1>1, <1>2, TableInvariant, PTL DEF Spec

\* The table exceeds MAX_TASKS by less than the number of threads.
THEOREM CapacityOvershootBounded == Spec => []CapacityOvershoot
<1>1. CountInv => CapacityOvershoot
  <2> SUFFICES ASSUME CountInv PROVE CapacityOvershoot
    OBVIOUS
  <2>1. Cardinality(Passed) \in Nat
    BY RequestSetsFinite DEF Passed
  <2>2. Cardinality(Stored) \in Nat
    BY FS_CardinalityType DEF CountInv
  <2> QED
    BY <2>1, <2>2, ThreadsPositive, MaxTasksPositive DEF CountInv, CapacityOvershoot
<1> QED
  BY <1>1, CountInvariant, PTL

\* However often an identifier is sent, at most Threads requests are admitted for it.
THEOREM CollisionsBounded == Spec => []CollisionBound
<1>1. CountInv => CollisionBound
  BY DEF CountInv
<1> QED
  BY <1>1, CountInvariant, PTL

-----------------------------------------------------------------------------
(* With server-generated identifiers only, A2AServer implements TaskBoard. *)

\* No two requests work on one identifier.
UniqueInv == \A q, r \in Requests : taskId[q] = taskId[r] /\ taskId[q] # Nothing => q = r

LEMMA UniqueInvariant == ASSUME SuppliedIds = {} PROVE Spec => []UniqueInv
<1>1. Init => UniqueInv
  BY DEF Init, UniqueInv
<1>2. TypeOK /\ UniqueInv /\ [Next]_vars => UniqueInv'
  <2> SUFFICES ASSUME TypeOK, UniqueInv, [Next]_vars PROVE UniqueInv'
    OBVIOUS
  <2>1. CASE UNCHANGED taskId
    BY <2>1 DEF UniqueInv
  <2>2. ASSUME NEW r \in Requests, Receive(r) PROVE UniqueInv'
    BY <2>2, SuppliedIds = {} DEF UniqueInv, TypeOK, Receive, FreshId
  <2> QED
    BY <2>1, <2>2 DEF Next, vars, streamVars, Handler, CheckCapacity, CheckCollision,
       InsertWorking, SendReturns, Agent, AgentEnds, AgentReports, Stream, EmitStarting,
       SelectPends, SelectProgress, SelectResult, CompleteStream, Environment, Malformed,
       TasksGet, TasksCancel, AgentProgress, SendDropped, StreamDropped
<1> QED
  BY <1>1, <1>2, TypeCorrect, PTL DEF Spec

\* The entry of a request in flight is its own, and its request is the only one there.
LEMMA InFlightEntry ==
  ASSUME TableInv, UniqueInv, NEW r \in Requests, pc[r] \in InFlight
  PROVE  /\ taskId[r] \in OpenIds
         /\ tasks[taskId[r]] \in Task /\ tasks[taskId[r]].message = r
<1>1. taskId[r] \in TaskIds /\ tasks[taskId[r]] # NoTask
  BY DEF TableInv, IdsInv, InsertedInv, Inserted
<1>2. taskId[r] # Nothing
  BY <1>1, Sentinels
<1>3. tasks[taskId[r]] \in Task /\ taskId[tasks[taskId[r]].message] = taskId[r]
  BY <1>1 DEF TableInv, TypeOK, OwnerInv
<1>4. tasks[taskId[r]].message \in Requests
  BY <1>3 DEF Task
<1> QED
  BY <1>1, <1>2, <1>3, <1>4 DEF UniqueInv, OpenIds

\* A request that ends closes its identifier: no other request keeps it open.
LEMMA EndingCloses ==
  ASSUME TableInv, UniqueInv, NEW r \in Requests, pc[r] \in InFlight,
         pc' = [pc EXCEPT ![r] = "done"] \/ pc' = [pc EXCEPT ![r] = "dropped"],
         taskId' = taskId
  PROVE  OpenIds' = OpenIds \ {taskId[r]}
<1>1. taskId[r] \in TaskIds /\ taskId[r] # Nothing
  BY Sentinels DEF TableInv, IdsInv, Inserted
<1> QED
  BY <1>1 DEF TableInv, TypeOK, UniqueInv, OpenIds

LEMMA StepImplements ==
  TableInv /\ UniqueInv /\ [Next]_vars => [Board!Next]_(Board!vars)
<1> SUFFICES ASSUME TableInv, UniqueInv, [Next]_vars
             PROVE  Board!Next \/ UNCHANGED Board!vars
  OBVIOUS
<1> USE DEF Board!vars
<1>1. CASE UNCHANGED <<tasks, pc, taskId>>
  BY <1>1 DEF OpenIds
<1>2. ASSUME NEW r \in Requests, UNCHANGED <<tasks, taskId>>,
             \E label \in Prefix \cup {"closed"} : pc' = [pc EXCEPT ![r] = label],
             pc[r] \notin InFlight
      PROVE  UNCHANGED Board!vars
  BY <1>2 DEF OpenIds, TableInv, TypeOK
<1>3. ASSUME NEW r \in Requests, InsertWorking(r) PROVE Board!Next
  <2>1. taskId[r] \in TaskIds /\ taskId[r] # Nothing
    BY <1>3, Sentinels DEF InsertWorking, TableInv, IdsInv
  <2>2. tasks[taskId[r]] = NoTask
    <3> SUFFICES ASSUME tasks[taskId[r]] # NoTask PROVE FALSE
      OBVIOUS
    <3>1. /\ tasks[taskId[r]].message \in Requests
          /\ taskId[tasks[taskId[r]].message] = taskId[r]
          /\ pc[tasks[taskId[r]].message] \in Inserted
      BY <2>1 DEF TableInv, TypeOK, OwnerInv, Task
    <3>2. tasks[taskId[r]].message = r
      BY <2>1, <3>1 DEF UniqueInv
    <3> QED
      BY <1>3, <3>1, <3>2 DEF InsertWorking, Inserted
  <2>3. OpenIds' = OpenIds \cup {taskId[r]}
    BY <1>3, <2>1 DEF InsertWorking, OpenIds, TableInv, TypeOK
  <2>4. Board!Open(taskId[r], r)
    BY <1>3, <2>2, <2>3 DEF InsertWorking, Board!Open, Board!Entry
  <2> QED
    BY <2>1, <2>4 DEF Board!Next
<1>4. ASSUME NEW r \in Requests, pc[r] \in InFlight, taskId' = taskId,
             pc' = [pc EXCEPT ![r] = "done"],
             Store(taskId[r], "completed", r, r) \/ Store(taskId[r], "failed", r, Nothing)
      PROVE  Board!Next
  <2>1. taskId[r] \in OpenIds /\ tasks[taskId[r]].message = r
    BY <1>4, InFlightEntry
  <2>2. OpenIds' = OpenIds \ {taskId[r]}
    BY <1>4, EndingCloses
  <2>3. Board!Settle(taskId[r])
    BY <1>4, <2>1, <2>2 DEF Board!Settle, Board!Entry
  <2>4. taskId[r] \in TaskIds
    BY <2>1 DEF OpenIds
  <2> QED
    BY <2>3, <2>4 DEF Board!Next
<1>5. ASSUME NEW r \in Requests, SendDropped(r) \/ StreamDropped(r) PROVE Board!Next
  <2>1. pc[r] \in InFlight /\ pc' = [pc EXCEPT ![r] = "dropped"] /\ taskId' = taskId
        /\ tasks' = tasks
    BY <1>5 DEF SendDropped, StreamDropped
  <2>2. taskId[r] \in OpenIds
    BY <2>1, InFlightEntry
  <2>3. OpenIds' = OpenIds \ {taskId[r]}
    BY <2>1, EndingCloses
  <2>4. Board!Abandon(taskId[r])
    BY <2>1, <2>2, <2>3 DEF Board!Abandon
  <2>5. taskId[r] \in TaskIds
    BY <2>2 DEF OpenIds
  <2> QED
    BY <2>4, <2>5 DEF Board!Next
<1>6. ASSUME NEW r \in Requests, TasksCancel(r) PROVE Board!Next \/ UNCHANGED Board!vars
  <2>1. OpenIds' = OpenIds
    BY <1>6 DEF TasksCancel, streamVars, OpenIds, TableInv, TypeOK
  <2>2. UNCHANGED tasks \/ \E id \in TaskIds :
          tasks[id] # NoTask /\ tasks' = [tasks EXCEPT ![id].state = "canceled"]
    BY <1>6 DEF TasksCancel
  <2> QED
    BY <2>1, <2>2 DEF Board!Next, Board!Cancel
<1>7. ASSUME NEW r \in Requests, EmitStarting(r) \/ (SelectResult(r) /\ outcome[r] = "ok")
      PROVE  UNCHANGED Board!vars
  <2>1. tasks' = tasks /\ taskId' = taskId /\ pc[r] \in InFlight
        /\ \E label \in InFlight : pc' = [pc EXCEPT ![r] = label]
    BY <1>7 DEF EmitStarting, SelectResult
  <2> QED
    BY <2>1 DEF OpenIds, TableInv, TypeOK
<1>8. ASSUME NEW r \in Requests, Receive(r) PROVE UNCHANGED Board!vars
  <2>1. /\ pc[r] = "idle" /\ pc'[r] = "capacity" /\ tasks' = tasks
        /\ \A q \in Requests \ {r} : taskId'[q] = taskId[q] /\ pc'[q] = pc[q]
    BY <1>8 DEF Receive, TableInv, TypeOK
  <2>2. \A q \in Requests, id \in TaskIds :
          (taskId'[q] = id /\ pc'[q] \in InFlight) <=> (taskId[q] = id /\ pc[q] \in InFlight)
    BY <2>1
  <2>3. OpenIds' = OpenIds
    BY <2>2 DEF OpenIds
  <2> QED
    BY <2>1, <2>3
<1>9. ASSUME NEW r \in Requests, Handler(r) PROVE Board!Next \/ UNCHANGED Board!vars
  BY <1>2, <1>3, <1>9 DEF Handler, CheckCapacity, CheckCollision, streamVars
<1>10. ASSUME NEW r \in Requests, SendReturns(r) PROVE Board!Next
  BY <1>4, <1>10 DEF SendReturns
<1>11. ASSUME NEW r \in Requests, Agent(r) \/ AgentProgress(r) \/ SelectPends(r) \/ SelectProgress(r)
       PROVE UNCHANGED Board!vars
  BY <1>1, <1>11 DEF Agent, AgentEnds, AgentReports, AgentProgress, SelectPends,
     SelectProgress, OpenIds
<1>12. ASSUME NEW r \in Requests, Stream(r) PROVE Board!Next \/ UNCHANGED Board!vars
  <2>1. CASE SelectResult(r) /\ outcome[r] # "ok"
    BY <1>4, <2>1 DEF SelectResult
  <2>2. CASE CompleteStream(r)
    BY <1>4, <2>2 DEF CompleteStream
  <2> QED
    BY <1>7, <1>11, <1>12, <2>1, <2>2 DEF Stream
<1>13. ASSUME NEW r \in Requests, Malformed(r) \/ TasksGet(r) PROVE UNCHANGED Board!vars
  BY <1>2, <1>13 DEF Malformed, TasksGet, streamVars
<1> QED
  BY <1>1, <1>5, <1>6, <1>8, <1>9, <1>10, <1>11, <1>12, <1>13 DEF Next, Environment, vars

\* Requests that all work on identifiers of the server's own see a table in which every
\* task is opened once, settled at most once and otherwise only canceled.
THEOREM ImplementsTaskBoard == ASSUME SuppliedIds = {} PROVE Spec => RefinesTaskBoard
<1>1. Init => Board!Init
  BY DEF Init, Board!Init, OpenIds
<1>2. TableInv /\ UniqueInv /\ [Next]_vars => [Board!Next]_(Board!vars)
  BY StepImplements
<1> QED
  BY <1>1, <1>2, TableInvariant, UniqueInvariant, PTL DEF Spec, RefinesTaskBoard, Board!Spec
=============================================================================
