------------------------------ MODULE A2AServer ------------------------------
(***************************************************************************)
(* The A2A JSON-RPC server that wraps every agent process                  *)
(* (crates/a2a/src/server.rs).  One server holds one table of tasks, a     *)
(* DashMap shared by all handlers, and one agent.                          *)
(*                                                                         *)
(* A request is one JSON-RPC call.  message/send and message/stream first  *)
(* run a prefix without an await (capacity check, collision check, insert  *)
(* of the Working task); the runtime has Threads worker threads, so at     *)
(* most Threads such prefixes interleave.  message/send then awaits the    *)
(* agent inside the handler.  message/stream spawns the agent and answers  *)
(* with an SSE stream that selects between a broadcast channel of progress *)
(* events and a oneshot channel with the result.                           *)
(***************************************************************************)
EXTENDS Naturals, FiniteSets

CONSTANTS
  Requests,          \* the JSON-RPC calls the server ever receives
  TaskIds,           \* task identifiers
  SuppliedIds,       \* identifiers a client may choose itself (params.task_id)
  Threads,           \* worker threads of the tokio runtime
  MaxTasks,          \* MAX_TASKS
  ProgressCapacity,  \* capacity of the broadcast channel of progress events
  MaxEvents,         \* bound: progress events an agent sends during one task
  NoTask,            \* an identifier the table does not hold
  Nothing            \* no artifact; no identifier

TaskStates == {"working", "completed", "failed", "canceled"}

\* A stored task: the request whose message it stores, the request whose result
\* is its artifact.
Task == [state : TaskStates, message : Requests, artifact : Requests \cup {Nothing}]

ASSUME RequestsFinite == IsFiniteSet(Requests)
ASSUME SuppliedAreIds == SuppliedIds \subseteq TaskIds
ASSUME ThreadsPositive == Threads \in Nat \ {0}
ASSUME MaxTasksPositive == MaxTasks \in Nat \ {0}
ASSUME ChannelBounds == ProgressCapacity \in Nat \ {0} /\ MaxEvents \in Nat
ASSUME Sentinels == NoTask \notin Task /\ Nothing \notin Requests \cup TaskIds

VARIABLES
  tasks,      \* ServerState.tasks
  pc,         \* where the handler (or the SSE stream) of a request is
  kind,       \* the method the request called
  taskId,     \* the task a message request works on
  agent,      \* the agent's run for the request
  outcome,    \* "ok", or "failed": it returned an error or panicked
  sent,       \* progress events the run has sent
  backlog,    \* progress events in the channel the stream has not received
  lagged,     \* the channel overwrote an event the stream had not received
  closed,     \* the stream's progress_closed
  rx,         \* the oneshot receiver of the result
  told        \* the last reply or SSE event the client got

vars == <<tasks, pc, kind, taskId, agent, outcome, sent, backlog, lagged, closed, rx, told>>
streamVars == <<agent, outcome, sent, backlog, lagged, closed, rx>>

\* Steps of a message handler that run without an await.
Prefix == {"capacity", "collision", "insert"}
\* A request whose handler passed both checks is at one of these.
Admitted == {"insert", "agent", "starting", "streaming", "artifact", "done", "dropped"}
InFlight == {"agent", "starting", "streaming", "artifact"}

Stored == {id \in TaskIds : tasks[id] # NoTask}
MidCheck == {r \in Requests : pc[r] \in Prefix}
OwnersOf(id) == {r \in Requests : taskId[r] = id /\ pc[r] \in Admitted}

Init ==
  /\ tasks = [id \in TaskIds |-> NoTask]
  /\ pc = [r \in Requests |-> "idle"]
  /\ kind = [r \in Requests |-> "none"]
  /\ taskId = [r \in Requests |-> Nothing]
  /\ agent = [r \in Requests |-> "none"]
  /\ outcome = [r \in Requests |-> "none"]
  /\ sent = [r \in Requests |-> 0]
  /\ backlog = [r \in Requests |-> 0]
  /\ lagged = [r \in Requests |-> FALSE]
  /\ closed = [r \in Requests |-> FALSE]
  /\ rx = [r \in Requests |-> "none"]
  /\ told = [r \in Requests |-> "nothing"]

Goto(r, label) == pc' = [pc EXCEPT ![r] = label]
Tell(r, what) == told' = [told EXCEPT ![r] = what]
Store(id, state, r, artifact) ==
  tasks' = [tasks EXCEPT ![id] = [state |-> state, message |-> r, artifact |-> artifact]]

-----------------------------------------------------------------------------
(* The dispatcher and the await-free prefix of the two message methods.    *)

\* Wrong JSON-RPC version, unknown method or parameters that do not parse.
Malformed(r) ==
  /\ pc[r] = "idle"
  /\ Goto(r, "closed")
  /\ Tell(r, "invalid")
  /\ UNCHANGED <<tasks, kind, taskId, streamVars>>

\* An identifier the server generates (a UUID) is used by no other request.
FreshId(id) == id \notin SuppliedIds /\ \A q \in Requests : taskId[q] # id

Receive(r) ==
  /\ pc[r] = "idle"
  /\ Cardinality(MidCheck) < Threads
  /\ \E k \in {"send", "stream"} : kind' = [kind EXCEPT ![r] = k]
  /\ \E id \in TaskIds :
       /\ id \in SuppliedIds \/ FreshId(id)
       /\ taskId' = [taskId EXCEPT ![r] = id]
  /\ Goto(r, "capacity")
  /\ UNCHANGED <<tasks, told, streamVars>>

\* Deviation: the limit is compared with > (breaks CapacityOvershoot).
CheckCapacityOffByOne(r) ==
  /\ pc[r] = "capacity"
  /\ IF Cardinality(Stored) > MaxTasks
     THEN Goto(r, "closed") /\ Tell(r, "overloaded")
     ELSE Goto(r, "collision") /\ UNCHANGED told
  /\ UNCHANGED <<tasks, kind, taskId, streamVars>>

CheckCapacity(r) ==
  /\ pc[r] = "capacity"
  /\ IF Cardinality(Stored) >= MaxTasks
     THEN Goto(r, "closed") /\ Tell(r, "overloaded")
     ELSE Goto(r, "collision") /\ UNCHANGED told
  /\ UNCHANGED <<tasks, kind, taskId, streamVars>>

CheckCollision(r) ==
  /\ pc[r] = "collision"
  /\ IF tasks[taskId[r]] # NoTask
     THEN Goto(r, "closed") /\ Tell(r, "exists")
     ELSE Goto(r, "insert") /\ UNCHANGED told
  /\ UNCHANGED <<tasks, kind, taskId, streamVars>>

InsertWorking(r) ==
  /\ pc[r] = "insert"
  /\ Store(taskId[r], "working", r, Nothing)
  /\ agent' = [agent EXCEPT ![r] = "running"]
  /\ IF kind[r] = "send"
     THEN Goto(r, "agent") /\ UNCHANGED rx
     ELSE Goto(r, "starting") /\ rx' = [rx EXCEPT ![r] = "held"]
  /\ UNCHANGED <<kind, taskId, outcome, sent, backlog, lagged, closed, told>>

-----------------------------------------------------------------------------
(* message/send: the agent runs inside the handler.                        *)

\* Deviation: the stored task is updated in place (breaks ArtifactIsOwn).
SendReturnsInPlace(r) ==
  /\ pc[r] = "agent"
  /\ Goto(r, "done")
  /\ agent' = [agent EXCEPT ![r] = "ended"]
  /\ \/ /\ tasks' = [tasks EXCEPT ![taskId[r]].state = "completed", ![taskId[r]].artifact = r]
        /\ Tell(r, "completed")
     \/ Store(taskId[r], "failed", r, Nothing) /\ Tell(r, "failed")
  /\ UNCHANGED <<kind, taskId, outcome, sent, backlog, lagged, closed, rx>>

\* Deviation: an error is answered without being stored (breaks ToldIsStored).
SendReturnsUnstored(r) ==
  /\ pc[r] = "agent"
  /\ Goto(r, "done")
  /\ agent' = [agent EXCEPT ![r] = "ended"]
  /\ \/ Store(taskId[r], "completed", r, r) /\ Tell(r, "completed")
     \/ UNCHANGED tasks /\ Tell(r, "failed")
  /\ UNCHANGED <<kind, taskId, outcome, sent, backlog, lagged, closed, rx>>

\* Deviation: a handler answers only when no other agent run is going on
\* (breaks AnsweredUnlessLost).
SendReturnsAlone(r) ==
  /\ pc[r] = "agent"
  /\ \A q \in Requests \ {r} : agent[q] # "running"
  /\ Goto(r, "done")
  /\ agent' = [agent EXCEPT ![r] = "ended"]
  /\ \/ Store(taskId[r], "completed", r, r) /\ Tell(r, "completed")
     \/ Store(taskId[r], "failed", r, Nothing) /\ Tell(r, "failed")
  /\ UNCHANGED <<kind, taskId, outcome, sent, backlog, lagged, closed, rx>>

SendReturns(r) ==
  /\ pc[r] = "agent"
  /\ Goto(r, "done")
  /\ agent' = [agent EXCEPT ![r] = "ended"]
  /\ \/ Store(taskId[r], "completed", r, r) /\ Tell(r, "completed")
     \/ Store(taskId[r], "failed", r, Nothing) /\ Tell(r, "failed")
  /\ UNCHANGED <<kind, taskId, outcome, sent, backlog, lagged, closed, rx>>

\* The agent panics (the connection's task unwinds) or the client goes away
\* (hyper drops the handler, and the agent's future with it): nothing is stored.
SendDropped(r) ==
  /\ pc[r] = "agent"
  /\ Goto(r, "dropped")
  /\ agent' = [agent EXCEPT ![r] = "ended"]
  /\ UNCHANGED <<tasks, kind, taskId, outcome, sent, backlog, lagged, closed, rx, told>>

-----------------------------------------------------------------------------
(* message/stream: the spawned agent, and the SSE stream.                  *)

\* Deviation: the channel is unbounded (breaks TypeOK).
AgentProgressUnbounded(r) ==
  /\ kind[r] = "stream" /\ agent[r] = "running" /\ sent[r] < MaxEvents
  /\ sent' = [sent EXCEPT ![r] = @ + 1]
  /\ backlog' = [backlog EXCEPT ![r] = @ + 1]
  /\ UNCHANGED <<tasks, pc, kind, taskId, agent, outcome, lagged, closed, rx, told>>

\* The broadcast channel keeps the newest ProgressCapacity events; a receiver that
\* missed one is told so at its next recv.
AgentProgress(r) ==
  /\ kind[r] = "stream" /\ agent[r] = "running" /\ sent[r] < MaxEvents
  /\ sent' = [sent EXCEPT ![r] = @ + 1]
  /\ IF backlog[r] < ProgressCapacity
     THEN backlog' = [backlog EXCEPT ![r] = @ + 1] /\ UNCHANGED lagged
     ELSE lagged' = [lagged EXCEPT ![r] = TRUE] /\ UNCHANGED backlog
  /\ UNCHANGED <<tasks, pc, kind, taskId, agent, outcome, closed, rx, told>>

\* handle() ends, by returning or by a panic, and drops the progress sender ...
AgentEnds(r) ==
  /\ kind[r] = "stream" /\ agent[r] = "running"
  /\ agent' = [agent EXCEPT ![r] = "ending"]
  /\ \E o \in {"ok", "failed"} : outcome' = [outcome EXCEPT ![r] = o]
  /\ UNCHANGED <<tasks, pc, kind, taskId, sent, backlog, lagged, closed, rx, told>>

\* ... and only then is the result sent (after a panic: its sender dropped).
AgentReports(r) ==
  /\ agent[r] = "ending"
  /\ agent' = [agent EXCEPT ![r] = "ended"]
  /\ UNCHANGED <<tasks, pc, kind, taskId, outcome, sent, backlog, lagged, closed, rx, told>>

EmitStarting(r) ==
  /\ pc[r] = "starting"
  /\ Goto(r, "streaming")
  /\ Tell(r, "working")
  /\ UNCHANGED <<tasks, kind, taskId, streamVars>>

SenderGone(r) == agent[r] \in {"ending", "ended"}
\* Deviation: the branch is not switched off by progress_closed (breaks HeldReceiverEnds).
ProgressReadyAlways(r) == lagged[r] \/ backlog[r] > 0 \/ SenderGone(r)

ProgressReady(r) == ~closed[r] /\ (lagged[r] \/ backlog[r] > 0 \/ SenderGone(r))
ResultReady(r) == agent[r] = "ended"

\* Neither branch of the select is ready.  The result branch has run as far as
\* result_rx.take(): its future owns the receiver from now on.
SelectPends(r) ==
  /\ pc[r] = "streaming"
  /\ rx[r] = "held" /\ ~ProgressReady(r) /\ ~ResultReady(r)
  /\ rx' = [rx EXCEPT ![r] = "taken"]
  /\ UNCHANGED <<tasks, pc, kind, taskId, agent, outcome, sent, backlog, lagged, closed, told>>

\* The progress branch wins and the future of the other branch is dropped.  If that
\* future owned the receiver, the receiver goes with it; a select that polls its
\* branches in random order may also have just moved a receiver with no result yet.
ReceiverAfterProgress(r) ==
  IF rx[r] = "held"
  THEN {"held"} \cup (IF ResultReady(r) THEN {} ELSE {"lost"})
  ELSE {"lost"}

\* Deviation: a progress event stores the task as working (breaks NoReopening).
SelectProgressStores(r) ==
  /\ pc[r] = "streaming"
  /\ ProgressReady(r) /\ ~lagged[r] /\ backlog[r] > 0
  /\ \E after \in ReceiverAfterProgress(r) : rx' = [rx EXCEPT ![r] = after]
  /\ backlog' = [backlog EXCEPT ![r] = @ - 1]
  /\ Store(taskId[r], "working", r, Nothing)
  /\ Tell(r, "progress")
  /\ UNCHANGED <<pc, kind, taskId, agent, outcome, sent, lagged, closed>>

SelectProgress(r) ==
  /\ pc[r] = "streaming"
  /\ ProgressReady(r)
  /\ \E after \in ReceiverAfterProgress(r) : rx' = [rx EXCEPT ![r] = after]
  /\ \/ /\ lagged[r]                       \* RecvError::Lagged: a warning in the log
        /\ lagged' = [lagged EXCEPT ![r] = FALSE]
        /\ UNCHANGED <<backlog, closed, told>>
     \/ /\ ~lagged[r] /\ backlog[r] > 0    \* an event: forwarded to the client
        /\ backlog' = [backlog EXCEPT ![r] = @ - 1]
        /\ Tell(r, "progress")
        /\ UNCHANGED <<lagged, closed>>
     \/ /\ ~lagged[r] /\ backlog[r] = 0    \* RecvError::Closed
        /\ closed' = [closed EXCEPT ![r] = TRUE]
        /\ UNCHANGED <<backlog, lagged, told>>
  /\ UNCHANGED <<tasks, pc, kind, taskId, agent, outcome, sent>>

\* Deviation: the failure is announced and not stored (breaks WorkingIsOwned).
SelectResultUnstored(r) ==
  /\ pc[r] = "streaming"
  /\ ResultReady(r) /\ rx[r] \in {"held", "taken"}
  /\ rx' = [rx EXCEPT ![r] = "none"]
  /\ IF outcome[r] = "ok"
     THEN Goto(r, "artifact") /\ Tell(r, "artifact")
     ELSE Goto(r, "done") /\ Tell(r, "failed")
  /\ UNCHANGED <<tasks, kind, taskId, agent, outcome, sent, backlog, lagged, closed>>

\* Deviation: the completed task is stored with the artifact event and again with the
\* status event (breaks RefinesTaskBoard).
SelectResultStoresTwice(r) ==
  /\ pc[r] = "streaming"
  /\ ResultReady(r) /\ rx[r] \in {"held", "taken"}
  /\ rx' = [rx EXCEPT ![r] = "none"]
  /\ IF outcome[r] = "ok"
     THEN Goto(r, "artifact") /\ Tell(r, "artifact") /\ Store(taskId[r], "completed", r, r)
     ELSE Goto(r, "done") /\ Tell(r, "failed") /\ Store(taskId[r], "failed", r, Nothing)
  /\ UNCHANGED <<kind, taskId, agent, outcome, sent, backlog, lagged, closed>>

\* The result branch wins: an artifact event, or the stored and announced failure
\* (an error of the agent, or a closed channel after its panic).
SelectResult(r) ==
  /\ pc[r] = "streaming"
  /\ ResultReady(r) /\ rx[r] \in {"held", "taken"}
  /\ rx' = [rx EXCEPT ![r] = "none"]
  /\ IF outcome[r] = "ok"
     THEN Goto(r, "artifact") /\ Tell(r, "artifact") /\ UNCHANGED tasks
     ELSE Goto(r, "done") /\ Tell(r, "failed") /\ Store(taskId[r], "failed", r, Nothing)
  /\ UNCHANGED <<kind, taskId, agent, outcome, sent, backlog, lagged, closed>>

\* The next poll of the stream after the artifact event.
CompleteStream(r) ==
  /\ pc[r] = "artifact"
  /\ Store(taskId[r], "completed", r, r)
  /\ Tell(r, "completed")
  /\ Goto(r, "done")
  /\ UNCHANGED <<kind, taskId, streamVars>>

\* The client goes away at a yield or while the select waits: the stream is dropped,
\* the spawned agent runs on.
StreamDropped(r) ==
  /\ pc[r] \in {"starting", "streaming", "artifact"}
  /\ Goto(r, "dropped")
  /\ rx' = [rx EXCEPT ![r] = "none"]
  /\ UNCHANGED <<tasks, kind, taskId, agent, outcome, sent, backlog, lagged, closed, told>>

-----------------------------------------------------------------------------
(* tasks/get and tasks/cancel.                                             *)

TasksGet(r) ==
  /\ pc[r] = "idle"
  /\ \E id \in TaskIds : Tell(r, IF tasks[id] = NoTask THEN "notFound" ELSE tasks[id].state)
  /\ Goto(r, "closed")
  /\ UNCHANGED <<tasks, kind, taskId, streamVars>>

\* Neither the task's state is looked at nor the agent stopped.
TasksCancel(r) ==
  /\ pc[r] = "idle"
  /\ \E id \in TaskIds :
       \/ tasks[id] = NoTask /\ Tell(r, "notFound") /\ UNCHANGED tasks
       \/ /\ tasks[id] # NoTask
          /\ tasks' = [tasks EXCEPT ![id].state = "canceled"]
          /\ Tell(r, "canceled")
  /\ Goto(r, "closed")
  /\ UNCHANGED <<kind, taskId, streamVars>>

-----------------------------------------------------------------------------
Handler(r) == CheckCapacity(r) \/ CheckCollision(r) \/ InsertWorking(r)
Agent(r) == AgentEnds(r) \/ AgentReports(r)
Stream(r) ==
  EmitStarting(r) \/ SelectPends(r) \/ SelectProgress(r) \/ SelectResult(r) \/ CompleteStream(r)
Environment(r) ==
  \/ Malformed(r) \/ Receive(r) \/ TasksGet(r) \/ TasksCancel(r)
  \/ AgentProgress(r) \/ SendDropped(r) \/ StreamDropped(r)

Next == \E r \in Requests :
  \/ Handler(r) \/ SendReturns(r) \/ Agent(r) \/ Stream(r) \/ Environment(r)

Spec == Init /\ [][Next]_vars

\* The runtime polls what is ready, the client keeps reading its stream unless it goes
\* away, and the agent returns.  No request, cancellation, progress or disconnect is owed.
Fairness == \A r \in Requests :
  WF_vars(Handler(r)) /\ WF_vars(SendReturns(r)) /\ WF_vars(Agent(r)) /\ WF_vars(Stream(r))

FairSpec == Spec /\ Fairness

-----------------------------------------------------------------------------
(* Properties.                                                             *)

\* Every variable holds values of its type; the channel of progress events holds at
\* most ProgressCapacity of them (broadcast::channel(64)).
TypeOK ==
  /\ tasks \in [TaskIds -> Task \cup {NoTask}]
  /\ pc \in [Requests -> Prefix \cup InFlight \cup {"idle", "closed", "done", "dropped"}]
  /\ kind \in [Requests -> {"none", "send", "stream"}]
  /\ taskId \in [Requests -> TaskIds \cup {Nothing}]
  /\ agent \in [Requests -> {"none", "running", "ending", "ended"}]
  /\ outcome \in [Requests -> {"none", "ok", "failed"}]
  /\ sent \in [Requests -> 0..MaxEvents]
  /\ backlog \in [Requests -> 0..ProgressCapacity]
  /\ lagged \in [Requests -> BOOLEAN] /\ closed \in [Requests -> BOOLEAN]
  /\ rx \in [Requests -> {"none", "held", "taken", "lost"}]
  /\ told \in [Requests -> TaskStates \cup
       {"nothing", "invalid", "overloaded", "exists", "notFound", "progress", "artifact"}]

\* The capacity check and the insert are separate steps of a handler, so the table can
\* outgrow MAX_TASKS; but only handlers between the two can push it over, and a runtime
\* with Threads threads runs at most Threads of them.
CapacityOvershoot == Cardinality(Stored) < MaxTasks + Threads

\* contains_key and insert are separate steps too: several requests can be admitted for
\* one identifier, but never more than there are threads, however often it is sent.
CollisionBound == \A id \in TaskIds : Cardinality(OwnersOf(id)) <= Threads

\* A stored task that reads "working" belongs to a request that is still in flight, or
\* whose handler or stream was dropped: no reply or SSE end leaves one behind.
WorkingIsOwned == \A id \in Stored :
  tasks[id].state = "working" => pc[tasks[id].message] \in InFlight \cup {"dropped"}

\* Who was told that a task ended finds it ended in the table, unless a request with
\* the same identifier replaced the entry: the reply never runs ahead of the table.
ToldIsStored == \A r \in Requests :
  LET task == tasks[taskId[r]]
  IN  taskId[r] # Nothing /\ told[r] \in {"completed", "failed"} /\ task.message = r
        => task.state # "working"

\* Two requests that collide on an identifier overwrite each other's entry but never
\* mix: a completed task holds the result of the very message it stores.
ArtifactIsOwn == \A id \in Stored :
  /\ tasks[id].state = "completed" => tasks[id].artifact = tasks[id].message
  /\ tasks[id].artifact \in {tasks[id].message, Nothing}

\* A task that ended reads "working" again only if a second request was admitted for
\* its identifier by the race between contains_key and insert.
ReopeningNeedsRace == \A id \in TaskIds :
  /\ tasks[id] # NoTask /\ tasks[id].state # "working"
  /\ tasks'[id].state = "working"
  => \E r \in OwnersOf(id) : r # tasks[id].message /\ pc[r] = "insert"
NoReopening == [][ReopeningNeedsRace]_vars

\* When identifiers are never reused, the table implements TaskBoard.
OpenIds == {id \in TaskIds : \E r \in Requests : taskId[r] = id /\ pc[r] \in InFlight}
Board == INSTANCE TaskBoard WITH board <- tasks, open <- OpenIds
RefinesTaskBoard == Board!Spec

\* A message request that was received is answered to its end, or its client has gone
\* away or its agent panicked; the one other thing that can keep it from its answer is
\* the loss of the result receiver.
AnsweredUnlessLost == \A r \in Requests :
  pc[r] \in Prefix ~> pc[r] \in {"closed", "done", "dropped"} \/ rx[r] = "lost"

\* A stream that still has its result receiver once the progress channel is closed
\* ends: no later select can take the receiver away from it.
HeldReceiverEnds == \A r \in Requests :
  (pc[r] = "streaming" /\ closed[r] /\ rx[r] # "lost") ~> pc[r] \in {"done", "dropped"}

\* "Keep waiting for the final result so we can emit terminal status" (server.rs:387):
\* a stream reaches its terminal status unless its client goes away.
StreamEnds == \A r \in Requests : pc[r] = "streaming" ~> pc[r] \in {"done", "dropped"}
=============================================================================
