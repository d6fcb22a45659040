----------------------------- MODULE CodingAgent -----------------------------
(***************************************************************************)
(* The coding agent (crates/agents/src/coding.rs) and its client of the    *)
(* PTY MCP server (pty_client.rs).  ClaudeCodeTool (pty_tools/claude.rs)   *)
(* runs the same loop inside process_task.                                 *)
(*                                                                         *)
(* A task claims the agent, connects to the server, spawns a session of    *)
(* its own and polls it until the command has ended or the time is up.     *)
(* The server is modelled by the effect of each tool call; PtySessions has *)
(* its handlers step by step.  A session is named by its task.             *)
(*                                                                         *)
(* awaiting_confirmation is the session status 2, which nothing stores:    *)
(* the branch of run_session that answers prompts is never taken and has   *)
(* no action here.                                                         *)
(***************************************************************************)
EXTENDS Naturals, Sequences, FiniteSets

CONSTANTS
  Tasks,        \* the tasks the agent is ever given
  MaxSessions,  \* max_sessions of the server
  MaxOutput,    \* bound: chunks of output the command of each task writes
  Faults        \* bound: the rare events that happen

\* The server process dies; a reader thread fails; a command asks for a confirmation; the
\* future of process_task is dropped.
AllFaults == {"crash", "read", "prompt", "drop"}

ASSUME TasksFinite == IsFiniteSet(Tasks)
ASSUME MaxSessionsPositive == MaxSessions \in Nat \ {0}
ASSUME MaxOutputNat == MaxOutput \in [Tasks -> Nat]
ASSUME FaultsAreFaults == Faults \subseteq AllFaults

VARIABLES
  \* The agent.
  busy,       \* CodingAgent.busy
  connected,  \* the connected flags of agent and client
  \* A call of process_task.
  pc,         \* the call it awaits
  answer,     \* what it returned
  late,       \* the session has lasted for more than max_session_duration
  ended,      \* the last pty_status said the session does not run
  output,     \* accumulated_output: the chunks read, numbered from 1
  \* The server and its sessions.
  server,     \* the server process: "none", "up" or "down"
  open,       \* the sessions in its map
  running,    \* a session's is_running()
  reader,     \* its reader thread: "ended" after the command, "failed": ended before it, or
              \* "gone" with the server
  process,    \* its command
  emitted,    \* chunks the command has written
  taken,      \* chunks the reader thread has read
  buffer      \* chunks in output_buffer

agentVars == <<busy, connected>>
taskVars == <<pc, answer, late, ended, output>>
outputVars == <<emitted, taken, buffer>>
sessionVars == <<open, running, reader, process, outputVars>>
vars == <<agentVars, taskVars, server, sessionVars>>

InSession == {"check", "status", "read", "clear", "lastRead", "lastClear", "kill"}
InProgress == InSession \cup {"connect", "spawn"}
\* The chunks first to last, in the order written.
Stretch(first, last) == [i \in 1 .. (last + 1) - first |-> first + i - 1]
\* What append() keeps: at the limit of the buffer the oldest chunks go, never the last
\* one.  PtySessions has the limit; here it may be reached at any chunk.
Kept(chunks) == {chunks} \cup {SubSeq(chunks, n, Len(chunks)) : n \in 2 .. Len(chunks)}

Init ==
  /\ busy = FALSE
  /\ connected = FALSE
  /\ pc = [t \in Tasks |-> "idle"]
  /\ answer = [t \in Tasks |-> "none"]
  /\ late = [t \in Tasks |-> FALSE]
  /\ ended = [t \in Tasks |-> FALSE]
  /\ output = [t \in Tasks |-> <<>>]
  /\ server = "none"
  /\ open = {}
  /\ running = [t \in Tasks |-> FALSE]
  /\ reader = [t \in Tasks |-> "none"]
  /\ process = [t \in Tasks |-> "none"]
  /\ emitted = [t \in Tasks |-> 0]
  /\ taken = [t \in Tasks |-> 0]
  /\ buffer = [t \in Tasks |-> <<>>]

Goto(t, label) == pc' = [pc EXCEPT ![t] = label]
\* The locals of run_session are gone.
Forgets(t) == late' = [late EXCEPT ![t] = FALSE] /\ ended' = [ended EXCEPT ![t] = FALSE]
\* process_task returns and gives the agent back.
Return(t, what) ==
  /\ Goto(t, "done")
  /\ answer' = [answer EXCEPT ![t] = what]
  /\ busy' = FALSE
  /\ Forgets(t)
Calls(t, label) == pc[t] = label /\ server = "up"

-----------------------------------------------------------------------------
(* process_task.                                                           *)

Claim(t) ==
  /\ pc[t] = "idle" /\ ~busy
  /\ busy' = TRUE
  /\ Goto(t, "connect")
  /\ UNCHANGED <<connected, answer, late, ended, output, server, sessionVars>>

ClaimRefused(t) ==
  /\ pc[t] = "idle" /\ busy
  /\ Goto(t, "done")
  /\ answer' = [answer EXCEPT ![t] = "busy"]
  /\ UNCHANGED <<agentVars, late, ended, output, server, sessionVars>>

\* ensure_connected.  The flags are never reset, so a server that died is not replaced.
Connect(t) ==
  /\ pc[t] = "connect"
  /\ IF connected THEN UNCHANGED <<connected, server>> ELSE connected' = TRUE /\ server' = "up"
  /\ Goto(t, "spawn")
  /\ UNCHANGED <<busy, answer, late, ended, output, sessionVars>>

\* Deviation: the early return keeps the agent (breaks BusyHeld).
ConnectFailsKeeps(t) ==
  /\ pc[t] = "connect" /\ ~connected
  /\ Goto(t, "done")
  /\ answer' = [answer EXCEPT ![t] = "failed"]
  /\ UNCHANGED <<agentVars, late, ended, output, server, sessionVars>>

ConnectFails(t) ==
  /\ pc[t] = "connect" /\ ~connected
  /\ Return(t, "failed")
  /\ UNCHANGED <<connected, output, server, sessionVars>>

\* What pty_spawn does for an identifier it has not seen: expired sessions of tasks that
\* no longer poll go, and there must be room for one more.
MakesRoom(t) ==
  \E gone \in SUBSET {s \in open : pc[s] \notin InSession} :
    /\ Cardinality(open \ gone) < MaxSessions
    /\ open' = (open \ gone) \cup {t}

\* The command runs.  Its reader thread may already have ended, with what spawn() then
\* stored left in is_running().
Spawns(t) ==
  /\ MakesRoom(t)
  /\ running' = [running EXCEPT ![t] = TRUE]
  /\ \/ /\ reader' = [reader EXCEPT ![t] = "reading"]
        /\ process' = [process EXCEPT ![t] = "alive"]
        /\ UNCHANGED outputVars
     \/ \E n \in 0 .. MaxOutput[t], end \in {"ended"} \cup (IF "read" \in Faults THEN {"failed"} ELSE {}) :
          /\ reader' = [reader EXCEPT ![t] = end]
          /\ process' = [process EXCEPT ![t] = IF end = "ended" THEN "dead" ELSE "alive"]
          /\ emitted' = [emitted EXCEPT ![t] = n]
          /\ taken' = [taken EXCEPT ![t] = n]
          /\ \E kept \in Kept(Stretch(1, n)) : buffer' = [buffer EXCEPT ![t] = kept]

Spawn(t) ==
  /\ Calls(t, "spawn")
  /\ Spawns(t)
  /\ Goto(t, "check")
  /\ UNCHANGED <<agentVars, answer, late, ended, output, server>>

\* No room or no terminal; or a session was made, but no command.
SpawnRefused(t) ==
  /\ Calls(t, "spawn")
  /\ \/ \E gone \in SUBSET {s \in open : pc[s] \notin InSession} : open' = open \ gone
     \/ MakesRoom(t)
  /\ Return(t, "failed")
  /\ UNCHANGED <<connected, output, server, running, reader, process, outputVars>>

-----------------------------------------------------------------------------
(* The loop of run_session.                                                *)

\* Deviation: the loop does not look at the time (breaks TaskEnds).
CheckForever(t) ==
  /\ pc[t] = "check"
  /\ Goto(t, "status")
  /\ UNCHANGED <<agentVars, answer, late, ended, output, server, sessionVars>>

Check(t) ==
  /\ pc[t] = "check"
  /\ Goto(t, IF late[t] THEN "kill" ELSE "status")
  /\ UNCHANGED <<agentVars, answer, late, ended, output, server, sessionVars>>

\* Deviation: a session that has ended is not read again (breaks OkIsComplete).
StatusReturns(t) ==
  /\ Calls(t, "status")
  /\ IF running[t] THEN Goto(t, "read") /\ UNCHANGED <<answer, busy, late, ended>>
                   ELSE Return(t, "ok")
  /\ UNCHANGED <<connected, output, server, sessionVars>>

Status(t) ==
  /\ Calls(t, "status")
  /\ ended' = [ended EXCEPT ![t] = ~running[t]]
  /\ Goto(t, "read")
  /\ UNCHANGED <<agentVars, answer, late, output, server, sessionVars>>

\* pty_read copies the buffer, then clears it.
Copies(t, from, to) ==
  /\ Calls(t, from)
  /\ output' = [output EXCEPT ![t] = @ \o buffer[t]]
  /\ Goto(t, to)
  /\ UNCHANGED <<agentVars, answer, late, ended, server, sessionVars>>
Clears(t, from) ==
  /\ Calls(t, from)
  /\ buffer' = [buffer EXCEPT ![t] = <<>>]
  /\ UNCHANGED <<connected, output, server, open, running, reader, process, emitted, taken>>

Read(t) == Copies(t, "read", "clear")

\* Deviation: the buffer is read without clear (breaks OutputInOrder).
ReadEndsUncleared(t) ==
  /\ Calls(t, "clear")
  /\ Goto(t, IF ended[t] THEN "lastRead" ELSE "check")
  /\ UNCHANGED <<agentVars, answer, late, ended, output, server, sessionVars>>

ReadEnds(t) ==
  /\ Clears(t, "clear")
  /\ Goto(t, IF ended[t] THEN "lastRead" ELSE "check")
  /\ UNCHANGED <<busy, answer, late, ended>>

LastRead(t) == Copies(t, "lastRead", "lastClear")
LastReadEnds(t) == Clears(t, "lastClear") /\ Return(t, "ok")

\* The time is up.  The result of pty_kill is ignored.
Kill(t) ==
  /\ pc[t] = "kill"
  /\ open' = open \ {t}
  /\ Return(t, "timeout")
  /\ UNCHANGED <<connected, output, server, running, reader, process, outputVars>>

\* A call to a server that is gone.  The error ends the task; the session is not killed.
CallFails(t) ==
  /\ pc[t] \in InProgress \ {"connect", "check", "kill"} /\ server = "down"
  /\ Return(t, "failed")
  /\ UNCHANGED <<connected, output, server, sessionVars>>

-----------------------------------------------------------------------------
(* The environment.                                                        *)

\* The request that awaits process_task is gone, and with it the future.  A call the
\* server has may still be carried out.
Dropped(t) ==
  /\ "drop" \in Faults
  /\ pc[t] \in InProgress
  /\ Goto(t, "dropped")
  /\ Forgets(t)
  /\ \/ UNCHANGED sessionVars
     \/ Calls(t, "spawn") /\ Spawns(t)
     \/ Calls(t, "kill") /\ open' = open \ {t} /\ UNCHANGED <<running, reader, process, outputVars>>
  /\ UNCHANGED <<agentVars, answer, output, server>>

TimePasses(t) ==
  /\ pc[t] \in InSession /\ ~late[t]
  /\ late' = [late EXCEPT ![t] = TRUE]
  /\ UNCHANGED <<agentVars, pc, answer, ended, output, server, sessionVars>>

ServerDies ==
  /\ "crash" \in Faults
  /\ server = "up"
  /\ server' = "down"
  /\ open' = {}
  /\ reader' = [t \in Tasks |-> IF reader[t] = "reading" THEN "gone" ELSE reader[t]]
  /\ UNCHANGED <<agentVars, taskVars, running, process, outputVars>>

CommandWrites(t) ==
  /\ process[t] = "alive" /\ emitted[t] < MaxOutput[t]
  /\ emitted' = [emitted EXCEPT ![t] = @ + 1]
  /\ UNCHANGED <<agentVars, taskVars, server, open, running, reader, process, taken, buffer>>

CommandPrompts(t) ==
  /\ "prompt" \in Faults
  /\ process[t] = "alive"
  /\ process' = [process EXCEPT ![t] = "prompting"]
  /\ UNCHANGED <<agentVars, taskVars, server, open, running, reader, outputVars>>

CommandExits(t) ==
  /\ process[t] \in {"alive", "prompting"}
  /\ process' = [process EXCEPT ![t] = "dead"]
  /\ UNCHANGED <<agentVars, taskVars, server, open, running, reader, outputVars>>

\* A chunk that comes between the copy and the clear of a pty_read may not be stored.
ReaderReads(t) ==
  /\ reader[t] = "reading" /\ taken[t] < emitted[t]
  /\ taken' = [taken EXCEPT ![t] = @ + 1]
  /\ \/ \E kept \in Kept(Append(buffer[t], taken[t] + 1)) : buffer' = [buffer EXCEPT ![t] = kept]
     \/ pc[t] \in {"clear", "lastClear", "dropped"} /\ UNCHANGED buffer
  /\ UNCHANGED <<agentVars, taskVars, server, open, running, reader, process, emitted>>

ReaderEnds(t) ==
  /\ reader[t] = "reading" /\ process[t] = "dead" /\ taken[t] = emitted[t]
  /\ reader' = [reader EXCEPT ![t] = "ended"]
  /\ running' = [running EXCEPT ![t] = FALSE]
  /\ UNCHANGED <<agentVars, taskVars, server, open, process, outputVars>>

ReaderFails(t) ==
  /\ "read" \in Faults
  /\ reader[t] = "reading"
  /\ reader' = [reader EXCEPT ![t] = "failed"]
  /\ running' = [running EXCEPT ![t] = FALSE]
  /\ UNCHANGED <<agentVars, taskVars, server, open, process, outputVars>>

-----------------------------------------------------------------------------
Session(t) ==
  \/ Check(t) \/ Status(t) \/ Read(t) \/ ReadEnds(t) \/ LastRead(t) \/ LastReadEnds(t) \/ Kill(t)
Task(t) ==
  \/ Connect(t) \/ ConnectFails(t) \/ Spawn(t) \/ SpawnRefused(t) \/ CallFails(t) \/ Session(t)
Arrival(t) == Claim(t) \/ ClaimRefused(t)
Command(t) == CommandWrites(t) \/ CommandPrompts(t) \/ CommandExits(t)
Reader(t) == ReaderReads(t) \/ ReaderEnds(t)

Next ==
  \/ \E t \in Tasks :
       Arrival(t) \/ Task(t) \/ Dropped(t) \/ TimePasses(t) \/ Command(t) \/ Reader(t) \/ ReaderFails(t)
  \/ ServerDies

Spec == Init /\ [][Next]_vars

\* The task is polled, the server answers or its end is noticed, time passes and reader
\* threads run.  Not assumed: that tasks arrive, that a command writes, asks or ends.
Fairness ==
  \A t \in Tasks : WF_vars(Task(t)) /\ WF_vars(TimePasses(t)) /\ WF_vars(Reader(t))

FairSpec == Spec /\ Fairness

-----------------------------------------------------------------------------
(* Safety.                                                                 *)

AgentType ==
  /\ busy \in BOOLEAN
  /\ connected \in BOOLEAN
  /\ server \in {"none", "up", "down"}
TaskType ==
  /\ pc \in [Tasks -> InProgress \cup {"idle", "done", "dropped"}]
  /\ answer \in [Tasks -> {"none", "ok", "failed", "timeout", "busy"}]
  /\ late \in [Tasks -> BOOLEAN]
  /\ ended \in [Tasks -> BOOLEAN]
  /\ output \in [Tasks -> Seq(Nat)]
SessionType ==
  /\ open \subseteq Tasks
  /\ running \in [Tasks -> BOOLEAN]
  /\ reader \in [Tasks -> {"none", "reading", "ended", "failed", "gone"}]
  /\ process \in [Tasks -> {"none", "alive", "prompting", "dead"}]
  /\ emitted \in [Tasks -> Nat]
  /\ taken \in [Tasks -> Nat]
  /\ buffer \in [Tasks -> Seq(Nat)]
  /\ \A t \in Tasks : taken[t] <= emitted[t] /\ emitted[t] <= MaxOutput[t]

\* Every variable has its type, and the reader thread is never ahead of the command.
TypeOK == AgentType /\ TaskType /\ SessionType

\* A task that has claimed the agent and not given it back.
Holds(t) == pc[t] \in InProgress \cup {"dropped"}

\* At most one task ever has the agent, whatever calls of process_task run at the same
\* time (coding.rs:403-412).
OneAtATime == \A t, u \in Tasks : Holds(t) /\ Holds(u) => t = u

\* The agent is unavailable exactly as long as a task has it: every path out of
\* process_task gives it back, but the one where the future is dropped keeps it for good
\* (coding.rs:417, 460, 471).
BusyHeld == busy <=> \E t \in Tasks : Holds(t)

\* What a task has read its command wrote, in that order and no chunk twice,
\* though polls and the reader thread share the buffer (coding.rs:299-308).
OutputInOrder == \A t \in Tasks : \A i, j \in DOMAIN output[t] : i < j => output[t][i] < output[t][j]

\* A task that succeeds has left no output behind: its session's reader thread is through,
\* with the whole output unless it failed, and the buffer is empty (coding.rs:345-361).
OkIsComplete ==
  \A t \in Tasks : answer[t] = "ok" =>
    /\ reader[t] \in {"ended", "failed"}
    /\ reader[t] = "ended" => process[t] = "dead" /\ taken[t] = emitted[t]
    /\ buffer[t] = <<>>

-----------------------------------------------------------------------------
(* Liveness, under FairSpec.                                               *)

\* A task that was started returns, even when its command never ends, its session is
\* stuck or the server dies, unless its future is dropped.
TaskEnds == \A t \in Tasks : (pc[t] \in InProgress) ~> (pc[t] \in {"done", "dropped"})

\* is_available means "not busy with another task" (common/src/traits.rs:60): a busy agent
\* becomes available again.  Violated: a dropped future never resets the flag.
AvailableAgain == busy ~> ~busy
=============================================================================
