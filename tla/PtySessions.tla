----------------------------- MODULE PtySessions -----------------------------
(***************************************************************************)
(* The PTY MCP server (crates/pty-mcp/src/server.rs and session.rs).       *)
(*                                                                         *)
(* Tool calls run concurrently on one SessionManager: a map from session   *)
(* identifiers to session objects behind an async RwLock.  Each object     *)
(* starts a reader thread that copies the terminal's output to a buffer    *)
(* and records the end of the command.  The object's fields are shared by  *)
(* the calls that hold it, its reader thread and, through the terminal,    *)
(* the operating system's process.                                         *)
(*                                                                         *)
(* A session object is named by the call that created it: a call creates   *)
(* at most one.                                                            *)
(***************************************************************************)
EXTENDS Naturals, FiniteSets

CONSTANTS
  Calls,        \* the tool calls the server ever receives
  Ids,          \* session identifiers
  Tools,        \* the tools clients call ("readClear": pty_read with clear set)
  MaxSessions,  \* max_sessions
  Faults,       \* bound: the rare events of the environment that happen
  MaxOutput,    \* bound: chunks of output a command writes
  Fits,         \* the sets of chunks that are together within the limit of a buffer
  NoSession     \* no session object

AllTools == {"create", "spawn", "read", "readClear", "write", "status", "kill", "list"}
\* The reader thread cannot open the terminal; it cannot read from it; a command closes
\* its terminal and runs on; a session is left alone for longer than the TTL.
AllFaults == {"open", "read", "detach", "expire"}

ASSUME IdsFinite == IsFiniteSet(Ids)
ASSUME ToolsAreTools == Tools \subseteq AllTools
ASSUME FaultsAreFaults == Faults \subseteq AllFaults
ASSUME MaxSessionsPositive == MaxSessions \in Nat \ {0}
ASSUME MaxOutputNat == MaxOutput \in Nat

\* Chunks are numbered from 1.  One is at most 4096 bytes and never over the limit alone.
Chunks == 1 .. MaxOutput
ASSUME FitsAssumption ==
  /\ Fits \subseteq SUBSET Chunks
  /\ \A k \in Chunks : {k} \in Fits
  /\ \A chunks \in Fits : SUBSET chunks \subseteq Fits
ASSUME NoSessionIsNone == NoSession \notin Calls

VARIABLES
  \* The manager.
  sessions,   \* SessionManager.sessions
  expired,    \* the entry was last accessed more than a TTL ago
  \* A tool call.
  pc,         \* where its handler is
  tool,       \* the tool it called
  sid,        \* the session identifier it was given
  target,     \* the session object the handler holds (or held, when done)
  got,        \* output pty_read has copied
  todo,       \* identifiers pty_list has still to look up
  reply,      \* how the call was answered
  \* A session object.
  slave,      \* "absent" before the object exists; the slave side: "held" or "spent"
  child,      \* the child handle is stored
  running,    \* the flag of is_running()
  status,     \* the number of status(), as a name
  process,    \* the command: "detached" when it closed its terminal and runs on
  reader,     \* where the reader thread is
  emitted,    \* chunks the command has written, numbered from 1
  taken,      \* chunks the reader thread has read
  buffer,     \* chunks in output_buffer
  delivered   \* chunks some pty_read returned

managerVars == <<sessions, expired>>
callVars == <<pc, tool, sid, target, got, todo, reply>>
flagVars == <<running, status>>
outputVars == <<emitted, taken, buffer, delivered>>
objectVars == <<slave, child, flagVars, process, reader, outputVars>>
vars == <<managerVars, callVars, objectVars>>

Open == {id \in Ids : sessions[id] # NoSession}

Init ==
  /\ sessions = [id \in Ids |-> NoSession]
  /\ expired = [id \in Ids |-> FALSE]
  /\ pc = [c \in Calls |-> "idle"]
  /\ tool = [c \in Calls |-> "none"]
  /\ sid \in [Calls -> Ids]
  /\ target = [c \in Calls |-> NoSession]
  /\ got = [c \in Calls |-> {}]
  /\ todo = [c \in Calls |-> {}]
  /\ reply = [c \in Calls |-> "none"]
  /\ slave = [s \in Calls |-> "absent"]
  /\ child = [s \in Calls |-> FALSE]
  /\ running = [s \in Calls |-> FALSE]
  /\ status = [s \in Calls |-> "idle"]
  /\ process = [s \in Calls |-> "none"]
  /\ reader = [s \in Calls |-> "none"]
  /\ emitted = [s \in Calls |-> 0]
  /\ taken = [s \in Calls |-> 0]
  /\ buffer = [s \in Calls |-> {}]
  /\ delivered = [s \in Calls |-> {}]

Goto(c, label) == pc' = [pc EXCEPT ![c] = label]
Answer(c, what) == Goto(c, "done") /\ reply' = [reply EXCEPT ![c] = what]
Call(c, t) == pc[c] = "idle" /\ t \in Tools /\ tool' = [tool EXCEPT ![c] = t]
Forget(ids) ==
  /\ sessions' = [id \in Ids |-> IF id \in ids THEN NoSession ELSE sessions[id]]
  /\ expired' = [id \in Ids |-> expired[id] /\ id \notin ids]

\* The object is reachable from the map or from a running handler.
Reachable(s) ==
  \/ \E id \in Ids : sessions[id] = s
  \/ \E c \in Calls : target[c] = s /\ pc[c] # "done"

-----------------------------------------------------------------------------
(* SessionManager: create, get, remove, list.                              *)

CallCreate(c) ==
  /\ Call(c, "create")
  /\ Goto(c, "cleanup")
  /\ UNCHANGED <<managerVars, sid, target, got, todo, reply, objectVars>>

\* Where the handler goes on with the session it got.
After(t) == CASE t = "spawn" -> "check"
              [] t \in {"read", "readClear"} -> "copy"
              [] t \in {"write", "status"} -> "use"

\* The handlers that start with get().  An expired entry is removed and counts as
\* absent; pty_spawn then creates the session, the others fail.
GetFor(c, t) ==
  /\ Call(c, t)
  /\ \/ /\ sid[c] \in Open /\ ~expired[sid[c]]
        /\ target' = [target EXCEPT ![c] = sessions[sid[c]]]
        /\ Goto(c, After(t))
        /\ UNCHANGED <<managerVars, reply>>
     \/ /\ sid[c] \notin Open \/ expired[sid[c]]
        /\ Forget({sid[c]})
        /\ IF t = "spawn" THEN Goto(c, "cleanup") /\ UNCHANGED reply
                          ELSE Answer(c, "notFound")
        /\ UNCHANGED target
  /\ UNCHANGED <<sid, got, todo, objectVars>>
Get(c) == \E t \in {"spawn", "read", "readClear", "write", "status"} : GetFor(c, t)

\* cleanup_expired(), under a write lock of its own.
CleanupExpired(c) ==
  /\ pc[c] = "cleanup"
  /\ Forget({id \in Ids : expired[id]})
  /\ Goto(c, "insert")
  /\ UNCHANGED <<tool, sid, target, got, todo, reply, objectVars>>

\* Deviation: the limit is compared with > (breaks SessionLimit).
InsertOffByOne(c) ==
  /\ pc[c] = "insert"
  /\ Cardinality(Open) <= MaxSessions
  /\ sessions' = [sessions EXCEPT ![sid[c]] = c]
  /\ expired' = [expired EXCEPT ![sid[c]] = FALSE]
  /\ target' = [target EXCEPT ![c] = c]
  /\ slave' = [slave EXCEPT ![c] = "held"]
  /\ reader' = [reader EXCEPT ![c] = "reading"]
  /\ IF tool[c] = "create" THEN Answer(c, "created") ELSE Goto(c, "check") /\ UNCHANGED reply
  /\ UNCHANGED <<tool, sid, got, todo, child, flagVars, process, outputVars>>

\* The limit check, PtySession::new and the insertion, under one write lock.  An entry
\* the map already has under this identifier is replaced.  The reader thread may fail
\* to clone the terminal's reader and end at once.
Insert(c) ==
  /\ pc[c] = "insert"
  /\ Cardinality(Open) < MaxSessions
  /\ sessions' = [sessions EXCEPT ![sid[c]] = c]
  /\ expired' = [expired EXCEPT ![sid[c]] = FALSE]
  /\ target' = [target EXCEPT ![c] = c]
  /\ slave' = [slave EXCEPT ![c] = "held"]
  /\ \E state \in {"reading"} \cup (IF "open" \in Faults THEN {"done"} ELSE {}) :
       reader' = [reader EXCEPT ![c] = state]
  /\ IF tool[c] = "create" THEN Answer(c, "created") ELSE Goto(c, "check") /\ UNCHANGED reply
  /\ UNCHANGED <<tool, sid, got, todo, child, flagVars, process, outputVars>>

\* The limit is reached, or (at any time) the system grants no terminal.
InsertRefused(c) ==
  /\ pc[c] = "insert"
  /\ Answer(c, "refused")
  /\ UNCHANGED <<managerVars, tool, sid, target, got, todo, objectVars>>

\* Deviation: a killed session leaves a tombstone in the map (breaks TypeOK).
KillTombstone(c) ==
  /\ Call(c, "kill")
  /\ IF sid[c] \in Open
     THEN /\ sessions' = [sessions EXCEPT ![sid[c]] = "killed"]
          /\ target' = [target EXCEPT ![c] = sessions[sid[c]]]
          /\ Answer(c, "killed")
          /\ UNCHANGED expired
     ELSE Answer(c, "notFound") /\ UNCHANGED <<managerVars, target>>
  /\ UNCHANGED <<sid, got, todo, objectVars>>

\* pty_kill: remove(), which does not look at the TTL.
Kill(c) ==
  /\ Call(c, "kill")
  /\ IF sid[c] \in Open
     THEN /\ Forget({sid[c]})
          /\ target' = [target EXCEPT ![c] = sessions[sid[c]]]
          /\ Answer(c, "killed")
     ELSE Answer(c, "notFound") /\ UNCHANGED <<managerVars, target>>
  /\ UNCHANGED <<sid, got, todo, objectVars>>

\* pty_list: the identifiers under a read lock, then one get() each.
CallList(c) ==
  /\ Call(c, "list")
  /\ todo' = [todo EXCEPT ![c] = Open]
  /\ Goto(c, "listing")
  /\ UNCHANGED <<managerVars, sid, target, got, reply, objectVars>>

\* Deviation: an identifier that has expired is looked up again (breaks CallsEnd).
ListNextRetries(c) ==
  /\ pc[c] = "listing"
  /\ \E id \in todo[c] :
       /\ todo' = [todo EXCEPT ![c] = IF id \in Open /\ ~expired[id] THEN @ \ {id} ELSE @]
       /\ IF expired[id] THEN Forget({id}) ELSE UNCHANGED managerVars
  /\ UNCHANGED <<pc, tool, sid, target, got, reply, objectVars>>

ListNext(c) ==
  /\ pc[c] = "listing"
  /\ \E id \in todo[c] :
       /\ todo' = [todo EXCEPT ![c] = @ \ {id}]
       /\ IF expired[id] THEN Forget({id}) ELSE UNCHANGED managerVars
  /\ UNCHANGED <<pc, tool, sid, target, got, reply, objectVars>>

ListEnds(c) ==
  /\ pc[c] = "listing" /\ todo[c] = {}
  /\ Answer(c, "listed")
  /\ UNCHANGED <<managerVars, tool, sid, target, got, todo, objectVars>>

\* Time passes without an access to the session.
Expire(id) ==
  /\ "expire" \in Faults
  /\ id \in Open /\ ~expired[id]
  /\ expired' = [expired EXCEPT ![id] = TRUE]
  /\ UNCHANGED <<sessions, callVars, objectVars>>

-----------------------------------------------------------------------------
(* PtySession::spawn, run by the handler of pty_spawn without an await, but *)
(* in parallel with other handlers, the reader thread and the process.     *)

\* validate_command, validate_args and the running flag.
CheckRunning(c) ==
  /\ pc[c] = "check"
  /\ \/ Answer(c, "invalid")
     \/ running[target[c]] /\ Answer(c, "busy")
     \/ ~running[target[c]] /\ Goto(c, "take") /\ UNCHANGED reply
  /\ UNCHANGED <<managerVars, tool, sid, target, got, todo, objectVars>>

\* Deviation: a second call goes on without a slave (breaks SpawnedOnce, ExitFinal).
TakeSlaveUnchecked(c) ==
  /\ pc[c] = "take"
  /\ slave' = [slave EXCEPT ![target[c]] = "spent"]
  /\ Goto(c, "fork")
  /\ UNCHANGED <<managerVars, tool, sid, target, got, todo, reply, child, flagVars, process, reader,
                 outputVars>>

\* Deviation: the session is marked as running before there is a command (breaks
\* RunningHasChild).
TakeSlaveClaims(c) ==
  /\ pc[c] = "take"
  /\ IF slave[target[c]] = "held"
     THEN /\ slave' = [slave EXCEPT ![target[c]] = "spent"]
          /\ running' = [running EXCEPT ![target[c]] = TRUE]
          /\ Goto(c, "fork")
          /\ UNCHANGED reply
     ELSE Answer(c, "consumed") /\ UNCHANGED <<slave, running>>
  /\ UNCHANGED <<managerVars, tool, sid, target, got, todo, child, status, process, reader,
                 outputVars>>

TakeSlave(c) ==
  /\ pc[c] = "take"
  /\ IF slave[target[c]] = "held"
     THEN slave' = [slave EXCEPT ![target[c]] = "spent"] /\ Goto(c, "fork") /\ UNCHANGED reply
     ELSE Answer(c, "consumed") /\ UNCHANGED slave
  /\ UNCHANGED <<managerVars, tool, sid, target, got, todo, child, flagVars, process, reader,
                 outputVars>>

\* spawn_command.  The handler's slave is dropped in either case.
SpawnCommand(c) ==
  /\ pc[c] = "fork"
  /\ \/ process' = [process EXCEPT ![target[c]] = "alive"] /\ Goto(c, "store") /\ UNCHANGED reply
     \/ Answer(c, "failed") /\ UNCHANGED process
  /\ UNCHANGED <<managerVars, tool, sid, target, got, todo, slave, child, flagVars, reader,
                 outputVars>>

\* The reader thread holds the lock of the handle while it waits for the process.
StoreChild(c) ==
  /\ pc[c] = "store"
  /\ reader[target[c]] # "waiting"
  /\ child' = [child EXCEPT ![target[c]] = TRUE]
  /\ Goto(c, "setRunning")
  /\ UNCHANGED <<managerVars, tool, sid, target, got, todo, reply, slave, flagVars, process,
                 reader, outputVars>>

SetRunning(c) ==
  /\ pc[c] = "setRunning"
  /\ running' = [running EXCEPT ![target[c]] = TRUE]
  /\ Goto(c, "setStatus")
  /\ UNCHANGED <<managerVars, tool, sid, target, got, todo, reply, slave, child, status, process,
                 reader, outputVars>>

SetStatus(c) ==
  /\ pc[c] = "setStatus"
  /\ status' = [status EXCEPT ![target[c]] = "running"]
  /\ Answer(c, "spawned")
  /\ UNCHANGED <<managerVars, tool, sid, target, got, todo, slave, child, running, process, reader,
                 outputVars>>

-----------------------------------------------------------------------------
(* pty_read, and the tools that only use the session they got.             *)

\* get_output: the buffer's read lock is held while it is copied.
CopyOutput(c) ==
  /\ pc[c] = "copy"
  /\ got' = [got EXCEPT ![c] = buffer[target[c]]]
  /\ Goto(c, "copying")
  /\ UNCHANGED <<managerVars, tool, sid, target, todo, reply, objectVars>>

\* The lock is released.  The reply will carry the copy whatever happens next.
CopyEnds(c) ==
  /\ pc[c] = "copying"
  /\ delivered' = [delivered EXCEPT ![target[c]] = @ \cup got[c]]
  /\ got' = [got EXCEPT ![c] = {}]
  /\ IF tool[c] = "readClear" THEN Goto(c, "clear") /\ UNCHANGED reply ELSE Answer(c, "output")
  /\ UNCHANGED <<managerVars, tool, sid, target, todo, slave, child, flagVars, process, reader,
                 emitted, taken, buffer>>

\* clear_output: waits for the copies going on.
ClearOutput(c) ==
  /\ pc[c] = "clear"
  /\ \A d \in Calls : pc[d] = "copying" => target[d] # target[c]
  /\ buffer' = [buffer EXCEPT ![target[c]] = {}]
  /\ Answer(c, "output")
  /\ UNCHANGED <<managerVars, tool, sid, target, got, todo, slave, child, flagVars, process, reader,
                 emitted, taken, delivered>>

\* pty_write and pty_status.  A write lasts until the command takes its input.
UseSession(c) ==
  /\ pc[c] = "use"
  /\ \E what \in {"used"} \cup (IF tool[c] = "write" THEN {"error"} ELSE {}) : Answer(c, what)
  /\ UNCHANGED <<managerVars, tool, sid, target, got, todo, objectVars>>

-----------------------------------------------------------------------------
(* The command, an external process.                                       *)

ProcessWrites(s) ==
  /\ process[s] = "alive" /\ emitted[s] < MaxOutput
  /\ emitted' = [emitted EXCEPT ![s] = @ + 1]
  /\ UNCHANGED <<managerVars, callVars, slave, child, flagVars, process, reader, taken, buffer,
                 delivered>>

\* It closes its terminal and runs on.
ProcessDetaches(s) ==
  /\ "detach" \in Faults
  /\ process[s] = "alive"
  /\ process' = [process EXCEPT ![s] = "detached"]
  /\ UNCHANGED <<managerVars, callVars, slave, child, flagVars, reader, outputVars>>

ProcessExits(s) ==
  /\ process[s] \in {"alive", "detached"}
  /\ process' = [process EXCEPT ![s] = "dead"]
  /\ UNCHANGED <<managerVars, callVars, slave, child, flagVars, reader, outputVars>>

-----------------------------------------------------------------------------
(* The reader thread.                                                      *)

\* Somebody holds the slave side of the terminal: the object, a handler in the middle
\* of spawn, or the process.
TtyOpen(s) ==
  \/ slave[s] = "held" /\ Reachable(s)
  \/ \E c \in Calls : target[c] = s /\ pc[c] = "fork"
  \/ process[s] = "alive"

\* append() evicts the oldest chunks until the new one fits.
Newest(chunks) == {k \in chunks : {j \in chunks : j >= k} \in Fits}

\* One chunk.  It is appended with try_write: a chunk that arrives while a pty_read
\* copies or clears the buffer is not stored.
ReaderReads(s) ==
  /\ reader[s] = "reading" /\ taken[s] < emitted[s]
  /\ taken' = [taken EXCEPT ![s] = @ + 1]
  /\ \/ /\ \A c \in Calls : target[c] = s => pc[c] # "copying"
        /\ buffer' = [buffer EXCEPT ![s] = Newest(@ \cup {taken[s] + 1})]
     \/ /\ \E c \in Calls : target[c] = s /\ pc[c] \in {"copying", "clear"}
        /\ UNCHANGED buffer
  /\ UNCHANGED <<managerVars, callVars, slave, child, flagVars, process, reader, emitted, delivered>>

\* Deviation: the thread waits for a command even when there is none (breaks ReaderEnds).
ReaderEofWaits(s) ==
  /\ reader[s] = "reading" /\ taken[s] = emitted[s] /\ ~TtyOpen(s)
  /\ reader' = [reader EXCEPT ![s] = "waiting"]
  /\ UNCHANGED <<managerVars, callVars, slave, child, flagVars, process, outputVars>>

\* The end of the output.  With a handle stored the thread waits for the process.
ReaderEof(s) ==
  /\ reader[s] = "reading" /\ taken[s] = emitted[s] /\ ~TtyOpen(s)
  /\ reader' = [reader EXCEPT ![s] = IF child[s] THEN "waiting" ELSE "clearing"]
  /\ UNCHANGED <<managerVars, callVars, slave, child, flagVars, process, outputVars>>

\* A read error.
ReaderFails(s) ==
  /\ "read" \in Faults
  /\ reader[s] = "reading"
  /\ reader' = [reader EXCEPT ![s] = "clearing"]
  /\ UNCHANGED <<managerVars, callVars, slave, child, flagVars, process, outputVars>>

ReaderWaited(s) ==
  /\ reader[s] = "waiting" /\ process[s] = "dead"
  /\ reader' = [reader EXCEPT ![s] = "clearing"]
  /\ UNCHANGED <<managerVars, callVars, slave, child, flagVars, process, outputVars>>

\* Deviation: only the flag is reset, not the status (breaks ExitRecorded).
ReaderClearsOnly(s) ==
  /\ reader[s] = "clearing"
  /\ running' = [running EXCEPT ![s] = FALSE]
  /\ reader' = [reader EXCEPT ![s] = "done"]
  /\ UNCHANGED <<managerVars, callVars, slave, child, status, process, outputVars>>

\* Deviation: the end of the command empties the buffer (breaks LossExplained).
ReaderClearsBuffer(s) ==
  /\ reader[s] = "clearing"
  /\ running' = [running EXCEPT ![s] = FALSE]
  /\ buffer' = [buffer EXCEPT ![s] = {}]
  /\ reader' = [reader EXCEPT ![s] = "recording"]
  /\ UNCHANGED <<managerVars, callVars, slave, child, status, process, emitted, taken, delivered>>

ReaderClears(s) ==
  /\ reader[s] = "clearing"
  /\ running' = [running EXCEPT ![s] = FALSE]
  /\ reader' = [reader EXCEPT ![s] = "recording"]
  /\ UNCHANGED <<managerVars, callVars, slave, child, status, process, outputVars>>

ReaderRecords(s) ==
  /\ reader[s] = "recording"
  /\ status' = [status EXCEPT ![s] = "exited"]
  /\ reader' = [reader EXCEPT ![s] = "done"]
  /\ UNCHANGED <<managerVars, callVars, slave, child, running, process, outputVars>>

-----------------------------------------------------------------------------
Spawning(c) ==
  CheckRunning(c) \/ TakeSlave(c) \/ SpawnCommand(c) \/ StoreChild(c) \/ SetRunning(c) \/ SetStatus(c)
Managing(c) ==
  CleanupExpired(c) \/ Insert(c) \/ InsertRefused(c) \/ ListNext(c) \/ ListEnds(c)
Reading(c) == CopyOutput(c) \/ CopyEnds(c) \/ ClearOutput(c)
Arrival(c) == CallCreate(c) \/ Get(c) \/ Kill(c) \/ CallList(c)
Command(s) == ProcessWrites(s) \/ ProcessDetaches(s) \/ ProcessExits(s)
Reader(s) ==
  ReaderReads(s) \/ ReaderEof(s) \/ ReaderWaited(s) \/ ReaderClears(s) \/ ReaderRecords(s)

Next ==
  \/ \E c \in Calls : Arrival(c) \/ Managing(c) \/ Spawning(c) \/ Reading(c) \/ UseSession(c)
  \/ \E s \in Calls : Command(s) \/ Reader(s) \/ ReaderFails(s)
  \/ \E id \in Ids : Expire(id)

Spec == Init /\ [][Next]_vars

\* Handlers and reader threads are scheduled.  Not assumed: that a call arrives, that
\* time passes, that a command writes or ends, that a pty_write is ever accepted.  A
\* pty_write that blocks keeps a worker thread of the runtime (server.rs:104): the
\* assumption holds while fewer of them are stuck than there are workers.
Fairness ==
  /\ \A c \in Calls : WF_vars(Managing(c)) /\ WF_vars(Spawning(c)) /\ WF_vars(Reading(c))
                      /\ WF_vars(tool[c] = "status" /\ UseSession(c))
  /\ \A s \in Calls : WF_vars(Reader(s))

FairSpec == Spec /\ Fairness

-----------------------------------------------------------------------------
(* Safety.                                                                 *)

Labels == {"idle", "cleanup", "insert", "check", "take", "fork", "store", "setRunning",
           "setStatus", "copy", "copying", "clear", "use", "listing", "done"}
Replies == {"none", "created", "refused", "notFound", "invalid", "busy", "consumed", "failed",
            "spawned", "output", "used", "error", "killed", "listed"}
\* A handler of pty_spawn that has the slave of its session, or a command on it.
PastTake == {"fork", "store", "setRunning", "setStatus"}
HoldsSession == PastTake \cup {"check", "take", "copy", "copying", "clear", "use"}

ManagerType ==
  /\ sessions \in [Ids -> Calls \cup {NoSession}]
  /\ expired \in [Ids -> BOOLEAN]
CallType ==
  /\ pc \in [Calls -> Labels]
  /\ tool \in [Calls -> AllTools \cup {"none"}]
  /\ sid \in [Calls -> Ids]
  /\ target \in [Calls -> Calls \cup {NoSession}]
  /\ got \in [Calls -> SUBSET Chunks]
  /\ todo \in [Calls -> SUBSET Ids]
  /\ reply \in [Calls -> Replies]
ObjectType ==
  /\ slave \in [Calls -> {"absent", "held", "spent"}]
  /\ child \in [Calls -> BOOLEAN]
  /\ running \in [Calls -> BOOLEAN]
  /\ status \in [Calls -> {"idle", "running", "exited"}]
  /\ process \in [Calls -> {"none", "alive", "detached", "dead"}]
  /\ reader \in [Calls -> {"none", "reading", "waiting", "clearing", "recording", "done"}]
  /\ emitted \in [Calls -> 0 .. MaxOutput]
  /\ taken \in [Calls -> 0 .. MaxOutput]
  /\ buffer \in [Calls -> SUBSET Chunks]
  /\ delivered \in [Calls -> SUBSET Chunks]
  /\ \A s \in Calls : taken[s] <= emitted[s]

BufferBehind == \A s \in Calls : buffer[s] \subseteq 1 .. taken[s]

\* Every variable has its type, the reader thread is never ahead of the command, and the
\* buffer never ahead of the reader thread.
TypeOK == ManagerType /\ CallType /\ ObjectType /\ BufferBehind

\* The manager never holds more than max_sessions sessions (session.rs:70), whatever the
\* interleaving of creations, removals and expiries.
SessionLimit == Cardinality(Open) <= MaxSessions

\* At most one call ever gets a command of its own on a session object, however many
\* pty_spawn calls pass the running check at the same time (session.rs:644-676).
GotCommand(c) == pc[c] \in PastTake \/ reply[c] = "spawned"
SpawnedOnce == \A c, d \in Calls : GotCommand(c) /\ GotCommand(d) /\ target[c] = target[d] => c = d

\* A session that says it is running has had a command and keeps its handle; a spawn that
\* fails half-way never leaves it marked (session.rs:679-701).
RunningHasChild ==
  \A s \in Calls : running[s] \/ status[s] = "running" => child[s] /\ process[s] # "none"

\* Once the reader thread has ended and the pty_spawn that started the command has
\* answered, nothing changes what pty_status says any more: no later pty_spawn revives
\* the session.
Ended(s) == reader[s] = "done" /\ \E c \in Calls : target[c] = s /\ reply[c] = "spawned"
KeepsEnded == \A s \in Calls : Ended(s) => UNCHANGED <<running[s], status[s]>>
ExitFinal == [][KeepsEnded]_vars

\* Output the reader thread has taken that is in no reply and no longer in the buffer.
Lost(s) == 1 .. taken[s] \ (buffer[s] \cup delivered[s])
Busy(s, labels) == \E c \in Calls : target[c] = s /\ pc[c] \in labels

\* In this step the oldest chunk k made room for a new one: with what came after it, it
\* would not fit.
Evicted(s, k) ==
  /\ k \in buffer[s] /\ \A j \in buffer'[s] : k < j
  /\ taken'[s] = taken[s] + 1 /\ taken'[s] \in buffer'[s]
  /\ {j \in buffer[s] : j >= k} \cup {taken'[s]} \notin Fits

\* Output is lost only in the window of a pty_read or at the limit of the buffer: a new
\* chunk while one copies or clears the buffer, a chunk of the buffer while one that
\* clears has copied it before, or the oldest chunk when a newer one needs its room
\* (server.rs:127-132, session.rs:614-617, 373-380).
LossExplained ==
  [][\A s \in Calls : \A k \in Lost(s)' \ Lost(s) :
       \/ Busy(s, IF k \in buffer[s] THEN {"clear"} ELSE {"copying", "clear"})
       \/ Evicted(s, k)]_vars

-----------------------------------------------------------------------------
(* Liveness, under FairSpec.                                               *)

\* Every call but a pty_write is answered: no handler waits for ever, neither for the
\* lock the reader thread holds while it waits for the command nor for other calls.
CallsEnd == \A c \in Calls : (pc[c] # "idle" /\ tool[c] # "write") ~> (pc[c] = "done")

\* No reader thread outlives its session: it ends once the command is gone or there was
\* none and nobody can start one.
ReaderEnds ==
  \A s \in Calls :
    (slave[s] # "absent" /\ ~TtyOpen(s) /\ process[s] \in {"none", "dead"}) ~> (reader[s] = "done")

\* An exit that comes after the pty_spawn was answered is recorded for good.
ExitRecorded ==
  \A s \in Calls :
    (process[s] = "dead" /\ reader[s] = "reading"
       /\ \E c \in Calls : target[c] = s /\ reply[c] = "spawned")
      ~> [](status[s] = "exited" /\ ~running[s])

\* pty_status tells whether the session is running or exited (tools.rs:176).  Violated:
\* when the command ends before spawn() sets the flags, the reader thread's record is
\* overwritten and the session says Running for ever.
ExitSeen ==
  \A s \in Calls : (process[s] = "dead" /\ reader[s] = "reading") ~> [](status[s] = "exited")
=============================================================================
