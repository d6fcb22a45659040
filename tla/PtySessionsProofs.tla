-------------------------- MODULE PtySessionsProofs --------------------------
(***************************************************************************)
(* Proofs about PtySessions, for every set of tool calls and identifiers,  *)
(* every limit, and every selection of tools and faults.                   *)
(***************************************************************************)
EXTENDS PtySessions, FiniteSetTheorems, TLAPS

USE DEF Goto, Answer, Call, Forget

-----------------------------------------------------------------------------
(* Type correctness.                                                       *)

\* A handler at a step that uses a session object holds one.
HeldInv == \A c \in Calls : pc[c] \in HoldsSession => target[c] \in Calls

TypeInv == TypeOK /\ HeldInv

LEMMA InitType == Init => TypeInv
BY MaxOutputNat DEF Init, TypeInv, TypeOK, ManagerType, CallType, ObjectType, BufferBehind, HeldInv,
    Labels, Replies, HoldsSession, PastTake, Chunks

LEMMA ManagerNext ==
  ASSUME TypeInv, Next PROVE ManagerType'
<1> USE DEF TypeInv, TypeOK, ManagerType
<1>1. \A ids : Forget(ids) => ManagerType'
  OBVIOUS
<1>2. CASE UNCHANGED managerVars
  BY <1>2 DEF managerVars
<1>3. ASSUME NEW c \in Calls, Insert(c) PROVE ManagerType'
  BY <1>3 DEF Insert
<1>4. ASSUME NEW id \in Ids, Expire(id) PROVE ManagerType'
  BY <1>4 DEF Expire
<1>5. ASSUME NEW c \in Calls, Arrival(c) PROVE ManagerType' \/ UNCHANGED managerVars
  BY <1>1, <1>5 DEF Arrival, CallCreate, Get, GetFor, Kill, CallList
<1>6. ASSUME NEW c \in Calls, Managing(c) PROVE ManagerType' \/ UNCHANGED managerVars
  BY <1>1, <1>3, <1>6 DEF Managing, CleanupExpired, InsertRefused, ListNext, ListEnds
<1>7. ASSUME NEW c \in Calls, Spawning(c) PROVE UNCHANGED managerVars
  BY <1>7 DEF Spawning, CheckRunning, TakeSlave, SpawnCommand, StoreChild, SetRunning, SetStatus,
       managerVars
<1>8. ASSUME NEW c \in Calls, Reading(c) \/ UseSession(c) PROVE UNCHANGED managerVars
  BY <1>8 DEF Reading, CopyOutput, CopyEnds, ClearOutput, UseSession, managerVars
<1>9. ASSUME NEW s \in Calls, Command(s) \/ Reader(s) \/ ReaderFails(s) PROVE UNCHANGED managerVars
  BY <1>9 DEF Command, ProcessWrites, ProcessDetaches, ProcessExits, Reader, ReaderReads,
       ReaderEof, ReaderWaited, ReaderClears, ReaderRecords, ReaderFails, managerVars
<1> QED
  BY <1>2, <1>4, <1>5, <1>6, <1>7, <1>8, <1>9 DEF Next

LEMMA CallNext ==
  ASSUME TypeInv, Next PROVE (CallType /\ HeldInv)'
<1> DEFINE P == CallType /\ HeldInv
<1> USE DEF TypeInv, TypeOK, ManagerType, CallType, HeldInv, Labels, Replies, HoldsSession, PastTake
<1>1. CASE UNCHANGED callVars
  BY <1>1 DEF callVars
<1>2. ASSUME NEW c \in Calls, CallCreate(c) PROVE P'
  BY <1>2, ToolsAreTools DEF CallCreate
<1>3. ASSUME NEW c \in Calls, NEW t \in {"spawn", "read", "readClear", "write", "status"}, GetFor(c, t)
      PROVE P'
  <2>1. tool' \in [Calls -> AllTools \cup {"none"}]
    BY <1>3, ToolsAreTools DEF GetFor
  <2>2. CASE sid[c] \in Open /\ ~expired[sid[c]]
    <3>1. sessions[sid[c]] \in Calls
      BY <2>2 DEF Open
    <3>2. target' = [target EXCEPT ![c] = sessions[sid[c]]] /\ pc' = [pc EXCEPT ![c] = After(t)]
          /\ UNCHANGED <<reply, sid, got, todo>>
      BY <1>3, <2>2 DEF GetFor
    <3>3. pc' \in [Calls -> Labels]
      <4>1. After(t) \in Labels
        BY DEF After
      <4> QED
        BY <3>2, <4>1
    <3>4. target' \in [Calls -> Calls \cup {NoSession}]
      BY <3>1, <3>2
    <3>5. HeldInv'
      <4>1. target'[c] \in Calls
        BY <3>1, <3>2
      <4>2. \A d \in Calls \ {c} : pc'[d] = pc[d] /\ target'[d] = target[d]
        BY <3>2
      <4> QED
        BY <4>1, <4>2
    <3>6. sid' = sid /\ got' = got /\ todo' = todo /\ reply' = reply
      BY <3>2
    <3>7. CallType'
      BY <2>1, <3>3, <3>4, <3>6
    <3> QED
      BY <3>5, <3>7
  <2>3. CASE sid[c] \notin Open \/ expired[sid[c]]
    <3>1. \E label \in {"cleanup", "done"} : pc' = [pc EXCEPT ![c] = label]
      BY <1>3, <2>3 DEF GetFor
    <3>2. reply' \in [Calls -> Replies] /\ UNCHANGED <<target, sid, got, todo>>
      BY <1>3, <2>3 DEF GetFor
    <3>3. HeldInv'
      BY <3>1, <3>2
    <3>4. pc' \in [Calls -> Labels] /\ target' = target /\ sid' = sid /\ got' = got /\ todo' = todo
      BY <3>1, <3>2
    <3>5. CallType'
      BY <2>1, <3>2, <3>4
    <3> QED
      BY <3>3, <3>5
  <2> QED
    BY <2>2, <2>3
<1>4. ASSUME NEW c \in Calls, Kill(c) PROVE P'
  <2>1. sid[c] \in Open => sessions[sid[c]] \in Calls
    BY DEF Open
  <2> QED
    BY <1>4, <2>1, ToolsAreTools DEF Kill
<1>5. ASSUME NEW c \in Calls, CallList(c) PROVE P'
  BY <1>5, ToolsAreTools DEF CallList, Open
<1>6. ASSUME NEW c \in Calls, Managing(c) PROVE P'
  <2>1. CASE CleanupExpired(c)
    BY <1>6, <2>1 DEF CleanupExpired
  <2>2. CASE Insert(c)
    BY <1>6, <2>2 DEF Insert
  <2>3. CASE InsertRefused(c)
    BY <1>6, <2>3 DEF InsertRefused
  <2>4. CASE ListNext(c)
    BY <1>6, <2>4 DEF ListNext
  <2>5. CASE ListEnds(c)
    BY <1>6, <2>5 DEF ListEnds
  <2> QED
    BY <1>6, <2>1, <2>2, <2>3, <2>4, <2>5 DEF Managing
<1>7. ASSUME NEW c \in Calls, Spawning(c) PROVE P'
  <2>1. CASE CheckRunning(c)
    BY <2>1 DEF CheckRunning
  <2>2. CASE TakeSlave(c)
    BY <2>2 DEF TakeSlave
  <2>3. CASE SpawnCommand(c)
    BY <2>3 DEF SpawnCommand
  <2>4. CASE StoreChild(c) \/ SetRunning(c) \/ SetStatus(c)
    BY <2>4 DEF StoreChild, SetRunning, SetStatus
  <2> QED
    BY <1>7, <2>1, <2>2, <2>3, <2>4 DEF Spawning
<1>8. ASSUME NEW c \in Calls, Reading(c) PROVE P'
  <2>1. CASE CopyOutput(c)
    BY <2>1 DEF CopyOutput, ObjectType
  <2>2. CASE CopyEnds(c)
    BY <2>2 DEF CopyEnds
  <2>3. CASE ClearOutput(c)
    BY <2>3 DEF ClearOutput
  <2> QED
    BY <1>8, <2>1, <2>2, <2>3 DEF Reading
<1>9. ASSUME NEW c \in Calls, UseSession(c) PROVE P'
  BY <1>9 DEF UseSession
<1>10. ASSUME NEW s \in Calls, Command(s) \/ Reader(s) \/ ReaderFails(s) PROVE UNCHANGED callVars
  BY <1>10 DEF Command, ProcessWrites, ProcessDetaches, ProcessExits, Reader, ReaderReads,
       ReaderEof, ReaderWaited, ReaderClears, ReaderRecords, ReaderFails, callVars
<1>11. ASSUME NEW id \in Ids, Expire(id) PROVE UNCHANGED callVars
  BY <1>11 DEF Expire, callVars
<1> QED
  BY <1>1, <1>2, <1>3, <1>4, <1>5, <1>6, <1>7, <1>8, <1>9, <1>10, <1>11 DEF Next, Arrival, Get

LEMMA ObjectNext ==
  ASSUME TypeInv, Next PROVE ObjectType'
<1> USE DEF TypeInv, TypeOK, ObjectType, flagVars, outputVars
<1>1. CASE UNCHANGED objectVars
  BY <1>1 DEF objectVars
<1>2. ASSUME NEW c \in Calls, Arrival(c) PROVE UNCHANGED objectVars
  BY <1>2 DEF Arrival, CallCreate, Get, GetFor, Kill, CallList, objectVars
<1>3. ASSUME NEW c \in Calls, Managing(c) PROVE ObjectType'
  <2>1. CASE Insert(c)
    BY <2>1 DEF Insert
  <2>2. CASE CleanupExpired(c) \/ InsertRefused(c) \/ ListNext(c) \/ ListEnds(c)
    BY <1>1, <2>2 DEF CleanupExpired, InsertRefused, ListNext, ListEnds, objectVars
  <2> QED
    BY <1>3, <2>1, <2>2 DEF Managing
<1>4. ASSUME NEW c \in Calls, Spawning(c) PROVE ObjectType'
  <2>1. CASE CheckRunning(c)
    BY <1>1, <2>1 DEF CheckRunning, objectVars
  <2>2. CASE TakeSlave(c)
    BY <2>2 DEF TakeSlave
  <2>3. CASE SpawnCommand(c)
    BY <2>3 DEF SpawnCommand
  <2>4. CASE StoreChild(c)
    BY <2>4 DEF StoreChild
  <2>5. CASE SetRunning(c) \/ SetStatus(c)
    BY <2>5 DEF SetRunning, SetStatus
  <2> QED
    BY <1>4, <2>1, <2>2, <2>3, <2>4, <2>5 DEF Spawning
<1>5. ASSUME NEW c \in Calls, Reading(c) \/ UseSession(c) PROVE ObjectType'
  <2>1. CASE CopyOutput(c) \/ UseSession(c)
    BY <1>1, <2>1 DEF CopyOutput, UseSession, objectVars
  <2>2. CASE CopyEnds(c)
    <3>1. \A d \in Calls : got[d] \subseteq Chunks
      BY DEF CallType
    <3> QED
      BY <2>2, <3>1 DEF CopyEnds
  <2>3. CASE ClearOutput(c)
    BY <2>3 DEF ClearOutput
  <2> QED
    BY <1>5, <2>1, <2>2, <2>3 DEF Reading
<1>6. ASSUME NEW s \in Calls, Command(s) PROVE ObjectType'
  <2>1. CASE ProcessWrites(s)
    <3>1. emitted[s] \in 0 .. MaxOutput /\ \A q \in Calls : taken[q] \in 0 .. MaxOutput
      OBVIOUS
    <3>2. emitted' \in [Calls -> 0 .. MaxOutput] /\ \A q \in Calls : taken[q] <= emitted'[q]
      BY <2>1, <3>1, MaxOutputNat DEF ProcessWrites
    <3> QED
      BY <2>1, <3>2 DEF ProcessWrites
  <2>2. CASE ProcessDetaches(s) \/ ProcessExits(s)
    BY <2>2 DEF ProcessDetaches, ProcessExits
  <2> QED
    BY <1>6, <2>1, <2>2 DEF Command
<1>7. ASSUME NEW s \in Calls, Reader(s) \/ ReaderFails(s) PROVE ObjectType'
  <2>1. CASE ReaderReads(s)
    <3>1. taken[s] \in 0 .. MaxOutput /\ emitted[s] \in 0 .. MaxOutput
      OBVIOUS
    <3>2. taken' \in [Calls -> 0 .. MaxOutput] /\ \A q \in Calls : taken'[q] <= emitted[q]
      BY <2>1, <3>1, MaxOutputNat DEF ReaderReads
    <3>3. taken[s] + 1 \in Chunks
      BY <2>1, <3>1, MaxOutputNat DEF ReaderReads, Chunks
    <3>4. buffer' \in [Calls -> SUBSET Chunks]
      <4>1. Newest(buffer[s] \cup {taken[s] + 1}) \subseteq Chunks
        BY <3>3 DEF Newest
      <4> QED
        BY <2>1, <4>1 DEF ReaderReads
    <3> QED
      BY <2>1, <3>2, <3>4 DEF ReaderReads
  <2>2. CASE ReaderEof(s) \/ ReaderWaited(s) \/ ReaderFails(s)
    BY <2>2 DEF ReaderEof, ReaderWaited, ReaderFails
  <2>3. CASE ReaderClears(s) \/ ReaderRecords(s)
    BY <2>3 DEF ReaderClears, ReaderRecords
  <2> QED
    BY <1>7, <2>1, <2>2, <2>3 DEF Reader
<1>8. ASSUME NEW id \in Ids, Expire(id) PROVE UNCHANGED objectVars
  BY <1>8 DEF Expire, objectVars
<1> QED
  BY <1>1, <1>2, <1>3, <1>4, <1>5, <1>6, <1>7, <1>8 DEF Next

\* Chunks are taken and stored by the reader thread, delivered when a copy ends, and
\* cleared by a pty_read.
LEMMA OutputWriters ==
  ASSUME TypeInv, [Next]_vars, NEW s \in Calls
  PROVE  \/ UNCHANGED <<taken[s], buffer[s], delivered[s]>>
         \/ ReaderReads(s)
         \/ \E c \in Calls : target[c] = s /\ (CopyEnds(c) \/ ClearOutput(c))
<1> USE DEF TypeInv, TypeOK, ObjectType, outputVars, objectVars
<1>1. CASE UNCHANGED <<taken, buffer, delivered>>
  BY <1>1
<1>2. ASSUME NEW c \in Calls, Arrival(c) \/ Managing(c) \/ UseSession(c) \/ CopyOutput(c)
      PROVE UNCHANGED <<taken, buffer, delivered>>
  BY <1>2 DEF Arrival, CallCreate, Get, GetFor, Kill, CallList, Managing, CleanupExpired, Insert,
       InsertRefused, ListNext, ListEnds, CopyOutput, UseSession
<1>3. ASSUME NEW c \in Calls, Spawning(c) PROVE UNCHANGED <<taken, buffer, delivered>>
  BY <1>3 DEF Spawning, CheckRunning, TakeSlave, SpawnCommand, StoreChild, SetRunning, SetStatus
<1>4. ASSUME NEW c \in Calls, CopyEnds(c) \/ ClearOutput(c)
      PROVE target[c] = s \/ UNCHANGED <<taken[s], buffer[s], delivered[s]>>
  BY <1>4 DEF CopyEnds, ClearOutput
<1>5. ASSUME NEW q \in Calls, ReaderReads(q)
      PROVE q = s \/ UNCHANGED <<taken[s], buffer[s], delivered[s]>>
  BY <1>5 DEF ReaderReads
<1>6. ASSUME NEW q \in Calls,
             \/ ReaderEof(q) \/ ReaderWaited(q) \/ ReaderClears(q) \/ ReaderRecords(q)
             \/ ReaderFails(q) \/ Command(q)
      PROVE UNCHANGED <<taken, buffer, delivered>>
  BY <1>6 DEF ReaderEof, ReaderWaited, ReaderClears, ReaderRecords, ReaderFails, Command,
       ProcessWrites, ProcessDetaches, ProcessExits
<1>7. ASSUME NEW id \in Ids, Expire(id) PROVE UNCHANGED <<taken, buffer, delivered>>
  BY <1>7 DEF Expire
<1>8. CASE UNCHANGED vars
  BY <1>1, <1>8 DEF vars
<1> QED
  BY <1>1, <1>2, <1>3, <1>4, <1>5, <1>6, <1>7, <1>8 DEF Next, Reading, Reader

\* The buffer stays behind the reader thread.
LEMMA BufferNext == ASSUME TypeInv, [Next]_vars PROVE BufferBehind'
<1> SUFFICES ASSUME NEW s \in Calls PROVE buffer'[s] \subseteq 1 .. taken'[s]
  BY DEF BufferBehind
<1>1. /\ taken \in [Calls -> 0 .. MaxOutput] /\ taken[s] \in Nat
      /\ buffer \in [Calls -> SUBSET Chunks] /\ buffer[s] \subseteq 1 .. taken[s]
  BY MaxOutputNat DEF TypeInv, TypeOK, ObjectType, BufferBehind
<1>2. CASE UNCHANGED <<taken[s], buffer[s], delivered[s]>>
  BY <1>1, <1>2
<1>3. CASE ReaderReads(s)
  <2>1. taken'[s] = taken[s] + 1
    BY <1>1, <1>3 DEF ReaderReads
  <2>2. buffer'[s] \subseteq buffer[s] \cup {taken[s] + 1}
    BY <1>1, <1>3 DEF ReaderReads, Newest
  <2> QED
    BY <1>1, <2>1, <2>2
<1>4. ASSUME NEW c \in Calls, target[c] = s, CopyEnds(c) \/ ClearOutput(c)
      PROVE taken' = taken /\ buffer'[s] \subseteq buffer[s]
  BY <1>1, <1>4 DEF CopyEnds, ClearOutput
<1> QED
  BY <1>1, <1>2, <1>3, <1>4, OutputWriters

LEMMA NextType == TypeInv /\ [Next]_vars => TypeInv'
<1>1. TypeInv /\ UNCHANGED vars => TypeInv'
  BY DEF vars, managerVars, callVars, objectVars, flagVars, outputVars, TypeInv, TypeOK,
     ManagerType, CallType, ObjectType, BufferBehind, HeldInv
<1>2. TypeInv /\ Next => TypeInv'
  BY ManagerNext, CallNext, ObjectNext, BufferNext DEF TypeInv, TypeOK
<1> QED
  BY <1>1, <1>2

\* The variables keep their types, and a reader thread never overtakes its command.
THEOREM TypeCorrect == Spec => []TypeOK
<1>1. Init => TypeInv
  BY InitType
<1>2. TypeInv /\ [Next]_vars => TypeInv'
  BY NextType
<1>3. TypeInv => TypeOK
  BY DEF TypeInv
<1> QED
  BY <1>1, <1>2, <1>3, PTL DEF Spec
-----------------------------------------------------------------------------
(* The life of a session object: one slave, one command.                   *)

\* Only a call past its insertion names an object, and only existing objects are held
\* by a handler or by the map.
ObjectInv ==
  /\ \A c \in Calls : slave[c] # "absent" => pc[c] \notin {"idle", "cleanup", "insert"}
  /\ \A c \in Calls : target[c] \in Calls => slave[target[c]] # "absent"
  /\ \A id \in Ids : sessions[id] \in Calls => slave[sessions[id]] # "absent"
  /\ \A c \in Calls : reply[c] # "none" => pc[c] = "done"

\* A call that got a command has spent the slave of its object, for itself alone.
SlaveInv ==
  /\ \A c \in Calls : GotCommand(c) => target[c] \in Calls /\ slave[target[c]] = "spent"
  /\ SpawnedOnce

\* How far the command of a call has come.
CommandInv ==
  /\ \A c \in Calls : pc[c] = "store" => process[target[c]] # "none"
  /\ \A c \in Calls : pc[c] \in {"setRunning", "setStatus"} \/ reply[c] = "spawned" =>
       child[target[c]] /\ process[target[c]] # "none"
  /\ RunningHasChild

LifeInv == ObjectInv /\ SlaveInv /\ CommandInv

LEMMA InitLife == Init => LifeInv
BY NoSessionIsNone
DEF Init, LifeInv, ObjectInv, SlaveInv, CommandInv, SpawnedOnce, RunningHasChild, GotCommand, PastTake

\* A step of a handler outside spawn(): it may take hold of an object, it may empty entries
\* of the map, and it neither gets a command nor claims to have one.
Bystander(c) ==
  /\ \A d \in Calls \ {c} : pc'[d] = pc[d] /\ reply'[d] = reply[d] /\ target'[d] = target[d]
  /\ pc'[c] \notin PastTake /\ reply'[c] # "spawned"
  /\ pc'[c] \in {"idle", "cleanup", "insert"} => slave[c] = "absent"
  /\ target'[c] \in Calls => slave[target'[c]] # "absent"
  /\ reply'[c] # "none" => pc'[c] = "done"
  /\ \A id \in Ids : sessions'[id] \in {sessions[id], NoSession}
  /\ UNCHANGED <<slave, child, running, status, process>>

LEMMA BystanderKeepsLife ==
  ASSUME LifeInv, NEW c \in Calls, Bystander(c) PROVE LifeInv'
<1> USE NoSessionIsNone DEF Bystander, LifeInv, GotCommand, PastTake
<1>1. ObjectInv'
  BY DEF ObjectInv
<1>2. SlaveInv'
  BY DEF SlaveInv, SpawnedOnce
<1>3. CommandInv'
  BY DEF CommandInv, RunningHasChild
<1> QED
  BY <1>1, <1>2, <1>3

LEMMA NextLife == ASSUME TypeInv, LifeInv, [Next]_vars PROVE LifeInv'
<1> USE NoSessionIsNone DEF LifeInv, ObjectInv, SlaveInv, CommandInv, SpawnedOnce, RunningHasChild,
      GotCommand, PastTake, HoldsSession, TypeInv, TypeOK, ManagerType, CallType, ObjectType, HeldInv,
      objectVars, managerVars, callVars, flagVars, outputVars
<1>1. CASE UNCHANGED vars
  BY <1>1 DEF vars
<1>2. ASSUME NEW c \in Calls, Arrival(c) PROVE LifeInv'
  <2>1. CASE CallCreate(c)
    <3>1. Bystander(c)
      BY <2>1 DEF CallCreate, Bystander
    <3> QED
      BY <3>1, BystanderKeepsLife
  <2>2. ASSUME NEW t \in {"spawn", "read", "readClear", "write", "status"}, GetFor(c, t) PROVE LifeInv'
    <3>1. slave[c] = "absent" /\ reply[c] = "none"
      BY <2>2 DEF GetFor
    <3>2. CASE sid[c] \in Open /\ ~expired[sid[c]]
      <4>1. /\ target' = [target EXCEPT ![c] = sessions[sid[c]]]
            /\ sessions[sid[c]] \in Calls /\ slave[sessions[sid[c]]] # "absent"
            /\ pc' = [pc EXCEPT ![c] = After(t)]
            /\ UNCHANGED <<sessions, reply, objectVars>>
        BY <2>2, <3>2 DEF GetFor, Open
      <4>2. After(t) \in {"check", "copy", "use"}
        BY DEF After
      <4>3. Bystander(c)
        BY <3>1, <4>1, <4>2 DEF Bystander
      <4> QED
        BY <4>3, BystanderKeepsLife
    <3>3. CASE sid[c] \notin Open \/ expired[sid[c]]
      <4>1. /\ UNCHANGED <<target, objectVars>>
            /\ \A id \in Ids : sessions'[id] \in {sessions[id], NoSession}
        BY <2>2, <3>3 DEF GetFor
      <4>2. \/ pc' = [pc EXCEPT ![c] = "cleanup"] /\ reply' = reply
            \/ pc' = [pc EXCEPT ![c] = "done"] /\ reply' = [reply EXCEPT ![c] = "notFound"]
        BY <2>2, <3>3 DEF GetFor
      <4>3. Bystander(c)
        BY <3>1, <4>1, <4>2 DEF Bystander
      <4> QED
        BY <4>3, BystanderKeepsLife
    <3> QED
      BY <2>2, <3>2, <3>3 DEF GetFor
  <2>3. CASE Kill(c)
    <3>1. sid[c] \in Open => sessions[sid[c]] \in Calls /\ slave[sessions[sid[c]]] # "absent"
      BY DEF Open
    <3>2. /\ UNCHANGED objectVars
          /\ \A id \in Ids : sessions'[id] \in {sessions[id], NoSession}
      BY <2>3 DEF Kill
    <3>3. /\ pc' = [pc EXCEPT ![c] = "done"]
          /\ \E w \in {"killed", "notFound"} : reply' = [reply EXCEPT ![c] = w]
      BY <2>3 DEF Kill
    <3>4. /\ \A d \in Calls \ {c} : target'[d] = target[d]
          /\ target'[c] \in Calls => slave[target'[c]] # "absent"
      BY <2>3, <3>1 DEF Kill
    <3>5. Bystander(c)
      BY <3>2, <3>3, <3>4 DEF Bystander
    <3> QED
      BY <3>5, BystanderKeepsLife
  <2>4. CASE CallList(c)
    BY <2>4 DEF CallList
  <2> QED
    BY <1>2, <2>1, <2>2, <2>3, <2>4 DEF Arrival, Get
<1>3. ASSUME NEW c \in Calls, Managing(c) PROVE LifeInv'
  <2>1. CASE CleanupExpired(c)
    BY <2>1 DEF CleanupExpired
  <2>2. CASE Insert(c)
    <3>1. ObjectInv'
      <4>1. /\ slave' = [slave EXCEPT ![c] = "held"] /\ target' = [target EXCEPT ![c] = c]
            /\ sessions' = [sessions EXCEPT ![sid[c]] = c]
        BY <2>2 DEF Insert
      <4>2. pc[c] = "insert" /\ reply[c] = "none"
        BY <2>2 DEF Insert
      <4>3. \/ pc' = [pc EXCEPT ![c] = "done"] /\ reply' = [reply EXCEPT ![c] = "created"]
            \/ pc' = [pc EXCEPT ![c] = "check"] /\ reply' = reply
        BY <2>2 DEF Insert
      <4> QED
        BY <4>1, <4>2, <4>3
    <3>2. SlaveInv'
      BY <2>2, SMTT(30) DEF Insert
    <3>3. CommandInv'
      BY <2>2, SMTT(30) DEF Insert
    <3> QED
      BY <3>1, <3>2, <3>3
  <2>3. CASE InsertRefused(c)
    BY <2>3 DEF InsertRefused
  <2>4. CASE ListNext(c)
    BY <2>4, SMTT(30) DEF ListNext
  <2>5. CASE ListEnds(c)
    BY <2>5 DEF ListEnds
  <2> QED
    BY <1>3, <2>1, <2>2, <2>3, <2>4, <2>5 DEF Managing
<1>4. ASSUME NEW c \in Calls, Spawning(c) PROVE LifeInv'
  <2>1. CASE CheckRunning(c)
    <3>1. Bystander(c)
      BY <2>1 DEF CheckRunning, Bystander
    <3> QED
      BY <3>1, BystanderKeepsLife
  <2>2. CASE TakeSlave(c)
    <3>1. ObjectInv'
      BY <2>2, SMTT(30) DEF TakeSlave
    <3>2. SlaveInv'
      BY <2>2, SMTT(30) DEF TakeSlave
    <3>3. CommandInv'
      BY <2>2 DEF TakeSlave
    <3> QED
      BY <3>1, <3>2, <3>3
  <2>3. CASE SpawnCommand(c)
    <3>1. ObjectInv'
      BY <2>3 DEF SpawnCommand
    <3>2. SlaveInv'
      BY <2>3 DEF SpawnCommand
    <3>3. CommandInv'
      BY <2>3 DEF SpawnCommand
    <3> QED
      BY <3>1, <3>2, <3>3
  <2>4. CASE StoreChild(c)
    <3>1. ObjectInv'
      BY <2>4 DEF StoreChild
    <3>2. SlaveInv'
      BY <2>4 DEF StoreChild
    <3>3. CommandInv'
      BY <2>4 DEF StoreChild
    <3> QED
      BY <3>1, <3>2, <3>3
  <2>5. CASE SetRunning(c)
    <3>1. ObjectInv'
      BY <2>5 DEF SetRunning
    <3>2. SlaveInv'
      BY <2>5 DEF SetRunning
    <3>3. CommandInv'
      BY <2>5 DEF SetRunning
    <3> QED
      BY <3>1, <3>2, <3>3
  <2>6. CASE SetStatus(c)
    <3>1. ObjectInv'
      BY <2>6 DEF SetStatus
    <3>2. SlaveInv'
      BY <2>6 DEF SetStatus
    <3>3. CommandInv'
      BY <2>6 DEF SetStatus
    <3> QED
      BY <3>1, <3>2, <3>3
  <2> QED
    BY <1>4, <2>1, <2>2, <2>3, <2>4, <2>5, <2>6 DEF Spawning
<1>5. ASSUME NEW c \in Calls, Reading(c) PROVE LifeInv'
  <2>1. CASE CopyOutput(c)
    <3>1. Bystander(c)
      BY <2>1 DEF CopyOutput, Bystander
    <3> QED
      BY <3>1, BystanderKeepsLife
  <2>2. CASE CopyEnds(c)
    <3>1. Bystander(c)
      BY <2>2 DEF CopyEnds, Bystander
    <3> QED
      BY <3>1, BystanderKeepsLife
  <2>3. CASE ClearOutput(c)
    BY <2>3 DEF ClearOutput
  <2> QED
    BY <1>5, <2>1, <2>2, <2>3 DEF Reading
<1>6. ASSUME NEW c \in Calls, UseSession(c) PROVE LifeInv'
  BY <1>6 DEF UseSession
<1>7. ASSUME NEW s \in Calls, Command(s) PROVE LifeInv'
  BY <1>7 DEF Command, ProcessWrites, ProcessDetaches, ProcessExits
<1>8. ASSUME NEW s \in Calls, Reader(s) \/ ReaderFails(s) PROVE LifeInv'
  <2>1. CASE ReaderClears(s)
    BY <2>1 DEF ReaderClears
  <2>2. CASE ReaderRecords(s)
    BY <2>2 DEF ReaderRecords
  <2>3. CASE ReaderReads(s) \/ ReaderEof(s) \/ ReaderWaited(s) \/ ReaderFails(s)
    BY <2>3 DEF ReaderReads, ReaderEof, ReaderWaited, ReaderFails
  <2> QED
    BY <1>8, <2>1, <2>2, <2>3 DEF Reader
<1>9. ASSUME NEW id \in Ids, Expire(id) PROVE LifeInv'
  BY <1>9 DEF Expire
<1> QED
  BY <1>1, <1>2, <1>3, <1>4, <1>5, <1>6, <1>7, <1>8, <1>9 DEF Next

LEMMA LifeCorrect == Spec => [](TypeInv /\ LifeInv)
<1>1. Init => TypeInv /\ LifeInv
  BY InitType, InitLife
<1>2. TypeInv /\ LifeInv /\ [Next]_vars => (TypeInv /\ LifeInv)'
  BY NextType, NextLife
<1> QED
  BY <1>1, <1>2, PTL DEF Spec

\* At most one call ever gets a command on a session object.
THEOREM OneCommandPerSession == Spec => []SpawnedOnce
<1>1. TypeInv /\ LifeInv => SpawnedOnce
  BY DEF LifeInv, SlaveInv
<1> QED
  BY <1>1, LifeCorrect, PTL

\* A session marked as running has had a command and keeps its handle.
THEOREM RunningAlwaysHasChild == Spec => []RunningHasChild
<1>1. TypeInv /\ LifeInv => RunningHasChild
  BY DEF LifeInv, CommandInv
<1> QED
  BY <1>1, LifeCorrect, PTL

-----------------------------------------------------------------------------
(* An end that was recorded stays recorded.                                *)

\* The flags change only by the reader thread before its end, and by a call that has a
\* command on the object and was not answered yet.
LEMMA FlagWriters ==
  ASSUME TypeInv, [Next]_vars, NEW s \in Calls, ~ UNCHANGED <<running[s], status[s]>>
  PROVE  \/ reader[s] # "done"
         \/ \E c \in Calls : target[c] = s /\ pc[c] \in {"setRunning", "setStatus"}
<1> USE DEF TypeInv, TypeOK, ObjectType, flagVars, objectVars
<1>1. CASE UNCHANGED <<running, status>>
  BY <1>1
<1>2. ASSUME NEW c \in Calls, Arrival(c) \/ Managing(c) \/ Reading(c) \/ UseSession(c)
      PROVE UNCHANGED <<running, status>>
  BY <1>2 DEF Arrival, CallCreate, Get, GetFor, Kill, CallList, Managing, CleanupExpired, Insert,
       InsertRefused, ListNext, ListEnds, Reading, CopyOutput, CopyEnds, ClearOutput, UseSession
<1>3. ASSUME NEW c \in Calls, Spawning(c)
      PROVE (target[c] = s /\ pc[c] \in {"setRunning", "setStatus"}) \/ UNCHANGED <<running[s], status[s]>>
  BY <1>3 DEF Spawning, CheckRunning, TakeSlave, SpawnCommand, StoreChild, SetRunning, SetStatus
<1>4. ASSUME NEW q \in Calls, Reader(q) \/ ReaderFails(q) \/ Command(q)
      PROVE reader[s] # "done" \/ UNCHANGED <<running[s], status[s]>>
  BY <1>4 DEF Reader, ReaderReads, ReaderEof, ReaderWaited, ReaderClears, ReaderRecords, ReaderFails,
       Command, ProcessWrites, ProcessDetaches, ProcessExits
<1>5. ASSUME NEW id \in Ids, Expire(id) PROVE UNCHANGED <<running, status>>
  BY <1>5 DEF Expire
<1>6. CASE UNCHANGED vars
  BY <1>1, <1>6 DEF vars
<1> QED
  BY <1>1, <1>2, <1>3, <1>4, <1>5, <1>6 DEF Next

\* Once the reader thread has ended and the spawning call was answered, the answer of
\* pty_status is final.
THEOREM ExitIsFinal == Spec => ExitFinal
<1>1. TypeInv /\ LifeInv /\ [Next]_vars => [KeepsEnded]_vars
  <2> SUFFICES ASSUME TypeInv, LifeInv, [Next]_vars, NEW s \in Calls, Ended(s),
                      ~ UNCHANGED <<running[s], status[s]>>
               PROVE  FALSE
    BY DEF KeepsEnded
  <2>1. PICK c \in Calls : target[c] = s /\ pc[c] \in {"setRunning", "setStatus"}
    BY FlagWriters DEF Ended
  <2>2. PICK d \in Calls : target[d] = s /\ reply[d] = "spawned"
    BY DEF Ended
  <2>3. pc[d] = "done"
    BY <2>2 DEF LifeInv, ObjectInv
  <2>4. c = d
    BY <2>1, <2>2 DEF LifeInv, SlaveInv, SpawnedOnce, GotCommand, PastTake
  <2> QED
    BY <2>1, <2>3, <2>4
<1> QED
  BY <1>1, LifeCorrect, PTL DEF ExitFinal, Spec

-----------------------------------------------------------------------------
(* The loss of output.                                                     *)

\* Why a session may lose a chunk in a step.
Explained(s, k) ==
  \/ Busy(s, IF k \in buffer[s] THEN {"clear"} ELSE {"copying", "clear"})
  \/ Evicted(s, k)
LossesExplained == \A s \in Calls : \A k \in Lost(s)' \ Lost(s) : Explained(s, k)

\* What append() keeps is the new chunk and the newest of the others, and what it evicts
\* is older and has no room.
LEMMA NewestKeeps ==
  ASSUME NEW n \in Chunks, NEW old \in SUBSET (1 .. (n - 1))
  PROVE  /\ n \in Newest(old \cup {n})
         /\ \A k \in old \ Newest(old \cup {n}) :
              /\ {j \in old : j >= k} \cup {n} \notin Fits
              /\ \A j \in Newest(old \cup {n}) : k < j
<1> DEFINE all == old \cup {n}
           From(k) == {j \in all : j >= k}
<1>1. /\ n \in Nat /\ old \subseteq Nat /\ all \subseteq Nat
      /\ \A k \in old : k < n
  BY MaxOutputNat DEF Chunks
<1>2. From(n) = {n}
  <2>1. \A j \in all : j >= n <=> j = n
    BY <1>1
  <2>2. n \in all
    OBVIOUS
  <2> QED
    BY <2>1, <2>2
<1>3. n \in Newest(all)
  <2>1. {n} \in Fits /\ n \in all
    BY FitsAssumption
  <2> QED
    BY <1>2, <2>1 DEF Newest
<1>4. ASSUME NEW k \in old, k \notin Newest(all)
      PROVE  {j \in old : j >= k} \cup {n} \notin Fits /\ \A j \in Newest(all) : k < j
  <2>1. From(k) \notin Fits
    BY <1>4 DEF Newest
  <2>2. From(k) = {j \in old : j >= k} \cup {n}
    BY <1>1
  <2>3. ASSUME NEW j \in Newest(all), ~ (k < j) PROVE FALSE
    <3>1. j \in all /\ From(j) \in Fits
      BY <2>3 DEF Newest
    <3>2. From(k) \subseteq From(j)
      <4>1. j <= k
        BY <1>1, <2>3, <3>1
      <4>2. \A i \in all : i >= k => i >= j
        BY <1>1, <3>1, <4>1
      <4> QED
        BY <4>2
    <3> HIDE DEF From
    <3> QED
      BY <2>1, <3>1, <3>2, FitsAssumption
  <2> QED
    BY <2>1, <2>2, <2>3
<1> QED
  BY <1>3, <1>4

\* Output is lost only in the window of a pty_read or at the limit of the buffer: a new
\* chunk while a handler copies or clears the buffer, a chunk of the buffer while one
\* clears it, the oldest chunk when a newer one needs its room (get_output, clear_output,
\* the reader thread's try_write and append).
THEOREM LossAlwaysExplained == Spec => LossExplained
<1>1. TypeInv /\ [Next]_vars => [LossesExplained]_vars
  <2> SUFFICES ASSUME TypeInv, [Next]_vars, NEW s \in Calls, NEW k \in Lost(s)' \ Lost(s)
               PROVE  Explained(s, k)
    BY DEF LossesExplained
  <2>1. /\ taken \in [Calls -> 0 .. MaxOutput] /\ taken[s] \in Nat
        /\ buffer \in [Calls -> SUBSET Chunks] /\ delivered \in [Calls -> SUBSET Chunks]
        /\ buffer[s] \subseteq 1 .. taken[s]
    BY MaxOutputNat DEF TypeInv, TypeOK, ObjectType, BufferBehind
  <2>2. k \in 1 .. taken'[s] /\ k \notin buffer'[s] /\ k \notin delivered'[s]
    BY DEF Lost
  <2>3. k \in 1 .. taken[s] => k \in buffer[s] \/ k \in delivered[s]
    BY DEF Lost
  <2>4. CASE UNCHANGED <<taken[s], buffer[s], delivered[s]>>
    BY <2>2, <2>3, <2>4
  <2>5. CASE ReaderReads(s)
    <3> DEFINE n == taken[s] + 1
    <3>1. taken'[s] = n /\ UNCHANGED delivered
      BY <2>1, <2>5 DEF ReaderReads
    <3>2. n \in Chunks
      BY <2>1, <2>5, MaxOutputNat DEF ReaderReads, TypeInv, TypeOK, ObjectType, Chunks
    <3>3. CASE buffer' = [buffer EXCEPT ![s] = Newest(@ \cup {taken[s] + 1})]
      <4>1. buffer'[s] = Newest(buffer[s] \cup {n})
        BY <2>1, <3>3
      <4>2. buffer[s] \in SUBSET (1 .. (n - 1))
        BY <2>1
      <4>3. /\ n \in Newest(buffer[s] \cup {n})
            /\ \A j \in buffer[s] \ Newest(buffer[s] \cup {n}) :
                 /\ {i \in buffer[s] : i >= j} \cup {n} \notin Fits
                 /\ \A i \in Newest(buffer[s] \cup {n}) : j < i
        BY <3>2, <4>2, NewestKeeps
      <4>4. k \in buffer[s]
        <5>1. k # n
          BY <2>2, <4>1, <4>3
        <5>2. k \in 1 .. taken[s]
          BY <2>1, <2>2, <3>1, <5>1
        <5> QED
          BY <2>2, <2>3, <3>1, <5>2
      <4>5. Evicted(s, k)
        BY <2>2, <3>1, <4>1, <4>3, <4>4 DEF Evicted
      <4> QED
        BY <4>5 DEF Explained
    <3>4. CASE /\ \E c \in Calls : target[c] = s /\ pc[c] \in {"copying", "clear"}
               /\ UNCHANGED buffer
      <4>1. k \notin buffer[s]
        BY <2>2, <3>4
      <4> QED
        BY <3>4, <4>1 DEF Explained, Busy
    <3> QED
      BY <2>5, <3>3, <3>4 DEF ReaderReads
  <2>6. ASSUME NEW c \in Calls, target[c] = s, CopyEnds(c) PROVE FALSE
    <3>1. UNCHANGED <<taken, buffer>> /\ delivered'[s] = delivered[s] \cup got[c]
      BY <2>1, <2>6 DEF CopyEnds
    <3> QED
      BY <2>2, <2>3, <3>1
  <2>7. ASSUME NEW c \in Calls, target[c] = s, ClearOutput(c) PROVE Explained(s, k)
    <3>1. Busy(s, {"clear"}) /\ Busy(s, {"copying", "clear"})
      BY <2>7 DEF ClearOutput, Busy
    <3> QED
      BY <3>1 DEF Explained
  <2> QED
    BY <2>4, <2>5, <2>6, <2>7, OutputWriters
<1>2. [LossesExplained]_vars <=>
        [\A s \in Calls : \A k \in Lost(s)' \ Lost(s) :
           \/ Busy(s, IF k \in buffer[s] THEN {"clear"} ELSE {"copying", "clear"})
           \/ Evicted(s, k)]_vars
  BY DEF LossesExplained, Explained
<1> QED
  BY <1>1, <1>2, LifeCorrect, PTL DEF LossExplained, Spec

-----------------------------------------------------------------------------
(* The limit of the manager.                                               *)

LEMMA OneMore ==
  ASSUME NEW S, IsFiniteSet(S), NEW T, NEW x, T \subseteq S \cup {x}
  PROVE  /\ IsFiniteSet(T)
         /\ Cardinality(S) \in Nat /\ Cardinality(T) \in Nat
         /\ Cardinality(T) <= Cardinality(S) + 1
<1>1. IsFiniteSet(S \cup {x}) /\ Cardinality(S) \in Nat
  BY FS_AddElement, FS_CardinalityType
<1>2. Cardinality(S \cup {x}) <= Cardinality(S) + 1
  <2>1. CASE x \in S
    <3>1. S \cup {x} = S
      BY <2>1
    <3> QED
      BY <1>1, <3>1
  <2>2. CASE x \notin S
    BY <1>1, <2>2, FS_AddElement
  <2> QED
    BY <2>1, <2>2
<1>3. IsFiniteSet(T) /\ Cardinality(T) <= Cardinality(S \cup {x})
  BY <1>1, FS_Subset
<1> QED
  BY <1>1, <1>2, <1>3, FS_CardinalityType

\* No step opens an entry but an insertion, which opens one.
LEMMA OpenNext ==
  ASSUME TypeInv, [Next]_vars
  PROVE  \/ Open' \subseteq Open
         \/ Cardinality(Open) < MaxSessions /\ \E id \in Ids : Open' \subseteq Open \cup {id}
<1> USE DEF TypeInv, TypeOK, ManagerType, CallType, Open, managerVars
<1>1. CASE UNCHANGED sessions
  BY <1>1
<1>2. \A ids : Forget(ids) => Open' \subseteq Open
  OBVIOUS
<1>3. ASSUME NEW c \in Calls, Insert(c)
      PROVE Cardinality(Open) < MaxSessions /\ \E id \in Ids : Open' \subseteq Open \cup {id}
  <2>1. Open' \subseteq Open \cup {sid[c]} /\ sid[c] \in Ids
    BY <1>3 DEF Insert
  <2>2. Cardinality(Open) < MaxSessions
    BY <1>3 DEF Insert
  <2> QED
    BY <2>1, <2>2
<1>4. ASSUME NEW c \in Calls, Arrival(c) PROVE UNCHANGED sessions \/ \E ids : Forget(ids)
  BY <1>4 DEF Arrival, CallCreate, Get, GetFor, Kill, CallList
<1>5. ASSUME NEW c \in Calls, Managing(c), ~Insert(c) PROVE UNCHANGED sessions \/ \E ids : Forget(ids)
  BY <1>5 DEF Managing, CleanupExpired, InsertRefused, ListNext, ListEnds
<1>6. ASSUME NEW c \in Calls, Spawning(c) \/ Reading(c) \/ UseSession(c) PROVE UNCHANGED sessions
  BY <1>6 DEF Spawning, CheckRunning, TakeSlave, SpawnCommand, StoreChild, SetRunning, SetStatus,
       Reading, CopyOutput, CopyEnds, ClearOutput, UseSession
<1>7. ASSUME NEW s \in Calls, Command(s) \/ Reader(s) \/ ReaderFails(s) PROVE UNCHANGED sessions
  BY <1>7 DEF Command, ProcessWrites, ProcessDetaches, ProcessExits, Reader, ReaderReads,
       ReaderEof, ReaderWaited, ReaderClears, ReaderRecords, ReaderFails
<1>8. ASSUME NEW id \in Ids, Expire(id) PROVE UNCHANGED sessions
  BY <1>8 DEF Expire
<1>9. CASE UNCHANGED vars
  BY <1>1, <1>9 DEF vars
<1> HIDE DEF Open, Forget
<1> QED
  BY <1>1, <1>2, <1>3, <1>4, <1>5, <1>6, <1>7, <1>8, <1>9 DEF Next

\* The manager never holds more than MaxSessions sessions.
THEOREM LimitKept == Spec => []SessionLimit
<1>1. Init => SessionLimit
  <2>1. Init => Open = {}
    BY DEF Init, Open
  <2> QED
    BY <2>1, FS_EmptySet, MaxSessionsPositive DEF SessionLimit
<1>2. TypeInv /\ SessionLimit /\ [Next]_vars => SessionLimit'
  <2> SUFFICES ASSUME TypeInv, SessionLimit, [Next]_vars PROVE Cardinality(Open') <= MaxSessions
    BY DEF SessionLimit
  <2>1. IsFiniteSet(Open)
    BY IdsFinite, FS_Subset DEF Open
  <2>2. CASE Open' \subseteq Open
    <3>1. Cardinality(Open') <= Cardinality(Open)
      BY <2>1, <2>2, FS_Subset
    <3>2. Cardinality(Open') \in Nat /\ Cardinality(Open) \in Nat
      BY <2>1, <2>2, FS_Subset, FS_CardinalityType
    <3> QED
      BY <3>1, <3>2, MaxSessionsPositive DEF SessionLimit
  <2>3. ASSUME Cardinality(Open) < MaxSessions, NEW id \in Ids, Open' \subseteq Open \cup {id}
        PROVE  Cardinality(Open') <= MaxSessions
    <3>1. /\ Cardinality(Open) \in Nat /\ Cardinality(Open') \in Nat
          /\ Cardinality(Open') <= Cardinality(Open) + 1
      BY <2>1, <2>3, OneMore
    <3> QED
      BY <2>3, <3>1, MaxSessionsPositive
  <2> QED
    BY <2>2, <2>3, OpenNext
<1>3. Spec => []TypeInv
  <2>1. Init => TypeInv
    BY InitType
  <2>2. TypeInv /\ [Next]_vars => TypeInv'
    BY NextType
  <2> QED
    BY <2>1, <2>2, PTL DEF Spec
<1> QED
  BY <1>1, <1>2, <1>3, PTL DEF Spec
=============================================================================
