--------------------------- MODULE CodingAgentProofs ---------------------------
(* The safety properties of CodingAgent for every set of tasks and every bound. *)
EXTENDS CodingAgent, SequenceTheorems, TLAPS

-----------------------------------------------------------------------------
(* Sequences of chunks.                                                    *)

Increasing(s) == \A i, j \in DOMAIN s : i < j => s[i] < s[j]
UpTo(s, n) == \A i \in DOMAIN s : s[i] <= n
Before(s, r) == \A i \in DOMAIN s : \A j \in DOMAIN r : s[i] < r[j]

\* A stretch from the first chunk is an increasing sequence.
LEMMA StretchFacts ==
  ASSUME NEW n \in Nat
  PROVE  /\ Stretch(1, n) \in Seq(Nat)
         /\ Increasing(Stretch(1, n))
         /\ UpTo(Stretch(1, n), n)
<1>1. Stretch(1, n) = [i \in 1 .. n |-> i]
  BY DEF Stretch
<1>2. [i \in 1 .. n |-> i] \in Seq(Nat)
  BY SeqDef
<1>3. QED
  BY <1>1, <1>2 DEF Increasing, UpTo

\* What is kept of a sequence has its elements in its order.
LEMMA KeptFacts ==
  ASSUME NEW s \in Seq(Nat), NEW kept \in Kept(s)
  PROVE  /\ kept \in Seq(Nat)
         /\ Increasing(s) => Increasing(kept)
         /\ \A n \in Nat : UpTo(s, n) => UpTo(kept, n)
         /\ \A r : Before(r, s) => Before(r, kept)
<1>1. CASE kept = s
  BY <1>1
<1>2. CASE kept # s
  <2> DEFINE len == Len(s)
  <2>1. PICK m \in 2 .. len : kept = SubSeq(s, m, len)
    BY <1>2 DEF Kept
  <2>2. /\ len \in Nat /\ DOMAIN s = 1 .. len
        /\ \A i \in 1 .. len : s[i] \in Nat
    BY LenProperties, ElementOfSeq
  <2> HIDE DEF len
  <2>3. m \in Nat /\ 2 <= m /\ m <= len /\ len - m + 1 \in Nat
    BY <2>1, <2>2
  <2>4. /\ kept \in Seq(Nat)
        /\ Len(kept) = len - m + 1
        /\ \A i \in 1 .. (len - m + 1) : kept[i] = s[m + i - 1]
    <3>1. \A i \in m .. len : s[i] \in Nat
      BY <2>2, <2>3
    <3>2. m \in Int /\ len \in Int
      BY <2>2, <2>3
    <3>3. /\ SubSeq(s, m, len) \in Seq(Nat)
          /\ Len(SubSeq(s, m, len)) = IF m <= len THEN len - m + 1 ELSE 0
          /\ \A i \in 1 .. (len - m + 1) : SubSeq(s, m, len)[i] = s[m + i - 1]
      BY <3>1, <3>2, SubSeqProperties
    <3> QED
      BY <2>1, <2>3, <3>3
  <2>5. \A i \in DOMAIN kept :
          i \in 1 .. (len - m + 1) /\ m + i - 1 \in DOMAIN s /\ kept[i] = s[m + i - 1]
    <3>1. DOMAIN kept = 1 .. (len - m + 1)
      BY <2>4, LenProperties
    <3>2. \A i \in 1 .. (len - m + 1) : m + i - 1 \in 1 .. len
      BY <2>2, <2>3
    <3> QED
      BY <2>2, <2>4, <3>1, <3>2
  <2>6. ASSUME Increasing(s), NEW i \in DOMAIN kept, NEW j \in DOMAIN kept, i < j
        PROVE  kept[i] < kept[j]
    <3>1. m + i - 1 < m + j - 1
      BY <2>3, <2>5, <2>6
    <3> QED
      BY <2>5, <2>6, <3>1 DEF Increasing
  <2>7. ASSUME NEW n \in Nat, UpTo(s, n) PROVE UpTo(kept, n)
    BY <2>5, <2>7 DEF UpTo
  <2>8. ASSUME NEW r, Before(r, s) PROVE Before(r, kept)
    BY <2>5, <2>8 DEF Before
  <2> QED
    BY <2>4, <2>6, <2>7, <2>8 DEF Increasing
<1> QED
  BY <1>1, <1>2

\* Appending what follows everything so far keeps a sequence increasing.
LEMMA AppendFacts ==
  ASSUME NEW s \in Seq(Nat), NEW n \in Nat, UpTo(s, n), Increasing(s)
  PROVE  /\ Append(s, n + 1) \in Seq(Nat)
         /\ Increasing(Append(s, n + 1))
         /\ UpTo(Append(s, n + 1), n + 1)
<1> DEFINE a == Append(s, n + 1)
<1>1. /\ a \in Seq(Nat)
      /\ Len(a) = Len(s) + 1
      /\ \A i \in 1 .. Len(s) : a[i] = s[i]
      /\ a[Len(s) + 1] = n + 1
  BY AppendProperties
<1>2. /\ DOMAIN s = 1 .. Len(s) /\ DOMAIN a = 1 .. Len(a)
      /\ Len(s) \in Nat
      /\ \A i \in 1 .. Len(s) : s[i] \in Nat
  BY <1>1, LenProperties, ElementOfSeq
<1>3. \A i \in 1 .. Len(s) : s[i] <= n
  BY <1>2 DEF UpTo
<1> HIDE DEF a
<1>4. UpTo(a, n + 1)
  <2> SUFFICES ASSUME NEW i \in 1 .. Len(a) PROVE a[i] <= n + 1
    BY <1>2 DEF UpTo
  <2>1. CASE i = Len(s) + 1
    BY <2>1, <1>1
  <2>2. CASE i \in 1 .. Len(s)
    BY <2>2, <1>1, <1>2, <1>3
  <2> QED
    BY <2>1, <2>2, <1>1, <1>2
<1>5. Increasing(a)
  <2> SUFFICES ASSUME NEW i \in 1 .. Len(a), NEW j \in 1 .. Len(a), i < j PROVE a[i] < a[j]
    BY <1>2 DEF Increasing
  <2>1. i \in 1 .. Len(s) /\ a[i] = s[i]
    BY <1>1, <1>2
  <2>2. CASE j = Len(s) + 1
    BY <2>1, <2>2, <1>1, <1>2, <1>3
  <2>3. CASE j \in 1 .. Len(s)
    <3>1. s[i] < s[j]
      BY <2>1, <2>3, <1>2 DEF Increasing
    <3> QED
      <4>1. a[j] = s[j]
        BY <2>3, <1>1
      <4> QED
        BY <2>1, <3>1, <4>1
  <2>4. j = Len(s) + 1 \/ j \in 1 .. Len(s)
    <3>1. j \in 1 .. (Len(s) + 1) /\ Len(s) \in Nat
      BY <1>1, <1>2
    <3> QED
      BY <3>1
  <2> QED
    BY <2>2, <2>3, <2>4
<1> QED
  BY <1>1, <1>4, <1>5 DEF a

\* Joining an increasing sequence to one before it.
LEMMA JoinFacts ==
  ASSUME NEW s \in Seq(Nat), NEW r \in Seq(Nat), NEW n \in Nat,
         Increasing(s), Increasing(r), Before(s, r), UpTo(s, n), UpTo(r, n)
  PROVE  /\ s \o r \in Seq(Nat)
         /\ Increasing(s \o r)
         /\ UpTo(s \o r, n)
<1> DEFINE q == s \o r
<1>1. /\ q \in Seq(Nat)
      /\ Len(q) = Len(s) + Len(r)
      /\ \A i \in 1 .. Len(q) : q[i] = IF i <= Len(s) THEN s[i] ELSE r[i - Len(s)]
  BY ConcatProperties
<1>2. /\ DOMAIN s = 1 .. Len(s) /\ DOMAIN r = 1 .. Len(r) /\ DOMAIN q = 1 .. Len(q)
      /\ Len(s) \in Nat /\ Len(r) \in Nat /\ Len(q) \in Nat
  BY <1>1, LenProperties
<1>3. \A i \in 1 .. Len(q) : \/ i \in 1 .. Len(s) /\ q[i] = s[i]
                             \/ i - Len(s) \in 1 .. Len(r) /\ q[i] = r[i - Len(s)]
  BY <1>1, <1>2
<1> HIDE DEF q
<1>4. UpTo(q, n)
  BY <1>2, <1>3 DEF UpTo
<1>5. Increasing(q)
  <2> SUFFICES ASSUME NEW i \in 1 .. Len(q), NEW j \in 1 .. Len(q), i < j PROVE q[i] < q[j]
    BY <1>2 DEF Increasing
  <2>1. CASE j \in 1 .. Len(s)
    <3>1. i \in 1 .. Len(s) /\ q[i] = s[i] /\ q[j] = s[j]
      BY <2>1, <1>2, <1>3
    <3> QED
      BY <2>1, <3>1, <1>2 DEF Increasing
  <2>2. CASE i \in 1 .. Len(s) /\ j \notin 1 .. Len(s)
    <3>1. q[i] = s[i] /\ j - Len(s) \in 1 .. Len(r) /\ q[j] = r[j - Len(s)]
      BY <2>2, <1>2, <1>3
    <3> QED
      BY <2>2, <3>1, <1>2 DEF Before
  <2>3. CASE i \notin 1 .. Len(s) /\ j \notin 1 .. Len(s)
    <3>1. /\ i - Len(s) \in 1 .. Len(r) /\ q[i] = r[i - Len(s)]
          /\ j - Len(s) \in 1 .. Len(r) /\ q[j] = r[j - Len(s)]
          /\ i - Len(s) < j - Len(s)
      BY <2>3, <1>2, <1>3
    <3> QED
      BY <3>1, <1>2 DEF Increasing
  <2> QED
    BY <2>1, <2>2, <2>3, <1>2
<1> QED
  BY <1>1, <1>4, <1>5 DEF q

-----------------------------------------------------------------------------
(* Types.                                                                  *)

\* The step of a task that is neither its reader thread's nor its command's.
Acts(t) == Arrival(t) \/ Task(t) \/ Dropped(t) \/ TimePasses(t)

LEMMA NextCases ==
  ASSUME Next
  PROVE  \/ ServerDies
         \/ \E t \in Tasks : Acts(t) \/ Command(t) \/ Reader(t) \/ ReaderFails(t)
BY DEF Next, Acts

LEMMA SpawnsType ==
  ASSUME TypeOK, NEW t \in Tasks, Spawns(t)
  PROVE  SessionType'
<1> USE MaxOutputNat DEF TypeOK, TaskType, SessionType
<1>1. open' \subseteq Tasks
  BY DEF Spawns, MakesRoom
<1>2. running' \in [Tasks -> BOOLEAN]
  BY DEF Spawns
<1>3. CASE process' = [process EXCEPT ![t] = "alive"] /\ UNCHANGED outputVars
           /\ reader' = [reader EXCEPT ![t] = "reading"]
  BY <1>1, <1>2, <1>3 DEF outputVars
<1>4. ASSUME NEW n \in 0 .. MaxOutput[t], NEW end \in {"ended", "failed"},
             reader' = [reader EXCEPT ![t] = end],
             process' = [process EXCEPT ![t] = IF end = "ended" THEN "dead" ELSE "alive"],
             emitted' = [emitted EXCEPT ![t] = n],
             taken' = [taken EXCEPT ![t] = n],
             NEW kept \in Kept(Stretch(1, n)),
             buffer' = [buffer EXCEPT ![t] = kept]
      PROVE  SessionType'
  <2>1. n \in Nat /\ n <= MaxOutput[t]
    OBVIOUS
  <2>2. kept \in Seq(Nat)
    BY <2>1, StretchFacts, KeptFacts
  <2> QED
    BY <1>1, <1>2, <1>4, <2>1, <2>2
<1> QED
  BY <1>3, <1>4 DEF Spawns

LEMMA ActsType ==
  ASSUME TypeOK, NEW t \in Tasks, Acts(t)
  PROVE  TypeOK'
<1> USE DEF TypeOK, AgentType, TaskType, Goto, Calls, Forgets, Return, InProgress, InSession
<1>1. CASE Arrival(t)
  BY <1>1 DEF Arrival, Claim, ClaimRefused, SessionType, sessionVars, outputVars, agentVars
<1>2. CASE Connect(t) \/ ConnectFails(t) \/ CallFails(t) \/ Check(t) \/ Status(t)
  BY <1>2 DEF Connect, ConnectFails, CallFails, Check, Status, SessionType, sessionVars,
     outputVars, agentVars
<1>3. CASE Spawn(t)
  <2>1. SessionType'
    BY <1>3, SpawnsType DEF Spawn
  <2> QED
    BY <1>3, <2>1 DEF Spawn, agentVars
<1>4. CASE SpawnRefused(t)
  <2>1. open' \subseteq Tasks
    BY <1>4 DEF SpawnRefused, MakesRoom, SessionType
  <2>2. SessionType'
    BY <1>4, <2>1 DEF SpawnRefused, SessionType, outputVars
  <2> QED
    BY <1>4, <2>2 DEF SpawnRefused
<1>5. CASE Read(t) \/ LastRead(t)
  <2>1. output[t] \o buffer[t] \in Seq(Nat)
    BY ConcatProperties DEF SessionType
  <2> QED
    BY <1>5, <2>1, ZenonT(60) DEF Read, LastRead, Copies, SessionType, sessionVars, outputVars,
                                agentVars
<1>6. CASE ReadEnds(t) \/ LastReadEnds(t)
  <2>1. buffer' \in [Tasks -> Seq(Nat)]
    <3>1. buffer' = [buffer EXCEPT ![t] = <<>>]
      BY <1>6 DEF ReadEnds, LastReadEnds, Clears
    <3>2. buffer \in [Tasks -> Seq(Nat)] /\ <<>> \in Seq(Nat)
      BY DEF SessionType
    <3> QED
      BY <3>1, <3>2
  <2>2. SessionType'
    BY <1>6, <2>1 DEF ReadEnds, LastReadEnds, Clears, SessionType
  <2>3. CASE ReadEnds(t)
    BY <2>2, <2>3 DEF ReadEnds, Clears
  <2>4. CASE LastReadEnds(t)
    BY <2>2, <2>4 DEF LastReadEnds, Clears
  <2> QED
    BY <1>6, <2>3, <2>4
<1>7. CASE Kill(t)
  BY <1>7 DEF Kill, SessionType, outputVars
<1>8. CASE Dropped(t)
  <2>1. SessionType'
    <3>1. CASE UNCHANGED sessionVars
      BY <3>1 DEF SessionType, sessionVars, outputVars
    <3>2. CASE Spawns(t)
      BY <3>2, SpawnsType
    <3>3. CASE open' = open \ {t} /\ UNCHANGED <<running, reader, process, outputVars>>
      BY <3>3 DEF SessionType, outputVars
    <3> QED
      BY <1>8, <3>1, <3>2, <3>3 DEF Dropped
  <2> QED
    BY <1>8, <2>1 DEF Dropped, agentVars
<1>9. CASE TimePasses(t)
  BY <1>9 DEF TimePasses, SessionType, sessionVars, outputVars, agentVars
<1> QED
  BY <1>1, <1>2, <1>3, <1>4, <1>5, <1>6, <1>7, <1>8, <1>9 DEF Acts, Task, Session

LEMMA EnvironmentType ==
  ASSUME TypeOK, NEW t \in Tasks, Command(t) \/ Reader(t) \/ ReaderFails(t)
  PROVE  TypeOK'
<1> USE MaxOutputNat DEF TypeOK, AgentType, TaskType, SessionType, agentVars, taskVars, outputVars
<1>1. CASE CommandWrites(t)
  <2>1. MaxOutput[t] \in Nat /\ emitted[t] \in Nat
    OBVIOUS
  <2> QED
    BY <1>1, <2>1 DEF CommandWrites
<1>2. CASE CommandPrompts(t) \/ CommandExits(t)
  BY <1>2 DEF CommandPrompts, CommandExits
<1>3. CASE ReaderReads(t)
  <2>1. taken[t] \in Nat /\ emitted[t] \in Nat /\ taken[t] < emitted[t]
    BY <1>3 DEF ReaderReads
  <2>2. Append(buffer[t], taken[t] + 1) \in Seq(Nat)
    BY <2>1, AppendProperties
  <2>3. taken' = [taken EXCEPT ![t] = taken[t] + 1] /\ UNCHANGED emitted
    BY <1>3 DEF ReaderReads
  <2>4. taken' \in [Tasks -> Nat] /\ \A s \in Tasks : taken'[s] <= emitted'[s]
    BY <2>1, <2>3
  <2>5. \A kept \in Kept(Append(buffer[t], taken[t] + 1)) : kept \in Seq(Nat)
    BY <2>2, KeptFacts
  <2>6. buffer' \in [Tasks -> Seq(Nat)]
    BY <1>3, <2>5 DEF ReaderReads
  <2> QED
    BY <1>3, <2>4, <2>6 DEF ReaderReads
<1>4. CASE ReaderEnds(t) \/ ReaderFails(t)
  BY <1>4 DEF ReaderEnds, ReaderFails
<1> QED
  BY <1>1, <1>2, <1>3, <1>4 DEF Command, Reader

\* Every variable keeps its type, and the reader thread never passes the command.
THEOREM TypeCorrect == Spec => []TypeOK
<1>1. Init => TypeOK
  <2> SUFFICES ASSUME Init PROVE TypeOK
    OBVIOUS
  <2>1. output \in [Tasks -> Seq(Nat)] /\ buffer \in [Tasks -> Seq(Nat)]
    BY DEF Init
  <2>2. AgentType /\ TaskType
    BY <2>1 DEF Init, AgentType, TaskType
  <2>3. SessionType
    BY <2>1, MaxOutputNat DEF Init, SessionType
  <2> QED
    BY <2>2, <2>3 DEF TypeOK
<1>2. TypeOK /\ [Next]_vars => TypeOK'
  <2> SUFFICES ASSUME TypeOK, [Next]_vars PROVE TypeOK'
    OBVIOUS
  <2>1. CASE UNCHANGED vars
    BY <2>1 DEF vars, agentVars, taskVars, sessionVars, outputVars, TypeOK, AgentType, TaskType,
       SessionType
  <2>2. CASE ServerDies
    BY <2>2 DEF ServerDies, agentVars, taskVars, outputVars, TypeOK, AgentType, TaskType,
       SessionType
  <2>3. ASSUME NEW t \in Tasks, Acts(t) \/ Command(t) \/ Reader(t) \/ ReaderFails(t)
        PROVE  TypeOK'
    BY <2>3, ActsType, EnvironmentType
  <2> QED
    BY <2>1, <2>2, <2>3, NextCases
<1> QED
  BY <1>1, <1>2, PTL DEF Spec

-----------------------------------------------------------------------------
(* Who has the agent.                                                      *)

HoldInv == TypeOK /\ OneAtATime /\ BusyHeld

\* A step of a task takes the agent, keeps it, gives it back or has nothing to do with it.
LEMMA ActsOnAgent ==
  ASSUME TypeOK, NEW t \in Tasks, Acts(t)
  PROVE  /\ \A s \in Tasks \ {t} : pc'[s] = pc[s]
         /\ \/ ~busy /\ busy' /\ Holds(t)'
            \/ busy' = busy /\ Holds(t)' = Holds(t)
            \/ Holds(t) /\ ~Holds(t)' /\ ~busy'
<1> USE DEF TypeOK, TaskType, Goto, Calls, Return, agentVars, Holds, InProgress, InSession
<1>1. CASE Claim(t)
  BY <1>1 DEF Claim
<1>2. CASE ClaimRefused(t)
  BY <1>2 DEF ClaimRefused
<1>3. CASE Connect(t) \/ Spawn(t) \/ Check(t) \/ Status(t) \/ Read(t) \/ LastRead(t)
  BY <1>3 DEF Connect, Spawn, Check, Status, Read, LastRead, Copies
<1>4. CASE ReadEnds(t)
  BY <1>4 DEF ReadEnds, Clears
<1>5. CASE ConnectFails(t) \/ SpawnRefused(t) \/ CallFails(t) \/ Kill(t)
  BY <1>5 DEF ConnectFails, SpawnRefused, CallFails, Kill
<1>6. CASE LastReadEnds(t)
  BY <1>6 DEF LastReadEnds, Clears
<1>7. CASE Dropped(t) \/ TimePasses(t)
  BY <1>7 DEF Dropped, TimePasses
<1> QED
  BY <1>1, <1>2, <1>3, <1>4, <1>5, <1>6, <1>7 DEF Acts, Arrival, Task, Session

LEMMA ActsKeepHolds ==
  ASSUME HoldInv, NEW t \in Tasks, Acts(t)
  PROVE  OneAtATime' /\ BusyHeld'
<1>1. \A s \in Tasks \ {t} : Holds(s)' = Holds(s)
  BY ActsOnAgent DEF Holds, HoldInv
<1>2. CASE ~busy /\ busy' /\ Holds(t)'
  BY <1>1, <1>2 DEF HoldInv, OneAtATime, BusyHeld
<1>3. CASE busy' = busy /\ Holds(t)' = Holds(t)
  BY <1>1, <1>3 DEF HoldInv, OneAtATime, BusyHeld
<1>4. CASE Holds(t) /\ ~Holds(t)' /\ ~busy'
  BY <1>1, <1>4 DEF HoldInv, OneAtATime, BusyHeld
<1> QED
  BY <1>2, <1>3, <1>4, ActsOnAgent DEF HoldInv

THEOREM HoldInvariant == Spec => []HoldInv
<1>1. Init => OneAtATime /\ BusyHeld
  BY DEF Init, OneAtATime, BusyHeld, Holds, InProgress, InSession
<1>2. TypeOK /\ OneAtATime /\ BusyHeld /\ [Next]_vars => (OneAtATime /\ BusyHeld)'
  <2> SUFFICES ASSUME HoldInv, [Next]_vars PROVE (OneAtATime /\ BusyHeld)'
    BY DEF HoldInv
  <2>1. CASE pc' = pc /\ busy' = busy
    BY <2>1 DEF HoldInv, OneAtATime, BusyHeld, Holds
  <2>2. CASE UNCHANGED vars \/ ServerDies
    BY <2>1, <2>2 DEF vars, ServerDies, agentVars, taskVars
  <2>3. ASSUME NEW t \in Tasks, Command(t) \/ Reader(t) \/ ReaderFails(t)
        PROVE  (OneAtATime /\ BusyHeld)'
    BY <2>1, <2>3 DEF Command, CommandWrites, CommandPrompts, CommandExits, Reader, ReaderReads,
       ReaderEnds, ReaderFails, agentVars, taskVars
  <2>4. ASSUME NEW t \in Tasks, Acts(t) PROVE (OneAtATime /\ BusyHeld)'
    BY <2>4, ActsKeepHolds
  <2> QED
    BY <2>2, <2>3, <2>4, NextCases
<1> QED
  BY <1>1, <1>2, TypeCorrect, PTL DEF Spec, HoldInv

\* At most one call of process_task is ever between its claim and its return.
THEOREM OneTaskAtATime == Spec => []OneAtATime
BY HoldInvariant, PTL DEF HoldInv

\* The flag is set exactly while some task has the agent.
THEOREM BusyIsHeld == Spec => []BusyHeld
BY HoldInvariant, PTL DEF HoldInv

-----------------------------------------------------------------------------
(* What a task reads.                                                      *)

Fresh(t) ==
  /\ output[t] = <<>> /\ buffer[t] = <<>> /\ emitted[t] = 0 /\ taken[t] = 0
  /\ reader[t] = "none" /\ process[t] = "none"

\* How far the loop of a task is and what it knows of its session.
LoopInv(t) ==
  /\ pc[t] \in {"idle", "connect", "spawn"} => Fresh(t)
  /\ reader[t] = "none" => process[t] = "none"
  /\ reader[t] = "ended" => process[t] = "dead" /\ taken[t] = emitted[t]
  /\ pc[t] \in InSession /\ ~running[t] => reader[t] \in {"ended", "failed"}
  /\ ended[t] => pc[t] \in {"read", "clear", "lastRead", "lastClear"} /\ ~running[t]
  /\ pc[t] \in {"lastRead", "lastClear"} => ended[t]
  /\ answer[t] = "ok" => pc[t] = "done" /\ reader[t] \in {"ended", "failed"} /\ buffer[t] = <<>>

\* Where a copy of the buffer is not also in it still.
Unread == {"idle", "connect", "spawn", "check", "status", "read", "lastRead", "kill"}

\* The chunks of the buffer follow those already read.
OrderInv(t) ==
  /\ Increasing(output[t]) /\ UpTo(output[t], taken[t])
  /\ Increasing(buffer[t]) /\ UpTo(buffer[t], taken[t])
  /\ pc[t] \in Unread => Before(output[t], buffer[t])

\* Nothing of a task or its session changes but the time.
Same(s) ==
  /\ pc'[s] = pc[s] /\ answer'[s] = answer[s] /\ ended'[s] = ended[s] /\ output'[s] = output[s]
  /\ running'[s] = running[s] /\ reader'[s] = reader[s] /\ process'[s] = process[s]
  /\ emitted'[s] = emitted[s] /\ taken'[s] = taken[s] /\ buffer'[s] = buffer[s]

LEMMA SameKeeps ==
  ASSUME NEW s \in Tasks, LoopInv(s), OrderInv(s), Same(s)
  PROVE  LoopInv(s)' /\ OrderInv(s)'
<1>1. LoopInv(s)'
  BY DEF LoopInv, Same, Fresh
<1>2. OrderInv(s)'
  BY DEF OrderInv, Same
<1> QED
  BY <1>1, <1>2

LEMMA OthersSame ==
  ASSUME TypeOK, NEW t \in Tasks, Acts(t) \/ Command(t) \/ Reader(t) \/ ReaderFails(t),
         NEW s \in Tasks \ {t}
  PROVE  Same(s)
<1> USE DEF TypeOK, TaskType, SessionType, Goto, Return, Forgets, Calls, sessionVars, outputVars,
        agentVars, taskVars, Same
<1>1. CASE Arrival(t)
  BY <1>1 DEF Arrival, Claim, ClaimRefused
<1>2. CASE Connect(t) \/ ConnectFails(t) \/ CallFails(t) \/ Check(t) \/ Status(t) \/ TimePasses(t)
  BY <1>2 DEF Connect, ConnectFails, CallFails, Check, Status, TimePasses
<1>3. ASSUME Spawns(t)
      PROVE  /\ running'[s] = running[s] /\ reader'[s] = reader[s] /\ process'[s] = process[s]
             /\ emitted'[s] = emitted[s] /\ taken'[s] = taken[s] /\ buffer'[s] = buffer[s]
  BY <1>3 DEF Spawns
<1>4. CASE Spawn(t)
  BY <1>3, <1>4 DEF Spawn
<1>5. CASE SpawnRefused(t) \/ Kill(t)
  BY <1>5 DEF SpawnRefused, Kill
<1>6. CASE Read(t) \/ LastRead(t)
  BY <1>6 DEF Read, LastRead, Copies
<1>7. CASE ReadEnds(t) \/ LastReadEnds(t)
  BY <1>7 DEF ReadEnds, LastReadEnds, Clears
<1>8. CASE Dropped(t)
  BY <1>3, <1>8 DEF Dropped
<1>9. CASE Command(t)
  BY <1>9 DEF Command, CommandWrites, CommandPrompts, CommandExits
<1>10. CASE Reader(t) \/ ReaderFails(t)
  BY <1>10 DEF Reader, ReaderReads, ReaderEnds, ReaderFails
<1> QED
  BY <1>1, <1>2, <1>4, <1>5, <1>6, <1>7, <1>8, <1>9, <1>10 DEF Acts, Task, Session

\* The session a successful pty_spawn leaves, for a task that had none.
LEMMA SpawnsLeaves ==
  ASSUME TypeOK, NEW t \in Tasks, Spawns(t), Fresh(t)
  PROVE  /\ running'[t]
         /\ reader'[t] \in {"reading", "ended", "failed"}
         /\ reader'[t] = "ended" => process'[t] = "dead" /\ taken'[t] = emitted'[t]
         /\ Increasing(buffer'[t]) /\ UpTo(buffer'[t], taken'[t])
<1> USE DEF TypeOK, SessionType
<1>1. CASE /\ reader' = [reader EXCEPT ![t] = "reading"]
           /\ process' = [process EXCEPT ![t] = "alive"]
           /\ UNCHANGED outputVars
  <2>1. Increasing(<<>>) /\ UpTo(<<>>, 0)
    BY DEF Increasing, UpTo
  <2>2. buffer'[t] = <<>> /\ taken'[t] = 0
    BY <1>1 DEF outputVars, Fresh
  <2> QED
    BY <1>1, <2>1, <2>2 DEF Spawns
<1>2. ASSUME NEW n \in 0 .. MaxOutput[t], NEW end \in {"ended", "failed"},
             reader' = [reader EXCEPT ![t] = end],
             process' = [process EXCEPT ![t] = IF end = "ended" THEN "dead" ELSE "alive"],
             emitted' = [emitted EXCEPT ![t] = n],
             taken' = [taken EXCEPT ![t] = n],
             NEW kept \in Kept(Stretch(1, n)),
             buffer' = [buffer EXCEPT ![t] = kept]
      PROVE  /\ reader'[t] \in {"ended", "failed"}
             /\ reader'[t] = "ended" => process'[t] = "dead" /\ taken'[t] = emitted'[t]
             /\ Increasing(buffer'[t]) /\ UpTo(buffer'[t], taken'[t])
  <2>1. n \in Nat
    BY MaxOutputNat
  <2>2. Increasing(kept) /\ UpTo(kept, n)
    BY <2>1, StretchFacts, KeptFacts
  <2>3. buffer'[t] = kept /\ taken'[t] = n
    BY <1>2
  <2> QED
    BY <1>2, <2>2, <2>3
<1> QED
  BY <1>1, <1>2 DEF Spawns

LEMMA ActsKeepLoop ==
  ASSUME TypeOK, NEW t \in Tasks, Acts(t), LoopInv(t)
  PROVE  LoopInv(t)'
<1> USE DEF TypeOK, TaskType, SessionType, LoopInv, Goto, Return, Forgets, Calls, InSession,
        InProgress
<1>1. CASE Arrival(t)
  BY <1>1 DEF Arrival, Claim, ClaimRefused, Fresh, sessionVars, outputVars
<1>2. CASE Connect(t) \/ ConnectFails(t) \/ CallFails(t)
  BY <1>2 DEF Connect, ConnectFails, CallFails, Fresh, sessionVars, outputVars
<1>3. CASE Check(t) \/ TimePasses(t)
  BY <1>3 DEF Check, TimePasses, Fresh, sessionVars, outputVars, agentVars
<1>4. CASE Status(t)
  BY <1>4 DEF Status, sessionVars, outputVars
<1>5. CASE Spawn(t)
  <2>1. Fresh(t) /\ Spawns(t) /\ ~ended[t]
    BY <1>5 DEF Spawn
  <2>2. pc'[t] = "check" /\ ended'[t] = ended[t] /\ answer'[t] = answer[t] /\ pc[t] = "spawn"
    BY <1>5 DEF Spawn
  <2> QED
    BY <2>1, <2>2, SpawnsLeaves
<1>6. CASE SpawnRefused(t) \/ Kill(t)
  BY <1>6 DEF SpawnRefused, Kill, Fresh, outputVars
<1>7. CASE Read(t) \/ LastRead(t)
  BY <1>7 DEF Read, LastRead, Copies, sessionVars, outputVars
<1>8. CASE ReadEnds(t)
  BY <1>8 DEF ReadEnds, Clears
<1>9. CASE LastReadEnds(t)
  BY <1>9 DEF LastReadEnds, Clears
<1>10. CASE Dropped(t)
  <2>1. pc'[t] = "dropped" /\ ~ended'[t] /\ answer'[t] = answer[t] /\ pc[t] \in InProgress
    BY <1>10 DEF Dropped
  <2>2. CASE Spawns(t) /\ pc[t] = "spawn"
    BY <2>1, <2>2, SpawnsLeaves
  <2>3. CASE UNCHANGED <<running, reader, process, outputVars>>
    BY <2>1, <2>3 DEF outputVars
  <2> QED
    BY <1>10, <2>2, <2>3 DEF Dropped, sessionVars
<1> QED
  BY <1>1, <1>2, <1>3, <1>4, <1>5, <1>6, <1>7, <1>8, <1>9, <1>10 DEF Acts, Task, Session

LEMMA EnvironmentKeepsLoop ==
  ASSUME TypeOK, NEW t \in Tasks, LoopInv(t), Command(t) \/ Reader(t) \/ ReaderFails(t)
  PROVE  LoopInv(t)'
<1> USE DEF TypeOK, TaskType, SessionType, LoopInv, InSession, Fresh, taskVars, outputVars
<1>1. CASE Command(t)
  BY <1>1 DEF Command, CommandWrites, CommandPrompts, CommandExits
<1>2. CASE ReaderReads(t)
  BY <1>2 DEF ReaderReads
<1>3. CASE ReaderEnds(t) \/ ReaderFails(t)
  BY <1>3 DEF ReaderEnds, ReaderFails
<1> QED
  BY <1>1, <1>2, <1>3 DEF Reader

LEMMA ActsKeepOrder ==
  ASSUME TypeOK, NEW t \in Tasks, Acts(t), LoopInv(t), OrderInv(t)
  PROVE  OrderInv(t)'
<1> USE DEF TypeOK, TaskType, SessionType, Goto, Return, Forgets, Calls, InSession, InProgress
<1>0. pc'[t] \in Unread /\ output'[t] = output[t] /\ buffer'[t] = buffer[t] /\ taken'[t] = taken[t]
        /\ pc[t] \in Unread => OrderInv(t)'
  BY DEF OrderInv
<1>1. pc'[t] \notin Unread /\ output'[t] = output[t] /\ buffer'[t] = buffer[t] /\ taken'[t] = taken[t]
        => OrderInv(t)'
  BY DEF OrderInv
<1>2. CASE Arrival(t)
  BY <1>0, <1>1, <1>2 DEF Arrival, Claim, ClaimRefused, sessionVars, outputVars, Unread
<1>3. CASE Connect(t) \/ ConnectFails(t) \/ CallFails(t)
  BY <1>0, <1>1, <1>3 DEF Connect, ConnectFails, CallFails, sessionVars, outputVars, Unread
<1>4. CASE Check(t) \/ Status(t)
  BY <1>0, <1>4 DEF Check, Status, sessionVars, outputVars, Unread
<1>5. CASE TimePasses(t)
  BY <1>0, <1>1, <1>5 DEF TimePasses, sessionVars, outputVars, agentVars
<1>6. CASE SpawnRefused(t) \/ Kill(t)
  BY <1>1, <1>6 DEF SpawnRefused, Kill, outputVars, Unread
<1>7. ASSUME Spawns(t), pc[t] = "spawn", output'[t] = output[t]
      PROVE  OrderInv(t)'
  <2>1. Fresh(t)
    BY <1>7 DEF LoopInv
  <2>2. output'[t] = <<>>
    BY <1>7, <2>1 DEF Fresh
  <2>3. Increasing(<<>>) /\ UpTo(<<>>, taken'[t]) /\ Before(<<>>, buffer'[t])
    BY DEF Increasing, UpTo, Before
  <2> QED
    BY <1>7, <2>1, <2>2, <2>3, SpawnsLeaves DEF OrderInv
<1>8. CASE Spawn(t)
  BY <1>7, <1>8 DEF Spawn
<1>9. CASE Read(t) \/ LastRead(t)
  <2>1. /\ output'[t] = output[t] \o buffer[t]
        /\ buffer'[t] = buffer[t] /\ taken'[t] = taken[t]
        /\ pc'[t] \notin Unread /\ pc[t] \in Unread
    BY <1>9 DEF Read, LastRead, Copies, sessionVars, outputVars, Unread
  <2>2. output[t] \in Seq(Nat) /\ buffer[t] \in Seq(Nat) /\ taken[t] \in Nat
    OBVIOUS
  <2>3. Increasing(output[t] \o buffer[t]) /\ UpTo(output[t] \o buffer[t], taken[t])
    BY <2>1, <2>2, JoinFacts DEF OrderInv
  <2> QED
    BY <2>1, <2>3 DEF OrderInv
<1>10. CASE ReadEnds(t) \/ LastReadEnds(t)
  <2>1. output'[t] = output[t] /\ buffer'[t] = <<>> /\ taken'[t] = taken[t]
    BY <1>10 DEF ReadEnds, LastReadEnds, Clears
  <2>2. Increasing(<<>>) /\ UpTo(<<>>, taken[t]) /\ Before(output[t], <<>>)
    BY DEF Increasing, UpTo, Before
  <2> QED
    BY <2>1, <2>2 DEF OrderInv
<1>11. CASE Dropped(t)
  BY <1>1, <1>7, <1>11 DEF Dropped, sessionVars, outputVars, Unread
<1> QED
  BY <1>2, <1>3, <1>4, <1>5, <1>6, <1>8, <1>9, <1>10, <1>11 DEF Acts, Task, Session

LEMMA EnvironmentKeepsOrder ==
  ASSUME TypeOK, NEW t \in Tasks, LoopInv(t), OrderInv(t),
         Command(t) \/ Reader(t) \/ ReaderFails(t)
  PROVE  OrderInv(t)'
<1> USE DEF TypeOK, TaskType, SessionType, taskVars, outputVars
<1>1. CASE Command(t) \/ ReaderEnds(t) \/ ReaderFails(t)
  BY <1>1 DEF OrderInv, Command, CommandWrites, CommandPrompts, CommandExits, ReaderEnds,
     ReaderFails
<1>2. CASE ReaderReads(t)
  <2>1. taken'[t] = taken[t] + 1 /\ output'[t] = output[t] /\ pc'[t] = pc[t]
    BY <1>2 DEF ReaderReads
  <2>2. /\ output[t] \in Seq(Nat) /\ buffer[t] \in Seq(Nat) /\ taken[t] \in Nat
        /\ \A i \in DOMAIN output[t] : output[t][i] \in Nat
        /\ \A i \in DOMAIN buffer[t] : buffer[t][i] \in Nat
    BY ElementOfSeq, LenProperties
  <2>3. UpTo(output'[t], taken'[t]) /\ UpTo(buffer[t], taken'[t])
    BY <2>1, <2>2 DEF OrderInv, UpTo
  <2>4. ASSUME NEW kept \in Kept(Append(buffer[t], taken[t] + 1)), buffer'[t] = kept
        PROVE  OrderInv(t)'
    <3> DEFINE all == Append(buffer[t], taken[t] + 1)
    <3>1. Increasing(all) /\ UpTo(all, taken'[t])
      BY <2>1, <2>2, AppendFacts DEF OrderInv
    <3>2. ASSUME pc[t] \in Unread PROVE Before(output[t], all)
      <4>1. /\ DOMAIN all = 1 .. (Len(buffer[t]) + 1)
            /\ Len(buffer[t]) \in Nat /\ DOMAIN buffer[t] = 1 .. Len(buffer[t])
            /\ \A j \in 1 .. Len(buffer[t]) : all[j] = buffer[t][j]
            /\ all[Len(buffer[t]) + 1] = taken[t] + 1
        BY <2>2, AppendProperties, LenProperties
      <4>2. ASSUME NEW i \in DOMAIN output[t], NEW j \in DOMAIN all
            PROVE  output[t][i] < all[j]
        <5>1. CASE j = Len(buffer[t]) + 1
          BY <2>2, <4>1, <5>1 DEF OrderInv, UpTo
        <5>2. CASE j \in 1 .. Len(buffer[t])
          BY <3>2, <4>1, <5>2 DEF OrderInv, Before
        <5>3. j = Len(buffer[t]) + 1 \/ j \in 1 .. Len(buffer[t])
          BY <4>1
        <5> QED
          BY <5>1, <5>2, <5>3
      <4> QED
        BY <4>2 DEF Before
    <3>3. all \in Seq(Nat) /\ taken'[t] \in Nat
      BY <2>1, <2>2, AppendProperties
    <3>4. /\ Increasing(kept) /\ UpTo(kept, taken'[t])
          /\ pc[t] \in Unread => Before(output[t], kept)
      <4>1. kept \in Kept(all)
        BY <2>4
      <4> HIDE DEF all
      <4> QED
        BY <3>1, <3>2, <3>3, <4>1, KeptFacts
    <3> QED
      BY <2>1, <2>3, <2>4, <3>4 DEF OrderInv
  <2>5. CASE buffer' = buffer /\ pc[t] \notin Unread
    BY <2>1, <2>3, <2>5 DEF OrderInv
  <2> QED
    BY <1>2, <2>4, <2>5 DEF ReaderReads, Unread
<1> QED
  BY <1>1, <1>2 DEF Reader

SessionInv == TypeOK /\ \A t \in Tasks : LoopInv(t) /\ OrderInv(t)

THEOREM SessionInvariant == Spec => []SessionInv
<1>1. Init => \A t \in Tasks : LoopInv(t) /\ OrderInv(t)
  <2> SUFFICES ASSUME Init, NEW t \in Tasks PROVE LoopInv(t) /\ OrderInv(t)
    OBVIOUS
  <2>1. Increasing(<<>>) /\ UpTo(<<>>, 0) /\ Before(<<>>, <<>>)
    BY DEF Increasing, UpTo, Before
  <2> QED
    BY <2>1 DEF Init, LoopInv, OrderInv, Fresh, InSession
<1>2. TypeOK /\ (\A t \in Tasks : LoopInv(t) /\ OrderInv(t)) /\ [Next]_vars
        => (\A t \in Tasks : LoopInv(t) /\ OrderInv(t))'
  <2> SUFFICES ASSUME SessionInv, [Next]_vars, NEW s \in Tasks
               PROVE  LoopInv(s)' /\ OrderInv(s)'
    BY DEF SessionInv
  <2> USE DEF SessionInv
  <2>1. CASE UNCHANGED vars
    BY <2>1, SameKeeps DEF vars, taskVars, sessionVars, outputVars, Same
  <2>2. CASE ServerDies
    <3>1. LoopInv(s)'
      BY <2>2 DEF ServerDies, LoopInv, Fresh, taskVars, outputVars, TypeOK, SessionType
    <3>2. OrderInv(s)'
      BY <2>2 DEF ServerDies, OrderInv, taskVars, outputVars
    <3> QED
      BY <3>1, <3>2
  <2>3. ASSUME NEW t \in Tasks, Acts(t) \/ Command(t) \/ Reader(t) \/ ReaderFails(t)
        PROVE  LoopInv(s)' /\ OrderInv(s)'
    <3>1. CASE s # t
      BY <2>3, <3>1, OthersSame, SameKeeps
    <3>2. CASE s = t
      BY <2>3, <3>2, ActsKeepLoop, ActsKeepOrder, EnvironmentKeepsLoop, EnvironmentKeepsOrder
    <3> QED
      BY <3>1, <3>2
  <2> QED
    BY <2>1, <2>2, <2>3, NextCases
<1> QED
  BY <1>1, <1>2, TypeCorrect, PTL DEF Spec, SessionInv

\* A task reads what its command wrote, in order and nothing twice.
THEOREM OutputAlwaysInOrder == Spec => []OutputInOrder
<1>1. SessionInv => OutputInOrder
  BY DEF SessionInv, OrderInv, Increasing, OutputInOrder
<1> QED
  BY <1>1, SessionInvariant, PTL

\* A task that succeeds has read its session to the end.
THEOREM OkAlwaysComplete == Spec => []OkIsComplete
<1>1. SessionInv => OkIsComplete
  BY DEF SessionInv, LoopInv, OkIsComplete
<1> QED
  BY <1>1, SessionInvariant, PTL
=============================================================================
