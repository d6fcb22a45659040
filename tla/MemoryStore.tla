----------------------------- MODULE MemoryStore -----------------------------
(***************************************************************************)
(* The two-layer memory of the agents: a bounded working memory in the     *)
(* process and a table of rows on disk.  add() puts a memory into working  *)
(* memory, evicts the oldest (important ones are persisted by a spawned    *)
(* task) and then persists the new one if asked to; readers look at        *)
(* working memory first and at the table afterwards.  The process may      *)
(* crash and be started again.                                             *)
(***************************************************************************)
EXTENDS Naturals, SequencesExt

CONSTANTS
  Memories, Agents, Readers,
  Owner,        \* agent_id of a memory, None without one
  Tasks,        \* task ids that are looked up
  TaskOf,       \* task_id of a memory, None without one
  Type,         \* its type
  Text,         \* what format_memory makes of it
  Importance,   \* its importance, as a number
  Threshold,    \* above it an evicted memory is persisted (0.7)
  Size,         \* working_memory_size
  MaxResults,   \* max_results, and the limits of the callers
  Budget,       \* max_context_tokens
  Tokens,       \* estimate_tokens of a text
  TakeRecent, TakeOwn,  \* how many of each layer a context takes (5 and 3)
  None,
  Kinds,        \* types a search filters by, None for any
  Shares,       \* pairs <<caller, target>> that may be granted and revoked
  MaxCrash      \* bound: crashes

Types == {"episodic", "semantic", "procedural"}

ASSUME MemoryAssumption ==
  /\ Owner \in [Memories -> Agents \cup {None}] /\ None \notin Agents
  /\ TaskOf \in [Memories -> Tasks \cup {None}] /\ None \notin Tasks
  /\ Tasks \cap Agents = {}
  /\ Type \in [Memories -> Types]
  /\ Importance \in [Memories -> Nat] /\ Threshold \in Nat
  /\ Size \in Nat \ {0} /\ MaxResults \in Nat \ {0} /\ MaxCrash \in Nat
  /\ Budget \in Nat /\ TakeRecent \in Nat /\ TakeOwn \in Nat
  /\ \A m \in Memories : Tokens[Text[m]] \in Nat
  /\ Kinds \subseteq Types \cup {None} /\ Shares \subseteq Agents \X Agents
  /\ IsFiniteSet(Memories)

VARIABLES
  working,  \* working memory, oldest first
  rows,     \* rows of the table, by memory
  adding,   \* memories whose add() is persisting
  saving,   \* evicted memories a spawned task is persisting
  outcome,  \* of add(): "none", "kept" (persisted), "held", "failed", "lost"
  missed,   \* important memories that a crash, a clear or a failed write took away
  grants,   \* pairs <<caller, target>> of shared access
  reader,   \* by reader: its operation
  crashes

storeVars == <<working, rows, adding, saving, outcome, missed>>
vars == <<storeVars, grants, reader, crashes>>

Working == ToSet(working)
Important(m) == Importance[m] > Threshold

Idle == [op |-> "idle", hits |-> {}, who |-> None, whom |-> None, kind |-> None,
         sure |-> {}, context |-> FALSE, parts |-> <<>>]

Init ==
  /\ working = <<>> /\ rows = [m \in Memories |-> 0]
  /\ adding = {} /\ saving = {}
  /\ outcome = [m \in Memories |-> "none"] /\ missed = {}
  /\ grants = {}
  /\ reader = [r \in Readers |-> Idle]
  /\ crashes = 0

-----------------------------------------------------------------------------
(* Writing *)

(* Deviation: the eviction stops one too early. *)
Kept_more(seq) ==
  IF Len(seq) > Size + 1 THEN SubSeq(seq, Len(seq) - Size, Len(seq)) ELSE seq

(* Under the lock: append, then drop from the front what is over the size.  *)
Evicted(seq) == IF Len(seq) > Size THEN {seq[i] : i \in 1..(Len(seq) - Size)} ELSE {}
Kept(seq) == IF Len(seq) > Size THEN SubSeq(seq, Len(seq) - Size + 1, Len(seq)) ELSE seq

(* Deviation: what is evicted is forgotten. *)
Add_forgets(m, persist) ==
  /\ outcome[m] = "none" /\ m \notin adding
  /\ working' = Kept(Append(working, m))
  /\ IF persist
     THEN adding' = adding \cup {m} /\ UNCHANGED outcome
     ELSE outcome' = [outcome EXCEPT ![m] = "held"] /\ UNCHANGED adding
  /\ UNCHANGED <<rows, saving, missed, grants, reader, crashes>>

Add(m, persist) ==
  /\ outcome[m] = "none" /\ m \notin adding
  /\ working' = Kept(Append(working, m))
  /\ saving' = saving \cup {e \in Evicted(Append(working, m)) : Important(e)}
  /\ IF persist
     THEN adding' = adding \cup {m} /\ UNCHANGED outcome
     ELSE outcome' = [outcome EXCEPT ![m] = "held"] /\ UNCHANGED adding
  /\ UNCHANGED <<rows, missed, grants, reader, crashes>>

(* add_authorized(): only for oneself, or for nobody. *)
AddAuthorized(caller, m, persist) ==
  /\ Owner[m] \in {caller, None}
  /\ Add(m, persist)

(* The row of a memory; the table does not look for another one of it. *)
WriteRow(m) == rows' = [rows EXCEPT ![m] = @ + 1]

(* persist(): the embedding and the write of the row. *)
Persist(m) ==
  /\ m \in adding
  /\ adding' = adding \ {m}
  /\ WriteRow(m)
  /\ outcome' = [outcome EXCEPT ![m] = "kept"]
  /\ UNCHANGED <<working, saving, missed, grants, reader, crashes>>

(* Deviation: the error of the write is not passed on. *)
PersistFails_quietly(m) ==
  /\ m \in adding
  /\ adding' = adding \ {m}
  /\ outcome' = [outcome EXCEPT ![m] = "kept"]
  /\ UNCHANGED <<working, rows, saving, missed, grants, reader, crashes>>

(* The embedding or the write fails: add() returns the error; the memory    *)
(* stays in working memory.                                                 *)
PersistFails(m) ==
  /\ m \in adding
  /\ adding' = adding \ {m}
  /\ outcome' = [outcome EXCEPT ![m] = "failed"]
  /\ UNCHANGED <<working, rows, saving, missed, grants, reader, crashes>>

(* persist_internal() of the spawned task. *)
SaveEvicted(m) ==
  /\ m \in saving
  /\ saving' = saving \ {m}
  /\ WriteRow(m)
  /\ UNCHANGED <<working, adding, outcome, missed, grants, reader, crashes>>

SaveFails(m) ==
  /\ m \in saving
  /\ saving' = saving \ {m}
  /\ missed' = missed \cup {m}
  /\ UNCHANGED <<working, rows, adding, outcome, grants, reader, crashes>>

ClearWorkingMemory ==
  /\ working # <<>>
  /\ working' = <<>>
  /\ missed' = missed \cup {m \in Working : Important(m)}
  /\ UNCHANGED <<rows, adding, saving, outcome, grants, reader, crashes>>

Crash ==
  /\ crashes < MaxCrash
  /\ crashes' = crashes + 1
  /\ working' = <<>> /\ adding' = {} /\ saving' = {}
  /\ missed' = missed \cup saving \cup {m \in Working : Important(m)}
  /\ outcome' = [m \in Memories |-> IF m \in adding THEN "lost" ELSE outcome[m]]
  /\ grants' = {}
  /\ reader' = [r \in Readers |-> Idle]
  /\ UNCHANGED rows

-----------------------------------------------------------------------------
(* Access control *)

Grant(pair) ==
  /\ pair \notin grants
  /\ grants' = grants \cup {pair}
  /\ UNCHANGED <<storeVars, reader, crashes>>

Revoke(pair) ==
  /\ pair \in grants
  /\ grants' = grants \ {pair}
  /\ UNCHANGED <<storeVars, reader, crashes>>

CanRead(caller, target) == caller = target \/ <<caller, target>> \in grants

-----------------------------------------------------------------------------
(* Reading *)

Step(r, rec) ==
  /\ reader' = [reader EXCEPT ![r] = rec]
  /\ UNCHANGED <<storeVars, grants, crashes>>

(* The memories of an agent or a task. *)
Of(key) == {m \in Memories : key \in {Owner[m], TaskOf[m]}}
OfKind(k) == {m \in Memories : k \in {None, Type[m]}}

Limit(n) == IF n < MaxResults THEN n ELSE MaxResults
RowsOf(S) == MapThenSumSet(LAMBDA m : rows[m], S)

(* The memories that rows are read back as. *)
Stored == {m \in Memories : rows[m] > 0}

(* What a query with a limit can return: rows are counted against it, so a  *)
(* memory with two rows may take the place of another one.                  *)
Found(S) ==
  {H \in SUBSET (S \cap Stored) :
     /\ Cardinality(H) <= Limit(RowsOf(S))
     /\ RowsOf(H) >= Limit(RowsOf(S))}

(* search(): working memory by keyword, under its lock. *)
SearchWorking(rec, kind) ==
  {[rec EXCEPT !.op = "search", !.kind = kind, !.hits = matching] :
     matching \in SUBSET (Working \cap OfKind(kind))}

Search(r, kind) ==
  /\ reader[r].op = "idle"
  /\ \E rec \in SearchWorking(Idle, kind) : Step(r, rec)

(* Then the rows nearest to the query; the most important ones are kept.    *)
Best(S) == {B \in SUBSET S : /\ Cardinality(B) = Limit(Cardinality(S))
                             /\ \A b \in B, x \in S \ B : Importance[b] >= Importance[x]}

SearchTable(r) ==
  /\ reader[r].op = "search"
  /\ \E H \in Found(OfKind(reader[r].kind)) : \E B \in Best(reader[r].hits \cup H) :
       Step(r, [reader[r] EXCEPT !.op = "search done", !.hits = B])

(* The embedding or the query fails: so does the search or the context. *)
SearchFails(r) ==
  /\ reader[r].op = "search"
  /\ Step(r, Idle)

(* get_by_agent_authorized(): the check, which may wait for the policy lock.*)
AskAgent(r, caller, target) ==
  /\ reader[r].op = "idle"
  /\ Step(r, [Idle EXCEPT !.op = "check", !.who = caller, !.whom = target])

CheckAccess(r) ==
  /\ reader[r].op = "check"
  /\ Step(r, IF CanRead(reader[r].who, reader[r].whom)
             THEN [reader[r] EXCEPT !.op = "agent", !.who = None] ELSE Idle)

(* get_by_task(): no check.                                                 *)
AskTask(r, t) ==
  /\ reader[r].op = "idle"
  /\ Step(r, [Idle EXCEPT !.op = "agent", !.whom = t])

(* get_by_agent() and get_by_task(): the memories in working memory, then   *)
(* those in the table.  "sure" is what was in either when the reading began.*)
AgentWorking(r) ==
  /\ reader[r].op = "agent"
  /\ LET mine == Of(reader[r].whom) IN
       Step(r, [reader[r] EXCEPT !.op = "agent table", !.hits = mine \cap Working,
                  !.sure = mine \cap (Working \cup Stored)])

(* Deviation: the table replaces what working memory had. *)
AgentTable_only(r) ==
  /\ reader[r].op = "agent table"
  /\ \E H \in Found(Of(reader[r].whom)) :
       Step(r, [reader[r] EXCEPT !.op = "agent done", !.hits = H,
                  !.sure = IF RowsOf(Of(reader[r].whom)) > MaxResults THEN {} ELSE @])

AgentTable(r) ==
  /\ reader[r].op = "agent table"
  /\ \E H \in Found(Of(reader[r].whom)) :
       Step(r, [reader[r] EXCEPT !.op = "agent done", !.hits = @ \cup H,
                  !.sure = IF RowsOf(Of(reader[r].whom)) > MaxResults
                           THEN {} ELSE @])

(* A query error is logged, a batch that fails is left out. *)
AgentTableFails(r) ==
  /\ reader[r].op = "agent table"
  /\ \E H \in SUBSET (Of(reader[r].whom) \cap Stored) :
       Step(r, [reader[r] EXCEPT !.op = "agent done", !.hits = @ \cup H, !.sure = {}])

Return(r) ==
  /\ \/ reader[r].op \in {"search done", "agent done"} /\ ~reader[r].context
     \/ reader[r].op = "context done"
  /\ Step(r, Idle)

-----------------------------------------------------------------------------
(* build_context(): parts are taken in order while they fit; the first that *)
(* does not ends its layer, not the context.                                *)

Used(parts) == FoldLeft(LAMBDA sum, p : sum + Tokens[p], 0, parts)

(* Deviation: a part is taken while there is budget left at all. *)
Take_over(acc, m, dedupe) ==
  IF acc.full \/ Used(acc.parts) > Budget
  THEN [acc EXCEPT !.full = TRUE]
  ELSE IF dedupe /\ Contains(acc.parts, Text[m])
       THEN acc
       ELSE [acc EXCEPT !.parts = Append(@, Text[m])]

Take(acc, m, dedupe) ==
  IF acc.full \/ Used(acc.parts) + Tokens[Text[m]] > Budget
  THEN [acc EXCEPT !.full = TRUE]
  ELSE IF dedupe /\ Contains(acc.parts, Text[m])
       THEN acc
       ELSE [acc EXCEPT !.parts = Append(@, Text[m])]

Layer(parts, seq, dedupe) ==
  FoldLeft(LAMBDA acc, m : Take(acc, m, dedupe), [parts |-> parts, full |-> FALSE], seq).parts

First(n, seq) == SubSeq(seq, 1, IF n < Len(seq) THEN n ELSE Len(seq))

(* The most recent working memories, not looked at for duplicates, and the  *)
(* search's pass over working memory.                                       *)
BuildContext(r, a) ==
  /\ reader[r].op = "idle"
  /\ Step(r, [Idle EXCEPT !.op = "context", !.whom = a, !.context = TRUE,
              !.parts = Layer(<<>>, First(TakeRecent, Reverse(working)), FALSE)])

ContextSearch(r) ==
  /\ reader[r].op = "context"
  /\ \E rec \in SearchWorking(reader[r], None) : Step(r, rec)

(* The search's results, most important first. *)
ContextFound(r) ==
  /\ reader[r].op = "search done" /\ reader[r].context
  /\ \E seq \in SetToSeqs(reader[r].hits) :
       /\ \A i, j \in DOMAIN seq : i < j => Importance[seq[i]] >= Importance[seq[j]]
       /\ Step(r, [reader[r] EXCEPT
            !.op = IF reader[r].whom = None THEN "context done" ELSE "agent",
            !.hits = {}, !.parts = Layer(@, seq, TRUE)])

(* The agent's own memories, a few of them. *)
ContextOwn(r) ==
  /\ reader[r].op = "agent done" /\ reader[r].context
  /\ \E seq \in SetToSeqs(reader[r].hits) :
       Step(r, [reader[r] EXCEPT !.op = "context done", !.hits = {}, !.sure = {},
                                 !.parts = Layer(@, First(TakeOwn, seq), TRUE)])

-----------------------------------------------------------------------------
Write ==
  \/ \E m \in Memories, p \in BOOLEAN :
       Add(m, p) \/ \E a \in Agents : AddAuthorized(a, m, p)
  \/ \E m \in adding : Persist(m) \/ PersistFails(m)
  \/ \E m \in saving : SaveEvicted(m) \/ SaveFails(m)
  \/ ClearWorkingMemory

Read(r) ==
  \/ \E k \in Kinds : Search(r, k)
  \/ SearchTable(r) \/ SearchFails(r)
  \/ \E a \in Agents, b \in Agents : AskAgent(r, a, b)
  \/ \E t \in Tasks : AskTask(r, t)
  \/ CheckAccess(r) \/ AgentWorking(r) \/ AgentTable(r) \/ AgentTableFails(r) \/ Return(r)
  \/ \E a \in Agents \cup {None} : BuildContext(r, a)
  \/ ContextSearch(r) \/ ContextFound(r) \/ ContextOwn(r)

Next ==
  \/ Write \/ Crash
  \/ \E p \in Shares : Grant(p) \/ Revoke(p)
  \/ \E r \in Readers : Read(r)

Spec == Init /\ [][Next]_vars

-----------------------------------------------------------------------------
Ops == {"idle", "search", "search done", "check", "agent", "agent table", "agent done",
        "context", "context done"}
Outcomes == {"none", "kept", "held", "failed", "lost"}

(* Type invariant. *)
TypeOK ==
  /\ working \in Seq(Memories) /\ Len(working) <= Size
  /\ rows \in [Memories -> Nat]
  /\ adding \subseteq Memories /\ saving \subseteq Memories /\ missed \subseteq Memories
  /\ outcome \in [Memories -> Outcomes]
  /\ grants \subseteq Agents \X Agents
  /\ reader \in [Readers ->
       [op : Ops, hits : SUBSET Memories, who : Agents \cup {None},
        whom : Agents \cup Tasks \cup {None}, kind : Types \cup {None},
        sure : SUBSET Memories, context : BOOLEAN,
        parts : Seq({Text[m] : m \in Memories})]]
  /\ crashes \in 0..MaxCrash

(* A memory whose add() with persist returned Ok has a row, through crashes *)
(* and whatever the evictions of other calls do meanwhile.                  *)
PersistedIsKept == \A m \in Memories : outcome[m] = "kept" => rows[m] > 0

(* An important memory is somewhere, persisted or not and whether or not    *)
(* its own add() failed to persist it: eviction hands it to a task that     *)
(* writes it, and only a crash, a clear or a failed write loses it.         *)
ImportantIsKept ==
  \A m \in Memories :
    outcome[m] \in {"kept", "held", "failed"} /\ Important(m) =>
      m \in Working \cup saving \cup missed \/ rows[m] > 0

(* A reader of an agent's or a task's memories misses none that was stored  *)
(* when it began, although memories move from one layer to the other        *)
(* between its two looks; only a failed query or the limit on rows cuts     *)
(* some off.                                                                *)
AgentSeesAll ==
  \A r \in Readers : reader[r].op = "agent done" => reader[r].sure \subseteq reader[r].hits

(* The parts of a context stay within its budget, and only the first layer  *)
(* repeats a text.  The header and the line ends between the parts come on  *)
(* top: the code counts the parts only.                                     *)
ContextFits ==
  \A r \in Readers :
    /\ Used(reader[r].parts) <= Budget
    /\ \A i, j \in DOMAIN reader[r].parts :
         i < j /\ reader[r].parts[i] = reader[r].parts[j] => j <= TakeRecent

=============================================================================
