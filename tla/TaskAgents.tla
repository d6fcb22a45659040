----------------------------- MODULE TaskAgents -----------------------------
(***************************************************************************)
(* The five agents without a terminal: planning, writing, review, testing, *)
(* research.  Their process_task() runs a pipeline of awaits (memory, the  *)
(* web, commands, the model), each of which may fail without failing the   *)
(* task.  The first four take one task at a time with a busy flag that is  *)
(* reset by a statement; research takes several with a semaphore.  A task  *)
(* may be dropped at an await, when the client of message/send leaves.     *)
(***************************************************************************)
EXTENDS LlmClient

CONSTANTS
  Setups,       \* the agents an instance can be about
  Slots,        \* max_concurrent of the research agent
  MaxResults    \* max_search_results

Agents == {"planning", "writing", "review", "testing", "research"}

ASSUME AgentsAssumption ==
  /\ Setups \subseteq [kind : Agents, llm : BOOLEAN, memory : BOOLEAN, searxng : BOOLEAN,
                       provider : {"openai", "anthropic"}]
  /\ Slots \in Nat \ {0} /\ MaxResults \in Nat

VARIABLES
  setup,  \* the agent, and what is attached to it
  busy,   \* its busy flag
  slots,  \* free permits of its semaphore
  task    \* by caller: the await its task is at, the turns left there, results, answer

vars == <<llmVars, setup, busy, slots, task>>

Research == setup.kind = "research"

(* The awaits of process_task(), in order. *)
PlanningPipeline == <<"start", "recall", "llm", "store", "end">>
WritingPipeline == <<"start", "recall", "llm", "store", "end">>
ReviewPipeline == <<"start", "command", "llm", "end">>
TestingPipeline == <<"start", "command", "llm", "end">>
ResearchPipeline ==
  <<"start", "recall", "search", "fallback", "fetch", "llm", "store", "end">>

Pipeline ==
  CASE setup.kind = "planning" -> PlanningPipeline
    [] setup.kind = "writing"  -> WritingPipeline
    [] setup.kind = "review"   -> ReviewPipeline
    [] setup.kind = "testing"  -> TestingPipeline
    [] setup.kind = "research" -> ResearchPipeline

Awaits == {"recall", "command", "search", "fallback", "fetch", "llm", "store"}
NoTask == [at |-> "none", left |-> 0, results |-> 0, answer |-> "text"]
Active == {t \in Callers : task[t].at \in Awaits}

Init ==
  /\ LlmInit
  /\ setup \in Setups
  /\ busy = FALSE
  /\ slots = Slots
  /\ task = [t \in Callers |-> NoTask]

-----------------------------------------------------------------------------
(* How often an await may be made: the memory is searched once, by research *)
(* twice; a review has three checks; the pages are those of the first three *)
(* results with an address; research stores a finding per result with a     *)
(* long snippet and one for the query.                                      *)
RecallTurns == {IF ~setup.memory THEN 0 ELSE IF Research THEN 2 ELSE 1}
CommandTurns == {IF setup.kind = "review" THEN 3 ELSE 1}
FetchTurns(results) == 0..(IF results < 3 THEN results ELSE 3)
StoreTurns(results) ==
  IF ~setup.memory THEN {0}
  ELSE IF ~Research THEN {1}
  ELSE IF results = 0 THEN {0} ELSE 1..(results + 1)

Turns(stage, rec) ==
  CASE stage = "recall"   -> RecallTurns
    [] stage = "command"  -> CommandTurns
    [] stage = "search"   -> {IF setup.searxng THEN 1 ELSE 0}
    [] stage = "fallback" -> {IF setup.searxng THEN 0 ELSE 1}
    [] stage = "fetch"    -> FetchTurns(rec.results)
    [] stage = "llm"      -> {IF setup.llm THEN 1 ELSE 0}
    [] stage = "store"    -> StoreTurns(rec.results)
    [] stage = "end"      -> {1}

(* Where a task may go when it is through with an await: to the next one    *)
(* that is made at all.                                                     *)
Nexts(rec) ==
  LET here == CHOOSE i \in DOMAIN Pipeline : Pipeline[i] = rec.at
      reached == {j \in 2..Len(Pipeline) :
                    j > here /\ \A k \in (here + 1)..(j - 1) : 0 \in Turns(Pipeline[k], rec)}
  IN  UNION {{[rec EXCEPT !.at = Pipeline[j], !.left = n] :
                n \in Turns(Pipeline[j], rec) \ {0}} : j \in reached}

(* The summary that planning and writing store is cut at a byte: inside a   *)
(* character that panics, and nobody resets the flag.                       *)
Panics(next) ==
  IF next.at = "store" /\ ~Research THEN {next, [next EXCEPT !.at = "panicked"]} ELSE {next}

Release == busy' = FALSE /\ slots' = IF Research THEN slots + 1 ELSE slots

Continue(t, rec) ==
  \E next \in UNION {Panics(n) : n \in Nexts(rec)} :
    /\ task' = [task EXCEPT ![t] = next]
    /\ IF next.at = "end" THEN Release ELSE UNCHANGED <<busy, slots>>

(* One await is over. *)
Turn(t, rec) ==
  IF rec.left > 1
  THEN task' = [task EXCEPT ![t] = [rec EXCEPT !.left = @ - 1]] /\ UNCHANGED <<busy, slots>>
  ELSE Continue(t, rec)

-----------------------------------------------------------------------------
Starts(t) ==
  \E next \in Nexts([NoTask EXCEPT !.at = "start"]) : task' = [task EXCEPT ![t] = next]

(* A task without an await is over at once.                                 *)
Awaiting(t) == task'[t].at # "end"

(* Deviation: the flag is set without a look at it. *)
Claim_blind(t) ==
  /\ task[t].at = "none" /\ ~Research
  /\ Starts(t)
  /\ busy' = Awaiting(t)
  /\ UNCHANGED <<llmVars, setup, slots>>

(* handle() and process_task(): refused when another task has the agent, or *)
(* queued for a slot.                                                       *)
Claim(t) ==
  /\ task[t].at = "none" /\ ~Research /\ ~busy
  /\ Starts(t)
  /\ busy' = Awaiting(t)
  /\ UNCHANGED <<llmVars, setup, slots>>

Refuse(t) ==
  /\ task[t].at = "none" /\ ~Research /\ busy
  /\ task' = [task EXCEPT ![t].at = "refused"]
  /\ UNCHANGED <<llmVars, setup, busy, slots>>

TakeSlot(t) ==
  /\ task[t].at = "none" /\ Research /\ slots > 0
  /\ Starts(t)
  /\ slots' = IF Awaiting(t) THEN slots - 1 ELSE slots
  /\ UNCHANGED <<llmVars, setup, busy>>

(* Memory found something, nothing, or failed. *)
Recall(t) ==
  /\ task[t].at = "recall"
  /\ Turn(t, task[t])
  /\ UNCHANGED <<llmVars, setup>>

(* A page was fetched, or not. *)
Fetch(t) ==
  /\ task[t].at = "fetch"
  /\ Turn(t, task[t])
  /\ UNCHANGED <<llmVars, setup>>

(* A plan, a draft or a finding was stored, or not. *)
Store(t) ==
  /\ task[t].at = "store"
  /\ Turn(t, task[t])
  /\ UNCHANGED <<llmVars, setup>>

(* A command ran, failed or could not be started. *)
CommandEnds(t) ==
  /\ task[t].at = "command"
  /\ Turn(t, task[t])
  /\ UNCHANGED <<llmVars, setup>>

(* SearXNG: an error status falls back to DuckDuckGo, other failures end    *)
(* the search with nothing.                                                 *)
Search(t) ==
  /\ task[t].at = "search"
  /\ \/ \E n \in 0..MaxResults : Continue(t, [task[t] EXCEPT !.at = "fallback", !.results = n])
     \/ task' = [task EXCEPT ![t].at = "fallback"] /\ UNCHANGED <<busy, slots>>
  /\ UNCHANGED <<llmVars, setup>>

(* DuckDuckGo: an abstract and the related topics. *)
Fallback(t) ==
  /\ task[t].at = "fallback"
  /\ \E n \in 0..(MaxResults + 1) : Continue(t, [task[t] EXCEPT !.results = n])
  /\ UNCHANGED <<llmVars, setup>>

(* sanitize_unicode(): what is not ASCII and has no replacement is a space. *)
Sanitized(s) == IF Research /\ s = "foreign" THEN "blank" ELSE s

(* Deviation: an empty answer is taken too. *)
Enhance_any(t) ==
  /\ task[t].at = "llm" /\ call[t].at \in {"ok", "err"}
  /\ Turn(t, IF call[t].at = "ok"
             THEN [task[t] EXCEPT !.answer = Sanitized(call[t].content)] ELSE task[t])
  /\ Forget(t)
  /\ UNCHANGED setup

(* enhance_with_llm(): an error or an empty answer leaves the template. *)
Enhances(t) == call[t].at = "ok" /\ call[t].content # ""

Enhance(t) ==
  /\ task[t].at = "llm" /\ call[t].at \in {"ok", "err"}
  /\ Turn(t, IF Enhances(t)
             THEN [task[t] EXCEPT !.answer = Sanitized(call[t].content)] ELSE task[t])
  /\ Forget(t)
  /\ UNCHANGED setup

Llm(t) ==
  /\ task[t].at = "llm"
  /\ Acquire(t) \/ Succeeds(t, setup.provider) \/ Fails(t) \/ Wakes(t)
  /\ UNCHANGED <<setup, busy, slots, task>>

LlmHangs(t) == Hangs(t) /\ UNCHANGED <<setup, busy, slots, task>>

(* The future of the handler is dropped at an await: guards are dropped     *)
(* with it, the statement that resets the flag is not run.                  *)
Drop(t) ==
  /\ t \in Active
  /\ task' = [task EXCEPT ![t].at = "dropped"]
  /\ slots' = IF Research THEN slots + 1 ELSE slots
  /\ Forget(t)
  /\ UNCHANGED <<setup, busy>>

-----------------------------------------------------------------------------
Step(t) ==
  \/ Claim(t) \/ Refuse(t) \/ TakeSlot(t) \/ Search(t) \/ Fallback(t) \/ Fetch(t)
  \/ Enhance(t) \/ Llm(t)

(* Awaits without a time limit. *)
Untimed(t) == CommandEnds(t) \/ Recall(t) \/ Store(t)

Next == \E t \in Callers : Step(t) \/ Untimed(t) \/ LlmHangs(t) \/ Drop(t)

(* The requests of research over HTTP end by their time limit.  A command   *)
(* and a request to the model need not end, nor need the memory: its        *)
(* embedding loads a model in the middle of the await.  While it does it    *)
(* keeps a worker thread of the runtime; the assumption is for the others.  *)
Fairness == \A t \in Callers : WF_vars(Step(t))

Spec == Init /\ [][Next]_vars /\ Fairness

-----------------------------------------------------------------------------
(* Type invariant: among others, complete() makes no attempt after its last *)
(* retry: its loop returns there, and never ends into the unwrap behind it. *)
TypeOK ==
  /\ permits \in 0..Permits
  /\ call \in [Callers -> [at : {"idle", "sent", "hung", "asleep", "ok", "err"},
                           attempt : 0..MaxRetries, content : Contents]]
  /\ setup \in Setups /\ busy \in BOOLEAN /\ slots \in 0..Slots
  /\ task \in [Callers -> [at : Awaits \cup {"none", "end", "refused", "panicked", "dropped"},
                           left : Nat, results : 0..(MaxResults + 1), answer : Contents]]

(* An agent is taken by its tasks only: research has as many slots free as  *)
(* it has no tasks for, through drops; a busy flag that is set belongs to   *)
(* exactly one task, or is left over from one that was dropped or panicked. *)
ClaimsOwned ==
  IF Research THEN slots + Cardinality(Active) = Slots
  ELSE /\ Active # {} => busy /\ Cardinality(Active) = 1
       /\ busy /\ Active = {} => \E t \in Callers : task[t].at \in {"dropped", "panicked"}

(* A task never ends with a blank answer, whatever failed on the way,       *)
(* except for two paths: the Anthropic client passes a blank answer on, and *)
(* research turns an answer in a foreign script into spaces.                *)
AnswersReadable ==
  \A t \in Callers :
    task[t].at = "end" /\ Blank(task[t].answer) =>
      task[t].answer = "blank" /\ (setup.provider = "anthropic" \/ Research)

(* Every task ends, unless it is stuck in a command, in the memory (its     *)
(* search, or the store of a result) or a request to the model hangs: the   *)
(* code puts a time limit on none of them.  A request that hangs may hold   *)
(* the permit the others wait for.                                          *)
EndsUnlessHung ==
  \A t \in Callers :
    t \in Active ~> \/ t \notin Active
                    \/ [](task[t].at \in {"command", "recall", "store"})
                    \/ [](\E c \in Callers : call[c].at = "hung")

=============================================================================
