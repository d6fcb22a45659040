--------------------------- MODULE TaskAgentsProofs ---------------------------
(***************************************************************************)
(* Theorems about TaskAgents and its LlmClient: no permit is lost, no      *)
(* agent is taken by two tasks, no answer is blank but on the two paths    *)
(* that allow it.  A step moves one call or one task; the lemmas say what  *)
(* that does to the set of those that hold something.                      *)
(***************************************************************************)
EXTENDS TaskAgents, FoldLemmas

(* Calls and tasks are records of their fields. *)
CallShape ==
  call = [c \in Callers |-> [at |-> call[c].at, attempt |-> call[c].attempt,
                             content |-> call[c].content]]
TaskShape ==
  task = [t \in Callers |-> [at |-> task[t].at, left |-> task[t].left,
                             results |-> task[t].results, answer |-> task[t].answer]]

OthersCall(c) == \A d \in Callers \ {c} : call'[d] = call[d]
OthersTask(t) == \A d \in Callers \ {t} : task'[d] = task[d]

LlmInv == CallShape /\ permits \in Nat /\ permits + Cardinality(Holding) = Permits

(* What an openai client returns is not blank. *)
ReplyInv ==
  \A c \in Callers : call[c].at = "ok" /\ setup.provider = "openai" => ~Blank(call[c].content)

Left == \E t \in Callers : task[t].at \in {"dropped", "panicked"}
ClaimInv ==
  IF Research THEN slots \in Nat /\ slots + Cardinality(Active) = Slots
  ELSE /\ \A s, t \in Active : s = t
       /\ Active # {} => busy
       /\ busy /\ Active = {} => Left

AnswerInv ==
  \A t \in Callers :
    Blank(task[t].answer) =>
      task[t].answer = "blank" /\ (setup.provider = "anthropic" \/ Research)

Inv == LlmInv /\ ReplyInv /\ setup \in Setups /\ TaskShape /\ ClaimInv /\ AnswerInv

-----------------------------------------------------------------------------
(* Sets that gain or lose a member. *)

LEMMA Gains ==
  ASSUME NEW S, IsFiniteSet(S), NEW x, x \notin S
  PROVE  IsFiniteSet(S \cup {x}) /\ Cardinality(S \cup {x}) = Cardinality(S) + 1
  BY FS_AddElement

LEMMA Loses ==
  ASSUME NEW S, IsFiniteSet(S), NEW x \in S
  PROVE  Cardinality(S \ {x}) = Cardinality(S) - 1 /\ Cardinality(S) \in Nat
  BY FS_RemoveElement, FS_CardinalityType

LEMMA SubsetsFinite == \A S \in SUBSET Callers : IsFiniteSet(S) /\ Cardinality(S) \in Nat
  BY LlmAssumption, FS_Subset, FS_CardinalityType

(* The steps of a record. *)
LEMMA CallMoves ==
  ASSUME CallShape, NEW c \in Callers, NEW x, NEW y, NEW n,
         \/ call' = [call EXCEPT ![c].at = x] /\ y = call[c].content
         \/ call' = [call EXCEPT ![c].at = x, ![c].content = y]
         \/ call' = [call EXCEPT ![c].at = x, ![c].attempt = n] /\ y = call[c].content
  PROVE  CallShape' /\ OthersCall(c) /\ call'[c].at = x /\ call'[c].content = y
  BY ZenonT(60) DEF CallShape, OthersCall

LEMMA CallForgotten ==
  ASSUME CallShape, NEW c \in Callers, call' = [call EXCEPT ![c] = NoCall]
  PROVE  CallShape' /\ OthersCall(c) /\ call'[c].at = "idle"
  BY DEF CallShape, OthersCall, NoCall

(* The permits follow the calls that hold one. *)
LEMMA HoldingMoves ==
  ASSUME LlmInv, NEW c \in Callers, CallShape', OthersCall(c),
         LET held == c \in Holding
             holds == call'[c].at \in {"sent", "hung", "asleep"}
         IN  permits' = IF held /\ ~holds THEN permits + 1
                        ELSE IF ~held /\ holds THEN permits - 1 ELSE permits,
         permits' \in Nat
  PROVE  LlmInv'
<1> DEFINE holds == call'[c].at \in {"sent", "hung", "asleep"}
<1>1. Holding \subseteq Callers /\ IsFiniteSet(Holding) /\ Cardinality(Holding) \in Nat
  BY SubsetsFinite DEF Holding
<1>2. permits \in Nat /\ permits + Cardinality(Holding) = Permits  BY DEF LlmInv
<1>3. CASE c \in Holding /\ ~holds
  <2>1. Holding' = Holding \ {c}  BY <1>3 DEF Holding, OthersCall
  <2>2. Cardinality(Holding') = Cardinality(Holding) - 1  BY <1>1, <1>3, <2>1, Loses
  <2> QED  BY <1>1, <1>2, <1>3, <2>2 DEF LlmInv
<1>4. CASE c \notin Holding /\ holds
  <2>1. Holding' = Holding \cup {c}  BY <1>4 DEF Holding, OthersCall
  <2>2. Cardinality(Holding') = Cardinality(Holding) + 1  BY <1>1, <1>4, <2>1, Gains
  <2> QED  BY <1>1, <1>2, <1>4, <2>2 DEF LlmInv
<1>5. CASE (c \in Holding /\ holds) \/ (c \notin Holding /\ ~holds)
  <2>1. Holding' = Holding  BY <1>5 DEF Holding, OthersCall
  <2> QED  BY <1>2, <1>5, <2>1 DEF LlmInv
<1> QED  BY <1>3, <1>4, <1>5

-----------------------------------------------------------------------------
(* The client: one lemma per action. *)

LEMMA AcquireKeeps ==
  ASSUME LlmInv, NEW c \in Callers, Acquire(c)
  PROVE  LlmInv' /\ OthersCall(c) /\ call'[c].at = "sent"
<1>1. CallShape' /\ OthersCall(c) /\ call'[c].at = "sent"  BY CallMoves DEF LlmInv, Acquire, Goes
<1>2. c \notin Holding /\ permits' = permits - 1 /\ permits' \in Nat
  BY DEF Acquire, Holding, LlmInv
<1> QED  BY <1>1, <1>2, HoldingMoves

LEMMA EndsKeeps ==
  ASSUME LlmInv, NEW c \in Callers, call[c].at = "sent", NEW at \in {"ok", "err"}, NEW content,
         Ends(c, at, content)
  PROVE  LlmInv' /\ OthersCall(c) /\ call'[c].at = at /\ call'[c].content = content
<1>1. CallShape' /\ OthersCall(c) /\ call'[c].at = at /\ call'[c].content = content
  BY CallMoves DEF LlmInv, Ends
<1>2. c \in Holding /\ permits' = permits + 1 /\ permits' \in Nat
  BY DEF Ends, Holding, LlmInv
<1> QED  BY <1>1, <1>2, HoldingMoves

LEMMA SucceedsKeeps ==
  ASSUME LlmInv, NEW c \in Callers, NEW p, Succeeds(c, p)
  PROVE  /\ LlmInv' /\ OthersCall(c) /\ call'[c].at = "ok"
         /\ p = "openai" => ~Blank(call'[c].content)
<1>1. PICK b \in Bodies : Accepted(p, b) /\ Ends(c, "ok", ContentOf(p, b))  BY DEF Succeeds
<1>2. call[c].at = "sent"  BY DEF Succeeds
<1>3. LlmInv' /\ OthersCall(c) /\ call'[c].at = "ok" /\ call'[c].content = ContentOf(p, b)
  BY <1>1, <1>2, EndsKeeps
<1> QED  BY <1>1, <1>3 DEF Accepted

(* A call goes to sleep, wakes up or hangs with its permit. *)
LEMMA GoesKeeps ==
  ASSUME LlmInv, NEW c \in Callers, call[c].at \in {"sent", "asleep"}, UNCHANGED permits,
         NEW at \in {"asleep", "sent", "hung"}, NEW n,
         Goes(c, at) \/ call' = [call EXCEPT ![c].at = at, ![c].attempt = n]
  PROVE  LlmInv' /\ OthersCall(c) /\ call'[c].at = at
<1>1. CallShape' /\ OthersCall(c) /\ call'[c].at = at  BY CallMoves DEF LlmInv, Goes
<1>2. c \in Holding /\ permits' \in Nat  BY DEF Holding, LlmInv
<1> QED  BY <1>1, <1>2, HoldingMoves

LEMMA FailsKeeps ==
  ASSUME LlmInv, NEW c \in Callers, Fails(c)
  PROVE  LlmInv' /\ OthersCall(c) /\ call'[c].at # "ok"
<1>1. call[c].at = "sent"  BY DEF Fails
<1>2. Ends(c, "err", "") \/ (Goes(c, "asleep") /\ UNCHANGED permits)  BY DEF Fails
<1> QED  BY <1>1, <1>2, EndsKeeps, GoesKeeps

LEMMA WakesKeeps ==
  ASSUME LlmInv, NEW c \in Callers, Wakes(c)
  PROVE  LlmInv' /\ OthersCall(c) /\ call'[c].at # "ok"
<1> DEFINE n == call[c].attempt + 1
<1>1. call[c].at = "asleep" /\ UNCHANGED permits  BY DEF Wakes
<1>2. call' = [call EXCEPT ![c].at = "sent", ![c].attempt = n]  BY DEF Wakes
<1> QED  BY <1>1, <1>2, GoesKeeps

LEMMA HangsKeeps ==
  ASSUME LlmInv, NEW c \in Callers, Hangs(c)
  PROVE  LlmInv' /\ OthersCall(c) /\ call'[c].at # "ok"
<1>1. call[c].at = "sent" /\ UNCHANGED permits /\ Goes(c, "hung")  BY DEF Hangs
<1> QED  BY <1>1, GoesKeeps

LEMMA ForgetKeeps ==
  ASSUME LlmInv, NEW c \in Callers, Forget(c)
  PROVE  LlmInv' /\ OthersCall(c) /\ call'[c].at # "ok"
<1>1. CallShape' /\ OthersCall(c) /\ call'[c].at = "idle"  BY CallForgotten DEF LlmInv, Forget
<1>2. permits' = (IF c \in Holding THEN permits + 1 ELSE permits) /\ permits' \in Nat
  BY DEF Forget, LlmInv
<1> QED  BY <1>1, <1>2, HoldingMoves

(* The replies, from the one call that moved. *)
LEMMA ReplyFrame ==
  ASSUME ReplyInv, NEW c \in Callers, OthersCall(c), UNCHANGED setup,
         call'[c].at = "ok" /\ setup.provider = "openai" => ~Blank(call'[c].content)
  PROVE  ReplyInv'
  BY DEF ReplyInv, OthersCall

-----------------------------------------------------------------------------
(* Tasks *)

(* The stages behind the first are awaits or the end. *)
LEMMA PipelineStages ==
  ASSUME setup \in Setups
  PROVE  \A j \in 2..Len(Pipeline) : Pipeline[j] \in Awaits \cup {"end"}
<1>1. setup.kind \in Agents  BY AgentsAssumption
<1>2. CASE setup.kind = "planning"  BY <1>2 DEF Pipeline, PlanningPipeline, Awaits
<1>3. CASE setup.kind = "writing"  BY <1>3 DEF Pipeline, WritingPipeline, Awaits
<1>4. CASE setup.kind = "review"  BY <1>4 DEF Pipeline, ReviewPipeline, Awaits
<1>5. CASE setup.kind = "testing"  BY <1>5 DEF Pipeline, TestingPipeline, Awaits
<1>6. CASE setup.kind = "research"  BY <1>6 DEF Pipeline, ResearchPipeline, Awaits
<1> QED  BY <1>1, <1>2, <1>3, <1>4, <1>5, <1>6 DEF Agents

Shape(rec) ==
  rec = [at |-> rec.at, left |-> rec.left, results |-> rec.results, answer |-> rec.answer]

LEMMA NextStages ==
  ASSUME setup \in Setups, NEW rec, Shape(rec), NEW next \in Nexts(rec)
  PROVE  Shape(next) /\ next.answer = rec.answer /\ next.at \in Awaits \cup {"end"}
<1> DEFINE here == CHOOSE i \in DOMAIN Pipeline : Pipeline[i] = rec.at
           reached == {j \in 2..Len(Pipeline) :
                         j > here /\ \A k \in (here + 1)..(j - 1) : 0 \in Turns(Pipeline[k], rec)}
           At(j) == {[rec EXCEPT !.at = Pipeline[j], !.left = n] : n \in Turns(Pipeline[j], rec) \ {0}}
<1>1. PICK j \in 2..Len(Pipeline) : \E n : next = [rec EXCEPT !.at = Pipeline[j], !.left = n]
  <2>1. Nexts(rec) = UNION {At(j) : j \in reached}  BY DEF Nexts
  <2>2. PICK j \in reached : next \in At(j)  BY <2>1
  <2> QED  BY <2>2
<1>2. PICK n : next = [rec EXCEPT !.at = Pipeline[j], !.left = n]  BY <1>1
<1>3. Pipeline[j] \in Awaits \cup {"end"}  BY <1>1, PipelineStages
<1>4. next = [at |-> Pipeline[j], left |-> n, results |-> rec.results, answer |-> rec.answer]
  BY <1>2 DEF Shape
<1> QED  BY <1>3, <1>4 DEF Shape

(* A task moves to a record. *)
LEMMA TaskMoves ==
  ASSUME TaskShape, NEW t \in Callers, NEW rec, Shape(rec), task' = [task EXCEPT ![t] = rec]
  PROVE  TaskShape' /\ OthersTask(t) /\ task'[t] = rec
  BY DEF TaskShape, Shape, OthersTask

LEMMA ShapeOf == ASSUME TaskShape, NEW t \in Callers PROVE Shape(task[t])
  BY DEF TaskShape, Shape

(* What an await that is over does to the flag and the slots: the task goes *)
(* on, is at its end, or has panicked.                                      *)
Outcome(t) ==
  \/ task'[t].at \in Awaits /\ UNCHANGED <<busy, slots>>
  \/ task'[t].at = "end" /\ Release
  \/ task'[t].at = "panicked" /\ ~Research /\ UNCHANGED <<busy, slots>>

LEMMA ContinueMoves ==
  ASSUME TaskShape, setup \in Setups, NEW t \in Callers, NEW rec, Shape(rec), Continue(t, rec)
  PROVE  TaskShape' /\ OthersTask(t) /\ task'[t].answer = rec.answer /\ Outcome(t)
<1>0. PICK next \in UNION {Panics(m) : m \in Nexts(rec)} :
        /\ task' = [task EXCEPT ![t] = next]
        /\ IF next.at = "end" THEN Release ELSE UNCHANGED <<busy, slots>>
  BY DEF Continue
<1>1. PICK n \in Nexts(rec) : next \in Panics(n)  BY <1>0
<1>2. Shape(n) /\ n.answer = rec.answer /\ n.at \in Awaits \cup {"end"}  BY NextStages
<1>3. \/ next = n
      \/ next = [n EXCEPT !.at = "panicked"] /\ ~Research
  BY <1>1 DEF Panics
<1>4. Shape(next) /\ next.answer = rec.answer
      /\ (next.at \in Awaits \cup {"end"} \/ (next.at = "panicked" /\ ~Research))
  <2>1. CASE next = n  BY <1>2, <2>1
  <2>2. CASE next = [n EXCEPT !.at = "panicked"] /\ ~Research
    <3>1. next = [at |-> "panicked", left |-> n.left, results |-> n.results, answer |-> n.answer]
      BY <1>2, <2>2 DEF Shape
    <3> QED  BY <1>2, <2>2, <3>1 DEF Shape
  <2> QED  BY <1>3, <2>1, <2>2
<1>5. TaskShape' /\ OthersTask(t) /\ task'[t] = next  BY <1>0, <1>4, TaskMoves
<1>6. "end" \notin Awaits  BY DEF Awaits
<1> QED  BY <1>0, <1>4, <1>5, <1>6 DEF Outcome

LEMMA TurnMoves ==
  ASSUME TaskShape, setup \in Setups, NEW t \in Callers, NEW rec, Shape(rec), rec.at \in Awaits,
         Turn(t, rec)
  PROVE  TaskShape' /\ OthersTask(t) /\ task'[t].answer = rec.answer /\ Outcome(t)
<1>1. CASE Continue(t, rec)  BY <1>1, ContinueMoves
<1>2. CASE task' = [task EXCEPT ![t] = [rec EXCEPT !.left = @ - 1]] /\ UNCHANGED <<busy, slots>>
  <2> DEFINE next == [rec EXCEPT !.left = @ - 1]
  <2>1. next = [at |-> rec.at, left |-> rec.left - 1, results |-> rec.results, answer |-> rec.answer]
    BY DEF Shape
  <2>2. Shape(next) /\ next.at \in Awaits /\ next.answer = rec.answer  BY <2>1 DEF Shape
  <2>3. TaskShape' /\ OthersTask(t) /\ task'[t] = next  BY <1>2, <2>2, TaskMoves
  <2> QED  BY <1>2, <2>2, <2>3 DEF Outcome
<1> QED  BY <1>1, <1>2 DEF Turn

(* The agent follows the task that has it. *)
LEMMA ActiveFinite == IsFiniteSet(Active) /\ Cardinality(Active) \in Nat /\ Active \subseteq Callers
<1>1. Active \subseteq Callers  BY DEF Active
<1> QED  BY <1>1, SubsetsFinite

(* An active task goes on. *)
LEMMA StaysKeeps ==
  ASSUME ClaimInv, NEW t \in Active, OthersTask(t), task'[t].at \in Awaits,
         UNCHANGED <<setup, busy, slots>>
  PROVE  ClaimInv'
<1>1. Active' = Active  BY DEF Active, OthersTask
<1> QED  BY <1>1 DEF ClaimInv, Research

(* An active task ends: with a release, or leaving the flag behind. *)
LEMMA EndsTaskKeeps ==
  ASSUME ClaimInv, NEW t \in Active, OthersTask(t), task'[t].at \notin Awaits, UNCHANGED setup,
         IF Research THEN slots' = slots + 1
         ELSE busy' = FALSE \/ (busy' = busy /\ task'[t].at \in {"dropped", "panicked"})
  PROVE  ClaimInv'
<1>1. Active' = Active \ {t} /\ t \in Callers  BY DEF Active, OthersTask
<1>2. CASE Research
  <2>1. slots \in Nat /\ slots + Cardinality(Active) = Slots  BY <1>2 DEF ClaimInv
  <2>2. Cardinality(Active') = Cardinality(Active) - 1 /\ Cardinality(Active) \in Nat
    BY <1>1, ActiveFinite, Loses
  <2>3. slots' \in Nat /\ slots' + Cardinality(Active') = Slots  BY <1>2, <2>1, <2>2
  <2> QED  BY <1>2, <2>3 DEF ClaimInv, Research
<1>3. CASE ~Research
  <2>1. \A s \in Active : s = t  BY <1>3 DEF ClaimInv
  <2>2. Active' = {}  BY <1>1, <2>1
  <2>3. busy' => Left'  BY <1>1, <1>3 DEF Left
  <2> QED  BY <1>3, <2>2, <2>3 DEF ClaimInv, Research
<1> QED  BY <1>2, <1>3

LEMMA OutcomeKeeps ==
  ASSUME ClaimInv, NEW t \in Active, OthersTask(t), Outcome(t), UNCHANGED setup
  PROVE  ClaimInv'
<1> "end" \notin Awaits /\ "panicked" \notin Awaits  BY DEF Awaits
<1>1. CASE task'[t].at \in Awaits /\ UNCHANGED <<busy, slots>>  BY <1>1, StaysKeeps
<1>2. CASE task'[t].at = "end" /\ Release  BY <1>2, EndsTaskKeeps DEF Release
<1>3. CASE task'[t].at = "panicked" /\ ~Research /\ UNCHANGED <<busy, slots>>
  BY <1>3, EndsTaskKeeps
<1> QED  BY <1>1, <1>2, <1>3 DEF Outcome

(* The start of a task. *)
LEMMA StartsMoves ==
  ASSUME TaskShape, setup \in Setups, NEW t \in Callers, Starts(t)
  PROVE  /\ TaskShape' /\ OthersTask(t) /\ task'[t].answer = "text"
         /\ task'[t].at \in Awaits \cup {"end"}
<1> DEFINE rec == [NoTask EXCEPT !.at = "start"]
<1>1. rec = [at |-> "start", left |-> 0, results |-> 0, answer |-> "text"]  BY DEF NoTask
<1>2. Shape(rec) /\ rec.answer = "text"  BY <1>1 DEF Shape
<1>3. PICK next \in Nexts(rec) : task' = [task EXCEPT ![t] = next]  BY DEF Starts
<1>4. Shape(next) /\ next.answer = "text" /\ next.at \in Awaits \cup {"end"}
  BY <1>2, NextStages
<1>5. TaskShape' /\ OthersTask(t) /\ task'[t] = next  BY <1>3, <1>4, TaskMoves
<1> QED  BY <1>4, <1>5

LEMMA ClaimKeeps ==
  ASSUME TaskShape, setup \in Setups, ClaimInv, NEW t \in Callers, Claim(t)
  PROVE  ClaimInv'
<1>1. /\ OthersTask(t) /\ task'[t].at \in Awaits \cup {"end"}
      /\ ~Research /\ ~busy /\ busy' = (task'[t].at # "end") /\ UNCHANGED setup
  BY StartsMoves DEF Claim, Awaiting
<1>2. Active = {}  BY <1>1 DEF ClaimInv
<1>3. "end" \notin Awaits  BY DEF Awaits
<1>4. \A s \in Active' : s = t  BY <1>1, <1>2 DEF Active, OthersTask
<1>5. Active' # {} => busy'  BY <1>1, <1>3, <1>4 DEF Active
<1>6. busy' => t \in Active'  BY <1>1 DEF Active
<1> QED  BY <1>1, <1>4, <1>5, <1>6 DEF ClaimInv, Research

LEMMA TakeSlotKeeps ==
  ASSUME TaskShape, setup \in Setups, ClaimInv, NEW t \in Callers, TakeSlot(t)
  PROVE  ClaimInv'
<1>1. /\ OthersTask(t) /\ task'[t].at \in Awaits \cup {"end"} /\ task[t].at = "none"
      /\ Research /\ slots > 0 /\ UNCHANGED setup
      /\ slots' = IF task'[t].at # "end" THEN slots - 1 ELSE slots
  BY StartsMoves DEF TakeSlot, Awaiting
<1>2. "end" \notin Awaits /\ "none" \notin Awaits  BY DEF Awaits
<1>3. t \notin Active /\ slots \in Nat /\ slots + Cardinality(Active) = Slots
  BY <1>1, <1>2 DEF Active, ClaimInv
<1>4. CASE task'[t].at \in Awaits
  <2>1. Active' = Active \cup {t}  BY <1>1, <1>4 DEF Active, OthersTask
  <2>2. Cardinality(Active') = Cardinality(Active) + 1  BY <1>3, <2>1, ActiveFinite, Gains
  <2>3. slots' \in Nat /\ slots' + Cardinality(Active') = Slots
    BY <1>1, <1>2, <1>3, <1>4, <2>2, ActiveFinite
  <2> QED  BY <1>1, <2>3 DEF ClaimInv, Research
<1>5. CASE task'[t].at = "end"
  <2>1. Active' = Active  BY <1>1, <1>2, <1>3, <1>5 DEF Active, OthersTask
  <2> QED  BY <1>1, <1>3, <1>5, <2>1 DEF ClaimInv, Research
<1> QED  BY <1>1, <1>4, <1>5

(* A step of something that is not active and does not become so. *)
LEMMA AsideKeeps ==
  ASSUME ClaimInv, NEW t \in Callers, task[t].at = "none", task'[t].at = "refused", OthersTask(t),
         UNCHANGED <<setup, busy, slots>>
  PROVE  ClaimInv'
<1>1. "none" \notin Awaits /\ "refused" \notin Awaits  BY DEF Awaits
<1>2. Active' = Active  BY <1>1 DEF Active, OthersTask
<1>3. Left => Left'  BY DEF Left, OthersTask
<1> QED  BY <1>2, <1>3 DEF ClaimInv, Research

(* The answers, from the one task that moved. *)
LEMMA AnswerFrame ==
  ASSUME AnswerInv, NEW t \in Callers, OthersTask(t), UNCHANGED setup,
         \/ ~Blank(task'[t].answer) \/ task'[t].answer = task[t].answer
         \/ task'[t].answer = "blank" /\ (setup.provider = "anthropic" \/ Research)
  PROVE  AnswerInv'
  BY DEF AnswerInv, OthersTask, Research

-----------------------------------------------------------------------------
LEMMA InitInv == Init => Inv
<1> SUFFICES ASSUME Init PROVE Inv  OBVIOUS
<1>1. LlmInv
  <2>1. CallShape  BY DEF Init, LlmInit, CallShape, NoCall
  <2>2. Holding = {}  BY DEF Init, LlmInit, Holding, NoCall
  <2>3. Cardinality(Holding) = 0  BY <2>2, FS_EmptySet
  <2>4. permits = Permits /\ permits \in Nat  BY LlmAssumption DEF Init, LlmInit
  <2> QED  BY <2>1, <2>3, <2>4 DEF LlmInv
<1>2. ReplyInv  BY DEF Init, LlmInit, ReplyInv, NoCall
<1>3. TaskShape /\ setup \in Setups  BY DEF Init, TaskShape, NoTask
<1>4. AnswerInv  BY DEF Init, NoTask, AnswerInv, Blank
<1>5. ClaimInv
  <2>1. Active = {}  BY DEF Init, Active, NoTask, Awaits
  <2>2. Cardinality(Active) = 0  BY <2>1, FS_EmptySet
  <2>3. slots = Slots /\ slots \in Nat /\ busy = FALSE  BY AgentsAssumption DEF Init
  <2> QED  BY <2>1, <2>2, <2>3 DEF ClaimInv
<1> QED  BY <1>1, <1>2, <1>3, <1>4, <1>5 DEF Inv

(* The model's client alone moves: the task waits. *)
LEMMA LlmKeeps ==
  ASSUME Inv, NEW t \in Callers, Llm(t) \/ LlmHangs(t)
  PROVE  Inv'
<1>1. UNCHANGED <<setup, busy, slots, task>>  BY DEF Llm, LlmHangs
<1>2. LlmInv' /\ OthersCall(t)
      /\ (call'[t].at = "ok" /\ setup.provider = "openai" => ~Blank(call'[t].content))
  <2>1. LlmInv  BY DEF Inv
  <2>2. CASE Acquire(t)  BY <2>1, <2>2, AcquireKeeps
  <2>3. CASE Succeeds(t, setup.provider)  BY <2>1, <2>3, SucceedsKeeps
  <2>4. CASE Fails(t)  BY <2>1, <2>4, FailsKeeps
  <2>5. CASE Wakes(t)  BY <2>1, <2>5, WakesKeeps
  <2>6. CASE Hangs(t)  BY <2>1, <2>6, HangsKeeps
  <2> QED  BY <2>2, <2>3, <2>4, <2>5, <2>6 DEF Llm, LlmHangs
<1>3. ReplyInv'  BY <1>1, <1>2, ReplyFrame DEF Inv
<1>4. TaskShape' /\ AnswerInv' /\ setup' \in Setups  BY <1>1 DEF Inv, TaskShape, AnswerInv, Research
<1>5. ClaimInv'  BY <1>1 DEF Inv, ClaimInv, Active, Left, Research
<1> QED  BY <1>2, <1>3, <1>4, <1>5 DEF Inv

(* The task alone moves: the client waits. *)
LEMMA TaskAlone ==
  ASSUME Inv, NEW t \in Callers, UNCHANGED <<llmVars, setup>>, TaskShape', OthersTask(t),
         task'[t].answer = task[t].answer \/ task'[t].answer = "text", ClaimInv'
  PROVE  Inv'
<1>1. LlmInv' /\ ReplyInv' /\ setup' \in Setups
  BY DEF Inv, LlmInv, ReplyInv, CallShape, Holding, llmVars
<1>2. ~Blank("text")  BY DEF Blank
<1>3. AnswerInv'  BY <1>2, AnswerFrame DEF Inv
<1> QED  BY <1>1, <1>3 DEF Inv

LEMMA StartKeeps ==
  ASSUME Inv, NEW t \in Callers, Claim(t) \/ TakeSlot(t) \/ Refuse(t)
  PROVE  Inv'
<1>1. TaskShape /\ setup \in Setups /\ ClaimInv  BY DEF Inv
<1>2. CASE Claim(t)
  <2>1. Starts(t) /\ UNCHANGED <<llmVars, setup>>  BY <1>2 DEF Claim
  <2>2. TaskShape' /\ OthersTask(t) /\ task'[t].answer = "text"  BY <1>1, <2>1, StartsMoves
  <2> QED  BY <1>1, <1>2, <2>1, <2>2, ClaimKeeps, TaskAlone
<1>3. CASE TakeSlot(t)
  <2>1. Starts(t) /\ UNCHANGED <<llmVars, setup>>  BY <1>3 DEF TakeSlot
  <2>2. TaskShape' /\ OthersTask(t) /\ task'[t].answer = "text"  BY <1>1, <2>1, StartsMoves
  <2> QED  BY <1>1, <1>3, <2>1, <2>2, TakeSlotKeeps, TaskAlone
<1>4. CASE Refuse(t)
  <2>1. /\ task' = [task EXCEPT ![t].at = "refused"] /\ task[t].at = "none"
        /\ UNCHANGED <<llmVars, setup, busy, slots>>
    BY <1>4 DEF Refuse
  <2>2. TaskShape' /\ OthersTask(t) /\ task'[t].at = "refused" /\ task'[t].answer = task[t].answer
    BY <1>1, <2>1 DEF TaskShape, OthersTask
  <2> QED  BY <1>1, <2>1, <2>2, AsideKeeps, TaskAlone
<1> QED  BY <1>2, <1>3, <1>4

(* SearXNG has no results the task counts: its record while it falls back. *)
LEMMA SearchedShape ==
  ASSUME NEW rec, Shape(rec), NEW n
  PROVE  [rec EXCEPT !.at = "fallback", !.results = n] =
           [at |-> "fallback", left |-> rec.left, results |-> n, answer |-> rec.answer]
<1> DEFINE mid == [rec EXCEPT !.at = "fallback"]
<1>1. mid = [at |-> "fallback", left |-> rec.left, results |-> rec.results, answer |-> rec.answer]
  BY DEF Shape
<1>2. [rec EXCEPT !.at = "fallback", !.results = n] = [mid EXCEPT !.results = n]  OBVIOUS
<1> HIDE DEF mid
<1>3. [mid EXCEPT !.results = n] =
        [at |-> "fallback", left |-> rec.left, results |-> n, answer |-> rec.answer]
  BY <1>1
<1> QED  BY <1>2, <1>3

(* An await other than the model's is over. *)
LEMMA AwaitKeeps ==
  ASSUME Inv, NEW t \in Callers,
         Recall(t) \/ Fetch(t) \/ Store(t) \/ CommandEnds(t) \/ Search(t) \/ Fallback(t)
  PROVE  Inv'
<1>1. TaskShape /\ setup \in Setups /\ ClaimInv /\ Shape(task[t])  BY ShapeOf DEF Inv
<1>2. task[t].at \in Awaits /\ t \in Active /\ UNCHANGED <<llmVars, setup>>
  BY DEF Recall, Fetch, Store, CommandEnds, Search, Fallback, Awaits, Active
<1>3. ASSUME TaskShape', OthersTask(t), task'[t].answer = task[t].answer, Outcome(t) PROVE Inv'
  BY <1>1, <1>2, <1>3, OutcomeKeeps, TaskAlone
<1>4. CASE Recall(t) \/ Fetch(t) \/ Store(t) \/ CommandEnds(t)
  <2>1. Turn(t, task[t])  BY <1>4 DEF Recall, Fetch, Store, CommandEnds
  <2> QED  BY <1>1, <1>2, <1>3, <2>1, TurnMoves
<1>5. CASE Search(t)
  <2>1. CASE \E n \in 0..MaxResults :
               Continue(t, [task[t] EXCEPT !.at = "fallback", !.results = n])
    <3>1. PICK n \in 0..MaxResults : Continue(t, [task[t] EXCEPT !.at = "fallback", !.results = n])
      BY <2>1
    <3> DEFINE rec == [task[t] EXCEPT !.at = "fallback", !.results = n]
    <3>2. rec = [at |-> "fallback", left |-> task[t].left, results |-> n,
                 answer |-> task[t].answer]
      BY <1>1, SearchedShape
    <3>3. Continue(t, rec)  BY <3>1
    <3> HIDE DEF rec
    <3>4. Shape(rec) /\ rec.answer = task[t].answer  BY <3>2 DEF Shape
    <3> QED  BY <1>1, <1>3, <3>3, <3>4, ContinueMoves
  <2>2. CASE task' = [task EXCEPT ![t].at = "fallback"] /\ UNCHANGED <<busy, slots>>
    <3>1. /\ TaskShape' /\ OthersTask(t) /\ task'[t].at = "fallback"
          /\ task'[t].answer = task[t].answer
      BY <1>1, <2>2 DEF TaskShape, OthersTask
    <3> QED  BY <1>3, <2>2, <3>1 DEF Outcome, Awaits
  <2> QED  BY <1>5, <2>1, <2>2 DEF Search
<1>6. CASE Fallback(t)
  <2>1. PICK n \in 0..(MaxResults + 1) : Continue(t, [task[t] EXCEPT !.results = n])
    BY <1>6 DEF Fallback
  <2> DEFINE rec == [task[t] EXCEPT !.results = n]
  <2>2. Shape(rec) /\ rec.answer = task[t].answer  BY <1>1 DEF Shape
  <2>3. Continue(t, rec)  BY <2>1
  <2> HIDE DEF rec
  <2> QED  BY <1>1, <1>3, <2>2, <2>3, ContinueMoves
<1> QED  BY <1>4, <1>5, <1>6

(* The model has answered, or not: the one step that sets an answer. *)
LEMMA EnhanceKeeps ==
  ASSUME Inv, NEW t \in Callers, Enhance(t)
  PROVE  Inv'
<1> DEFINE new == Sanitized(call[t].content)
           rec == IF Enhances(t) THEN [task[t] EXCEPT !.answer = new] ELSE task[t]
<1>1. TaskShape /\ setup \in Setups /\ ClaimInv /\ Shape(task[t])  BY ShapeOf DEF Inv
<1>2. task[t].at = "llm" /\ Turn(t, rec) /\ Forget(t) /\ UNCHANGED setup  BY DEF Enhance
<1>3. Shape(rec) /\ rec.at = "llm" /\ rec.answer = IF Enhances(t) THEN new ELSE task[t].answer
  BY <1>1, <1>2 DEF Shape
<1>4. \/ ~Blank(rec.answer) \/ rec.answer = task[t].answer
      \/ rec.answer = "blank" /\ (setup.provider = "anthropic" \/ Research)
  <2>1. CASE ~Enhances(t)  BY <1>3, <2>1
  <2>2. CASE Enhances(t)
    <3>1. call[t].at = "ok" /\ call[t].content # "" /\ rec.answer = new
      BY <1>3, <2>2 DEF Enhances
    <3>2. setup.provider \in {"openai", "anthropic"}  BY <1>1, AgentsAssumption
    <3>3. CASE Research /\ call[t].content = "foreign"
      BY <3>1, <3>3 DEF Sanitized
    <3>4. CASE ~(Research /\ call[t].content = "foreign")
      <4>1. rec.answer = call[t].content  BY <3>1, <3>4 DEF Sanitized
      <4>2. setup.provider = "openai" => ~Blank(call[t].content)  BY <3>1 DEF Inv, ReplyInv
      <4>3. CASE setup.provider = "openai"  BY <4>1, <4>2, <4>3
      <4>4. CASE setup.provider = "anthropic"
        <5>1. Blank(rec.answer) => rec.answer = "blank"  BY <3>1, <4>1 DEF Blank
        <5> QED  BY <4>4, <5>1
      <4> QED  BY <3>2, <4>3, <4>4
    <3> QED  BY <3>3, <3>4
  <2> QED  BY <2>1, <2>2
<1>5. t \in Active /\ "llm" \in Awaits  BY <1>2 DEF Active, Awaits
<1> HIDE DEF rec
<1>6. TaskShape' /\ OthersTask(t) /\ task'[t].answer = rec.answer /\ Outcome(t)
  BY <1>1, <1>2, <1>3, <1>5, TurnMoves
<1>7. ClaimInv'  BY <1>1, <1>2, <1>5, <1>6, OutcomeKeeps
<1>8. AnswerInv'  BY <1>2, <1>4, <1>6, AnswerFrame DEF Inv
<1>9. LlmInv' /\ OthersCall(t) /\ call'[t].at # "ok"  BY <1>2, ForgetKeeps DEF Inv
<1>10. ReplyInv'  BY <1>2, <1>9, ReplyFrame DEF Inv
<1> QED  BY <1>1, <1>2, <1>6, <1>7, <1>8, <1>9, <1>10 DEF Inv

LEMMA DropKeeps ==
  ASSUME Inv, NEW t \in Callers, Drop(t)
  PROVE  Inv'
<1>1. /\ t \in Active /\ task' = [task EXCEPT ![t].at = "dropped"] /\ Forget(t)
      /\ slots' = (IF Research THEN slots + 1 ELSE slots) /\ UNCHANGED <<setup, busy>>
  BY DEF Drop
<1>2. TaskShape' /\ OthersTask(t) /\ task'[t].at = "dropped" /\ task'[t].answer = task[t].answer
  BY <1>1 DEF Inv, TaskShape, OthersTask
<1>3. "dropped" \notin Awaits  BY DEF Awaits
<1>4. ClaimInv'  BY <1>1, <1>2, <1>3, EndsTaskKeeps DEF Inv
<1>5. AnswerInv'  BY <1>1, <1>2, AnswerFrame DEF Inv
<1>6. LlmInv' /\ OthersCall(t) /\ call'[t].at # "ok"  BY <1>1, ForgetKeeps DEF Inv
<1>7. ReplyInv'  BY <1>1, <1>6, ReplyFrame DEF Inv
<1> QED  BY <1>1, <1>2, <1>4, <1>5, <1>6, <1>7 DEF Inv

LEMMA NextKeeps == Inv /\ [Next]_vars => Inv'
<1> SUFFICES ASSUME Inv, [Next]_vars PROVE Inv'  OBVIOUS
<1>1. ASSUME NEW t \in Callers, Step(t) \/ Untimed(t) \/ LlmHangs(t) \/ Drop(t) PROVE Inv'
  BY <1>1, StartKeeps, AwaitKeeps, EnhanceKeeps, LlmKeeps, DropKeeps DEF Step, Untimed
<1>2. CASE UNCHANGED vars
  BY <1>2 DEF vars, llmVars, Inv, LlmInv, CallShape, Holding, ReplyInv, TaskShape, ClaimInv, Active,
              Left, AnswerInv, Research
<1> QED  BY <1>1, <1>2 DEF Next

LEMMA Invariant == Spec => []Inv
  BY InitInv, NextKeeps, PTL DEF Spec

-----------------------------------------------------------------------------
(* No permit of the model's client is lost, over retries, sleeps, errors    *)
(* and dropped futures (client.rs, retry.rs: complete holds its permit).    *)
THEOREM PermitsAlwaysConserved == Spec => []PermitsConserved
<1>1. Inv => PermitsConserved  BY DEF Inv, LlmInv, PermitsConserved
<1> QED  BY <1>1, Invariant, PTL

(* An agent is taken by one task, or as many as it has slots for; a flag    *)
(* that stays set was left by a dropped or panicked task (process_task of   *)
(* the five agents).                                                        *)
LEMMA InvOwned == Inv => ClaimsOwned
<1> SUFFICES ASSUME Inv PROVE ClaimsOwned  OBVIOUS
<1>1. CASE Research  BY <1>1 DEF Inv, ClaimInv, ClaimsOwned
<1>2. CASE ~Research
  <2>1. ASSUME Active # {} PROVE busy /\ Cardinality(Active) = 1
    <3>1. PICK t : t \in Active  BY <2>1
    <3>2. Active = {t}  BY <1>2, <3>1 DEF Inv, ClaimInv
    <3> QED  BY <1>2, <2>1, <3>2, FS_Singleton DEF Inv, ClaimInv
  <2> QED  BY <1>2, <2>1 DEF Inv, ClaimInv, ClaimsOwned, Left
<1> QED  BY <1>1, <1>2

THEOREM ClaimsAlwaysOwned == Spec => []ClaimsOwned
  BY InvOwned, Invariant, PTL

(* No task ends with a blank answer but with Anthropic's client or research *)
(* (enhance_with_llm of the five agents, sanitize_unicode).                 *)
THEOREM AnswersAlwaysReadable == Spec => []AnswersReadable
<1>1. Inv => AnswersReadable  BY DEF Inv, AnswerInv, AnswersReadable
<1> QED  BY <1>1, Invariant, PTL

-----------------------------------------------------------------------------
(* Types: the records of calls and tasks.  A call that sleeps has a retry   *)
(* left, which is why complete() never counts past its last one.            *)
Calls == [at : {"idle", "sent", "hung", "asleep", "ok", "err"},
          attempt : 0..MaxRetries, content : Contents]
Stages == Awaits \cup {"none", "end", "refused", "panicked", "dropped"}
Tasks(stages) ==
  [at : stages, left : Nat, results : 0..(MaxResults + 1), answer : Contents]

CallsTyped ==
  /\ call \in [Callers -> Calls]
  /\ \A c \in Callers : call[c].at = "asleep" => call[c].attempt < MaxRetries
TasksTyped == task \in [Callers -> Tasks(Stages)]
FlagTyped == busy \in BOOLEAN /\ (~Research => slots = Slots)

Typed == CallsTyped /\ TasksTyped /\ FlagTyped

(* Whatever a body holds, the client makes a content of it. *)
LEMMA ContentTyped ==
  ASSUME NEW b \in Bodies, NEW p
  PROVE  ContentOf(p, b) \in Contents
<1>1. \A texts : Joined(texts) \in Contents  BY DEF Joined, Contents
<1>2. ResolveMessageContent(b) \in Contents
  <2> DEFINE filled == {i \in DOMAIN b.others : ~Blank(b.others[i])}
  <2>1. b.others \in Seq(Contents)  BY LlmAssumption
  <2>2. filled \subseteq Nat /\ \A i \in filled : b.others[i] \in Contents  BY <2>1
  <2>3. CASE ~Blank(ContentFromValue(b))
    BY <1>1, <2>3 DEF ResolveMessageContent, ContentFromValue
  <2>4. CASE Blank(ContentFromValue(b)) /\ filled = {}
    <3>1. ResolveMessageContent(b) = ""  BY <2>4 DEF ResolveMessageContent
    <3> QED  BY <3>1 DEF Contents
  <2>5. CASE Blank(ContentFromValue(b)) /\ filled # {}
    <3> DEFINE first == CHOOSE i \in filled : \A j \in filled : i <= j
    <3>1. ResolveMessageContent(b) = b.others[first]  BY <2>5 DEF ResolveMessageContent
    <3> HIDE DEF filled
    <3>2. first \in filled  BY <2>2, <2>5, Least
    <3> QED  BY <2>2, <3>1, <3>2
  <2> QED  BY <2>3, <2>4, <2>5
<1> QED  BY <1>1, <1>2 DEF ContentOf

(* A call moves to a record. *)
LEMMA CallSet ==
  ASSUME CallsTyped, NEW c \in Callers, NEW rec \in Calls,
         rec.at = "asleep" => rec.attempt < MaxRetries,
         call' = [call EXCEPT ![c] = rec]
  PROVE  CallsTyped'
  BY DEF CallsTyped

LEMMA ClientTyped ==
  ASSUME CallsTyped, NEW c \in Callers,
         \/ Acquire(c) \/ (\E p \in {setup.provider} : Succeeds(c, p))
         \/ Fails(c) \/ Wakes(c) \/ Hangs(c) \/ Forget(c)
  PROVE  CallsTyped'
<1> DEFINE old == call[c]
<1>1. /\ old \in Calls /\ old.attempt \in 0..MaxRetries /\ old.content \in Contents
      /\ call \in [Callers -> Calls]
  BY DEF CallsTyped, Calls
<1>2. ASSUME NEW at \in {"sent", "hung", "ok", "err"}, NEW content \in Contents,
             NEW n \in 0..MaxRetries,
             call' = [call EXCEPT ![c] = [old EXCEPT !.at = at, !.content = content, !.attempt = n]]
      PROVE  CallsTyped'
  <2> DEFINE rec == [old EXCEPT !.at = at, !.content = content, !.attempt = n]
  <2>1. rec \in Calls /\ rec.at = at  BY <1>1 DEF Calls
  <2>2. rec.at # "asleep"  BY <2>1
  <2> HIDE DEF rec
  <2>3. call' = [call EXCEPT ![c] = rec]  BY <1>2 DEF rec
  <2> QED  BY <2>1, <2>2, <2>3, CallSet
<1>3. ASSUME NEW at \in {"sent", "hung", "ok", "err"}, Goes(c, at)
      PROVE  CallsTyped'
  <2>1. call' = [call EXCEPT ![c] = [old EXCEPT !.at = at]]  BY <1>3 DEF Goes
  <2>2. [old EXCEPT !.at = at]
          = [old EXCEPT !.at = at, !.content = old.content, !.attempt = old.attempt]
    BY <1>1 DEF Calls
  <2> QED  BY <1>1, <1>2, <2>1, <2>2
<1>4. ASSUME NEW at \in {"ok", "err"}, NEW content \in Contents, Ends(c, at, content)
      PROVE  CallsTyped'
  <2>1. call' = [call EXCEPT ![c] = [old EXCEPT !.at = at, !.content = content]]
    BY <1>4 DEF Ends
  <2>2. [old EXCEPT !.at = at, !.content = content]
          = [old EXCEPT !.at = at, !.content = content, !.attempt = old.attempt]
    BY <1>1 DEF Calls
  <2> QED  BY <1>1, <1>2, <2>1, <2>2
<1>5. CASE Acquire(c)  BY <1>3, <1>5 DEF Acquire
<1>6. CASE \E p \in {setup.provider} : Succeeds(c, p)
  <2>1. PICK b \in Bodies : Ends(c, "ok", ContentOf(setup.provider, b))  BY <1>6 DEF Succeeds
  <2> QED  BY <1>4, <2>1, ContentTyped
<1>7. CASE Fails(c)
  <2>1. CASE Ends(c, "err", "")
    <3>1. "" \in Contents  BY DEF Contents
    <3> QED  BY <1>4, <2>1, <3>1
  <2>2. CASE Goes(c, "asleep") /\ old.attempt # MaxRetries
    <3> DEFINE rec == [old EXCEPT !.at = "asleep"]
    <3>1. call' = [call EXCEPT ![c] = rec]  BY <2>2 DEF Goes
    <3>2. rec \in Calls /\ rec.attempt = old.attempt  BY <1>1 DEF Calls
    <3>3. old.attempt < MaxRetries  BY <1>1, <2>2, LlmAssumption
    <3> HIDE DEF rec
    <3>4. rec.attempt < MaxRetries  BY <3>2, <3>3
    <3> QED  BY <3>1, <3>2, <3>4, CallSet
  <2> QED  BY <1>7, <2>1, <2>2 DEF Fails
<1>8. CASE Wakes(c)
  <2> DEFINE n == old.attempt + 1
  <2>1. old.attempt < MaxRetries  BY <1>8 DEF Wakes, CallsTyped
  <2>2. n \in 0..MaxRetries  BY <1>1, <2>1, LlmAssumption
  <2>3. call' = [call EXCEPT ![c] = [old EXCEPT !.at = "sent", !.attempt = n]]
    BY <1>8 DEF Wakes
  <2> HIDE DEF n
  <2>4. [old EXCEPT !.at = "sent", !.attempt = n]
          = [old EXCEPT !.at = "sent", !.content = old.content, !.attempt = n]
    BY <1>1 DEF Calls
  <2> QED  BY <1>1, <1>2, <2>2, <2>3, <2>4
<1>9. CASE Hangs(c)  BY <1>3, <1>9 DEF Hangs
<1>10. CASE Forget(c)
  <2>1. call' = [call EXCEPT ![c] = NoCall]  BY <1>10 DEF Forget
  <2>2. 0 \in 0..MaxRetries  BY LlmAssumption
  <2>3. NoCall \in Calls /\ NoCall.at # "asleep"  BY <2>2 DEF NoCall, Calls, Contents
  <2> QED  BY <2>1, <2>3, CallSet
<1> QED  BY <1>5, <1>6, <1>7, <1>8, <1>9, <1>10

(* The turns of an await are numbers, so the record of a task stays one. *)
LEMMA TurnsTyped ==
  ASSUME NEW rec, rec.results \in Nat, NEW stage \in Awaits \cup {"end"}
  PROVE  Turns(stage, rec) \subseteq Nat
<1>1. /\ RecallTurns \subseteq Nat /\ CommandTurns \subseteq Nat
      /\ {IF setup.searxng THEN 1 ELSE 0} \subseteq Nat
      /\ {IF setup.searxng THEN 0 ELSE 1} \subseteq Nat
      /\ {IF setup.llm THEN 1 ELSE 0} \subseteq Nat /\ {1} \subseteq Nat
  BY DEF RecallTurns, CommandTurns
<1>2. FetchTurns(rec.results) \subseteq Nat  BY DEF FetchTurns
<1>3. StoreTurns(rec.results) \subseteq Nat  BY DEF StoreTurns
<1> QED  BY <1>1, <1>2, <1>3 DEF Turns, Awaits

LEMMA NextsTyped ==
  ASSUME setup \in Setups, NEW stages, NEW rec \in Tasks(stages), NEW next \in Nexts(rec)
  PROVE  next \in Tasks(Awaits \cup {"end"})
<1> DEFINE here == CHOOSE i \in DOMAIN Pipeline : Pipeline[i] = rec.at
           reached == {j \in 2..Len(Pipeline) :
                         j > here /\ \A k \in (here + 1)..(j - 1) : 0 \in Turns(Pipeline[k], rec)}
           At(j) == {[rec EXCEPT !.at = Pipeline[j], !.left = n] : n \in Turns(Pipeline[j], rec) \ {0}}
<1>1. PICK j \in 2..Len(Pipeline) :
        \E n \in Turns(Pipeline[j], rec) : next = [rec EXCEPT !.at = Pipeline[j], !.left = n]
  <2>1. Nexts(rec) = UNION {At(j) : j \in reached}  BY DEF Nexts
  <2>2. PICK j \in reached : next \in At(j)  BY <2>1
  <2> QED  BY <2>2
<1>2. PICK n \in Turns(Pipeline[j], rec) : next = [rec EXCEPT !.at = Pipeline[j], !.left = n]
  BY <1>1
<1>3. rec.results \in Nat  BY AgentsAssumption DEF Tasks
<1>4. Pipeline[j] \in Awaits \cup {"end"}  BY <1>1, PipelineStages
<1>5. n \in Nat  BY <1>2, <1>3, <1>4, TurnsTyped
<1> HIDE DEF here, reached, At
<1> QED  BY <1>2, <1>4, <1>5 DEF Tasks

LEMMA TaskSet ==
  ASSUME TasksTyped, NEW t \in Callers, NEW rec \in Tasks(Stages), task' = [task EXCEPT ![t] = rec]
  PROVE  TasksTyped'
  BY DEF TasksTyped

LEMMA ContinueTyped ==
  ASSUME TasksTyped, setup \in Setups, NEW t \in Callers, NEW stages, NEW rec \in Tasks(stages),
         Continue(t, rec)
  PROVE  TasksTyped'
<1>1. PICK next \in UNION {Panics(m) : m \in Nexts(rec)} : task' = [task EXCEPT ![t] = next]
  BY DEF Continue
<1>2. PICK n \in Nexts(rec) : next = n \/ next = [n EXCEPT !.at = "panicked"]
  BY <1>1 DEF Panics
<1>3. n \in Tasks(Awaits \cup {"end"})  BY NextsTyped
<1>4. next \in Tasks(Stages)  BY <1>2, <1>3 DEF Tasks, Stages
<1> QED  BY <1>1, <1>4, TaskSet

LEMMA TurnTyped ==
  ASSUME TasksTyped, setup \in Setups, NEW t \in Callers, NEW rec \in Tasks(Stages), Turn(t, rec)
  PROVE  TasksTyped'
<1>1. CASE rec.left > 1 /\ task' = [task EXCEPT ![t] = [rec EXCEPT !.left = @ - 1]]
  <2>1. rec.left - 1 \in Nat  BY <1>1 DEF Tasks
  <2>2. [rec EXCEPT !.left = rec.left - 1] \in Tasks(Stages)  BY <2>1 DEF Tasks
  <2> QED  BY <1>1, <2>2, TaskSet
<1>2. CASE Continue(t, rec)  BY <1>2, ContinueTyped
<1> QED  BY <1>1, <1>2 DEF Turn

(* The steps of a task. *)
LEMMA TaskTyped ==
  ASSUME Inv, Typed, NEW t \in Callers,
         \/ Claim(t) \/ TakeSlot(t) \/ Refuse(t) \/ Recall(t) \/ Fetch(t) \/ Store(t)
         \/ CommandEnds(t) \/ Search(t) \/ Fallback(t) \/ Enhance(t) \/ Drop(t)
  PROVE  TasksTyped'
<1> DEFINE old == task[t]
<1>1. setup \in Setups /\ TasksTyped /\ old \in Tasks(Stages)  BY DEF Inv, Typed, TasksTyped
<1>2. /\ old.left \in Nat /\ old.results \in 0..(MaxResults + 1) /\ old.answer \in Contents
      /\ old.at \in Stages
  BY <1>1 DEF Tasks
<1>3. ASSUME NEW at \in Stages, task' = [task EXCEPT ![t].at = at] PROVE TasksTyped'
  <2>1. [old EXCEPT !.at = at] \in Tasks(Stages)  BY <1>1 DEF Tasks
  <2> QED  BY <1>1, <1>3, <2>1, TaskSet
<1>4. CASE Claim(t) \/ TakeSlot(t)
  <2> DEFINE first == [NoTask EXCEPT !.at = "start"]
  <2>1. PICK next \in Nexts(first) : task' = [task EXCEPT ![t] = next]
    BY <1>4 DEF Claim, TakeSlot, Starts
  <2>2. 0 \in 0..(MaxResults + 1)  BY AgentsAssumption
  <2>3. first \in Tasks({"start"})  BY <2>2 DEF NoTask, Tasks, Contents
  <2> HIDE DEF first
  <2>4. next \in Tasks(Awaits \cup {"end"})  BY <1>1, <2>3, NextsTyped
  <2>5. next \in Tasks(Stages)  BY <2>4 DEF Tasks, Stages
  <2> QED  BY <1>1, <2>1, <2>5, TaskSet
<1>5. CASE Refuse(t)  BY <1>3, <1>5 DEF Refuse, Stages
<1>6. CASE Recall(t) \/ Fetch(t) \/ Store(t) \/ CommandEnds(t)
  <2>1. Turn(t, old)  BY <1>6 DEF Recall, Fetch, Store, CommandEnds
  <2> QED  BY <1>1, <2>1, TurnTyped
<1>7. CASE Search(t)
  <2>1. CASE task' = [task EXCEPT ![t].at = "fallback"]  BY <1>3, <2>1 DEF Stages, Awaits
  <2>2. CASE \E n \in 0..MaxResults : Continue(t, [old EXCEPT !.at = "fallback", !.results = n])
    <3>1. PICK n \in 0..MaxResults : Continue(t, [old EXCEPT !.at = "fallback", !.results = n])
      BY <2>2
    <3>2. n \in 0..(MaxResults + 1)  BY AgentsAssumption
    <3>3. [old EXCEPT !.at = "fallback", !.results = n] \in Tasks(Stages)
      BY <1>1, <3>2 DEF Tasks, Stages, Awaits
    <3> QED  BY <1>1, <3>1, <3>3, ContinueTyped
  <2> QED  BY <1>7, <2>1, <2>2 DEF Search
<1>8. CASE Fallback(t)
  <2>1. PICK n \in 0..(MaxResults + 1) : Continue(t, [old EXCEPT !.results = n])
    BY <1>8 DEF Fallback
  <2>2. [old EXCEPT !.results = n] \in Tasks(Stages)  BY <1>1 DEF Tasks
  <2> QED  BY <1>1, <2>1, <2>2, ContinueTyped
<1>9. CASE Enhance(t)
  <2> DEFINE content == Sanitized(call[t].content)
  <2>1. call[t].content \in Contents  BY DEF Typed, CallsTyped, Calls
  <2>2. content \in Contents  BY <2>1 DEF Sanitized, Contents
  <2> HIDE DEF content
  <2>3. [old EXCEPT !.answer = content] \in Tasks(Stages)  BY <1>1, <2>2 DEF Tasks
  <2>4. Turn(t, IF Enhances(t) THEN [old EXCEPT !.answer = content] ELSE old)
    BY <1>9 DEF Enhance, content
  <2> QED  BY <1>1, <2>3, <2>4, TurnTyped
<1>10. CASE Drop(t)  BY <1>3, <1>10 DEF Drop, Stages
<1> QED  BY <1>4, <1>5, <1>6, <1>7, <1>8, <1>9, <1>10

(* The flag and the slots: a Boolean, and untouched but by research. *)
LEMMA FlagKeeps ==
  ASSUME FlagTyped, NEW t \in Callers, Step(t) \/ Untimed(t) \/ LlmHangs(t) \/ Drop(t)
  PROVE  FlagTyped'
<1>1. UNCHANGED setup
  BY DEF Step, Untimed, Claim, Refuse, TakeSlot, Recall, Search, Fallback, Fetch, Store, Enhance, Llm,
         CommandEnds, LlmHangs, Drop
<1>2. (busy' = Awaiting(t) /\ UNCHANGED slots) \/ (UNCHANGED busy /\ (Research \/ UNCHANGED slots))
      \/ Release
  <2>1. ASSUME NEW rec, Continue(t, rec) \/ Turn(t, rec)
        PROVE  UNCHANGED <<busy, slots>> \/ Release
    BY <2>1 DEF Turn, Continue
  <2>2. CASE Claim(t) \/ Refuse(t) \/ TakeSlot(t)  BY <2>2 DEF Claim, Refuse, TakeSlot
  <2>3. CASE Recall(t) \/ Fetch(t) \/ Store(t) \/ CommandEnds(t) \/ Search(t) \/ Fallback(t)
    BY <2>1, <2>3 DEF Recall, Fetch, Store, CommandEnds, Search, Fallback
  <2>4. CASE Enhance(t)  BY <2>1, <2>4 DEF Enhance
  <2>5. CASE Llm(t) \/ LlmHangs(t) \/ Drop(t)  BY <2>5 DEF Llm, LlmHangs, Drop
  <2> QED  BY <2>2, <2>3, <2>4, <2>5 DEF Step, Untimed
<1>3. Research' = Research  BY <1>1 DEF Research
<1> QED  BY <1>2, <1>3 DEF FlagTyped, Awaiting, Release

LEMMA TypedInit == Init => Typed
<1> SUFFICES ASSUME Init PROVE Typed  OBVIOUS
<1>1. 0 \in 0..MaxRetries /\ 0 \in 0..(MaxResults + 1)  BY LlmAssumption, AgentsAssumption
<1>2. NoCall \in Calls /\ NoCall.at # "asleep"  BY <1>1 DEF NoCall, Calls, Contents
<1>3. NoTask \in Tasks(Stages)  BY <1>1 DEF NoTask, Tasks, Stages, Contents
<1> QED  BY <1>2, <1>3 DEF Init, LlmInit, Typed, CallsTyped, TasksTyped, FlagTyped

LEMMA TypedNext == Inv /\ Typed /\ [Next]_vars => Typed'
<1> SUFFICES ASSUME Inv, Typed, [Next]_vars PROVE Typed'  OBVIOUS
<1>1. ASSUME NEW t \in Callers, Step(t) \/ Untimed(t) \/ LlmHangs(t) \/ Drop(t) PROVE Typed'
  <2>1. FlagTyped'  BY <1>1, FlagKeeps DEF Typed
  <2>2. CASE Llm(t) \/ LlmHangs(t)
    <3>1. TasksTyped'  BY <2>2 DEF Llm, LlmHangs, Typed, TasksTyped
    <3>2. CallsTyped'  BY <2>2, ClientTyped DEF Llm, LlmHangs, Typed
    <3> QED  BY <2>1, <3>1, <3>2 DEF Typed
  <2>3. CASE Enhance(t) \/ Drop(t)
    <3>1. TasksTyped'  BY <2>3, TaskTyped
    <3>2. CallsTyped'  BY <2>3, ClientTyped DEF Enhance, Drop, Typed
    <3> QED  BY <2>1, <3>1, <3>2 DEF Typed
  <2>4. CASE \/ Claim(t) \/ TakeSlot(t) \/ Refuse(t) \/ Recall(t) \/ Fetch(t) \/ Store(t)
             \/ CommandEnds(t) \/ Search(t) \/ Fallback(t)
    <3>1. TasksTyped'  BY <2>4, TaskTyped
    <3>2. UNCHANGED call
      BY <2>4 DEF Claim, TakeSlot, Refuse, Recall, Fetch, Store, CommandEnds, Search, Fallback, llmVars
    <3>3. CallsTyped'  BY <3>2 DEF Typed, CallsTyped
    <3> QED  BY <2>1, <3>1, <3>3 DEF Typed
  <2> QED  BY <1>1, <2>2, <2>3, <2>4 DEF Step, Untimed
<1>2. CASE UNCHANGED vars
  BY <1>2 DEF vars, llmVars, Typed, CallsTyped, TasksTyped, FlagTyped, Research
<1> QED  BY <1>1, <1>2 DEF Next

(* Every variable has its type: complete() makes no attempt after its last  *)
(* retry (retry.rs: its loop returns there), a task counts one result more  *)
(* than configured at most, and the free slots and permits stay within what *)
(* was configured.                                                          *)
THEOREM TypeCorrect == Spec => []TypeOK
<1>1. Inv /\ Typed => TypeOK
  <2> SUFFICES ASSUME Inv, Typed PROVE TypeOK  OBVIOUS
  <2>1. permits \in 0..Permits
    <3>1. /\ permits \in Nat /\ permits + Cardinality(Holding) = Permits
          /\ Cardinality(Holding) \in Nat
      BY SubsetsFinite DEF Inv, LlmInv, Holding
    <3> QED  BY <3>1, LlmAssumption
  <2>2. slots \in 0..Slots
    <3>1. CASE Research
      <4>1. slots \in Nat /\ slots + Cardinality(Active) = Slots /\ Cardinality(Active) \in Nat
        BY <3>1, ActiveFinite DEF Inv, ClaimInv
      <4> QED  BY <4>1, AgentsAssumption
    <3>2. CASE ~Research  BY <3>2, AgentsAssumption DEF Typed, FlagTyped
    <3> QED  BY <3>1, <3>2
  <2> QED  BY <2>1, <2>2 DEF Inv, Typed, CallsTyped, TasksTyped, FlagTyped, Calls, Tasks, Stages, TypeOK
<1>2. Spec => []Typed
  BY TypedInit, TypedNext, Invariant, PTL DEF Spec
<1> QED  BY <1>1, <1>2, Invariant, PTL

=============================================================================
