------------------------ MODULE TelegramBridgeProofs ------------------------
(***************************************************************************)
(* Theorems about Delegation and about TelegramBridge, which composes it.  *)
(* First the coordinator alone: CallInv says, for each stage of a call,    *)
(* what its connection can still carry: nothing before the agent admitted  *)
(* it, the one reply of message/send, or a stream whose last event is the  *)
(* end of the task once it has one.  Then the bridge: the coordinator's    *)
(* theorems hold under it, and what Telegram has forgotten was handled.    *)
(* OffsetInv relates the offset, the batch and the updates: those below    *)
(* the next one are handled, but for the one in hand.                      *)
(***************************************************************************)
EXTENDS TelegramBridge, TLAPS

Ended == {"completed", "failed", "refused"}

(* The event that tells of an end. *)
Tells(end) == CASE end = "completed" -> "completed"
                [] end = "failed"    -> "failed"
                [] OTHER             -> "error"

(* A call that has not reached its agent. *)
Before(c) ==
  stage[c] \in {"none", "triage"} \/ (stage[c] = "delegating" /\ task[c] = "none") =>
    /\ task[c] = "none" /\ wire[c] = <<>> /\ text[c] = "" /\ result[c] = None

(* The one reply of message/send. *)
Reply(c) ==
  stage[c] = "delegating" =>
    /\ c \in Streaming => task[c] = "none"
    /\ task[c] \in {"none", "working"} => wire[c] = <<>> /\ result[c] = None
    /\ task[c] = "completed" => wire[c][1] = result[c] /\ result[c] \in {"text", "blank"}
    /\ task[c] = "failed" => wire[c][1] = "failed"
    /\ task[c] = "refused" => wire[c][1] = "error"
    /\ task[c] # "abandoned"

(* What is on the wire of a stream, and what was read from it. *)
Stream(c) ==
  stage[c] = "streaming" =>
    /\ c \in Streaming
    /\ task[c] \in Ended \cup {"working"}
    /\ \A i \in 1..Len(wire[c]) :
         /\ wire[c][i] \in {"text", "blank"} => wire[c][i] = result[c]
         /\ wire[c][i] \in {"completed", "failed", "error"} =>
              task[c] \in Ended /\ wire[c][i] = Tells(task[c]) /\ i = Len(wire[c])
    /\ task[c] \in Ended => wire[c] # <<>> /\ wire[c][Len(wire[c])] = Tells(task[c])
    /\ task[c] = "completed" => result[c] \in {"text", "blank"}
    /\ result[c] = "text" /\ text[c] = "" => \E i \in 1..Len(wire[c]) : wire[c][i] = "text"
    /\ text[c] \in {"", "text", "garbled"}
    /\ text[c] # "" => result[c] = "text"

Answer(c) ==
  stage[c] = "ok" /\ target[c] # Direct =>
    /\ task[c] = "completed"
    /\ answer[c] \in {"text", "garbled"} => result[c] = "text"
    /\ answer[c] \in {"blank", "placeholder"} => result[c] = "blank"
    /\ answer[c] \notin {"", "clarify"}

CallInv(c) == Before(c) /\ Reply(c) /\ Stream(c) /\ Answer(c)
Inv == TypeOK /\ \A c \in Calls : CallInv(c)

(* A step of one call leaves the others alone. *)
Same(c) ==
  /\ stage'[c] = stage[c] /\ target'[c] = target[c] /\ text'[c] = text[c]
  /\ answer'[c] = answer[c] /\ task'[c] = task[c] /\ result'[c] = result[c]
  /\ wire'[c] = wire[c]
OthersSame(c) == \A d \in Calls \ {c} : Same(d)

-----------------------------------------------------------------------------
(* What sending and reading do to the events of a wire. *)

LEMMA UrlCount == Len(Urls) \in Nat
  BY ConstantsAssumption

LEMMA SentEvent ==
  ASSUME NEW S, NEW w \in Seq(S), NEW e \in S
  PROVE  /\ w \o <<e>> \in Seq(S) /\ w \o <<e>> # <<>>
         /\ Len(w \o <<e>>) = Len(w) + 1 /\ Len(w) \in Nat
         /\ (w \o <<e>>)[Len(w) + 1] = e
         /\ \A i \in 1..Len(w) : (w \o <<e>>)[i] = w[i]
  OBVIOUS

LEMMA FirstEvent ==
  ASSUME NEW w \in Seq(Events), w = <<>>, NEW e \in Events
  PROVE  Len(w \o <<e>>) = 1 /\ w \o <<e>> # <<>> /\ (w \o <<e>>)[1] = e
<1>1. Len(w) = 0  OBVIOUS
<1> QED  BY <1>1, SentEvent

LEMMA ReadFirst ==
  ASSUME NEW S, NEW w \in Seq(S), w # <<>>
  PROVE  /\ Tail(w) \in Seq(S) /\ Head(w) \in S /\ Head(w) = w[1]
         /\ Len(Tail(w)) = Len(w) - 1 /\ Len(w) \in Nat \ {0}
         /\ \A i \in 1..Len(Tail(w)) : Tail(w)[i] = w[i + 1]
         /\ Tail(w) = <<>> => Len(Tail(w)) = 0
<1>1. /\ Tail(w) \in Seq(S) /\ Head(w) \in S /\ Head(w) = w[1]
      /\ Len(Tail(w)) = Len(w) - 1 /\ Len(w) \in Nat \ {0}
      /\ \A i \in 1..Len(Tail(w)) : Tail(w)[i] = w[i + 1]
  OBVIOUS
<1>2. ASSUME NEW v, v = <<>> PROVE Len(v) = 0  BY <1>2
<1> QED  BY <1>1, <1>2

LEMMA Counting ==
  ASSUME NEW n \in Nat \ {0}, NEW k, k = n - 1
  PROVE  /\ k + 1 = n
         /\ n = 1 => \A i \in 1..n : i = 1
         /\ n # 1 => k \in 1..k /\ k # 0
         /\ \A i \in 1..n : i # 1 => i - 1 \in 1..k /\ (i - 1) + 1 = i
  OBVIOUS

-----------------------------------------------------------------------------
LEMMA InitInv == Init => Inv
<1> SUFFICES ASSUME Init PROVE Inv  OBVIOUS
<1>1. TypeOK
  <2>1. wire \in [Calls -> Seq(Events)]
    <3>1. <<>> \in Seq(Events)  OBVIOUS
    <3> QED  BY <3>1 DEF Init
  <2>2. tried \in 0..Len(Urls)
    <3>1. tried = 0  BY DEF Init
    <3> QED  BY <3>1, UrlCount
  <2> QED  BY <2>1, <2>2 DEF Init, TypeOK, Stages, Texts
<1>2. ASSUME NEW c \in Calls PROVE CallInv(c)
  BY DEF Init, CallInv, Before, Reply, Stream, Answer
<1> QED  BY <1>1, <1>2 DEF Inv

(* What a step leaves alone keeps its invariant. *)
LEMMA SameKeeps ==
  ASSUME NEW c \in Calls, Same(c), CallInv(c)
  PROVE  CallInv(c)'
  BY ZenonT(60) DEF Same, CallInv, Before, Reply, Stream, Answer

(* A call that was answered with an error, or dropped, promises nothing.    *)
LEMMA OverKeeps ==
  ASSUME NEW c \in Calls, stage'[c] \in {"err", "dropped"}
  PROVE  CallInv(c)'
  BY DEF CallInv, Before, Reply, Stream, Answer

(* An invariant of every call from that of the one that steps. *)
LEMMA Frame ==
  ASSUME NEW c \in Calls, Inv, TypeOK', OthersSame(c), CallInv(c)'
  PROVE  Inv'
<1>1. ASSUME NEW d \in Calls PROVE CallInv(d)'
  <2>1. CASE d = c  BY <2>1
  <2>2. CASE d # c  BY <2>2, SameKeeps DEF OthersSame, Inv
  <2> QED  BY <2>1, <2>2
<1> QED  BY <1>1 DEF Inv

(* One event more on a wire, or none. *)
LEMMA SendsTyped ==
  ASSUME NEW c \in Calls, TypeOK, NEW e \in Events, Sends(c, <<e>>)
  PROVE  /\ wire' \in [Calls -> Seq(Events)]
         /\ \A d \in Calls \ {c} : wire'[d] = wire[d]
         /\ Connected(c) => wire'[c] = wire[c] \o <<e>>
         /\ ~Connected(c) => wire'[c] = wire[c]
<1>1. wire \in [Calls -> Seq(Events)] /\ wire[c] \in Seq(Events)  BY DEF TypeOK
<1>2. wire[c] \o <<e>> \in Seq(Events)  BY <1>1, SentEvent
<1> QED  BY <1>1, <1>2 DEF Sends

-----------------------------------------------------------------------------
(* One lemma per action: the types, the other calls, the call itself. *)

LEMMA DiscoverKeeps == Inv /\ Discover => Inv'
<1> SUFFICES ASSUME Inv, Discover PROVE Inv'  OBVIOUS
<1>1. tried' \in 0..Len(Urls)  BY UrlCount DEF Inv, TypeOK, Discover
<1>2. registry' \in [Routes -> {Urls[i] : i \in DOMAIN Urls} \cup {None}]
  <2>1. tried + 1 \in DOMAIN Urls  BY UrlCount, ConstantsAssumption DEF Inv, TypeOK, Discover
  <2> QED  BY <2>1 DEF Inv, TypeOK, Discover
<1>3. TypeOK'  BY <1>1, <1>2 DEF Inv, TypeOK, Discover, agentVars
<1>4. ASSUME NEW c \in Calls PROVE CallInv(c)'
  <2>1. Same(c)  BY DEF Discover, Same, agentVars
  <2> QED  BY <2>1, SameKeeps DEF Inv
<1> QED  BY <1>3, <1>4 DEF Inv

LEMMA RequestKeeps ==
  ASSUME NEW c \in Calls, Inv, Request(c)
  PROVE  Inv'
<1>1. TypeOK'  BY DEF Inv, TypeOK, Request, coordVars, agentVars, Stages
<1>2. OthersSame(c)  BY DEF Inv, TypeOK, OthersSame, Same, Request, coordVars, agentVars, Stages
<1>3. CallInv(c)'
  <2>1. stage[c] = "none" /\ stage'[c] = "triage"  BY DEF Inv, TypeOK, Request
  <2>2. UNCHANGED <<task, wire, text, result>>  BY DEF Request, agentVars
  <2> QED  BY <2>1, <2>2 DEF Inv, CallInv, Before, Reply, Stream, Answer
<1> QED  BY <1>1, <1>2, <1>3, Frame

(* The three outcomes of a decision. *)
LEMMA DecideKeeps ==
  ASSUME NEW c \in Calls, Inv, stage[c] = "triage", NEW d \in Routes \cup {Direct}, Decide(c, d)
  PROVE  Inv'
<1>1. TypeOK'  BY DEF Inv, TypeOK, Decide, agentVars, Stages, Texts
<1>2. OthersSame(c)  BY DEF Inv, TypeOK, OthersSame, Same, Decide, agentVars
<1>3. CallInv(c)'
  <2>1. target'[c] = d /\ (stage'[c] = "ok" => d = Direct)
    BY ConstantsAssumption DEF Inv, TypeOK, Decide
  <2>2. stage'[c] \in {"ok", "err", "delegating"} /\ UNCHANGED agentVars /\ text'[c] = text[c]
    BY DEF Inv, TypeOK, Decide
  <2> QED  BY <2>1, <2>2 DEF Inv, CallInv, Before, Reply, Stream, Answer, agentVars
<1> QED  BY <1>1, <1>2, <1>3, Frame

LEMMA TriageKeeps ==
  ASSUME NEW c \in Calls, Inv, TriageByModel(c) \/ TriageByKeywords(c)
  PROVE  Inv'
<1>1. CASE TriageByModel(c)
  <2>1. PICK r \in Routes \cup {None} : Decide(c, ModelRoute(r))  BY <1>1 DEF TriageByModel
  <2>2. ModelRoute(r) \in Routes \cup {Direct}  BY DEF ModelRoute
  <2> QED  BY <1>1, <2>1, <2>2, DecideKeeps DEF TriageByModel
<1>2. CASE TriageByKeywords(c)
  <2>1. PICK groups \in Words : Decide(c, KeywordRoute(groups))  BY <1>2 DEF TriageByKeywords
  <2>2. CASE KeywordRoute(groups) \in Routes \cup {Direct}
    BY <1>2, <2>1, <2>2, DecideKeeps DEF TriageByKeywords
  <2>3. CASE KeywordRoute(groups) \notin Routes \cup {Direct}  BY <2>1, <2>3 DEF Decide
  <2> QED  BY <2>2, <2>3
<1> QED  BY <1>1, <1>2

LEMMA TriageRefusesKeeps ==
  ASSUME NEW c \in Calls, Inv, TriageRefuses(c)
  PROVE  Inv'
<1>1. TypeOK'  BY DEF Inv, TypeOK, TriageRefuses, coordVars, agentVars, Stages
<1>2. OthersSame(c)  BY DEF Inv, TypeOK, OthersSame, Same, TriageRefuses, coordVars, agentVars, Stages
<1>3. stage'[c] = "err"  BY DEF Inv, TypeOK, TriageRefuses
<1>4. CallInv(c)'  BY <1>3, OverKeeps
<1> QED  BY <1>1, <1>2, <1>4, Frame

LEMMA DelegateFailsKeeps ==
  ASSUME NEW c \in Calls, Inv, DelegateFails(c)
  PROVE  Inv'
<1> <<>> \in Seq(Events)  OBVIOUS
<1>1. TypeOK'  BY DEF Inv, TypeOK, DelegateFails, coordVars, Stages
<1>2. OthersSame(c)  BY DEF Inv, TypeOK, OthersSame, Same, DelegateFails, coordVars, Connected, Stages
<1>3. stage'[c] = "err"  BY DEF Inv, TypeOK, DelegateFails
<1>4. CallInv(c)'  BY <1>3, OverKeeps
<1> QED  BY <1>1, <1>2, <1>4, Frame

LEMMA CallerLeavesKeeps ==
  ASSUME NEW c \in Calls, Inv, CallerLeaves(c)
  PROVE  Inv'
<1> <<>> \in Seq(Events)  OBVIOUS
<1>1. TypeOK'  BY DEF Inv, TypeOK, CallerLeaves, coordVars, Stages
<1>2. OthersSame(c)  BY DEF Inv, TypeOK, OthersSame, Same, CallerLeaves, coordVars, Connected, Stages
<1>3. stage'[c] = "dropped"  BY DEF Inv, TypeOK, CallerLeaves
<1>4. CallInv(c)'  BY <1>3, OverKeeps
<1> QED  BY <1>1, <1>2, <1>4, Frame

LEMMA AgentDroppedKeeps ==
  ASSUME NEW c \in Calls, Inv, AgentDropped(c)
  PROVE  Inv'
<1> <<>> \in Seq(Events)  OBVIOUS
<1>1. TypeOK'  BY DEF Inv, TypeOK, AgentDropped, coordVars, Stages
<1>2. OthersSame(c)  BY DEF Inv, TypeOK, OthersSame, Same, AgentDropped, coordVars, Connected, Stages
<1>3. CallInv(c)'  BY DEF Inv, TypeOK, CallInv, Before, Reply, Stream, Answer, AgentDropped, coordVars, Connected, Stages
<1> QED  BY <1>1, <1>2, <1>3, Frame

LEMMA ReadHalfKeeps ==
  ASSUME NEW c \in Calls, Inv, ReadHalf(c)
  PROVE  Inv'
<1>1. TypeOK'  BY DEF Inv, TypeOK, ReadHalf, coordVars
<1>2. OthersSame(c)  BY DEF Inv, TypeOK, OthersSame, Same, ReadHalf, coordVars
<1>3. CallInv(c)'
  <2>1. Same(c)  BY DEF Same, ReadHalf, coordVars
  <2> QED  BY <2>1, SameKeeps DEF Inv
<1> QED  BY <1>1, <1>2, <1>3, Frame

(* The agent works on for a call that is over. *)
LEMMA AloneKeeps ==
  ASSUME NEW c \in Calls, Inv, ~Connected(c), task[c] = "working",
         stage'[c] = stage[c], target'[c] = target[c]
  PROVE  CallInv(c)'
<1>1. stage[c] \in Stages  BY DEF Inv, TypeOK
<1>2. stage[c] \notin {"none", "triage"}  BY DEF Inv, CallInv, Before
<1>3. stage[c] = "ok" => target[c] = Direct  BY DEF Inv, CallInv, Answer
<1> QED  BY <1>1, <1>2, <1>3 DEF Connected, Stages, CallInv, Before, Reply, Stream, Answer

LEMMA AgentAdmitsKeeps ==
  ASSUME NEW c \in Calls, Inv, AgentAdmits(c)
  PROVE  Inv'
<1> "working" \in Events  BY DEF Events
<1>0. CASE c \in Streaming
  <2>1. Sends(c, <<"working">>)  BY <1>0 DEF AgentAdmits
  <2>2. TypeOK'  BY <2>1, SendsTyped DEF Inv, TypeOK, AgentAdmits, Stages
  <2>3. OthersSame(c)  BY <2>1, SendsTyped DEF Inv, TypeOK, OthersSame, Same, AgentAdmits
  <2>4. wire[c] = <<>> /\ text[c] = "" /\ result[c] = None
    BY DEF AgentAdmits, Inv, CallInv, Before
  <2>5. Len(wire'[c]) = 1 /\ wire'[c] # <<>> /\ wire'[c][1] = "working"
    <3>1. wire'[c] = wire[c] \o <<"working">>  BY <2>1, SendsTyped DEF AgentAdmits, Connected, Inv
    <3> wire[c] \in Seq(Events)  BY DEF Inv, TypeOK
    <3> QED  BY <3>1, <2>4, FirstEvent
  <2>6. stage'[c] = "streaming" /\ task'[c] = "working" /\ text'[c] = "" /\ result'[c] = None
    BY <1>0, <2>4 DEF AgentAdmits, Inv, TypeOK
  <2>7. CallInv(c)'
    <3>1. \A i \in 1..Len(wire'[c]) : wire'[c][i] = "working"  BY <2>5
    <3>2. Stream(c)'  BY <1>0, <2>6, <3>1, ConstantsAssumption DEF Stream, Ended
    <3> QED  BY <2>6, <3>2 DEF CallInv, Before, Reply, Answer
  <2> QED  BY <2>2, <2>3, <2>7, Frame
<1>1. CASE c \notin Streaming
  <2>1. TypeOK'  BY <1>1 DEF Inv, TypeOK, AgentAdmits
  <2>2. OthersSame(c)  BY <1>1 DEF Inv, TypeOK, OthersSame, Same, AgentAdmits
  <2>3. wire[c] = <<>> /\ result[c] = None  BY DEF AgentAdmits, Inv, CallInv, Before
  <2>4. stage'[c] = "delegating" /\ task'[c] = "working" /\ wire'[c] = <<>> /\ result'[c] = None
    BY <1>1, <2>3 DEF AgentAdmits, Inv, TypeOK
  <2>5. CallInv(c)'  BY <1>1, <2>4 DEF CallInv, Before, Reply, Stream, Answer
  <2> QED  BY <2>1, <2>2, <2>5, Frame
<1> QED  BY <1>0, <1>1

LEMMA AgentRefusesKeeps ==
  ASSUME NEW c \in Calls, Inv, AgentRefuses(c)
  PROVE  Inv'
<1> "error" \in Events  BY DEF Events
<1>1. Sends(c, <<"error">>)  BY DEF AgentRefuses
<1>2. TypeOK'  BY <1>1, SendsTyped DEF Inv, TypeOK, AgentRefuses, Stages
<1>3. OthersSame(c)  BY <1>1, SendsTyped DEF Inv, TypeOK, OthersSame, Same, AgentRefuses
<1>4. wire[c] = <<>> /\ text[c] = "" /\ result[c] = None
  BY DEF AgentRefuses, Inv, CallInv, Before
<1>5. Len(wire'[c]) = 1 /\ wire'[c] # <<>> /\ wire'[c][1] = "error"
  <2>1. wire'[c] = wire[c] \o <<"error">>  BY <1>1, SendsTyped DEF AgentRefuses, Connected, Inv
  <2> wire[c] \in Seq(Events)  BY DEF Inv, TypeOK
  <2> QED  BY <2>1, <1>4, FirstEvent
<1>6. /\ stage'[c] = IF c \in Streaming THEN "streaming" ELSE "delegating"
      /\ task'[c] = "refused" /\ text'[c] = "" /\ result'[c] = None
  BY <1>4 DEF AgentRefuses, Inv, TypeOK
<1>7. CallInv(c)'
  <2>1. \A i \in 1..Len(wire'[c]) : i = Len(wire'[c]) /\ wire'[c][i] = "error"  BY <1>5
  <2>2. wire'[c][Len(wire'[c])] = "error"  BY <1>5
  <2>3. Stream(c)'  BY <1>5, <1>6, <2>1, <2>2, ConstantsAssumption DEF Stream, Ended, Tells
  <2>4. Reply(c)'  BY <1>5, <1>6 DEF Reply
  <2> QED  BY <1>6, <2>3, <2>4 DEF CallInv, Before, Answer
<1> QED  BY <1>2, <1>3, <1>7, Frame

(* A stream that goes on with an event that is not its end.                 *)
LEMMA Unended ==
  ASSUME NEW c \in Calls, Inv, stage[c] = "streaming", task[c] = "working",
         UNCHANGED <<stage, text, task>>,
         NEW e \in {"working", "progress", "text", "blank"},
         wire'[c] = wire[c] \o <<e>>,
         \/ result' = result /\ e \in {"working", "progress"}
         \/ result[c] = None /\ result'[c] = e
  PROVE  Stream(c)'
<1> DEFINE w == wire[c]
           v == wire'[c]
<1>1. Stream(c) /\ w \in Seq(Events)  BY DEF Inv, CallInv, TypeOK
<1>2. e \in Events  BY DEF Events
<1>3. /\ Len(v) = Len(w) + 1 /\ Len(w) \in Nat /\ v[Len(w) + 1] = e
      /\ \A i \in 1..Len(w) : v[i] = w[i]
  BY <1>1, <1>2, SentEvent
<1>4. \A i \in 1..Len(w) : w[i] \notin {"completed", "failed", "error"}
  BY <1>1 DEF Stream, Ended
<1>5. \A i \in 1..Len(w) : w[i] \in {"text", "blank"} => w[i] = result[c]  BY <1>1 DEF Stream
<1>6. \A i \in 1..Len(v) :
        /\ v[i] \in {"text", "blank"} => v[i] = result'[c]
        /\ v[i] \notin {"completed", "failed", "error"}
  <2> SUFFICES ASSUME NEW i \in 1..Len(v)
               PROVE  /\ v[i] \in {"text", "blank"} => v[i] = result'[c]
                      /\ v[i] \notin {"completed", "failed", "error"}
    OBVIOUS
  <2>1. i \in 1..Len(w) \/ i = Len(w) + 1  BY <1>3
  <2>2. CASE i \in 1..Len(w)  BY <2>2, <1>3, <1>4, <1>5, ConstantsAssumption
  <2>3. CASE i = Len(w) + 1  BY <2>3, <1>3
  <2> QED  BY <2>1, <2>2, <2>3
<1>7. result'[c] = "text" /\ text[c] = "" => \E i \in 1..Len(v) : v[i] = "text"
  <2>1. CASE e = "text"
    <3>1. Len(w) + 1 \in 1..Len(v)  BY <1>3
    <3> QED  BY <2>1, <3>1, <1>3
  <2>2. CASE result' = result
    <3>1. result[c] = "text" /\ text[c] = "" => \E i \in 1..Len(w) : w[i] = "text"
      BY <1>1 DEF Stream
    <3>2. ASSUME NEW i \in 1..Len(w), w[i] = "text" PROVE i \in 1..Len(v) /\ v[i] = "text"
      BY <3>2, <1>3
    <3> QED  BY <2>2, <3>1, <3>2
  <2>3. CASE result'[c] = e /\ e # "text"  BY <2>3
  <2> QED  BY <2>1, <2>2, <2>3
<1>8. text[c] # "" => result'[c] = "text"
  BY <1>1, ConstantsAssumption DEF Stream
<1>9. c \in Streaming /\ text[c] \in {"", "text", "garbled"}  BY <1>1 DEF Stream
<1> QED  BY <1>6, <1>7, <1>8, <1>9 DEF Stream, Ended

LEMMA AgentProgressKeeps ==
  ASSUME NEW c \in Calls, Inv, AgentProgress(c)
  PROVE  Inv'
<1> "progress" \in Events  BY DEF Events
<1>1. Sends(c, <<"progress">>)  BY DEF AgentProgress
<1>2. TypeOK'  BY <1>1, SendsTyped DEF Inv, TypeOK, AgentProgress, coordVars
<1>3. OthersSame(c)  BY <1>1, SendsTyped DEF Inv, TypeOK, OthersSame, Same, AgentProgress, coordVars
<1>4. CallInv(c)'
  <2>1. CASE ~Connected(c)  BY <2>1, AloneKeeps DEF AgentProgress, coordVars
  <2>2. CASE Connected(c)
    <3>1. stage[c] = "streaming"
      BY <2>2 DEF AgentProgress, Connected, Inv, CallInv, Reply
    <3>2. wire'[c] = wire[c] \o <<"progress">>  BY <1>1, <2>2, SendsTyped DEF Inv
    <3>3. wire[c] \in Seq(Events)  BY DEF Inv, TypeOK
    <3>4. Stream(c)  BY DEF Inv, CallInv
    <3>5. UNCHANGED <<stage, text, task, result>>  BY DEF AgentProgress, coordVars
    <3>6. task[c] = "working"  BY DEF AgentProgress
    <3>7. Stream(c)'  BY <3>1, <3>2, <3>3, <3>5, <3>6, Unended
    <3> QED  BY <3>1, <3>5, <3>7 DEF CallInv, Before, Reply, Answer
  <2> QED  BY <2>1, <2>2
<1> QED  BY <1>2, <1>3, <1>4, Frame

(* A stream that goes on with the end of its task.                          *)
LEMMA EndSent ==
  ASSUME NEW c \in Calls, Inv, stage[c] = "streaming", task[c] = "working",
         UNCHANGED <<stage, text, result>>,
         task'[c] \in Ended, task'[c] = "completed" => result[c] # None,
         wire'[c] = wire[c] \o <<Tells(task'[c])>>
  PROVE  Stream(c)'
<1> DEFINE w == wire[c]
           v == wire'[c]
           e == Tells(task'[c])
<1>1. Stream(c) /\ w \in Seq(Events)  BY DEF Inv, CallInv, TypeOK
<1>2. e \in Events /\ e \in {"completed", "failed", "error"}  BY DEF Events, Tells, Ended
<1>3. /\ Len(v) = Len(w) + 1 /\ Len(w) \in Nat /\ v[Len(w) + 1] = e
      /\ \A i \in 1..Len(w) : v[i] = w[i]
      /\ v # <<>>
  BY <1>1, <1>2, SentEvent
<1>4. \A i \in 1..Len(w) :
        w[i] \notin {"completed", "failed", "error"} /\ (w[i] \in {"text", "blank"} => w[i] = result[c])
  BY <1>1 DEF Stream, Ended
<1>5. \A i \in 1..Len(v) :
        /\ v[i] \in {"text", "blank"} => v[i] = result[c]
        /\ v[i] \in {"completed", "failed", "error"} => v[i] = e /\ i = Len(v)
  <2> SUFFICES ASSUME NEW i \in 1..Len(v)
               PROVE  /\ v[i] \in {"text", "blank"} => v[i] = result[c]
                      /\ v[i] \in {"completed", "failed", "error"} => v[i] = e /\ i = Len(v)
    OBVIOUS
  <2>1. i \in 1..Len(w) \/ i = Len(w) + 1  BY <1>3
  <2>2. CASE i \in 1..Len(w)  BY <2>2, <1>3, <1>4
  <2>3. CASE i = Len(w) + 1  BY <2>3, <1>2, <1>3
  <2> QED  BY <2>1, <2>2, <2>3
<1>6. result[c] = "text" /\ text[c] = "" => \E i \in 1..Len(v) : v[i] = "text"
  <2>1. result[c] = "text" /\ text[c] = "" => \E i \in 1..Len(w) : w[i] = "text"
    BY <1>1 DEF Stream
  <2>2. ASSUME NEW i \in 1..Len(w), w[i] = "text" PROVE i \in 1..Len(v) /\ v[i] = "text"
    BY <2>2, <1>3
  <2> QED  BY <2>1, <2>2
<1>7. task'[c] = "completed" => result[c] \in {"text", "blank"}  BY DEF Inv, TypeOK
<1>8. v[Len(v)] = e  BY <1>3
<1>9. c \in Streaming /\ text[c] \in {"", "text", "garbled"} /\ (text[c] # "" => result[c] = "text")
  BY <1>1 DEF Stream
<1> QED  BY <1>3, <1>5, <1>6, <1>7, <1>8, <1>9 DEF Stream

LEMMA StreamCompletesKeeps ==
  ASSUME NEW c \in Calls, Inv, StreamCompletes(c)
  PROVE  Inv'
<1> "completed" \in Events  BY DEF Events
<1>1. Sends(c, <<"completed">>)  BY DEF StreamCompletes
<1>2. TypeOK'  BY <1>1, SendsTyped DEF Inv, TypeOK, StreamCompletes, coordVars
<1>3. OthersSame(c)  BY <1>1, SendsTyped DEF Inv, TypeOK, OthersSame, Same, StreamCompletes, coordVars
<1>4. task'[c] = "completed" /\ UNCHANGED <<stage, target, text, answer, result>>
  BY DEF StreamCompletes, coordVars, Inv, TypeOK
<1>5. CallInv(c)'
  <2>1. CASE ~Connected(c)  BY <2>1, <1>4, AloneKeeps DEF StreamCompletes
  <2>2. CASE Connected(c) /\ stage[c] = "streaming"
    <3>1. wire'[c] = wire[c] \o <<"completed">>  BY <1>1, <2>2, SendsTyped DEF Inv
    <3>2. Stream(c)'  BY <1>4, <2>2, <3>1, EndSent DEF StreamCompletes, Tells, Ended
    <3> QED  BY <2>2, <1>4, <3>2 DEF CallInv, Before, Reply, Answer
  <2>3. CASE Connected(c) /\ stage[c] = "delegating"
    BY <2>3 DEF StreamCompletes, Inv, CallInv, Reply
  <2> QED  BY <2>1, <2>2, <2>3 DEF Connected
<1> QED  BY <1>2, <1>3, <1>5, Frame

LEMMA AgentFailsKeeps ==
  ASSUME NEW c \in Calls, Inv, AgentFails(c)
  PROVE  Inv'
<1> "failed" \in Events  BY DEF Events
<1>1. Sends(c, <<"failed">>)  BY DEF AgentFails
<1>2. TypeOK'  BY <1>1, SendsTyped DEF Inv, TypeOK, AgentFails, coordVars
<1>3. OthersSame(c)  BY <1>1, SendsTyped DEF Inv, TypeOK, OthersSame, Same, AgentFails, coordVars
<1>4. task'[c] = "failed" /\ UNCHANGED <<stage, target, text, answer, result>>
  BY DEF AgentFails, coordVars, Inv, TypeOK
<1>5. CallInv(c)'
  <2>1. CASE ~Connected(c)  BY <2>1, <1>4, AloneKeeps DEF AgentFails
  <2>2. CASE Connected(c) /\ stage[c] = "streaming"
    <3>1. wire'[c] = wire[c] \o <<"failed">>  BY <1>1, <2>2, SendsTyped DEF Inv
    <3>2. Stream(c)'  BY <1>4, <2>2, <3>1, EndSent DEF AgentFails, Tells, Ended
    <3> QED  BY <2>2, <1>4, <3>2 DEF CallInv, Before, Reply, Answer
  <2>3. CASE Connected(c) /\ stage[c] = "delegating"
    <3>1. wire'[c] = wire[c] \o <<"failed">>  BY <1>1, <2>3, SendsTyped DEF Inv
    <3>2. wire[c] = <<>> /\ wire[c] \in Seq(Events) /\ c \notin Streaming
      BY <2>3 DEF AgentFails, Inv, TypeOK, CallInv, Reply
    <3>3. wire'[c][1] = "failed"  BY <3>1, <3>2, FirstEvent
    <3> QED  BY <1>4, <2>3, <3>2, <3>3 DEF CallInv, Before, Reply, Stream, Answer
  <2> QED  BY <2>1, <2>2, <2>3 DEF Connected
<1> QED  BY <1>2, <1>3, <1>5, Frame

LEMMA AgentReturnsKeeps ==
  ASSUME NEW c \in Calls, Inv, AgentReturns(c)
  PROVE  Inv'
<1>1. PICK r \in {"text", "blank"} : result' = [result EXCEPT ![c] = r] /\ Sends(c, <<r>>)
  BY DEF AgentReturns
<1> r \in Events  BY DEF Events
<1>2. TypeOK'
  <2>1. /\ wire' \in [Calls -> Seq(Events)]
        /\ task' \in [Calls -> {"none", "working", "refused", "completed", "failed", "abandoned"}]
        /\ result' \in [Calls -> {"text", "blank", None}]
    BY <1>1, SendsTyped DEF Inv, TypeOK, AgentReturns
  <2> QED  BY <2>1 DEF Inv, TypeOK, AgentReturns, coordVars
<1>3. OthersSame(c)  BY <1>1, SendsTyped DEF Inv, TypeOK, OthersSame, Same, AgentReturns, coordVars
<1>4. /\ result'[c] = r /\ UNCHANGED <<stage, target, text, answer>>
      /\ task'[c] = IF c \in Streaming THEN "working" ELSE "completed"
      /\ c \in Streaming => UNCHANGED task
  BY <1>1 DEF AgentReturns, coordVars, Inv, TypeOK
<1>5. CallInv(c)'
  <2>1. CASE ~Connected(c)  BY <2>1, <1>4, AloneKeeps DEF AgentReturns
  <2>2. CASE Connected(c) /\ stage[c] = "streaming"
    <3>1. wire'[c] = wire[c] \o <<r>>  BY <1>1, <2>2, SendsTyped DEF Inv
    <3>2. c \in Streaming  BY <2>2 DEF Inv, CallInv, Stream
    <3>3. Stream(c)'  BY <1>4, <2>2, <3>1, <3>2, Unended DEF AgentReturns
    <3> QED  BY <2>2, <1>4, <3>3 DEF CallInv, Before, Reply, Answer
  <2>3. CASE Connected(c) /\ stage[c] = "delegating"
    <3>1. wire'[c] = wire[c] \o <<r>>  BY <1>1, <2>3, SendsTyped DEF Inv
    <3>2. wire[c] = <<>> /\ wire[c] \in Seq(Events) /\ c \notin Streaming
      BY <2>3 DEF AgentReturns, Inv, TypeOK, CallInv, Reply
    <3>3. wire'[c][1] = r  BY <3>1, <3>2, FirstEvent
    <3> QED  BY <1>4, <2>3, <3>2, <3>3 DEF CallInv, Before, Reply, Stream, Answer
  <2> QED  BY <2>1, <2>2, <2>3 DEF Connected
<1> QED  BY <1>2, <1>3, <1>5, Frame

LEMMA ReadReplyKeeps ==
  ASSUME NEW c \in Calls, Inv, ReadReply(c)
  PROVE  Inv'
<1> DEFINE reply == Head(wire[c])
<1>1. wire[c] \in Seq(Events) /\ wire[c] # <<>> /\ stage[c] = "delegating"
  BY DEF ReadReply, Inv, TypeOK
<1>2. reply \in Events /\ reply = wire[c][1]  BY <1>1, ReadFirst
<1>3. Reply(c) /\ task[c] \in {"completed", "failed", "refused"}
  BY <1>1 DEF Inv, CallInv, Reply, TypeOK
<1>4. \/ reply = result[c] /\ reply \in {"text", "blank"} /\ task[c] = "completed"
      \/ reply \in {"error", "failed"}
  BY <1>1, <1>2, <1>3 DEF Reply
<1>5. TypeOK'
  <2>1. <<>> \in Seq(Events)  OBVIOUS
  <2>2. wire' \in [Calls -> Seq(Events)]  BY <2>1 DEF Inv, TypeOK, ReadReply
  <2>3. stage' \in [Calls -> Stages] /\ answer' \in [Calls -> Texts]
    BY <1>4, ZenonT(60) DEF Inv, TypeOK, ReadReply, Stages, Texts
  <2> QED  BY <2>2, <2>3 DEF Inv, TypeOK, ReadReply
<1>6. OthersSame(c)  BY DEF Inv, TypeOK, OthersSame, Same, ReadReply
<1>7. CallInv(c)'
  <2>1. CASE reply \in {"error", "failed"}
    <3>1. stage'[c] = "err"  BY <2>1 DEF ReadReply, Inv, TypeOK
    <3> QED  BY <3>1, OverKeeps
  <2>2. CASE reply \notin {"error", "failed"}
    <3>1. stage'[c] = "ok" /\ answer'[c] = reply /\ UNCHANGED <<task, result>>
      BY <2>2 DEF ReadReply, Inv, TypeOK
    <3> QED  BY <1>4, <2>2, <3>1 DEF CallInv, Before, Reply, Stream, Answer
  <2> QED  BY <2>1, <2>2
<1> QED  BY <1>5, <1>6, <1>7, Frame

(* One event read: the stream goes on, or the call is over.                 *)
LEMMA ReadEventKeeps ==
  ASSUME NEW c \in Calls, Inv, ReadEvent(c)
  PROVE  Inv'
<1> DEFINE w == wire[c]
           ev == Head(w)
<1>1. PICK garbled \in BOOLEAN : ParseEvent(c, ev, garbled)  BY DEF ReadEvent
<1>2. w \in Seq(Events) /\ w # <<>> /\ stage[c] = "streaming" /\ Stream(c)
  BY DEF ReadEvent, Inv, TypeOK, CallInv
<1>3. /\ Tail(w) \in Seq(Events) /\ ev \in Events /\ ev = w[1]
      /\ Len(Tail(w)) = Len(w) - 1 /\ Len(w) \in Nat \ {0}
      /\ \A i \in 1..Len(Tail(w)) : Tail(w)[i] = w[i + 1]
      /\ Tail(w) = <<>> => Len(Tail(w)) = 0
  BY <1>2, ReadFirst
<1>c. /\ Len(Tail(w)) + 1 = Len(w)
      /\ Len(w) = 1 => \A i \in 1..Len(w) : i = 1
      /\ Len(w) # 1 => Len(Tail(w)) \in 1..Len(Tail(w)) /\ Len(Tail(w)) # 0
      /\ \A i \in 1..Len(w) : i # 1 => i - 1 \in 1..Len(Tail(w)) /\ (i - 1) + 1 = i
  BY <1>3, Counting
<1>4. UNCHANGED <<tried, registry, target, task, result>>  BY DEF ReadEvent
<1>5. wire' = [wire EXCEPT ![c] = Tail(w)]  BY <1>1 DEF ParseEvent
<1>6. TypeOK'
  <2>1. wire' \in [Calls -> Seq(Events)]  BY <1>3, <1>5 DEF Inv, TypeOK
  <2>2. half' \in [Calls -> BOOLEAN]  BY <1>1 DEF ParseEvent, Inv, TypeOK
  <2>3. stage' \in [Calls -> Stages] /\ answer' \in [Calls -> Texts] /\ text' \in [Calls -> Texts]
    <3>1. text[c] \in Texts  BY DEF Inv, TypeOK
    <3>2. CASE ev \in {"text", "blank"}
      <4>1. Artifact(ev, garbled) \in Texts  BY <3>2 DEF Artifact, Texts
      <4> QED  BY <1>1, <3>1, <3>2, <4>1 DEF ParseEvent, Inv, TypeOK
    <3>3. CASE ev \notin {"text", "blank"}
      BY <1>1, <3>1, <3>3 DEF ParseEvent, Inv, TypeOK, Stages, Texts
    <3> QED  BY <3>2, <3>3
  <2> QED  BY <1>4, <2>1, <2>2, <2>3 DEF Inv, TypeOK
<1>7. OthersSame(c)
  <2>1. ASSUME NEW d \in Calls \ {c} PROVE Same(d)
    <3>1. wire'[d] = wire[d]  BY <1>5 DEF Inv, TypeOK
    <3>2. stage'[d] = stage[d] /\ text'[d] = text[d] /\ answer'[d] = answer[d]
      BY <1>1 DEF ParseEvent, Inv, TypeOK
    <3> QED  BY <1>4, <3>1, <3>2 DEF Same
  <2> QED  BY <2>1 DEF OthersSame
<1>8. wire'[c] = Tail(w)  BY <1>5 DEF Inv, TypeOK
<1>9. 1 \in 1..Len(w)  BY <1>3
<1>10. CASE ev \in {"working", "progress"} \/ ev \in {"text", "blank"}
  <2> DEFINE new == IF ev = "text" THEN Artifact(ev, garbled) ELSE text[c]
  <2>1. stage'[c] = "streaming" /\ text'[c] = new
    BY <1>1, <1>2, <1>10 DEF ParseEvent, Inv, TypeOK, Artifact
  <2>2. \A i \in 1..Len(Tail(w)) :
          /\ Tail(w)[i] \in {"text", "blank"} => Tail(w)[i] = result[c]
          /\ Tail(w)[i] \in {"completed", "failed", "error"} =>
               task[c] \in Ended /\ Tail(w)[i] = Tells(task[c]) /\ i = Len(Tail(w))
    <3> SUFFICES ASSUME NEW i \in 1..Len(Tail(w))
                 PROVE  /\ Tail(w)[i] \in {"text", "blank"} => Tail(w)[i] = result[c]
                        /\ Tail(w)[i] \in {"completed", "failed", "error"} =>
                             task[c] \in Ended /\ Tail(w)[i] = Tells(task[c]) /\ i = Len(Tail(w))
      OBVIOUS
    <3>1. i + 1 \in 1..Len(w) /\ Tail(w)[i] = w[i + 1]  BY <1>3
    <3>2. i + 1 = Len(w) => i = Len(Tail(w))  BY <1>3
    <3> QED  BY <1>2, <3>1, <3>2 DEF Stream
  <2>3. task[c] \in Ended => Tail(w) # <<>> /\ Tail(w)[Len(Tail(w))] = Tells(task[c])
    <3> SUFFICES ASSUME task[c] \in Ended
                 PROVE  Tail(w) # <<>> /\ Tail(w)[Len(Tail(w))] = Tells(task[c])
      OBVIOUS
    <3>1. w[Len(w)] = Tells(task[c]) /\ Tells(task[c]) \in {"completed", "failed", "error"}
      BY <1>2 DEF Stream, Tells, Ended
    <3>2. Len(w) # 1  BY <3>1, <1>3, <1>10
    <3>3. Len(Tail(w)) \in 1..Len(Tail(w)) /\ Len(Tail(w)) + 1 = Len(w) /\ Tail(w) # <<>>
      BY <3>2, <1>3, <1>c
    <3>4. Tail(w)[Len(Tail(w))] = w[Len(w)]  BY <3>3, <1>3
    <3> QED  BY <3>1, <3>3, <3>4
  <2>4. result[c] = "text" /\ new = "" => \E i \in 1..Len(Tail(w)) : Tail(w)[i] = "text"
    <3> SUFFICES ASSUME result[c] = "text", new = ""
                 PROVE  \E i \in 1..Len(Tail(w)) : Tail(w)[i] = "text"
      OBVIOUS
    <3>1. ev # "text" /\ text[c] = ""  BY DEF Artifact
    <3>2. PICK i \in 1..Len(w) : w[i] = "text"  BY <1>2, <3>1 DEF Stream
    <3>3. i # 1  BY <3>1, <3>2, <1>3
    <3>4. i - 1 \in 1..Len(Tail(w)) /\ (i - 1) + 1 = i  BY <3>3, <1>c
    <3>5. Tail(w)[i - 1] = "text"  BY <3>2, <3>4, <1>3
    <3> QED  BY <3>4, <3>5
  <2>5. new \in {"", "text", "garbled"} /\ (new # "" => result[c] = "text")
    BY <1>2, <1>3, <1>9 DEF Stream, Artifact
  <2>6. c \in Streaming /\ task[c] \in Ended \cup {"working"}
        /\ (task[c] = "completed" => result[c] \in {"text", "blank"})
    BY <1>2 DEF Stream
  <2>7. Stream(c)'
    BY <1>4, <1>8, <2>1, <2>2, <2>3, <2>4, <2>5, <2>6 DEF Stream
  <2>8. CallInv(c)'  BY <2>1, <2>7 DEF CallInv, Before, Reply, Answer
  <2> QED  BY <1>6, <1>7, <2>8, Frame
<1>11. CASE ev = "completed"
  <2>1. stage'[c] = "ok" /\ answer'[c] = IF text[c] = "" THEN "placeholder" ELSE text[c]
    BY <1>1, <1>11 DEF ParseEvent, Inv, TypeOK
  <2>2. task[c] \in Ended /\ Tells(task[c]) = "completed" /\ Len(w) = 1
    BY <1>2, <1>3, <1>9, <1>11 DEF Stream
  <2>3. task[c] = "completed"  BY <2>2 DEF Ended, Tells
  <2>4. text[c] = "" => result[c] = "blank"
    <3> SUFFICES ASSUME text[c] = "", result[c] = "text" PROVE FALSE
      BY <1>2, <2>3 DEF Stream
    <3>1. PICK i \in 1..Len(w) : w[i] = "text"  BY <1>2 DEF Stream
    <3>2. i = 1  BY <2>2, <1>c
    <3> QED  BY <3>1, <3>2, <1>3, <1>11
  <2>5. text[c] \in {"", "text", "garbled"} /\ (text[c] # "" => result[c] = "text")
    BY <1>2 DEF Stream
  <2>6. CallInv(c)'
    BY <1>4, <2>1, <2>3, <2>4, <2>5 DEF CallInv, Before, Reply, Stream, Answer
  <2> QED  BY <1>6, <1>7, <2>6, Frame
<1>12. CASE ev \in {"failed", "error"}
  <2>1. stage'[c] = "err"  BY <1>1, <1>12 DEF ParseEvent, Inv, TypeOK
  <2> QED  BY <1>6, <1>7, <2>1, OverKeeps, Frame
<1> QED  BY <1>3, <1>10, <1>11, <1>12 DEF Events

-----------------------------------------------------------------------------
LEMMA NextKeeps == Inv /\ [Next]_callVars => Inv'
<1> SUFFICES ASSUME Inv, [Next]_callVars PROVE Inv'  OBVIOUS
<1>1. CASE Discover  BY <1>1, DiscoverKeeps
<1>2. ASSUME NEW c \in Calls, Request(c) \/ CallerLeaves(c) PROVE Inv'
  BY <1>2, RequestKeeps, CallerLeavesKeeps
<1>3. ASSUME NEW c \in Calls, CallStep(c) PROVE Inv'
  BY <1>3, TriageKeeps, TriageRefusesKeeps, ReadReplyKeeps, ReadHalfKeeps, ReadEventKeeps,
     DelegateFailsKeeps DEF CallStep
<1>4. ASSUME NEW c \in Calls, AgentStep(c) PROVE Inv'
  BY <1>4, AgentAdmitsKeeps, AgentRefusesKeeps, AgentProgressKeeps, AgentReturnsKeeps,
     StreamCompletesKeeps, AgentFailsKeeps, AgentDroppedKeeps DEF AgentStep
<1>5. CASE UNCHANGED callVars
  <2>1. TypeOK'  BY <1>5 DEF callVars, Inv, TypeOK
  <2>2. ASSUME NEW c \in Calls PROVE CallInv(c)'
    <3>1. Same(c)  BY <1>5 DEF callVars, Same
    <3> QED  BY <3>1, SameKeeps DEF Inv
  <2> QED  BY <2>1, <2>2 DEF Inv
<1> QED  BY <1>1, <1>2, <1>3, <1>4, <1>5 DEF Next

LEMMA Invariant == Spec => []Inv
<1> QED  BY InitInv, NextKeeps, PTL DEF Spec

-----------------------------------------------------------------------------
(* Types: among others, the events a stream can carry (server.rs,           *)
(* build_sse_stream) and the texts an answer can have.                      *)
THEOREM TypeCorrect == Spec => []TypeOK
<1>1. Inv => TypeOK  BY DEF Inv
<1> QED  BY <1>1, Invariant, PTL

(* The coordinator answers Ok only for a task the agent completed           *)
(* (orchestrator.rs, delegate and delegate_streaming).                      *)
LEMMA InvOk == Inv => OkIsCompleted
  BY DEF Inv, CallInv, Answer, OkIsCompleted

THEOREM OkAlwaysCompleted == Spec => []OkIsCompleted
  BY InvOk, Invariant, PTL

(* No stream ends before the coordinator can read how the task ended        *)
(* (server.rs, build_sse_stream): the fall-through of delegate_streaming    *)
(* that answers Ok is never reached.                                        *)
LEMMA InvTold == Inv => EndIsTold
<1> SUFFICES ASSUME Inv, NEW c \in Calls, EndsUntold(c) PROVE FALSE  BY DEF EndIsTold
<1>1. Stream(c) /\ task[c] \in Ended /\ wire[c] = <<>>
  BY DEF Inv, CallInv, EndsUntold, Ended
<1> QED  BY <1>1 DEF Stream, EndsUntold

THEOREM EndAlwaysTold == Spec => []EndIsTold
  BY InvTold, Invariant, PTL

-----------------------------------------------------------------------------
(* The bridge. *)

(* The update the loop comes to next. *)
First == IF offset = None THEN confirmed + 1 ELSE offset

LoopTypes ==
  /\ load \in Loads
  /\ confirmed \in Nat /\ First \in Nat /\ crashes \in Nat
  /\ batch \in Seq(Nat)
  /\ step = "wait" => call \in BridgeCalls

OffsetInv ==
  /\ confirmed < First
  /\ \A i \in 1..Len(batch) : batch[i] = First + i - 1
  /\ step # "poll" => offset # None /\ update = First - 1

FateInv ==
  /\ fate \in [Updates -> {"none", "ignored", "answered", "cut"}]
  /\ \A u \in Updates : u < First /\ (step # "poll" => u # update) => fate[u] # "none"
  /\ \A u \in Updates : u <= confirmed => fate[u] # "none"

AskedInv ==
  /\ asked \in [Updates -> Nat]
  /\ \A u \in Updates : asked[u] <= crashes + IF offset # None /\ u < First THEN 1 ELSE 0

BridgeInv == LoopTypes /\ OffsetInv /\ FateInv /\ AskedInv

-----------------------------------------------------------------------------
LEMMA UpdatesAreNumbers == load \in Loads => Updates \subseteq Nat /\ Len(load.updates) \in Nat
<1> SUFFICES ASSUME load \in Loads PROVE Updates \subseteq Nat /\ Len(load.updates) \in Nat
  OBVIOUS
<1>1. load.updates \in Seq(Kinds)  BY BridgeAssumption
<1> QED  BY <1>1 DEF Updates

LEMMA BridgeInitInv == BridgeInit => BridgeInv
<1> SUFFICES ASSUME BridgeInit PROVE BridgeInv  OBVIOUS
<1>1. Updates \subseteq Nat  BY UpdatesAreNumbers DEF BridgeInit
<1>2. First = 1  BY DEF BridgeInit, First
<1>3. <<>> \in Seq(Nat) /\ Len(<<>>) = 0  OBVIOUS
<1>4. LoopTypes  BY <1>2, <1>3 DEF BridgeInit, LoopTypes
<1>5. OffsetInv
  <2>1. batch = <<>> /\ confirmed = 0 /\ step = "poll"  BY DEF BridgeInit
  <2>2. 1..Len(batch) = {}  BY <2>1, <1>3
  <2> QED  BY <1>2, <2>1, <2>2 DEF OffsetInv
<1>6. ASSUME NEW u \in Updates PROVE u >= 1
  <2>1. load.updates \in Seq(Kinds)  BY BridgeAssumption DEF BridgeInit
  <2> QED  BY <2>1 DEF Updates
<1>7. FateInv
  <2>1. fate = [u \in Updates |-> "none"] /\ confirmed = 0  BY DEF BridgeInit
  <2>2. ASSUME NEW u \in Updates PROVE ~(u < First) /\ ~(u <= confirmed)
    BY <1>1, <1>2, <1>6, <2>1
  <2> QED  BY <2>1, <2>2 DEF FateInv
<1>8. AskedInv
  <2>1. asked = [u \in Updates |-> 0] /\ offset = None /\ crashes = 0  BY DEF BridgeInit
  <2> QED  BY <2>1 DEF AskedInv
<1> QED  BY <1>4, <1>5, <1>7, <1>8 DEF BridgeInv

-----------------------------------------------------------------------------
(* One lemma per action. *)

(* What the coordinator and its callers do is none of the loop's business. *)
LEMMA IdleKeeps == BridgeInv /\ UNCHANGED bridgeVars => BridgeInv'
  BY DEF BridgeInv, LoopTypes, OffsetInv, FateInv, AskedInv, First, Updates, bridgeVars, loopVars

LEMMA ConfirmsIs == BridgeInv => Confirms = First - 1 /\ Confirms \in Nat
  BY DEF BridgeInv, LoopTypes, OffsetInv, First, Confirms

LEMMA PollKeeps == BridgeInv /\ Poll => BridgeInv'
<1> SUFFICES ASSUME BridgeInv, Poll PROVE BridgeInv'  OBVIOUS
<1>1. confirmed' = First - 1 /\ confirmed' \in Nat /\ confirmed' = Confirms
  BY ConfirmsIs DEF Poll
<1>2. UNCHANGED <<load, offset, step, update, call, fate, asked, crashes>> /\ step = "poll"
  BY DEF Poll
<1>3. First \in Nat /\ confirmed \in Nat  BY DEF BridgeInv, LoopTypes
<1>4. First' = First  BY <1>1, <1>2, <1>3 DEF First
<1>5. Updates' = Updates /\ Updates \subseteq Nat
  BY <1>2, UpdatesAreNumbers DEF Updates, BridgeInv, LoopTypes
<1>6. PICK last \in Confirms..Len(load.updates) :
        batch' = [i \in 1..(last - Confirms) |-> Confirms + i]
  BY DEF Poll
<1>7. Confirms \in Nat /\ last - Confirms \in Nat
  <2>1. Len(load.updates) \in Nat  BY UpdatesAreNumbers DEF BridgeInv, LoopTypes
  <2> QED  BY <2>1, <1>1
<1>8. batch' \in Seq(Nat) /\ Len(batch') = last - Confirms
  BY <1>6, <1>7
<1>9. \A i \in 1..Len(batch') : batch'[i] = First + i - 1
  BY <1>1, <1>3, <1>6, <1>7, <1>8
<1>10. LoopTypes'  BY <1>1, <1>2, <1>3, <1>4, <1>8 DEF BridgeInv, LoopTypes
<1>11. OffsetInv'  BY <1>1, <1>2, <1>3, <1>4, <1>9 DEF BridgeInv, OffsetInv
<1>12. FateInv'  BY <1>1, <1>2, <1>3, <1>4, <1>5 DEF BridgeInv, FateInv
<1>13. AskedInv'  BY <1>2, <1>4, <1>5 DEF BridgeInv, AskedInv
<1> QED  BY <1>10, <1>11, <1>12, <1>13 DEF BridgeInv

LEMMA PollFailsKeeps == BridgeInv /\ PollFails => BridgeInv'
<1> SUFFICES ASSUME BridgeInv, PollFails PROVE BridgeInv'  OBVIOUS
<1>1. confirmed' = First - 1 /\ confirmed' \in Nat  BY ConfirmsIs DEF PollFails
<1>2. UNCHANGED <<load, loopVars, fate, asked, crashes>> /\ step = "poll"  BY DEF PollFails
<1>3. First \in Nat /\ confirmed \in Nat  BY DEF BridgeInv, LoopTypes
<1>4. First' = First  BY <1>1, <1>2, <1>3 DEF First, loopVars
<1>5. Updates' = Updates /\ Updates \subseteq Nat
  BY <1>2, UpdatesAreNumbers DEF Updates, BridgeInv, LoopTypes
<1>6. LoopTypes'  BY <1>1, <1>2, <1>3, <1>4 DEF BridgeInv, LoopTypes, loopVars
<1>7. OffsetInv'  BY <1>1, <1>2, <1>3, <1>4 DEF BridgeInv, OffsetInv, loopVars
<1>8. FateInv'  BY <1>1, <1>2, <1>3, <1>4, <1>5 DEF BridgeInv, FateInv, loopVars
<1>9. AskedInv'  BY <1>2, <1>4, <1>5 DEF BridgeInv, AskedInv, loopVars
<1> QED  BY <1>6, <1>7, <1>8, <1>9 DEF BridgeInv

(* The update taken is the next one, and the batch goes on behind it. *)
LEMMA TakeIs ==
  ASSUME BridgeInv, NEW u \in Updates, Take(u), UNCHANGED <<load, confirmed>>
  PROVE  /\ u = First /\ step = "poll"
         /\ offset' = First + 1 /\ offset' # None /\ update' = First /\ First' = First + 1
         /\ batch' \in Seq(Nat)
         /\ \A i \in 1..Len(batch') : batch'[i] = First' + i - 1
<1>1. batch \in Seq(Nat) /\ batch # <<>> /\ First \in Nat
  BY DEF BridgeInv, LoopTypes, Take
<1>2. /\ Tail(batch) \in Seq(Nat) /\ Head(batch) = batch[1]
      /\ Len(Tail(batch)) = Len(batch) - 1 /\ Len(batch) \in Nat \ {0}
      /\ \A i \in 1..Len(Tail(batch)) : Tail(batch)[i] = batch[i + 1]
  BY <1>1, ReadFirst
<1>3. \A i \in 1..Len(batch) : batch[i] = First + i - 1  BY DEF BridgeInv, OffsetInv
<1>4. 1 \in 1..Len(batch)  BY <1>2
<1>5. u = First  BY <1>1, <1>2, <1>3, <1>4 DEF Take
<1>6. offset' = First + 1 /\ offset' # None
  BY <1>1, <1>5, BridgeAssumption DEF Take
<1>7. First' = First + 1  BY <1>6 DEF First
<1>8. ASSUME NEW i \in 1..Len(Tail(batch)) PROVE Tail(batch)[i] = First + 1 + i - 1
  <2>1. i + 1 \in 1..Len(batch)  BY <1>2
  <2>2. Tail(batch)[i] = First + (i + 1) - 1  BY <1>2, <1>3, <2>1
  <2> QED  BY <1>1, <1>2, <2>2
<1> QED  BY <1>2, <1>5, <1>6, <1>7, <1>8 DEF Take

LEMMA IgnoreKeeps == BridgeInv /\ Ignore => BridgeInv'
<1> SUFFICES ASSUME BridgeInv, Ignore PROVE BridgeInv'  OBVIOUS
<1>1. PICK u \in Updates : Take(u) /\ fate' = [fate EXCEPT ![u] = "ignored"]
  BY DEF Ignore
<1>2. /\ u = First /\ step = "poll" /\ update' = First
      /\ offset' = First + 1 /\ offset' # None /\ First' = First + 1
      /\ batch' \in Seq(Nat)
      /\ \A i \in 1..Len(batch') : batch'[i] = First' + i - 1
  BY <1>1, TakeIs DEF Ignore
<1>3. First \in Nat /\ confirmed \in Nat /\ confirmed < First  BY DEF BridgeInv, LoopTypes, OffsetInv
<1>4. UNCHANGED <<load, confirmed, crashes>> /\ Updates' = Updates /\ Updates \subseteq Nat
  BY UpdatesAreNumbers DEF Ignore, Updates, BridgeInv, LoopTypes
<1>5. LoopTypes'
  BY <1>1, <1>2, <1>3, <1>4 DEF BridgeInv, LoopTypes, Ignore
<1>6. OffsetInv'
  BY <1>1, <1>2, <1>3, <1>4 DEF BridgeInv, OffsetInv, Ignore
<1>7. FateInv'
  <2>1. fate' = [fate EXCEPT ![u] = "ignored"] /\ step' = "poll"  BY <1>1, <1>2 DEF Ignore
  <2>2. ASSUME NEW v \in Updates, v < First' PROVE v < First \/ v = u
    BY <2>2, <1>2, <1>3, <1>4
  <2> QED  BY <1>2, <1>3, <1>4, <2>1, <2>2 DEF BridgeInv, FateInv
<1>8. AskedInv'
  <2>1. asked' = asked  BY <1>1, <1>2 DEF Ignore
  <2>2. ASSUME NEW v \in Updates
        PROVE  asked'[v] <= crashes + IF v < First' THEN 1 ELSE 0
    <3>1. asked[v] \in Nat /\ crashes \in Nat /\ v \in Nat
          /\ asked[v] <= crashes + IF offset # None /\ v < First THEN 1 ELSE 0
      BY <1>4 DEF BridgeInv, LoopTypes, AskedInv
    <3>2. v < First => v < First'  BY <1>2, <1>3, <3>1
    <3>3. asked'[v] = asked[v] \/ (v = u /\ asked'[v] = asked[v] + 1)
      BY <2>1 DEF BridgeInv, AskedInv
    <3>4. u < First' /\ ~(u < First)  BY <1>2, <1>3
    <3> QED  BY <3>1, <3>2, <3>3, <3>4
  <2>3. asked' \in [Updates -> Nat]  BY <2>1 DEF BridgeInv, AskedInv
  <2> QED  BY <1>2, <1>4, <2>2, <2>3 DEF AskedInv
<1> QED  BY <1>5, <1>6, <1>7, <1>8 DEF BridgeInv

LEMMA HelpKeeps == BridgeInv /\ Help => BridgeInv'
<1> SUFFICES ASSUME BridgeInv, Help PROVE BridgeInv'  OBVIOUS
<1>1. PICK u \in Updates : Take(u) /\ Kind(u) = "help"
  BY DEF Help
<1>2. /\ u = First /\ step = "poll" /\ update' = First
      /\ offset' = First + 1 /\ offset' # None /\ First' = First + 1
      /\ batch' \in Seq(Nat)
      /\ \A i \in 1..Len(batch') : batch'[i] = First' + i - 1
  BY <1>1, TakeIs DEF Help
<1>3. First \in Nat /\ confirmed \in Nat /\ confirmed < First  BY DEF BridgeInv, LoopTypes, OffsetInv
<1>4. UNCHANGED <<load, confirmed, crashes>> /\ Updates' = Updates /\ Updates \subseteq Nat
  BY UpdatesAreNumbers DEF Help, Updates, BridgeInv, LoopTypes
<1>5. LoopTypes'
  BY <1>1, <1>2, <1>3, <1>4 DEF BridgeInv, LoopTypes, Help
<1>6. OffsetInv'
  BY <1>1, <1>2, <1>3, <1>4 DEF BridgeInv, OffsetInv, Help
<1>7. FateInv'
  <2>1. fate' = fate /\ step' # "poll"  BY <1>1, <1>2 DEF Help
  <2>2. ASSUME NEW v \in Updates, v < First' PROVE v < First \/ v = u
    BY <2>2, <1>2, <1>3, <1>4
  <2> QED  BY <1>2, <1>3, <1>4, <2>1, <2>2 DEF BridgeInv, FateInv
<1>8. AskedInv'
  <2>1. asked' = asked  BY <1>1, <1>2 DEF Help
  <2>2. ASSUME NEW v \in Updates
        PROVE  asked'[v] <= crashes + IF v < First' THEN 1 ELSE 0
    <3>1. asked[v] \in Nat /\ crashes \in Nat /\ v \in Nat
          /\ asked[v] <= crashes + IF offset # None /\ v < First THEN 1 ELSE 0
      BY <1>4 DEF BridgeInv, LoopTypes, AskedInv
    <3>2. v < First => v < First'  BY <1>2, <1>3, <3>1
    <3>3. asked'[v] = asked[v] \/ (v = u /\ asked'[v] = asked[v] + 1)
      BY <2>1 DEF BridgeInv, AskedInv
    <3>4. u < First' /\ ~(u < First)  BY <1>2, <1>3
    <3> QED  BY <3>1, <3>2, <3>3, <3>4
  <2>3. asked' \in [Updates -> Nat]  BY <2>1 DEF BridgeInv, AskedInv
  <2> QED  BY <1>2, <1>4, <2>2, <2>3 DEF AskedInv
<1> QED  BY <1>5, <1>6, <1>7, <1>8 DEF BridgeInv

LEMMA ForwardKeeps == BridgeInv /\ Forward => BridgeInv'
<1> SUFFICES ASSUME BridgeInv, Forward PROVE BridgeInv'  OBVIOUS
<1>1. PICK u \in Updates : Take(u) /\ (\E c \in BridgeCalls : call' = c /\ asked' = [asked EXCEPT ![u] = @ + 1])
  BY DEF Forward
<1>2. /\ u = First /\ step = "poll" /\ update' = First
      /\ offset' = First + 1 /\ offset' # None /\ First' = First + 1
      /\ batch' \in Seq(Nat)
      /\ \A i \in 1..Len(batch') : batch'[i] = First' + i - 1
  BY <1>1, TakeIs DEF Forward
<1>3. First \in Nat /\ confirmed \in Nat /\ confirmed < First  BY DEF BridgeInv, LoopTypes, OffsetInv
<1>4. UNCHANGED <<load, confirmed, crashes>> /\ Updates' = Updates /\ Updates \subseteq Nat
  BY UpdatesAreNumbers DEF Forward, Updates, BridgeInv, LoopTypes
<1>5. LoopTypes'
  BY <1>1, <1>2, <1>3, <1>4 DEF BridgeInv, LoopTypes, Forward
<1>6. OffsetInv'
  BY <1>1, <1>2, <1>3, <1>4 DEF BridgeInv, OffsetInv, Forward
<1>7. FateInv'
  <2>1. fate' = fate /\ step' # "poll"  BY <1>1, <1>2 DEF Forward
  <2>2. ASSUME NEW v \in Updates, v < First' PROVE v < First \/ v = u
    BY <2>2, <1>2, <1>3, <1>4
  <2> QED  BY <1>2, <1>3, <1>4, <2>1, <2>2 DEF BridgeInv, FateInv
<1>8. AskedInv'
  <2>1. asked' = [asked EXCEPT ![u] = @ + 1]  BY <1>1, <1>2 DEF Forward
  <2>2. ASSUME NEW v \in Updates
        PROVE  asked'[v] <= crashes + IF v < First' THEN 1 ELSE 0
    <3>1. asked[v] \in Nat /\ crashes \in Nat /\ v \in Nat
          /\ asked[v] <= crashes + IF offset # None /\ v < First THEN 1 ELSE 0
      BY <1>4 DEF BridgeInv, LoopTypes, AskedInv
    <3>2. v < First => v < First'  BY <1>2, <1>3, <3>1
    <3>3. asked'[v] = asked[v] \/ (v = u /\ asked'[v] = asked[v] + 1)
      BY <2>1 DEF BridgeInv, AskedInv
    <3>4. u < First' /\ ~(u < First)  BY <1>2, <1>3
    <3> QED  BY <3>1, <3>2, <3>3, <3>4
  <2>3. asked' \in [Updates -> Nat]  BY <2>1 DEF BridgeInv, AskedInv
  <2> QED  BY <1>2, <1>4, <2>2, <2>3 DEF AskedInv
<1> QED  BY <1>5, <1>6, <1>7, <1>8 DEF BridgeInv

(* The coordinator's answer, or none in time. *)
LEMMA AnswersKeeps ==
  BridgeInv /\ Answers /\ step = "wait"
    /\ UNCHANGED <<load, confirmed, offset, batch, update, call, fate, asked, crashes>>
  => BridgeInv'
  BY DEF BridgeInv, LoopTypes, OffsetInv, FateInv, AskedInv, First, Updates, Answers

(* The update in hand has its fate. *)
LEMMA FinishKeeps ==
  ASSUME BridgeInv, NEW how \in {"answered", "cut"}, Finish(how), step = "send",
         UNCHANGED <<load, confirmed, offset, batch, update, asked, crashes>>
  PROVE  BridgeInv'
<1>1. First' = First /\ Updates' = Updates /\ step' = "poll"  BY DEF First, Updates, Finish
<1>2. LoopTypes' /\ OffsetInv' /\ AskedInv'
  BY <1>1 DEF BridgeInv, LoopTypes, OffsetInv, AskedInv, Finish
<1>3. FateInv'  BY <1>1 DEF BridgeInv, FateInv, Finish
<1> QED  BY <1>2, <1>3 DEF BridgeInv

LEMMA SendPartKeeps == BridgeInv /\ SendPart => BridgeInv'
<1> SUFFICES ASSUME BridgeInv, SendPart PROVE BridgeInv'  OBVIOUS
<1>1. CASE parts = 1  BY <1>1, FinishKeeps DEF SendPart
<1>2. CASE parts # 1
  BY <1>2 DEF SendPart, BridgeInv, LoopTypes, OffsetInv, FateInv, AskedInv, First, Updates
<1> QED  BY <1>1, <1>2

(* A restart forgets where the loop was, and may forward once more. *)
LEMMA CrashKeeps == BridgeInv /\ Crash => BridgeInv'
<1> SUFFICES ASSUME BridgeInv, Crash PROVE BridgeInv'  OBVIOUS
<1>1. /\ offset' = None /\ batch' = <<>> /\ step' = "poll" /\ crashes' = crashes + 1
      /\ UNCHANGED <<load, confirmed, fate, asked>>
  BY DEF Crash, Restarted
<1>2. First \in Nat /\ confirmed \in Nat /\ crashes \in Nat /\ confirmed < First
  BY DEF BridgeInv, LoopTypes, OffsetInv
<1>3. First' = confirmed + 1  BY <1>1 DEF First
<1>4. Updates' = Updates /\ Updates \subseteq Nat
  BY <1>1, UpdatesAreNumbers DEF Updates, BridgeInv, LoopTypes
<1>5. batch' \in Seq(Nat) /\ 1..Len(batch') = {}
  <2>1. <<>> \in Seq(Nat) /\ Len(<<>>) = 0  OBVIOUS
  <2> QED  BY <1>1, <2>1
<1>6. LoopTypes'  BY <1>1, <1>2, <1>3, <1>5 DEF BridgeInv, LoopTypes
<1>7. OffsetInv'  BY <1>1, <1>2, <1>3, <1>5 DEF OffsetInv
<1>8. FateInv'
  <2>1. ASSUME NEW u \in Updates, u < First' PROVE u <= confirmed
    BY <2>1, <1>2, <1>3, <1>4
  <2> QED  BY <1>1, <1>4, <2>1 DEF BridgeInv, FateInv
<1>9. AskedInv'
  <2>1. ASSUME NEW u \in Updates PROVE asked[u] <= crashes + 1
    <3>1. asked[u] \in Nat
          /\ asked[u] <= crashes + IF offset # None /\ u < First THEN 1 ELSE 0
      BY DEF BridgeInv, AskedInv
    <3> QED  BY <1>2, <3>1
  <2>2. asked' \in [Updates -> Nat]  BY <1>1 DEF BridgeInv, AskedInv
  <2>3. ASSUME NEW u \in Updates PROVE asked'[u] <= crashes' + 0
    <3>1. asked[u] \in Nat  BY DEF BridgeInv, AskedInv
    <3> QED  BY <1>1, <1>2, <2>1, <3>1
  <2> QED  BY <1>1, <1>4, <2>2, <2>3 DEF AskedInv
<1> QED  BY <1>6, <1>7, <1>8, <1>9 DEF BridgeInv

-----------------------------------------------------------------------------
LEMMA BridgeNextKeeps == BridgeInv /\ [BridgeNext]_vars => BridgeInv'
<1> SUFFICES ASSUME BridgeInv, [BridgeNext]_vars PROVE BridgeInv'  OBVIOUS
<1>1. CASE Poll  BY <1>1, PollKeeps
<1>2. CASE PollFails  BY <1>2, PollFailsKeeps
<1>3. CASE Ignore  BY <1>3, IgnoreKeeps
<1>4. CASE Help  BY <1>4, HelpKeeps
<1>5. CASE Forward  BY <1>5, ForwardKeeps
<1>6. CASE Answered \/ GivesUp  BY <1>6, AnswersKeeps DEF Answered, GivesUp
<1>7. CASE SendPart  BY <1>7, SendPartKeeps
<1>8. CASE SendFails  BY <1>8, FinishKeeps DEF SendFails
<1>9. CASE Crash  BY <1>9, CrashKeeps
<1>10. CASE CallsStep  BY <1>10, IdleKeeps DEF CallsStep
<1>11. CASE UNCHANGED vars  BY <1>11, IdleKeeps DEF vars
<1> QED
  BY <1>1, <1>2, <1>3, <1>4, <1>5, <1>6, <1>7, <1>8, <1>9, <1>10, <1>11 DEF BridgeNext, LoopStep

(* A step of the bridge is a step of Delegation, or none. *)
LEMMA BridgeDelegates == BridgeInv /\ [BridgeNext]_vars => [Next]_callVars
<1> SUFFICES ASSUME BridgeInv, [BridgeNext]_vars PROVE Next \/ UNCHANGED callVars  OBVIOUS
<1>1. BridgeCalls \subseteq Calls  BY BridgeAssumption
<1>2. CASE Poll \/ PollFails \/ Ignore \/ Help \/ Answered \/ SendPart \/ SendFails
  BY <1>2 DEF Poll, PollFails, Ignore, Help, Answered, SendPart, SendFails
<1>3. CASE Forward
  <2>1. PICK c \in BridgeCalls : Request(c)  BY <1>3 DEF Forward
  <2> QED  BY <1>1, <2>1 DEF Next
<1>4. CASE GivesUp
  <2>1. call \in BridgeCalls /\ CallerLeaves(call)  BY <1>4 DEF GivesUp, BridgeInv, LoopTypes
  <2> QED  BY <1>1, <2>1 DEF Next
<1>5. CASE Crash
  <2>1. CASE UNCHANGED callVars  BY <2>1
  <2>2. CASE step = "wait" /\ CallerLeaves(call)
    <3>1. call \in BridgeCalls  BY <2>2 DEF BridgeInv, LoopTypes
    <3> QED  BY <1>1, <2>2, <3>1 DEF Next
  <2> QED  BY <1>5, <2>1, <2>2 DEF Crash
<1>6. CASE CallsStep
  <2>1. \A c \in load.others : c \in Calls  BY BridgeAssumption DEF BridgeInv, LoopTypes
  <2> QED  BY <1>6, <2>1 DEF CallsStep, Next
<1>7. CASE UNCHANGED vars  BY <1>7 DEF vars
<1> QED  BY <1>2, <1>3, <1>4, <1>5, <1>6, <1>7 DEF BridgeNext, LoopStep

LEMMA InitDelegates == BridgeInit => Init
  BY DEF BridgeInit

LEMMA BridgeInvariant == BridgeSpec => []BridgeInv
  BY BridgeInitInv, BridgeNextKeeps, PTL DEF BridgeSpec

-----------------------------------------------------------------------------
(* The bridge with its coordinator implements Delegation: whatever the      *)
(* bridge does, its calls are calls (telegram.rs, coordinator_send_message).*)
THEOREM ImplementsDelegation == BridgeSpec => Spec
  BY InitDelegates, BridgeDelegates, BridgeInvariant, PTL DEF BridgeSpec, Spec

(* What Telegram has forgotten was handled to an end, and forwarded at most *)
(* once more per crash (telegram.rs, main).                                 *)
LEMMA InvHandled == BridgeInv => ConfirmedIsHandled
<1> SUFFICES ASSUME BridgeInv, NEW u \in Updates
             PROVE  (u <= confirmed => fate[u] # "none") /\ asked[u] <= crashes + 1
  BY DEF ConfirmedIsHandled
<1>1. u <= confirmed => fate[u] # "none"  BY DEF BridgeInv, FateInv
<1>2. /\ asked[u] \in Nat /\ crashes \in Nat
      /\ asked[u] <= crashes + IF offset # None /\ u < First THEN 1 ELSE 0
  BY DEF BridgeInv, LoopTypes, AskedInv
<1>3. asked[u] <= crashes + 1  BY <1>2
<1> QED  BY <1>1, <1>3

THEOREM ConfirmedAlwaysHandled == BridgeSpec => []ConfirmedIsHandled
  BY InvHandled, BridgeInvariant, PTL

(* The user of the bridge is told Ok only for a task that was completed     *)
(* (telegram.rs over orchestrator.rs).                                      *)
THEOREM BridgeOkIsCompleted == BridgeSpec => []OkIsCompleted
  BY ImplementsDelegation, OkAlwaysCompleted, PTL

=============================================================================
