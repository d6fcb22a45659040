----------------------------- MODULE Delegation -----------------------------
(***************************************************************************)
(* The coordinator: discovery of the agents at start, triage of a request  *)
(* by a model with a keyword fallback, and delegation over one HTTP        *)
(* request to the agent's A2A server, answered by one reply (message/send) *)
(* or by a stream of server-sent events (message/stream) that arrives in   *)
(* chunks cut anywhere.  The agent's server is what A2AServer shows of it  *)
(* to one connection.                                                      *)
(***************************************************************************)
EXTENDS Naturals, Sequences

CONSTANTS
  Calls,        \* requests to the coordinator
  Streaming,    \* those that arrive with message/stream
  Urls,         \* sequence of configured agent URLs
  Card,         \* the name on the card an URL serves
  Routes,       \* names of agents a decision can route to
  Words,        \* the sets of keyword groups that a request can contain
  None,         \* nothing
  MaxWire       \* bound: unread events after which an agent reports no progress

Direct == "direct"

ASSUME ConstantsAssumption ==
  /\ Streaming \subseteq Calls
  /\ Direct \notin Routes /\ None \notin Routes /\ None # Direct
  /\ None \notin {"text", "blank"}
  /\ Urls \in Seq(DOMAIN Card)
  /\ MaxWire \in Nat

VARIABLES
  tried,     \* number of URLs discovery is through with
  registry,  \* URL by agent name
  stage,     \* how far process() is with a call
  target,    \* the agent a call was decided for
  text,      \* result_text of delegate_streaming
  answer,    \* text of the coordinator's answer
  task,      \* the call's entry in the agent's task table
  result,    \* what the agent returned for it
  wire,      \* events sent and not yet parsed
  half       \* the first event on the wire is partly in the coordinator's buffer

callVars == <<tried, registry, stage, target, text, answer, task, result, wire, half>>
coordVars == <<tried, registry, stage, target, text, answer>>
agentVars == <<task, result, wire, half>>

Stages == {"none", "triage", "delegating", "streaming", "ok", "err", "dropped"}
Texts == {"", "text", "blank", "garbled", "placeholder", "clarify"}
Events == {"working", "progress", "text", "blank", "completed", "failed", "error"}

Init ==
  /\ tried = 0
  /\ registry = [a \in Routes |-> None]
  /\ stage = [c \in Calls |-> "none"]
  /\ target = [c \in Calls |-> None]
  /\ text = [c \in Calls |-> ""]
  /\ answer = [c \in Calls |-> ""]
  /\ task = [c \in Calls |-> "none"]
  /\ result = [c \in Calls |-> None]
  /\ wire = [c \in Calls |-> <<>>]
  /\ half = [c \in Calls |-> FALSE]

-----------------------------------------------------------------------------
(* Discovery: once, before the coordinator serves; an agent that does not   *)
(* answer then stays unknown, a later card with the same name wins.         *)

Discover ==
  /\ tried < Len(Urls)
  /\ tried' = tried + 1
  /\ LET u == Urls[tried + 1] IN
       \/ registry' = [a \in Routes |-> IF a = Card[u] THEN u ELSE registry[a]]
       \/ UNCHANGED registry
  /\ UNCHANGED <<stage, target, text, answer, agentVars>>

(* The server is started when discovery is through. *)
Serving == tried = Len(Urls)

Request(c) ==
  /\ Serving
  /\ stage[c] = "none"
  /\ stage' = [stage EXCEPT ![c] = "triage"]
  /\ UNCHANGED <<tried, registry, target, text, answer, agentVars>>

-----------------------------------------------------------------------------
(* Triage *)

(* The route in the first JSON object of the model's reply: one that is     *)
(* missing or not on the list means direct.                                 *)
ModelRoute(r) == IF r \in Routes THEN r ELSE Direct

(* The keyword groups in the order they are tried: compound patterns first. *)
Precedence == <<"code review", "write test", "research", "review", "test", "code",
                "write", "plan">>
RouteOf == [g \in {Precedence[i] : i \in DOMAIN Precedence} |->
  CASE g \in {"code review", "review"} -> "review"
    [] g \in {"write test", "test"}    -> "testing"
    [] g = "research"                  -> "research"
    [] g = "code"                      -> "coding"
    [] g = "write"                     -> "writing"
    [] g = "plan"                      -> "planning"]

KeywordRoute(groups) ==
  LET hits == {i \in DOMAIN Precedence : Precedence[i] \in groups}
  IN  IF hits = {} THEN Direct
      ELSE RouteOf[Precedence[CHOOSE i \in hits : \A j \in hits : i <= j]]

(* process() after the decision: answer at once, refuse, or send the        *)
(* instruction; nothing is awaited in between.                              *)
Decide(c, d) ==
  /\ target' = [target EXCEPT ![c] = d]
  /\ \/ /\ d = Direct
        /\ stage' = [stage EXCEPT ![c] = "ok"]
        /\ answer' = [answer EXCEPT ![c] = "clarify"]
     \/ /\ d \in Routes
        /\ registry[d] = None
        /\ stage' = [stage EXCEPT ![c] = "err"]
        /\ UNCHANGED answer
     \/ /\ d \in Routes
        /\ registry[d] # None
        /\ stage' = [stage EXCEPT ![c] = "delegating"]
        /\ UNCHANGED answer
  /\ UNCHANGED <<tried, registry, text, agentVars>>

(* The model answered with a JSON object. *)
TriageByModel(c) ==
  /\ stage[c] = "triage"
  /\ \E r \in Routes \cup {None} : Decide(c, ModelRoute(r))

(* The call failed or its answer did not parse. *)
TriageByKeywords(c) ==
  /\ stage[c] = "triage"
  /\ \E groups \in Words : Decide(c, KeywordRoute(groups))

(* An input that is too long fails both ways. *)
TriageRefuses(c) ==
  /\ stage[c] = "triage"
  /\ stage' = [stage EXCEPT ![c] = "err"]
  /\ UNCHANGED <<tried, registry, target, text, answer, agentVars>>

-----------------------------------------------------------------------------
(* The agent's server *)

Connected(c) == stage[c] \in {"delegating", "streaming"}

(* What is sent after the coordinator gave up reaches nobody. *)
Sends(c, evs) ==
  wire' = IF Connected(c) THEN [wire EXCEPT ![c] = @ \o evs] ELSE wire

(* The request is admitted.  A stream starts with a working status. *)
AgentAdmits(c) ==
  /\ stage[c] = "delegating" /\ task[c] = "none"
  /\ task' = [task EXCEPT ![c] = "working"]
  /\ IF c \in Streaming
     THEN stage' = [stage EXCEPT ![c] = "streaming"] /\ Sends(c, <<"working">>)
     ELSE UNCHANGED <<stage, wire>>
  /\ UNCHANGED <<tried, registry, target, text, answer, result, half>>

(* Overloaded, colliding or malformed: one error event, or a JSON-RPC error. *)
AgentRefuses(c) ==
  /\ stage[c] = "delegating" /\ task[c] = "none"
  /\ task' = [task EXCEPT ![c] = "refused"]
  /\ stage' = IF c \in Streaming THEN [stage EXCEPT ![c] = "streaming"] ELSE stage
  /\ Sends(c, <<"error">>)
  /\ UNCHANGED <<tried, registry, target, text, answer, result, half>>

AgentProgress(c) ==
  /\ task[c] = "working" /\ c \in Streaming /\ result[c] = None /\ Len(wire[c]) < MaxWire
  /\ Sends(c, <<"progress">>)
  /\ UNCHANGED <<coordVars, task, result, half>>

(* The agent succeeded: a stream sends the artifact, then stores and        *)
(* reports the completion; a reply carries both.                            *)
AgentReturns(c) ==
  /\ task[c] = "working" /\ result[c] = None
  /\ \E r \in {"text", "blank"} :
       /\ result' = [result EXCEPT ![c] = r]
       /\ Sends(c, <<r>>)
  /\ task' = IF c \in Streaming THEN task ELSE [task EXCEPT ![c] = "completed"]
  /\ UNCHANGED <<coordVars, half>>

StreamCompletes(c) ==
  /\ task[c] = "working" /\ c \in Streaming /\ result[c] # None
  /\ task' = [task EXCEPT ![c] = "completed"]
  /\ Sends(c, <<"completed">>)
  /\ UNCHANGED <<coordVars, result, half>>

(* Deviation: a failed task ends without an event. *)
AgentFails_silent(c) ==
  /\ task[c] = "working" /\ result[c] = None
  /\ task' = [task EXCEPT ![c] = "failed"]
  /\ UNCHANGED <<coordVars, result, wire, half>>

(* The agent returned an error, or its run panicked. *)
AgentFails(c) ==
  /\ task[c] = "working" /\ result[c] = None
  /\ task' = [task EXCEPT ![c] = "failed"]
  /\ Sends(c, <<"failed">>)
  /\ UNCHANGED <<coordVars, result, half>>

(* The connection is gone: the handler or the stream is dropped and the     *)
(* entry keeps reading working.                                             *)
AgentDropped(c) ==
  /\ task[c] = "working"
  /\ ~Connected(c)
  /\ task' = [task EXCEPT ![c] = "abandoned"]
  /\ UNCHANGED <<coordVars, result, wire, half>>

-----------------------------------------------------------------------------
(* Delegation *)

(* delegate(): an error object is an error, otherwise the text of the first *)
(* artifact is the answer.                                                  *)
ReadReply(c) ==
  /\ stage[c] = "delegating" /\ c \notin Streaming /\ wire[c] # <<>>
  /\ LET reply == Head(wire[c]) IN
       IF reply \in {"error", "failed"}
       THEN stage' = [stage EXCEPT ![c] = "err"] /\ UNCHANGED answer
       ELSE /\ stage' = [stage EXCEPT ![c] = "ok"]
            /\ answer' = [answer EXCEPT ![c] = reply]
  /\ wire' = [wire EXCEPT ![c] = <<>>]
  /\ UNCHANGED <<tried, registry, target, text, task, result, half>>

(* What the loop of delegate_streaming does with one parsed event, garbled  *)
(* when a character of it was cut by a chunk boundary: each chunk is turned *)
(* into text on its own.                                                    *)
Artifact(ev, garbled) == IF ev = "text" /\ garbled THEN "garbled" ELSE ev

(* Deviation: any final status ends the loop with success. *)
ParseEvent_final(c, ev, garbled) ==
  /\ wire' = [wire EXCEPT ![c] = Tail(@)]
  /\ half' = [half EXCEPT ![c] = FALSE]
  /\ \/ /\ ev \in {"working", "progress"}
        /\ UNCHANGED <<stage, text, answer>>
     \/ /\ ev \in {"text", "blank"}
        /\ text' = [text EXCEPT ![c] = IF ev = "blank" THEN @ ELSE Artifact(ev, garbled)]
        /\ UNCHANGED <<stage, answer>>
     \/ /\ ev \in {"completed", "failed", "error"}
        /\ stage' = [stage EXCEPT ![c] = "ok"]
        /\ answer' = [answer EXCEPT ![c] = IF text[c] = "" THEN "placeholder" ELSE text[c]]
        /\ UNCHANGED text

ParseEvent(c, ev, garbled) ==
  /\ wire' = [wire EXCEPT ![c] = Tail(@)]
  /\ half' = [half EXCEPT ![c] = FALSE]
  /\ \/ /\ ev \in {"working", "progress"}
        /\ UNCHANGED <<stage, text, answer>>
     \/ /\ ev \in {"text", "blank"}
        /\ text' = [text EXCEPT ![c] = IF ev = "blank" THEN @ ELSE Artifact(ev, garbled)]
        /\ UNCHANGED <<stage, answer>>
     \/ /\ ev = "completed"
        /\ stage' = [stage EXCEPT ![c] = "ok"]
        /\ answer' = [answer EXCEPT ![c] = IF text[c] = "" THEN "placeholder" ELSE text[c]]
        /\ UNCHANGED text
     \/ /\ ev \in {"failed", "error"}
        /\ stage' = [stage EXCEPT ![c] = "err"]
        /\ UNCHANGED <<text, answer>>

(* A chunk ends inside the event: it stays in the buffer. *)
ReadHalf(c) ==
  /\ stage[c] = "streaming" /\ wire[c] # <<>> /\ ~half[c]
  /\ half' = [half EXCEPT ![c] = TRUE]
  /\ UNCHANGED <<coordVars, task, result, wire>>

(* A chunk brings (the rest of) an event.  A chunk of several events is     *)
(* several of these steps.                                                  *)
ReadEvent(c) ==
  /\ stage[c] = "streaming" /\ wire[c] # <<>>
  /\ \E garbled \in IF half[c] THEN BOOLEAN ELSE {FALSE} :
       ParseEvent(c, Head(wire[c]), garbled)
  /\ UNCHANGED <<tried, registry, target, task, result>>

(* The stream has ended and no event said how: the loop would end and the   *)
(* answer be Ok.  Not a step, since EndIsTold shows that it never happens.  *)
EndsUntold(c) ==
  /\ stage[c] = "streaming" /\ wire[c] = <<>>
  /\ task[c] \in {"completed", "failed", "refused"}

(* The agent is unreachable, the connection breaks, the HTTP status or the  *)
(* body is wrong, or delegate_timeout passes.                               *)
DelegateFails(c) ==
  /\ Connected(c)
  /\ stage' = [stage EXCEPT ![c] = "err"]
  /\ wire' = [wire EXCEPT ![c] = <<>>]
  /\ UNCHANGED <<tried, registry, target, text, answer, task, result, half>>

(* The caller of message/send disconnects: the future of process() is       *)
(* dropped.  That of message/stream runs in a task of its own.              *)
CallerLeaves(c) ==
  /\ c \notin Streaming
  /\ stage[c] \in {"triage", "delegating"}
  /\ stage' = [stage EXCEPT ![c] = "dropped"]
  /\ wire' = [wire EXCEPT ![c] = <<>>]
  /\ UNCHANGED <<tried, registry, target, text, answer, task, result, half>>

-----------------------------------------------------------------------------
CallStep(c) ==
  \/ TriageByModel(c) \/ TriageByKeywords(c) \/ TriageRefuses(c)
  \/ ReadReply(c) \/ ReadHalf(c) \/ ReadEvent(c) \/ DelegateFails(c)

AgentStep(c) ==
  \/ AgentAdmits(c) \/ AgentRefuses(c) \/ AgentProgress(c) \/ AgentReturns(c)
  \/ StreamCompletes(c) \/ AgentFails(c) \/ AgentDropped(c)

Next ==
  \/ Discover
  \/ \E c \in Calls : Request(c) \/ CallStep(c) \/ AgentStep(c) \/ CallerLeaves(c)

Spec == Init /\ [][Next]_callVars

-----------------------------------------------------------------------------
(* Type invariant. *)
TypeOK ==
  /\ tried \in 0..Len(Urls)
  /\ registry \in [Routes -> {Urls[i] : i \in DOMAIN Urls} \cup {None}]
  /\ stage \in [Calls -> Stages]
  /\ target \in [Calls -> Routes \cup {Direct, None}]
  /\ text \in [Calls -> Texts]
  /\ answer \in [Calls -> Texts]
  /\ task \in [Calls -> {"none", "working", "refused", "completed", "failed", "abandoned"}]
  /\ result \in [Calls -> {"text", "blank", None}]
  /\ wire \in [Calls -> Seq(Events)]
  /\ half \in [Calls -> BOOLEAN]

(* A caller is told Ok only for a task its agent completed, with the text   *)
(* of its artifact (the placeholder for an empty one), whatever was cut,    *)
(* refused, failed or timed out on the way.                                 *)
OkIsCompleted ==
  \A c \in Calls :
    stage[c] = "ok" /\ target[c] # Direct =>
      /\ task[c] = "completed"
      /\ answer[c] \in {"text", "garbled"} => result[c] = "text"
      /\ answer[c] \in {"blank", "placeholder"} => result[c] = "blank"
      /\ answer[c] \notin {"", "clarify"}

(* delegate_streaming takes the end of a stream for success: it never gets  *)
(* there, since the agent's server ends no stream before the coordinator    *)
(* can read how the task ended.                                             *)
EndIsTold == \A c \in Calls : ~EndsUntold(c)

=============================================================================
