--------------------------- MODULE TelegramBridge ---------------------------
(***************************************************************************)
(* The Telegram bridge over the coordinator: one loop that polls Telegram  *)
(* for updates, handles a batch one update after the other, and keeps the  *)
(* offset of the next update in memory only.  Telegram forgets the updates *)
(* below the offset of a poll.  The bridge may crash at any step (among    *)
(* them the panic of split_message_for_telegram) and is started again.     *)
(***************************************************************************)
EXTENDS Delegation, FiniteSets

CONSTANTS
  BridgeCalls,  \* the calls the bridge makes, not streaming
  Loads,        \* what happens in an instance: the updates users send, by kind,
                \* and the calls that other clients make
  MaxParts,     \* bound: messages an answer is split into
  MaxCrash      \* bound: crashes of the bridge

Kinds == {"text", "help", "ignored"}

ASSUME BridgeAssumption ==
  /\ BridgeCalls \subseteq Calls \ Streaming
  /\ Loads \subseteq [updates : Seq(Kinds), others : SUBSET (Calls \ BridgeCalls)]
  /\ MaxParts \in Nat \ {0} /\ MaxCrash \in Nat
  /\ None \notin Nat

VARIABLES
  load,       \* the one that happens
  confirmed,  \* updates Telegram has forgotten: 1..confirmed
  offset,     \* of the next poll, None after a start
  batch,      \* updates still to handle
  step,       \* where the loop is: "poll", "wait" for the coordinator, "send"
  update,     \* the update being handled
  call,       \* the coordinator call made for it
  parts,      \* messages of the answer still to send
  fate,       \* by update: how it was handled last
  asked,      \* by update: how often it was forwarded
  crashes

loopVars == <<offset, batch, step, update, call, parts>>
bridgeVars == <<load, confirmed, loopVars, fate, asked, crashes>>
vars == <<callVars, bridgeVars>>

Updates == DOMAIN load.updates
Kind(u) == load.updates[u]

BridgeInit ==
  /\ Init
  /\ load \in Loads
  /\ confirmed = 0
  /\ offset = None /\ batch = <<>> /\ step = "poll"
  /\ update = None /\ call = None /\ parts = 0
  /\ fate = [u \in Updates |-> "none"]
  /\ asked = [u \in Updates |-> 0]
  /\ crashes = 0

-----------------------------------------------------------------------------
(* Deviation: a poll confirms all that Telegram has. *)
Confirms_eager == IF offset = None THEN confirmed ELSE Len(load.updates)

(* A poll with an offset confirms what is below it; Telegram answers with   *)
(* some first part of what it keeps.                                        *)
Confirms == IF offset = None THEN confirmed ELSE offset - 1

Poll ==
  /\ step = "poll" /\ batch = <<>>
  /\ confirmed' = Confirms
  /\ \E last \in Confirms..Len(load.updates) :
       batch' = [i \in 1..(last - Confirms) |-> Confirms + i]
  /\ UNCHANGED <<callVars, load, offset, step, update, call, parts, fate, asked, crashes>>

(* Telegram got the request and the bridge not the answer. *)
PollFails ==
  /\ step = "poll" /\ batch = <<>>
  /\ confirmed' = Confirms
  /\ UNCHANGED <<callVars, load, loopVars, fate, asked, crashes>>

(* The offset moves on before the update is handled. *)
Take(u) ==
  /\ step = "poll" /\ batch # <<>> /\ u = Head(batch)
  /\ batch' = Tail(batch)
  /\ offset' = u + 1
  /\ update' = u

(* No message, another chat, a bot, no text, a blank text. *)
Ignore ==
  /\ \E u \in Updates :
       /\ Take(u) /\ Kind(u) = "ignored"
       /\ fate' = [fate EXCEPT ![u] = "ignored"]
  /\ UNCHANGED <<callVars, load, confirmed, step, call, parts, asked, crashes>>

Help ==
  /\ \E u \in Updates : Take(u) /\ Kind(u) = "help"
  /\ step' = "send" /\ parts' = 1
  /\ UNCHANGED <<callVars, load, confirmed, call, fate, asked, crashes>>

Forward ==
  /\ \E u \in Updates, c \in BridgeCalls :
       /\ Take(u) /\ Kind(u) = "text"
       /\ Request(c)
       /\ call' = c
       /\ asked' = [asked EXCEPT ![u] = @ + 1]
  /\ step' = "wait"
  /\ UNCHANGED <<load, confirmed, parts, fate, crashes>>

Answers == step' = "send" /\ parts' \in 1..MaxParts

(* The coordinator answered, with a text or an error, which is an answer    *)
(* too.                                                                     *)
Answered ==
  /\ step = "wait" /\ stage[call] \in {"ok", "err"}
  /\ Answers
  /\ UNCHANGED <<callVars, load, confirmed, offset, batch, update, call, fate, asked, crashes>>

(* Deviation: the bridge waits until the coordinator answers. *)
GivesUp_never == FALSE

(* The time for the coordinator is over: the connection is closed. *)
GivesUp ==
  /\ step = "wait" /\ CallerLeaves(call)
  /\ Answers
  /\ UNCHANGED <<load, confirmed, offset, batch, update, call, fate, asked, crashes>>

Finish(how) ==
  /\ step' = "poll" /\ parts' = 0 /\ call' = None
  /\ fate' = [fate EXCEPT ![update] = how]

SendPart ==
  /\ step = "send"
  /\ IF parts = 1
     THEN Finish("answered")
     ELSE parts' = parts - 1 /\ UNCHANGED <<step, call, fate>>
  /\ UNCHANGED <<callVars, load, confirmed, offset, batch, update, asked, crashes>>

(* A part that fails takes the rest of the answer with it. *)
SendFails ==
  /\ step = "send"
  /\ Finish("cut")
  /\ UNCHANGED <<callVars, load, confirmed, offset, batch, update, asked, crashes>>

Restarted ==
  /\ offset' = None /\ batch' = <<>> /\ step' = "poll"
  /\ update' = None /\ call' = None /\ parts' = 0

Crash ==
  /\ crashes < MaxCrash
  /\ crashes' = crashes + 1
  /\ Restarted
  /\ IF step = "wait" /\ stage[call] \in {"triage", "delegating"}
     THEN CallerLeaves(call)
     ELSE UNCHANGED callVars
  /\ UNCHANGED <<load, confirmed, fate, asked>>

-----------------------------------------------------------------------------
LoopStep == Poll \/ Ignore \/ Help \/ Forward \/ Answered \/ GivesUp \/ SendPart

(* The coordinator's other callers and the two sides of its calls. *)
CallsStep ==
  /\ \/ Discover
     \/ \E c \in Calls : CallStep(c) \/ AgentStep(c)
     \/ \E c \in load.others : Request(c) \/ CallerLeaves(c)
  /\ UNCHANGED bridgeVars

BridgeNext == LoopStep \/ PollFails \/ SendFails \/ Crash \/ CallsStep

Fairness ==
  /\ WF_vars(LoopStep)
  /\ WF_vars(Discover /\ UNCHANGED bridgeVars)

BridgeSpec == BridgeInit /\ [][BridgeNext]_vars /\ Fairness

-----------------------------------------------------------------------------
(* An update that Telegram has forgotten was handled to an end: it was      *)
(* answered, its answer was cut by a failed send, or it was one to ignore;  *)
(* and none is forwarded again unless the bridge crashed in between.  The   *)
(* offset moves before the handling, so this rests on the order of polls,   *)
(* and on the offset being lost with the rest in a crash.                   *)
ConfirmedIsHandled ==
  \A u \in Updates :
    /\ u <= confirmed => fate[u] # "none"
    /\ asked[u] <= crashes + 1

(* Every update is handled and confirmed at last, whatever the coordinator, *)
(* the agents and a bounded number of crashes do.                           *)
AllConfirmed == <>[](confirmed = Len(load.updates))

=============================================================================
