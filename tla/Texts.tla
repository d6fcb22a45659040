-------------------------------- MODULE Texts --------------------------------
(***************************************************************************)
(* The text algorithms with the writers of their inputs: answers of any    *)
(* characters for the messages to Telegram, chunks of any size for the     *)
(* output buffer, replies with a JSON object in them for triage, and what  *)
(* the agents report on.                                                   *)
(***************************************************************************)
EXTENDS MessageParts, OutputBuffer, ReplyObject, ReportInputs

CONSTANTS
  MaxMessage,  \* bound: characters of an answer
  MaxChunk, MaxBytes,  \* bounds: bytes of a chunk, and in all
  MaxReply     \* bound: characters of a reply

ASSUME TextsAssumption == MaxChunk \in Nat /\ MaxMessage \in Nat

Subjects == {"message", "buffer", "reply", "tests", "review", "plan", "research"}

VARIABLES
  subject,  \* the algorithm an instance is about
  reply,    \* a model's reply, as far as it is written
  object,   \* where the object in it starts
  closed,   \* and where it ends
  opened,   \* its open braces; 0 before and after it
  quoted    \* a string of it is open

replyVars == <<reply, object, closed, opened, quoted>>
vars == <<partsVars, bufferVars, replyVars, reportVars, subject>>

Init ==
  /\ subject \in Subjects
  /\ \E n \in IF subject = "message" THEN 0..MaxMessage ELSE {0} :
       \E m \in [1..n -> Chars] : PartsInit(m)
  /\ BufferInit
  /\ reply = <<>> /\ object = 0 /\ closed = 0 /\ opened = 0 /\ quoted = FALSE
  /\ ReportInit

Messages ==
  /\ subject = "message" /\ PartsNext
  /\ UNCHANGED <<bufferVars, replyVars, reportVars, subject>>

Output ==
  /\ subject = "buffer"
  /\ \/ \E n \in 1..MaxChunk : appended + n <= MaxBytes /\ AppendBytes(n)
     \/ Clear
  /\ UNCHANGED <<partsVars, replyVars, reportVars, subject>>

-----------------------------------------------------------------------------
(* A reply: text without an opening brace, an object, any text. *)
Writes(chars) == reply' = reply \o chars

Around ==
  /\ \/ object = 0 /\ \E c \in {"x", "quote", "escape", "close"} : Writes(<<c>>)
     \/ closed > 0 /\ \E c \in {"quote", "escape", "open", "close"} : Writes(<<c>>)
  /\ UNCHANGED <<object, closed, opened, quoted>>

Open ==
  /\ closed = 0 /\ ~quoted
  /\ Writes(<<"open">>)
  /\ object' = IF object = 0 THEN Len(reply) + 1 ELSE object
  /\ opened' = opened + 1
  /\ UNCHANGED <<closed, quoted>>

Inside ==
  /\ opened > 0
  /\ \/ ~quoted /\ Writes(<<"x">>) /\ UNCHANGED <<closed, quoted, opened>>
     \/ /\ ~quoted /\ Writes(<<"close">>)
        /\ opened' = opened - 1
        /\ closed' = IF opened = 1 THEN Len(reply) + 1 ELSE 0
        /\ UNCHANGED quoted
     \/ quoted /\ UNCHANGED <<closed, quoted, opened>>
          /\ \E c \in {<<"x">>, <<"open">>, <<"close">>,
                      <<"escape", "quote">>, <<"escape", "escape">>} : Writes(c)
     \/ Writes(<<"quote">>) /\ quoted' = ~quoted /\ UNCHANGED <<closed, opened>>
  /\ UNCHANGED object

Replies ==
  /\ subject = "reply" /\ Len(reply) < MaxReply
  /\ Around \/ Open \/ Inside
  /\ UNCHANGED <<partsVars, bufferVars, reportVars, subject>>

Reports ==
  /\ \/ subject = "tests" /\ RunTests
     \/ subject = "review" /\ RunCheck
     \/ subject = "plan" /\ Describe
     \/ subject = "research" /\ Investigate
  /\ UNCHANGED <<partsVars, bufferVars, replyVars, subject>>

Next == Messages \/ Output \/ Replies \/ Reports

Spec == Init /\ [][Next]_vars

-----------------------------------------------------------------------------
(* The object is found in a reply with any text before it (without a brace) *)
(* and in it: braces and escaped quotes in strings do not end it, and an    *)
(* object that is not closed is none.                                       *)
ObjectFound ==
  subject = "reply" =>
    ExtractJsonObject(reply) =
      IF closed > 0 THEN SubSeq(reply, object, closed) ELSE <<>>

(* The reports of the agents say what was printed: the tests reported as    *)
(* failed, the findings of the checks together with the lines of cargo's    *)
(* own that read like findings, all the tasks, and whether the memory or    *)
(* the search had anything.                                                 *)
ReportsAreRight ==
  TestReportIsRight /\ ReviewReportIsRight /\ PlanIsWhole /\ SynthesisIsRight

=============================================================================
