------------------------------ MODULE LlmClient ------------------------------
(***************************************************************************)
(* The client of the language model that a process shares: complete()      *)
(* takes a permit and holds it over every attempt and every sleep between  *)
(* attempts.  An attempt is one HTTP request without a time limit.  Which  *)
(* failures are tried again is decided on the text of the error message.   *)
(***************************************************************************)
EXTENDS Naturals, FiniteSets, Sequences

CONSTANTS
  Callers,     \* who may call complete(), once at a time
  Permits,     \* max_concurrent_requests
  MaxRetries,  \* max_retries
  Bodies       \* bodies of responses that parse

Contents == {"", "blank", "text", "foreign"}  \* foreign: without a character of ASCII
Body == [array : BOOLEAN, chunks : SUBSET Contents, others : Seq(Contents)]
Statuses == {"none", "404", "429", "501", "503"}

ASSUME LlmAssumption ==
  /\ Permits \in Nat \ {0} /\ MaxRetries \in Nat
  /\ IsFiniteSet(Callers)
  /\ \A b \in Bodies : b \in [array : BOOLEAN, chunks : SUBSET Contents, others : Seq(Contents)]

VARIABLES
  permits,  \* of the semaphore
  call      \* by caller: where complete() is, at which attempt, with what result

llmVars == <<permits, call>>

NoCall == [at |-> "idle", attempt |-> 0, content |-> ""]
Holding == {c \in Callers : call[c].at \in {"sent", "hung", "asleep"}}

LlmInit ==
  /\ permits = Permits
  /\ call = [c \in Callers |-> NoCall]

-----------------------------------------------------------------------------
(* The text of an answer *)

Blank(s) == s \in {"", "blank"}

(* What several texts make when they are put together. *)
Joined(texts) ==
  IF "text" \in texts THEN "text"
  ELSE IF "foreign" \in texts THEN "foreign"
  ELSE IF "blank" \in texts THEN "blank" ELSE ""

(* OpenAI: content is a string, or an array whose blank items are left out; *)
(* when it is blank the first other field (reasoning, thinking, ...) with a *)
(* text is taken.                                                           *)
ContentFromValue(b) == Joined(IF b.array THEN b.chunks \ {"blank"} ELSE b.chunks)

ResolveMessageContent(b) ==
  LET filled == {i \in DOMAIN b.others : ~Blank(b.others[i])}
  IN  IF ~Blank(ContentFromValue(b)) THEN ContentFromValue(b)
      ELSE IF filled = {} THEN ""
           ELSE b.others[CHOOSE i \in filled : \A j \in filled : i <= j]

(* Anthropic: every part, blank ones too. *)
ContentOf(provider, b) ==
  IF provider = "openai" THEN ResolveMessageContent(b) ELSE Joined(b.chunks)

(* Only the OpenAI client takes a blank answer for an error. *)
Accepted(provider, b) == provider = "openai" => ~Blank(ContentOf(provider, b))

(* is_retryable(): the message holds one of the numbers or phrases, as the  *)
(* status of the response or anywhere else in its text.                     *)
IsRetryable(status, says) == status \in {"429", "503"} \/ says

-----------------------------------------------------------------------------
Goes(c, at) == call' = [call EXCEPT ![c].at = at]

Acquire(c) ==
  /\ call[c].at = "idle" /\ permits > 0
  /\ permits' = permits - 1
  /\ Goes(c, "sent")

(* complete() returns and drops its permit. *)
Ends(c, at, content) ==
  /\ permits' = permits + 1
  /\ call' = [call EXCEPT ![c].at = at, ![c].content = content]

Succeeds(c, provider) ==
  /\ call[c].at = "sent"
  /\ \E b \in Bodies :
       Accepted(provider, b) /\ Ends(c, "ok", ContentOf(provider, b))

(* Deviation: one retry more than configured. *)
Fails_more(c) ==
  /\ call[c].at = "sent"
  /\ \E status \in Statuses, says \in BOOLEAN :
       IF call[c].attempt > MaxRetries \/ ~IsRetryable(status, says)
       THEN Ends(c, "err", "")
       ELSE Goes(c, "asleep") /\ UNCHANGED permits

(* No connection, an error status, a body that does not parse, no choices,  *)
(* no content.                                                              *)
Fails(c) ==
  /\ call[c].at = "sent"
  /\ \E status \in Statuses, says \in BOOLEAN :
       IF call[c].attempt = MaxRetries \/ ~IsRetryable(status, says)
       THEN Ends(c, "err", "")
       ELSE Goes(c, "asleep") /\ UNCHANGED permits

(* Deviation: the attempts are not counted. *)
Wakes_uncounted(c) ==
  /\ call[c].at = "asleep"
  /\ Goes(c, "sent")
  /\ UNCHANGED permits

(* The sleep is over, however long a retry-after made it. *)
Wakes(c) ==
  /\ call[c].at = "asleep"
  /\ call' = [call EXCEPT ![c].at = "sent", ![c].attempt = @ + 1]
  /\ UNCHANGED permits

(* The model's server accepts the request and never answers. *)
Hangs(c) ==
  /\ call[c].at = "sent"
  /\ Goes(c, "hung")
  /\ UNCHANGED permits

(* Deviation: the permit is not given back when the future is dropped. *)
Forget_keeps(c) ==
  /\ call' = [call EXCEPT ![c] = NoCall]
  /\ UNCHANGED permits

(* The caller reads the result, or its future is dropped. *)
Forget(c) ==
  /\ call' = [call EXCEPT ![c] = NoCall]
  /\ permits' = IF c \in Holding THEN permits + 1 ELSE permits

-----------------------------------------------------------------------------
(* Every permit is free or held by one call: none is lost over retries,     *)
(* sleeps, errors and dropped futures.                                      *)
PermitsConserved == permits + Cardinality(Holding) = Permits

=============================================================================
