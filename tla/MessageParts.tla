---------------------------- MODULE MessageParts ----------------------------
(***************************************************************************)
(* split_message_for_telegram(): the loop that cuts an answer into         *)
(* messages.  It counts characters for the limits and cuts at byte         *)
(* positions; the branch that finds a line end too early and no space cuts *)
(* one byte after the hard limit, which is inside the character there when *)
(* that has more than one byte, and panics.                                *)
(***************************************************************************)
EXTENDS Naturals, SequencesExt

CONSTANTS
  MaxLength,  \* TELEGRAM_MAX_MESSAGE_LENGTH
  Overhead    \* TELEGRAM_CHUNK_OVERHEAD

ASSUME PartsAssumption == MaxLength \in Nat /\ Overhead \in 1..(MaxLength - 1)

Chars == {"x", "wide", "space", "nl"}  \* wide: more than one byte

(* Deviation: the limit is used up. *)
ChunkLimit_full == MaxLength

ChunkLimit == MaxLength - Overhead

VARIABLES
  message,    \* the answer
  remaining,  \* what is still to cut
  chunks,     \* messages cut
  cutting     \* "yes", "done" or "panicked"

partsVars == <<message, remaining, chunks, cutting>>

PartsInit(m) ==
  /\ message = m /\ remaining = m /\ chunks = <<>> /\ cutting = "yes"

-----------------------------------------------------------------------------
(* rfind(): characters up to and with the last c before the hard limit. *)
Upto(c) ==
  LET at == {i \in 1..ChunkLimit : remaining[i] = c}
  IN  IF at = {} THEN 0 ELSE CHOOSE i \in at : \A j \in at : j <= i

LateLine == Upto("nl") - 1 >= ChunkLimit \div 2

ChunkEnd ==
  IF Upto("nl") > 0 /\ LateLine THEN Upto("nl")
  ELSE IF Upto("space") > 0 THEN Upto("space")
  ELSE IF Upto("nl") > 0 THEN ChunkLimit + 1
  ELSE ChunkLimit

LastPart ==
  /\ cutting = "yes" /\ Len(remaining) <= MaxLength
  /\ chunks' = Append(chunks, remaining)
  /\ remaining' = <<>> /\ cutting' = "done"
  /\ UNCHANGED message

InsideChar == ChunkEnd > ChunkLimit /\ remaining[ChunkEnd] = "wide"

Cut ==
  /\ cutting = "yes" /\ Len(remaining) > MaxLength
  /\ ~InsideChar
  /\ chunks' = Append(chunks, SubSeq(remaining, 1, ChunkEnd))
  /\ remaining' = SubSeq(remaining, ChunkEnd + 1, Len(remaining))
  /\ UNCHANGED <<message, cutting>>

Panic ==
  /\ cutting = "yes" /\ Len(remaining) > MaxLength
  /\ InsideChar
  /\ cutting' = "panicked"
  /\ UNCHANGED <<message, remaining, chunks>>

PartsNext == LastPart \/ Cut \/ Panic

-----------------------------------------------------------------------------
(* The messages are the answer, in order, without loss or repetition, and   *)
(* none is longer than Telegram takes, at every combination of line ends,   *)
(* spaces and hard cuts around the limits.  An answer that cannot be cut    *)
(* has a line end in the first half of a part, no space in the part and a   *)
(* character of several bytes behind it.                                    *)
PartsKeepAll ==
  /\ FlattenSeq(chunks) \o remaining = message
  /\ \A i \in DOMAIN chunks : Len(chunks[i]) <= MaxLength
  /\ cutting = "panicked" =>
       /\ \E i \in 1..(ChunkLimit \div 2) : remaining[i] = "nl"
       /\ \A i \in 1..ChunkLimit : remaining[i] # "space"
       /\ remaining[ChunkLimit + 1] = "wide"

=============================================================================
