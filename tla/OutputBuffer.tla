---------------------------- MODULE OutputBuffer ----------------------------
(***************************************************************************)
(* BoundedOutputBuffer: the output of a terminal session, a queue of       *)
(* chunks whose oldest are evicted to keep the total under a limit.  Bytes *)
(* are numbered in the order of their arrival since the last clear: a      *)
(* chunk is the bytes from+1 .. to.                                        *)
(***************************************************************************)
EXTENDS Naturals, Sequences

CONSTANT MaxSize  \* max_size

ASSUME BufferAssumption == MaxSize \in Nat \ {0}

VARIABLES
  kept,      \* the chunks, oldest first
  size,      \* current_size
  appended   \* bytes appended since the last clear

bufferVars == <<kept, size, appended>>

Chunk == [from : Nat, to : Nat]
BufferInit == kept = <<>> /\ size = 0 /\ appended = 0

-----------------------------------------------------------------------------
(* current_size after k chunks were popped from the front. *)
After(k) == IF k = 0 THEN size ELSE size - (kept[k].to - kept[1].from)

(* Deviation: the loop looks at the size without the data. *)
Pops_late(n) ==
  CHOOSE k \in 0..Len(kept) :
    /\ After(k) <= MaxSize \/ k = Len(kept)
    /\ \A j \in 0..(k - 1) : After(j) > MaxSize

(* The loop pops until the data fits, or nothing is left. *)
Pops(n) ==
  CHOOSE k \in 0..Len(kept) :
    /\ After(k) + n <= MaxSize \/ k = Len(kept)
    /\ \A j \in 0..(k - 1) : After(j) + n > MaxSize

(* A chunk over the limit replaces everything with its last bytes. *)
AppendBytes(n) ==
  /\ appended' = appended + n
  /\ IF n > MaxSize
     THEN /\ kept' = <<[from |-> appended + n - MaxSize, to |-> appended + n]>>
          /\ size' = MaxSize
     ELSE /\ kept' = Append(SubSeq(kept, Pops(n) + 1, Len(kept)),
                            [from |-> appended, to |-> appended + n])
          /\ size' = After(Pops(n)) + n

Clear == kept' = <<>> /\ size' = 0 /\ appended' = 0

-----------------------------------------------------------------------------
(* What the buffer has is the end of what was appended, without a gap; its  *)
(* size is counted right and within the limit after any sequence of         *)
(* evictions, oversized chunks and clears.                                  *)
BufferIsSuffix ==
  /\ size <= MaxSize
  /\ IF kept = <<>> THEN size = 0 /\ appended = 0
     ELSE /\ kept[Len(kept)].to = appended
          /\ size = appended - kept[1].from
          /\ \A i \in 1..(Len(kept) - 1) : kept[i].to = kept[i + 1].from

=============================================================================
