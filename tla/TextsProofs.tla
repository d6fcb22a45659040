----------------------------- MODULE TextsProofs -----------------------------
(***************************************************************************)
(* Theorems about the text algorithms, for every limit and every length:   *)
(* the messages to Telegram are the answer, the output buffer keeps the    *)
(* end of the output, triage finds the JSON object of a reply, and what    *)
(* the agents report is what the programs they ran said.                   *)
(***************************************************************************)
EXTENDS Texts, FoldLemmas

(* The output buffer. *)

BufferShape == kept \in Seq(Chunk) /\ size \in Int /\ appended \in Nat
BufferInv == BufferShape /\ BufferIsSuffix

-----------------------------------------------------------------------------
LEMMA ChunkFields ==
  ASSUME BufferShape
  PROVE  \A i \in 1..Len(kept) : kept[i].from \in Nat /\ kept[i].to \in Nat
<1>1. \A i \in 1..Len(kept) : kept[i] \in Chunk  BY DEF BufferShape
<1>2. \A c \in Chunk : c.from \in Nat /\ c.to \in Nat  BY DEF Chunk
<1> QED  BY <1>1, <1>2

(* What a sequence of chunks is after one more. *)
LEMMA AppendIs ==
  ASSUME NEW w \in Seq(Chunk), NEW e \in Chunk
  PROVE  /\ Append(w, e) \in Seq(Chunk) /\ Append(w, e) # <<>>
         /\ Len(Append(w, e)) = Len(w) + 1
         /\ \A i \in 1..Len(w) : Append(w, e)[i] = w[i]
         /\ Append(w, e)[Len(w) + 1] = e
<1>1. Append(w, e) \in Seq(Chunk) /\ Append(w, e) # <<>>  BY AppendProperties
<1>2. Len(Append(w, e)) = Len(w) + 1  BY AppendProperties
<1>3. \A i \in 1..Len(w) : Append(w, e)[i] = w[i]  BY AppendProperties
<1>4. Append(w, e)[Len(w) + 1] = e  BY AppendProperties
<1> QED  BY <1>1, <1>2, <1>3, <1>4

(* What the loop pops is defined. *)
LEMMA PopsIs ==
  ASSUME BufferShape, NEW n \in Nat
  PROVE  /\ Pops(n) \in 0..Len(kept)
         /\ After(Pops(n)) + n <= MaxSize \/ Pops(n) = Len(kept)
<1> DEFINE Ends(k) == After(k) + n <= MaxSize \/ k = Len(kept)
           T == {k \in 0..Len(kept) : Ends(k)}
<1>1. Len(kept) \in Nat  BY DEF BufferShape
<1>2. T \subseteq Nat /\ Len(kept) \in T  BY <1>1
<1>3. PICK x \in T : \A y \in T : x <= y  BY <1>2, Least
<1>4. MaxSize \in Nat  BY BufferAssumption
<1>5. \A k \in 0..Len(kept) : After(k) \in Int
  <2>1. ASSUME NEW k \in 0..Len(kept) PROVE After(k) \in Int
    <3>1. CASE k = 0  BY <3>1 DEF After, BufferShape
    <3>2. CASE k # 0
      <4>1. k \in 1..Len(kept) /\ 1 \in 1..Len(kept)  BY <1>1, <3>2
      <4>2. kept[k] \in Chunk /\ kept[1] \in Chunk  BY <4>1 DEF BufferShape
      <4>3. kept[k].to \in Nat /\ kept[1].from \in Nat  BY <4>2 DEF Chunk
      <4> QED  BY <3>2, <4>3 DEF After, BufferShape
    <3> QED  BY <3>1, <3>2
  <2> QED  BY <2>1
<1>6. \A j \in 0..(x - 1) : After(j) + n > MaxSize
  <2>1. ASSUME NEW j \in 0..(x - 1) PROVE After(j) + n > MaxSize
    <3>1. x \in Nat /\ x <= Len(kept)  BY <1>1, <1>2
    <3>2. j \in 0..Len(kept) /\ j < x  BY <1>1, <3>1
    <3>3. j \notin T  BY <1>2, <1>3, <3>1, <3>2
    <3>4. ~(After(j) + n <= MaxSize)  BY <3>2, <3>3
    <3> QED  BY <1>4, <1>5, <3>2, <3>4
  <2> QED  BY <2>1
<1>7. \E k \in 0..Len(kept) : Ends(k) /\ \A j \in 0..(k - 1) : After(j) + n > MaxSize
  BY <1>3, <1>6
<1> QED  BY <1>7 DEF Pops

(* How much is left when k chunks are gone. *)
LEMMA AfterIs ==
  ASSUME BufferInv, NEW k \in 0..Len(kept)
  PROVE  After(k) = IF k = Len(kept) THEN 0 ELSE appended - kept[k + 1].from
<1>1. Len(kept) \in Nat /\ size \in Int /\ appended \in Nat  BY DEF BufferInv, BufferShape
<1>2. \A i \in 1..Len(kept) : kept[i].from \in Nat /\ kept[i].to \in Nat
  BY ChunkFields DEF BufferInv
<1>3. CASE kept = <<>>
  <2>1. k = 0 /\ Len(kept) = 0  BY <1>3
  <2> QED  BY <1>3, <2>1 DEF After, BufferInv, BufferIsSuffix
<1>4. CASE kept # <<>>
  <2>1. Len(kept) >= 1  BY <1>4, <1>1 DEF BufferInv, BufferShape
  <2>2. /\ kept[Len(kept)].to = appended /\ size = appended - kept[1].from
        /\ \A i \in 1..(Len(kept) - 1) : kept[i].to = kept[i + 1].from
    BY <1>4 DEF BufferInv, BufferIsSuffix
  <2>3. CASE k = 0  BY <1>1, <2>1, <2>2, <2>3 DEF After
  <2>4. CASE k # 0
    <3>1. k \in 1..Len(kept) /\ 1 \in 1..Len(kept)  BY <1>1, <2>1, <2>4
    <3>2. After(k) = size - (kept[k].to - kept[1].from)  BY <2>4 DEF After
    <3>3. CASE k = Len(kept)  BY <1>1, <1>2, <2>2, <3>1, <3>2, <3>3, SMTT(30)
    <3>4. CASE k # Len(kept)
      <4>1. k \in 1..(Len(kept) - 1) /\ k + 1 \in 1..Len(kept)  BY <1>1, <3>1, <3>4
      <4>2. kept[k].to = kept[k + 1].from  BY <2>2, <4>1
      <4> QED  BY <1>1, <1>2, <2>2, <3>1, <3>2, <3>4, <4>1, <4>2, SMTT(30)
    <3> QED  BY <3>3, <3>4
  <2> QED  BY <2>3, <2>4
<1> QED  BY <1>3, <1>4

-----------------------------------------------------------------------------
(* A chunk over the limit is the buffer. *)
LEMMA OversizedKeeps ==
  ASSUME BufferInv, NEW n \in Nat \ {0}, AppendBytes(n), n > MaxSize
  PROVE  BufferInv'
<1> DEFINE new == [from |-> appended + n - MaxSize, to |-> appended + n]
<1>1. MaxSize \in Nat \ {0} /\ appended \in Nat  BY BufferAssumption DEF BufferInv, BufferShape
<1>2. kept' = <<new>> /\ size' = MaxSize /\ appended' = appended + n  BY DEF AppendBytes
<1>3. new \in Chunk  BY <1>1 DEF Chunk
<1>4. kept' \in Seq(Chunk) /\ kept' # <<>> /\ Len(kept') = 1 /\ kept'[1] = new
  <2> HIDE DEF new
  <2> QED  BY <1>2, <1>3
<1>5. BufferShape'  BY <1>1, <1>2, <1>4 DEF BufferShape
<1>6. kept'[1].to = appended' /\ size' = appended' - kept'[1].from /\ size' <= MaxSize
  BY <1>1, <1>2, <1>4
<1>7. BufferIsSuffix'  BY <1>4, <1>6 DEF BufferIsSuffix
<1> QED  BY <1>5, <1>7 DEF BufferInv

(* Otherwise it follows what was not popped. *)
LEMMA FittingKeeps ==
  ASSUME BufferInv, NEW n \in Nat \ {0}, AppendBytes(n), ~(n > MaxSize)
  PROVE  BufferInv'
<1> DEFINE p == Pops(n)
           rest == SubSeq(kept, p + 1, Len(kept))
           new == [from |-> appended, to |-> appended + n]
<1>1. /\ MaxSize \in Nat \ {0} /\ appended \in Nat /\ size \in Int /\ Len(kept) \in Nat
      /\ kept \in Seq(Chunk)
  BY BufferAssumption DEF BufferInv, BufferShape
<1>2. p \in 0..Len(kept) /\ (After(p) + n <= MaxSize \/ p = Len(kept))  BY PopsIs DEF BufferInv
<1>3. kept' = Append(rest, new) /\ size' = After(p) + n /\ appended' = appended + n
  BY DEF AppendBytes
<1>4. After(p) = IF p = Len(kept) THEN 0 ELSE appended - kept[p + 1].from  BY <1>2, AfterIs
<1> HIDE DEF p
<1>5. \A i \in 1..Len(kept) : kept[i].from \in Nat /\ kept[i].to \in Nat
  BY ChunkFields DEF BufferInv
<1>6. /\ rest \in Seq(Chunk) /\ Len(rest) = Len(kept) - p
      /\ \A i \in 1..(Len(kept) - p) : rest[i] = kept[p + i]
  <2>1. \A i \in (p + 1)..Len(kept) : kept[i] \in Chunk  BY <1>1, <1>2
  <2>2. /\ rest \in Seq(Chunk)
        /\ Len(rest) = IF p + 1 <= Len(kept) THEN Len(kept) - (p + 1) + 1 ELSE 0
        /\ \A i \in 1..(Len(kept) - (p + 1) + 1) : rest[i] = kept[(p + 1) + i - 1]
    BY <1>1, <1>2, <2>1, SubSeqProperties
  <2>3. Len(kept) - (p + 1) + 1 = Len(kept) - p  BY <1>1, <1>2
  <2> HIDE DEF rest
  <2>4. Len(rest) = Len(kept) - p  BY <1>1, <1>2, <2>2
  <2>5. ASSUME NEW i \in 1..(Len(kept) - p) PROVE rest[i] = kept[p + i]
    <3>1. (p + 1) + i - 1 = p + i  BY <1>1, <1>2
    <3>2. rest[i] = kept[(p + 1) + i - 1]  BY <2>2, <2>3
    <3> QED  BY <3>1, <3>2
  <2> QED  BY <2>2, <2>4, <2>5
<1>7. new \in Chunk /\ new.from = appended /\ new.to = appended + n  BY <1>1 DEF Chunk
<1> HIDE DEF rest, new
<1>8. /\ kept' \in Seq(Chunk) /\ kept' # <<>> /\ Len(kept') = Len(kept) - p + 1
      /\ kept'[Len(kept) - p + 1] = new
      /\ \A i \in 1..(Len(kept) - p) : kept'[i] = kept[p + i]
  <2>1. /\ kept' \in Seq(Chunk) /\ kept' # <<>> /\ Len(kept') = Len(rest) + 1
        /\ \A i \in 1..Len(rest) : kept'[i] = rest[i]
        /\ kept'[Len(rest) + 1] = new
    BY <1>3, <1>6, <1>7, AppendIs
  <2> QED  BY <1>6, <2>1, SMTT(30)
<1>9. size' \in Int /\ size' <= MaxSize
  <2>1. CASE p = Len(kept)  BY <1>1, <1>3, <1>4, <2>1
  <2>2. CASE p # Len(kept)
    <3>1. p + 1 \in 1..Len(kept)  BY <1>1, <1>2, <2>2
    <3> QED  BY <1>1, <1>2, <1>3, <1>4, <1>5, <2>2, <3>1
  <2> QED  BY <2>1, <2>2
<1>10. BufferShape'  BY <1>1, <1>3, <1>8, <1>9 DEF BufferShape
<1>11. kept'[Len(kept')].to = appended'  BY <1>3, <1>7, <1>8
<1>12. size' = appended' - kept'[1].from
  <2>1. CASE p = Len(kept)
    <3>1. kept'[1] = new  BY <1>1, <1>8, <2>1
    <3> QED  BY <1>1, <1>3, <1>4, <1>7, <2>1, <3>1
  <2>2. CASE p # Len(kept)
    <3>1. p + 1 \in 1..Len(kept) /\ 1 \in 1..(Len(kept) - p)  BY <1>1, <1>2, <2>2
    <3>2. kept'[1] = kept[p + 1]  BY <1>8, <3>1
    <3> QED  BY <1>1, <1>3, <1>4, <1>5, <2>2, <3>1, <3>2
  <2> QED  BY <2>1, <2>2
<1>13. ASSUME NEW i \in 1..(Len(kept') - 1) PROVE kept'[i].to = kept'[i + 1].from
  <2>1. i \in 1..(Len(kept) - p) /\ p + i \in 1..Len(kept)  BY <1>1, <1>2, <1>8
  <2>2. kept'[i] = kept[p + i]  BY <1>8, <2>1
  <2>3. kept # <<>>  BY <1>1, <2>1
  <2>4. CASE i = Len(kept) - p
    <3>1. p + i = Len(kept) /\ kept'[i + 1] = new  BY <1>1, <1>2, <1>8, <2>4
    <3>2. kept[Len(kept)].to = appended  BY <2>3 DEF BufferInv, BufferIsSuffix
    <3> QED  BY <1>7, <2>2, <3>1, <3>2
  <2>5. CASE i # Len(kept) - p
    <3>1. i + 1 \in 1..(Len(kept) - p) /\ p + i \in 1..(Len(kept) - 1) /\ p + (i + 1) = (p + i) + 1
      BY <1>1, <1>2, <2>1, <2>5
    <3>2. kept'[i + 1] = kept[(p + i) + 1]  BY <1>8, <3>1
    <3>3. kept[p + i].to = kept[(p + i) + 1].from
      BY <2>3, <3>1 DEF BufferInv, BufferIsSuffix
    <3> QED  BY <2>2, <3>2, <3>3
  <2> QED  BY <2>4, <2>5
<1>14. BufferIsSuffix'  BY <1>8, <1>9, <1>11, <1>12, <1>13 DEF BufferIsSuffix
<1> QED  BY <1>10, <1>14 DEF BufferInv

LEMMA BufferInvInit == Init => BufferInv
<1> SUFFICES ASSUME Init PROVE BufferInv  OBVIOUS
<1>1. kept = <<>> /\ size = 0 /\ appended = 0  BY DEF Init, BufferInit
<1>2. <<>> \in Seq(Chunk)  OBVIOUS
<1>3. 0 <= MaxSize  BY BufferAssumption
<1> QED  BY <1>1, <1>2, <1>3 DEF BufferInv, BufferShape, BufferIsSuffix

LEMMA BufferInvNext == BufferInv /\ [Next]_vars => BufferInv'
<1> SUFFICES ASSUME BufferInv, [Next]_vars PROVE BufferInv'  OBVIOUS
<1>1. CASE Output
  <2>1. ASSUME NEW n \in 1..MaxChunk, AppendBytes(n) PROVE BufferInv'
    <3>1. n \in Nat \ {0}  BY TextsAssumption
    <3> QED  BY <2>1, <3>1, OversizedKeeps, FittingKeeps
  <2>2. CASE Clear
    <3>1. <<>> \in Seq(Chunk)  OBVIOUS
    <3>2. 0 <= MaxSize  BY BufferAssumption
    <3> QED  BY <2>2, <3>1, <3>2 DEF Clear, BufferInv, BufferShape, BufferIsSuffix
  <2> QED  BY <1>1, <2>1, <2>2 DEF Output
<1>2. CASE UNCHANGED bufferVars
  BY <1>2 DEF bufferVars, BufferInv, BufferShape, BufferIsSuffix
<1>3. CASE Messages \/ Replies \/ Reports  BY <1>2, <1>3 DEF Messages, Replies, Reports
<1>4. CASE UNCHANGED vars  BY <1>2, <1>4 DEF vars
<1> QED  BY <1>1, <1>3, <1>4 DEF Next

-----------------------------------------------------------------------------
(* The output buffer of a session keeps the end of what was appended since  *)
(* the last clear, without a gap, and its byte count is right and within    *)
(* the limit (BoundedOutputBuffer::append, clear).                          *)
THEOREM BufferAlwaysSuffix == Spec => []BufferIsSuffix
<1>1. BufferInv => BufferIsSuffix  BY DEF BufferInv
<1> QED  BY <1>1, BufferInvInit, BufferInvNext, PTL DEF Spec

-----------------------------------------------------------------------------
(* The messages to Telegram.  An answer that cannot be cut stopped at a     *)
(* part whose cut is inside a character.                                    *)
PartsInv ==
  /\ message \in Seq(Chars) /\ remaining \in Seq(Chars) /\ chunks \in Seq(Seq(Chars))
  /\ FlattenSeq(chunks) \o remaining = message
  /\ \A i \in 1..Len(chunks) : Len(chunks[i]) <= MaxLength
  /\ cutting = "panicked" => InsideChar

LEMMA Limits == ChunkLimit \in Nat \ {0} /\ MaxLength \in Nat /\ ChunkLimit + 1 <= MaxLength
  BY PartsAssumption DEF ChunkLimit

LEMMA UptoIs ==
  ASSUME NEW c
  PROVE  /\ Upto(c) \in 0..ChunkLimit
         /\ Upto(c) > 0 => remaining[Upto(c)] = c
         /\ Upto(c) = 0 => \A i \in 1..ChunkLimit : remaining[i] # c
<1> DEFINE at == {i \in 1..ChunkLimit : remaining[i] = c}
<1>1. CASE at = {}
  <2>1. Upto(c) = 0  BY <1>1 DEF Upto
  <2> QED  BY <1>1, <2>1, Limits
<1>2. CASE at # {}
  <2>1. at \subseteq 1..ChunkLimit  OBVIOUS
  <2>2. Max(at) \in at /\ \A j \in at : Max(at) >= j  BY <1>2, <2>1, Greatest, Limits
  <2>3. \A j \in at : j \in Nat /\ Max(at) \in Nat  BY <2>1, <2>2
  <2>4. \E i \in at : \A j \in at : j <= i  BY <2>2, <2>3
  <2>5. Upto(c) = CHOOSE i \in at : \A j \in at : j <= i  BY <1>2 DEF Upto
  <2>6. Upto(c) \in at  BY <2>4, <2>5
  <2> QED  BY <2>1, <2>6, Limits
<1> QED  BY <1>1, <1>2

LEMMA ChunkEndIs ==
  /\ ChunkEnd \in 1..MaxLength
  /\ ChunkEnd > ChunkLimit =>
       Upto("nl") > 0 /\ ~LateLine /\ Upto("space") = 0 /\ ChunkEnd = ChunkLimit + 1
<1> DEFINE line == Upto("nl")
           space == Upto("space")
           limit == ChunkLimit
<1>1. /\ line \in 0..limit /\ space \in 0..limit
      /\ limit \in Nat \ {0} /\ MaxLength \in Nat /\ limit + 1 <= MaxLength
  BY UptoIs, Limits
<1>2. ChunkEnd = IF line > 0 /\ LateLine THEN line
                 ELSE IF space > 0 THEN space
                 ELSE IF line > 0 THEN limit + 1 ELSE limit
  BY DEF ChunkEnd
<1> HIDE DEF line, space, limit
<1>3. ChunkEnd \in 1..MaxLength  BY <1>1, <1>2
<1>4. ChunkEnd > limit => line > 0 /\ ~LateLine /\ space = 0 /\ ChunkEnd = limit + 1
  BY <1>1, <1>2
<1> QED  BY <1>3, <1>4 DEF line, space, limit

(* One message more, whatever the part is. *)
LEMMA ChunkKeeps ==
  ASSUME PartsInv, NEW part \in Seq(Chars), NEW rest \in Seq(Chars),
         remaining = part \o rest, Len(part) <= MaxLength,
         chunks' = Append(chunks, part), remaining' = rest, message' = message,
         cutting' # "panicked"
  PROVE  PartsInv'
<1> DEFINE all == Append(chunks, part)
<1>1. /\ all \in Seq(Seq(Chars)) /\ Len(all) = Len(chunks) + 1 /\ all[Len(chunks) + 1] = part
      /\ \A i \in 1..Len(chunks) : all[i] = chunks[i]
      /\ Len(chunks) \in Nat
  BY AppendProperties DEF PartsInv
<1>2. /\ FlattenSeq(chunks) \in Seq(Chars)
      /\ FlattenSeq(all) = FlattenSeq(chunks) \o part
  BY FlattenAppend DEF PartsInv
<1>3. (FlattenSeq(chunks) \o part) \o rest = FlattenSeq(chunks) \o (part \o rest)
  <2> DEFINE before == FlattenSeq(chunks)
  <2>1. before \in Seq(Chars)  BY <1>2
  <2> HIDE DEF before
  <2>2. (before \o part) \o rest = before \o (part \o rest)  BY <2>1, ConcatAssociative, SMTT(30)
  <2> QED  BY <2>2 DEF before
<1>4. FlattenSeq(all) \o rest = message  BY <1>2, <1>3 DEF PartsInv
<1> HIDE DEF all
<1>5. ASSUME NEW i \in 1..Len(all) PROVE Len(all[i]) <= MaxLength
  <2>1. i \in 1..Len(chunks) \/ i = Len(chunks) + 1  BY <1>1
  <2> QED  BY <1>1, <2>1 DEF PartsInv
<1>6. chunks' = all  BY DEF all
<1> QED  BY <1>1, <1>4, <1>5, <1>6 DEF PartsInv

LEMMA LastPartKeeps == PartsInv /\ LastPart => PartsInv'
<1> SUFFICES ASSUME PartsInv, LastPart PROVE PartsInv'  OBVIOUS
<1>1. <<>> \in Seq(Chars)  OBVIOUS
<1>2. remaining \in Seq(Chars) /\ remaining = remaining \o <<>>
  BY ConcatEmptySeq DEF PartsInv
<1>3. /\ chunks' = Append(chunks, remaining) /\ remaining' = <<>> /\ message' = message
      /\ cutting' = "done" /\ Len(remaining) <= MaxLength
  BY DEF LastPart
<1> QED  BY <1>1, <1>2, <1>3, ChunkKeeps

LEMMA CutKeeps == PartsInv /\ Cut => PartsInv'
<1> SUFFICES ASSUME PartsInv, Cut PROVE PartsInv'  OBVIOUS
<1> DEFINE n == Len(remaining)
           part == SubSeq(remaining, 1, ChunkEnd)
           rest == SubSeq(remaining, ChunkEnd + 1, n)
<1>1. /\ chunks' = Append(chunks, part) /\ remaining' = rest /\ message' = message
      /\ cutting' = cutting /\ cutting = "yes" /\ n > MaxLength
  BY DEF Cut
<1>2. remaining \in Seq(Chars) /\ n \in Nat /\ \A i \in 1..n : remaining[i] \in Chars
  BY DEF PartsInv
<1>3. ChunkEnd \in 1..MaxLength /\ ChunkEnd \in 1..n /\ MaxLength \in Nat
  <2>1. ChunkEnd \in 1..MaxLength /\ MaxLength \in Nat  BY ChunkEndIs, Limits
  <2> HIDE DEF n
  <2> QED  BY <1>1, <1>2, <2>1
<1>4. part \in Seq(Chars) /\ Len(part) = ChunkEnd
  <2>1. \A i \in 1..ChunkEnd : remaining[i] \in Chars  BY <1>2, <1>3
  <2> QED  BY <1>3, <2>1, SubSeqProperties
<1>5. rest \in Seq(Chars)
  <2>1. \A i \in (ChunkEnd + 1)..n : remaining[i] \in Chars  BY <1>2, <1>3
  <2>2. ChunkEnd + 1 \in Int /\ n \in Int  BY <1>2, <1>3
  <2> QED  BY <2>1, <2>2, SubSeqProperties
<1>6. remaining = part \o rest
  <2>1. /\ 1 \in 1..(n + 1) /\ ChunkEnd \in (1 - 1)..n /\ n \in ChunkEnd..n
    BY <1>2, <1>3
  <2>2. part \o rest = SubSeq(remaining, 1, n)  BY <1>2, <2>1, ConcatAdjacentSubSeq
  <2> QED  BY <1>2, <2>2, SubSeqFull
<1> HIDE DEF part, rest
<1>7. Len(part) <= MaxLength /\ cutting' # "panicked"  BY <1>1, <1>3, <1>4
<1> QED  BY <1>1, <1>4, <1>5, <1>6, <1>7, ChunkKeeps

LEMMA PartsInvInit == Init => PartsInv
<1> SUFFICES ASSUME Init PROVE PartsInv  OBVIOUS
<1>1. PICK n \in IF subject = "message" THEN 0..MaxMessage ELSE {0} :
        \E m \in [1..n -> Chars] : PartsInit(m)
  BY DEF Init
<1>2. PICK m \in [1..n -> Chars] : PartsInit(m)  BY <1>1
<1>3. n \in Nat  BY <1>1, TextsAssumption
<1>4. m \in Seq(Chars)  BY <1>3
<1>5. /\ message = m /\ remaining = m /\ chunks = <<>> /\ cutting = "yes"
  BY <1>2 DEF PartsInit
<1>6. chunks \in Seq(Seq(Chars)) /\ Len(chunks) = 0  BY <1>5
<1>7. FlattenSeq(chunks) = <<>>  BY <1>5, <1>6 DEF FlattenSeq
<1>8. FlattenSeq(chunks) \o remaining = message  BY <1>4, <1>5, <1>7, ConcatEmptySeq
<1> QED  BY <1>4, <1>5, <1>6, <1>8 DEF PartsInv

LEMMA SameCut == remaining' = remaining => InsideChar' = InsideChar
<1> SUFFICES ASSUME remaining' = remaining PROVE InsideChar' = InsideChar  OBVIOUS
<1>1. Upto("nl")' = Upto("nl") /\ Upto("space")' = Upto("space")  BY DEF Upto
<1>2. LateLine' = LateLine  BY <1>1 DEF LateLine
<1>3. ChunkEnd' = ChunkEnd  BY <1>1, <1>2 DEF ChunkEnd
<1> QED  BY <1>3 DEF InsideChar

LEMMA SameParts == PartsInv /\ UNCHANGED partsVars => PartsInv'
<1> SUFFICES ASSUME PartsInv, UNCHANGED partsVars PROVE PartsInv'  OBVIOUS
<1>1. UNCHANGED <<message, remaining, chunks, cutting>>  BY DEF partsVars
<1> QED  BY <1>1, SameCut DEF PartsInv

LEMMA PartsInvNext == PartsInv /\ [Next]_vars => PartsInv'
<1> SUFFICES ASSUME PartsInv, [Next]_vars PROVE PartsInv'  OBVIOUS
<1>1. CASE LastPart  BY <1>1, LastPartKeeps
<1>2. CASE Cut  BY <1>2, CutKeeps
<1>3. CASE Panic
  <2>1. UNCHANGED <<message, remaining, chunks>> /\ InsideChar  BY <1>3 DEF Panic
  <2> QED  BY <2>1, SameCut DEF PartsInv
<1>4. CASE UNCHANGED partsVars  BY <1>4, SameParts
<1> QED
  BY <1>1, <1>2, <1>3, <1>4 DEF Next, Messages, PartsNext, Output, Replies, Reports, vars

(* The messages of an answer (split_message_for_telegram) are the answer in *)
(* order, each within Telegram's limit, wherever its line ends and spaces   *)
(* are; it panics only with a line end in the first half of a part, no      *)
(* space in the part, and a character of several bytes behind it.           *)
THEOREM PartsAlwaysKeepAll == Spec => []PartsKeepAll
<1>1. PartsInv => PartsKeepAll
  <2> SUFFICES ASSUME PartsInv PROVE PartsKeepAll  OBVIOUS
  <2>1. DOMAIN chunks = 1..Len(chunks)  BY DEF PartsInv
  <2>2. ASSUME cutting = "panicked"
        PROVE  /\ \E i \in 1..(ChunkLimit \div 2) : remaining[i] = "nl"
               /\ \A i \in 1..ChunkLimit : remaining[i] # "space"
               /\ remaining[ChunkLimit + 1] = "wide"
    <3>1. ChunkEnd > ChunkLimit /\ remaining[ChunkEnd] = "wide"
      BY <2>2 DEF PartsInv, InsideChar
    <3>2. Upto("nl") > 0 /\ ~LateLine /\ Upto("space") = 0 /\ ChunkEnd = ChunkLimit + 1
      BY <3>1, ChunkEndIs
    <3>3. ChunkLimit \div 2 \in Nat  BY Limits
    <3>4. Upto("nl") \in 1..(ChunkLimit \div 2)
      <4> DEFINE line == Upto("nl")
                 half == ChunkLimit \div 2
      <4>1. line \in Nat /\ line > 0
        <5>1. line \in 0..ChunkLimit /\ line > 0  BY <3>2, UptoIs
        <5> HIDE DEF line
        <5> QED  BY <5>1, Limits
      <4>2. ~(line - 1 >= half)  BY <3>2 DEF LateLine
      <4>3. half \in Nat  BY <3>3
      <4> HIDE DEF line, half
      <4>4. line \in 1..half  BY <4>1, <4>2, <4>3
      <4> QED  BY <4>4 DEF line, half
    <3> QED  BY <3>1, <3>2, <3>4, UptoIs
  <2> QED  BY <2>1, <2>2 DEF PartsInv, PartsKeepAll
<1> QED  BY <1>1, PartsInvInit, PartsInvNext, PTL DEF Spec

-----------------------------------------------------------------------------
(* The JSON object of a reply: the state of the scan, and what it is while  *)
(* the object is written and after it.                                      *)
ReplyChars == {"x", "quote", "escape", "open", "close"}
ScanStates == [depth : Int, inString : BOOLEAN, escaped : BOOLEAN, len : Nat, done : BOOLEAN]
Start == [depth |-> 0, inString |-> FALSE, escaped |-> FALSE, len |-> 0, done |-> FALSE]
Scanned(t) == FoldLeft(Scan, Start, t)
ScanStep == [p \in ScanStates \X ReplyChars |-> Scan(p[1], p[2])]

LEMMA ScanType == \A st \in ScanStates, c \in ReplyChars : Scan(st, c) \in ScanStates
<1> SUFFICES ASSUME NEW st \in ScanStates, NEW c \in ReplyChars PROVE Scan(st, c) \in ScanStates
  OBVIOUS
<1>1. st.depth + 1 \in Int /\ st.depth - 1 \in Int /\ st.len + 1 \in Nat  BY DEF ScanStates
<1> QED  BY <1>1 DEF ScanStates, Scan

LEMMA ScanFolds ==
  ASSUME NEW t \in Seq(ReplyChars)
  PROVE  /\ Foldable(ScanStates, ReplyChars, ScanStep, Start, t)
         /\ \A st \in ScanStates, c \in ReplyChars : ScanStep[<<st, c>>] = Scan(st, c)
<1>1. Start \in ScanStates  BY DEF Start, ScanStates
<1>2. ScanStep \in [ScanStates \X ReplyChars -> ScanStates]  BY ScanType DEF ScanStep
<1> QED  BY <1>1, <1>2 DEF Foldable, ScanStep

LEMMA ScannedIs ==
  ASSUME NEW t \in Seq(ReplyChars)
  PROVE  Scanned(t) = Folded(ScanStep, Start, t)
<1> DEFINE Steps(c) == c = [T \in SUBSET (DOMAIN t) |->
                              IF T = {} THEN Start ELSE Scan(c[T \ {Max(T)}], t[Max(T)])]
           c == CHOOSE h : Steps(h)
<1>1. /\ Len(t) \in Nat /\ DOMAIN t = 1..Len(t) /\ \A i \in 1..Len(t) : t[i] \in ReplyChars
  OBVIOUS
<1>2. /\ Foldable(ScanStates, ReplyChars, ScanStep, Start, t)
      /\ \A st \in ScanStates, e \in ReplyChars : ScanStep[<<st, e>>] = Scan(st, e)
  BY ScanFolds
<1>3. Scanned(t) = c[DOMAIN t]  BY DEF Scanned, FoldLeft, MapThenFoldSet
<1>4. PICK h : HasSteps(h, ScanStates, ScanStep, Start, t)  BY <1>2, StepsExist
<1>5. Steps(h)
  <2>1. \A T \in SUBSET (DOMAIN t) : T # {} => Max(T) \in DOMAIN t /\ t[Max(T)] \in ReplyChars
    BY <1>1, Greatest
  <2>2. h \in [SUBSET (DOMAIN t) -> ScanStates] /\ h[{}] = Start  BY <1>4 DEF HasSteps
  <2>3. ASSUME NEW T \in SUBSET (DOMAIN t), T # {}
        PROVE  h[T] = Scan(h[T \ {Max(T)}], t[Max(T)])
    <3>1. h[T] = ScanStep[<<h[T \ {Max(T)}], t[Max(T)]>>]  BY <1>4, <2>3 DEF HasSteps
    <3>2. h[T \ {Max(T)}] \in ScanStates  BY <2>2
    <3> QED  BY <1>2, <2>1, <2>3, <3>1, <3>2
  <2>4. \A T \in SUBSET (DOMAIN t) :
          h[T] = IF T = {} THEN Start ELSE Scan(h[T \ {Max(T)}], t[Max(T)])
    BY <2>2, <2>3
  <2> QED  BY <2>2, <2>4
<1>6. Steps(c)  BY <1>5
<1> HIDE DEF c
<1>7. \A T \in SUBSET (DOMAIN t) :
        c[T] = IF T = {} THEN Start ELSE Scan(c[T \ {Max(T)}], t[Max(T)])
  BY <1>6
<1>8. c[{}] = Start  BY <1>7
<1>9. ASSUME NEW k \in 1..Len(t), c[1..(k - 1)] \in ScanStates
      PROVE  c[1..k] = ScanStep[<<c[1..(k - 1)], t[k]>>]
  <2>1. k \in Nat \ {0} /\ 1..k \in SUBSET (DOMAIN t)  BY <1>1
  <2>2. 1..k # {} /\ Max(1..k) = k /\ (1..k) \ {k} = 1..(k - 1)  BY <2>1, UpTo
  <2>3. c[1..k] = Scan(c[1..(k - 1)], t[k])  BY <1>7, <2>1, <2>2
  <2> QED  BY <1>1, <1>2, <1>9, <2>3
<1>10. Follows(c, ScanStates, ScanStep, Start, t)  BY <1>8, <1>9 DEF Follows
<1>11. c[DOMAIN t] = Folded(ScanStep, Start, t)  BY <1>2, <1>10, FoldIs
<1> QED  BY <1>3, <1>11

LEMMA ScannedAppend ==
  ASSUME NEW t \in Seq(ReplyChars)
  PROVE  /\ Scanned(t) \in ScanStates
         /\ \A c \in ReplyChars : Scanned(Append(t, c)) = Scan(Scanned(t), c)
<1>1. /\ Foldable(ScanStates, ReplyChars, ScanStep, Start, t)
      /\ \A st \in ScanStates, e \in ReplyChars : ScanStep[<<st, e>>] = Scan(st, e)
  BY ScanFolds
<1>2. Scanned(t) = Folded(ScanStep, Start, t) /\ Scanned(t) \in ScanStates
  BY <1>1, ScannedIs, FoldedType
<1>3. ASSUME NEW c \in ReplyChars PROVE Scanned(Append(t, c)) = Scan(Scanned(t), c)
  <2>1. Append(t, c) \in Seq(ReplyChars)  OBVIOUS
  <2>2. Folded(ScanStep, Start, Append(t, c)) = ScanStep[<<Scanned(t), c>>]
    BY <1>1, <1>2, FoldedAppend
  <2> QED  BY <1>1, <1>2, <2>1, <2>2, ScannedIs
<1> QED  BY <1>2, <1>3

LEMMA ScannedEmpty == Scanned(<<>>) = Start
<1> DEFINE none == <<>>
<1>1. none \in Seq(ReplyChars)  OBVIOUS
<1>2. Scanned(none) = Folded(ScanStep, Start, none)  BY <1>1, ScannedIs
<1>3. ScanStep \in [ScanStates \X ReplyChars -> ScanStates] /\ Start \in ScanStates
  BY <1>1, ScanFolds DEF Foldable
<1> QED  BY <1>2, <1>3, FoldedEmpty

(* The scan in the middle of an object, field by field. *)
At(st, depth, inString, escaped, len) ==
  /\ st \in ScanStates /\ st.depth = depth /\ st.inString = inString
  /\ st.escaped = escaped /\ st.len = len /\ st.done = FALSE

LEMMA AtIs ==
  ASSUME NEW st \in ScanStates, NEW d \in Int, NEW q \in BOOLEAN, NEW e \in BOOLEAN, NEW l \in Nat,
         st.done = FALSE
  PROVE  At([st EXCEPT !.depth = d, !.inString = q, !.escaped = e, !.len = l], d, q, e, l)
<1> DEFINE new == [st EXCEPT !.depth = d, !.inString = q, !.escaped = e, !.len = l]
<1>1. new \in ScanStates  BY DEF ScanStates
<1>2. new.depth = d /\ new.inString = q /\ new.escaped = e /\ new.len = l /\ new.done = FALSE
  BY DEF ScanStates
<1> HIDE DEF new
<1>3. At(new, d, q, e, l)  BY <1>1, <1>2 DEF At
<1> QED  BY <1>3 DEF new

(* A character on its own, one of a string, and one after a backslash. *)
LEMMA ScanPlain ==
  ASSUME NEW d \in Nat, NEW q \in BOOLEAN, NEW l \in Nat, NEW st, At(st, d, q, FALSE, l)
  PROVE  /\ At(Scan(st, "x"), d, q, FALSE, l + 1)
         /\ At(Scan(st, "quote"), d, ~q, FALSE, l + 1)
<1> DEFINE Next1(p) == [st EXCEPT !.depth = d, !.inString = p, !.escaped = FALSE, !.len = l + 1]
<1>1. "x" # "escape" /\ "x" # "quote" /\ "x" # "open" /\ "x" # "close" /\ "quote" # "escape"  OBVIOUS
<1>2. /\ st \in ScanStates /\ st.depth = d /\ st.inString = q /\ st.escaped = FALSE /\ st.len = l
      /\ st.done = FALSE
  BY DEF At
<1>3. Scan(st, "x") = [st EXCEPT !.len = l + 1]  BY <1>1, <1>2 DEF Scan
<1>4. Scan(st, "quote") = [st EXCEPT !.inString = ~q, !.len = l + 1]  BY <1>1, <1>2 DEF Scan
<1>5. Scan(st, "x") = Next1(q)  BY <1>2, <1>3 DEF ScanStates
<1>6. Scan(st, "quote") = Next1(~q)  BY <1>2, <1>4 DEF ScanStates
<1>7. (~q) \in BOOLEAN  OBVIOUS
<1>8. d \in Int /\ l + 1 \in Nat  OBVIOUS
<1>9. At(Next1(q), d, q, FALSE, l + 1) /\ At(Next1(~q), d, ~q, FALSE, l + 1)
  BY <1>2, <1>7, <1>8, AtIs
<1> QED  BY <1>5, <1>6, <1>9

LEMMA ScanBraces ==
  ASSUME NEW d \in Nat, NEW l \in Nat, NEW st, At(st, d, FALSE, FALSE, l)
  PROVE  /\ At(Scan(st, "open"), d + 1, FALSE, FALSE, l + 1)
         /\ d # 1 => At(Scan(st, "close"), d - 1, FALSE, FALSE, l + 1)
         /\ d = 1 => Scan(st, "close").done = TRUE /\ Scan(st, "close").len = l + 1
<1> DEFINE Next1(n) == [st EXCEPT !.depth = n, !.inString = FALSE, !.escaped = FALSE, !.len = l + 1]
<1>1. "open" # "escape" /\ "open" # "quote" /\ "open" # "close" /\ "close" # "escape" /\ "close" # "quote"  OBVIOUS
<1>2. /\ st \in ScanStates /\ st.depth = d /\ st.inString = FALSE /\ st.escaped = FALSE
      /\ st.len = l /\ st.done = FALSE
  BY DEF At
<1>3. Scan(st, "open") = [st EXCEPT !.depth = d + 1, !.len = l + 1]  BY <1>1, <1>2 DEF Scan
<1>4. Scan(st, "close") = [st EXCEPT !.depth = d - 1, !.len = l + 1, !.done = d = 1]
  BY <1>1, <1>2 DEF Scan
<1>5. Scan(st, "open") = Next1(d + 1)  BY <1>2, <1>3 DEF ScanStates
<1>6. ASSUME d # 1 PROVE Scan(st, "close") = Next1(d - 1)
  <2>1. Scan(st, "close") = [st EXCEPT !.depth = d - 1, !.len = l + 1, !.done = FALSE]
    BY <1>4, <1>6
  <2> QED  BY <1>2, <2>1 DEF ScanStates
<1>7. d = 1 => Scan(st, "close").done = TRUE /\ Scan(st, "close").len = l + 1
  BY <1>2, <1>4 DEF ScanStates
<1>8. d + 1 \in Int /\ d - 1 \in Int /\ l + 1 \in Nat  OBVIOUS
<1>9. \A n \in Int : At(Next1(n), n, FALSE, FALSE, l + 1)  BY <1>2, <1>8, AtIs
<1> HIDE DEF Next1
<1>10. At(Next1(d + 1), d + 1, FALSE, FALSE, l + 1) /\ At(Next1(d - 1), d - 1, FALSE, FALSE, l + 1)
  BY <1>8, <1>9
<1> QED  BY <1>5, <1>6, <1>7, <1>10

LEMMA ScanQuoted ==
  ASSUME NEW d \in Nat, NEW l \in Nat, NEW st, At(st, d, TRUE, FALSE, l)
  PROVE  /\ At(Scan(st, "open"), d, TRUE, FALSE, l + 1)
         /\ At(Scan(st, "close"), d, TRUE, FALSE, l + 1)
         /\ At(Scan(st, "escape"), d, TRUE, TRUE, l + 1)
<1> DEFINE Next1(e) == [st EXCEPT !.depth = d, !.inString = TRUE, !.escaped = e, !.len = l + 1]
<1>1. "open" # "escape" /\ "open" # "quote" /\ "open" # "close" /\ "close" # "escape" /\ "close" # "quote" /\ "quote" # "escape"  OBVIOUS
<1>2. /\ st \in ScanStates /\ st.depth = d /\ st.inString = TRUE /\ st.escaped = FALSE
      /\ st.len = l /\ st.done = FALSE
  BY DEF At
<1>3. Scan(st, "open") = [st EXCEPT !.len = l + 1]  BY <1>1, <1>2 DEF Scan
<1>4. Scan(st, "close") = [st EXCEPT !.len = l + 1]  BY <1>1, <1>2 DEF Scan
<1>5. Scan(st, "escape") = [st EXCEPT !.escaped = TRUE, !.len = l + 1]  BY <1>1, <1>2 DEF Scan
<1>6. Scan(st, "open") = Next1(FALSE) /\ Scan(st, "close") = Next1(FALSE)
  <2>1. [st EXCEPT !.len = l + 1] = Next1(FALSE)  BY <1>2 DEF ScanStates
  <2> QED  BY <1>3, <1>4, <2>1
<1>7. Scan(st, "escape") = Next1(TRUE)  BY <1>2, <1>5 DEF ScanStates
<1>8. d \in Int /\ l + 1 \in Nat  OBVIOUS
<1>9. At(Next1(FALSE), d, TRUE, FALSE, l + 1) /\ At(Next1(TRUE), d, TRUE, TRUE, l + 1)
  BY <1>2, <1>8, AtIs
<1> QED  BY <1>6, <1>7, <1>9

LEMMA ScanEscaped ==
  ASSUME NEW d \in Nat, NEW q \in BOOLEAN, NEW l \in Nat, NEW st, At(st, d, q, TRUE, l), NEW c
  PROVE  At(Scan(st, c), d, q, FALSE, l + 1)
<1> DEFINE new == [st EXCEPT !.depth = d, !.inString = q, !.escaped = FALSE, !.len = l + 1]
<1>1. /\ st \in ScanStates /\ st.depth = d /\ st.inString = q /\ st.escaped = TRUE
      /\ st.len = l /\ st.done = FALSE
  BY DEF At
<1>2. Scan(st, c) = [st EXCEPT !.escaped = FALSE, !.len = l + 1]  BY <1>1 DEF Scan
<1>3. Scan(st, c) = new  BY <1>1, <1>2 DEF ScanStates
<1>4. d \in Int /\ l + 1 \in Nat  OBVIOUS
<1>5. At(new, d, q, FALSE, l + 1)  BY <1>1, <1>4, AtIs
<1> QED  BY <1>3, <1>5

LEMMA ScanDone == \A st, c : st.done = TRUE => Scan(st, c) = st
  BY DEF Scan

(* A character more of a reply. *)
LEMMA OneMore ==
  ASSUME NEW seq \in Seq(ReplyChars), NEW c \in ReplyChars, NEW m \in 1..(Len(seq) + 1)
  PROVE  /\ seq \o <<c>> = Append(seq, c)
         /\ Append(seq, c) \in Seq(ReplyChars) /\ Len(Append(seq, c)) = Len(seq) + 1
         /\ SubSeq(seq, m, Len(seq)) \in Seq(ReplyChars)
         /\ SubSeq(Append(seq, c), m, Len(seq) + 1) = Append(SubSeq(seq, m, Len(seq)), c)
<1> DEFINE n == Len(seq)
           all == Append(seq, c)
<1>1. /\ all \in Seq(ReplyChars) /\ Len(all) = n + 1 /\ all[n + 1] = c /\ n \in Nat
      /\ \A i \in 1..n : all[i] = seq[i]
      /\ \A i \in 1..n : seq[i] \in ReplyChars
  BY AppendProperties
<1>2. seq \o <<c>> = all  BY AppendIsConcat
<1> HIDE DEF all
<1>3. /\ SubSeq(seq, m, n) \in Seq(ReplyChars) /\ Len(SubSeq(seq, m, n)) = n - m + 1
      /\ \A i \in 1..(n - m + 1) : SubSeq(seq, m, n)[i] = seq[m + i - 1]
  <2>1. \A i \in m..n : seq[i] \in ReplyChars  BY <1>1
  <2> QED  BY <1>1, <2>1, SubSeqProperties
<1>4. /\ SubSeq(all, m, n + 1) \in Seq(ReplyChars) /\ Len(SubSeq(all, m, n + 1)) = n - m + 2
      /\ \A i \in 1..(n - m + 2) : SubSeq(all, m, n + 1)[i] = all[m + i - 1]
  <2>1. \A i \in m..(n + 1) : all[i] \in ReplyChars  BY <1>1
  <2>2. n + 1 \in Int /\ (n + 1) - m + 1 = n - m + 2 /\ m <= n + 1 /\ m \in Int  BY <1>1
  <2>3. /\ SubSeq(all, m, n + 1) \in Seq(ReplyChars)
        /\ Len(SubSeq(all, m, n + 1)) = (n + 1) - m + 1
        /\ \A i \in 1..((n + 1) - m + 1) : SubSeq(all, m, n + 1)[i] = all[m + i - 1]
    BY <2>1, <2>2, SubSeqProperties
  <2> QED  BY <2>2, <2>3
<1> DEFINE old == SubSeq(seq, m, n)
           new == SubSeq(all, m, n + 1)
<1> HIDE DEF old, new, n
<1>5. /\ Append(old, c) \in Seq(ReplyChars) /\ Len(Append(old, c)) = n - m + 2
      /\ \A i \in 1..(n - m + 1) : Append(old, c)[i] = old[i]
      /\ Append(old, c)[n - m + 2] = c
  <2>1. old \in Seq(ReplyChars) /\ Len(old) = n - m + 1  BY <1>3 DEF old
  <2>2. (n - m + 1) + 1 = n - m + 2  BY <1>1
  <2> QED  BY <2>1, <2>2, AppendProperties
<1>6. ASSUME NEW i \in 1..(n - m + 2) PROVE new[i] = Append(old, c)[i]
  <2>1. CASE i = n - m + 2
    <3>1. m + i - 1 = n + 1  BY <1>1, <2>1
    <3> QED  BY <1>1, <1>4, <1>5, <2>1, <3>1 DEF new
  <2>2. CASE i # n - m + 2
    <3>1. i \in 1..(n - m + 1) /\ m + i - 1 \in 1..n  BY <1>1, <2>2 DEF n
    <3>2. new[i] = all[m + i - 1] /\ all[m + i - 1] = seq[m + i - 1]  BY <1>1, <1>4, <3>1 DEF new
    <3>3. old[i] = seq[m + i - 1]  BY <1>3, <3>1 DEF old
    <3> QED  BY <1>5, <3>1, <3>2, <3>3
  <2> QED  BY <2>1, <2>2
<1>7. new = Append(old, c)
  <2>1. new \in Seq(ReplyChars) /\ Len(new) = n - m + 2  BY <1>4 DEF new
  <2> QED  BY <1>5, <1>6, <2>1, SeqEqual
<1> QED  BY <1>1, <1>2, <1>3, <1>7 DEF old, new, n, all

LEMMA ScanOneMore ==
  ASSUME NEW seq \in Seq(ReplyChars), NEW c \in ReplyChars, NEW m \in 1..(Len(seq) + 1)
  PROVE  /\ seq \o <<c>> \in Seq(ReplyChars) /\ Len(seq \o <<c>>) = Len(seq) + 1
         /\ \A i \in 1..Len(seq) : (seq \o <<c>>)[i] = seq[i]
         /\ (seq \o <<c>>)[Len(seq) + 1] = c
         /\ Scanned(SubSeq(seq \o <<c>>, m, Len(seq) + 1)) = Scan(Scanned(SubSeq(seq, m, Len(seq))), c)
<1>1. /\ seq \o <<c>> = Append(seq, c)
      /\ Append(seq, c) \in Seq(ReplyChars) /\ Len(Append(seq, c)) = Len(seq) + 1
      /\ SubSeq(seq, m, Len(seq)) \in Seq(ReplyChars)
      /\ SubSeq(Append(seq, c), m, Len(seq) + 1) = Append(SubSeq(seq, m, Len(seq)), c)
  BY OneMore
<1>2. /\ \A i \in 1..Len(seq) : Append(seq, c)[i] = seq[i]
      /\ Append(seq, c)[Len(seq) + 1] = c
  BY AppendProperties
<1>3. Scanned(Append(SubSeq(seq, m, Len(seq)), c)) = Scan(Scanned(SubSeq(seq, m, Len(seq))), c)
  BY <1>1, ScannedAppend
<1> QED  BY <1>1, <1>2, <1>3

-----------------------------------------------------------------------------
(* What is written of the object. *)
Written == SubSeq(reply, object, Len(reply))

ReplyTypes ==
  /\ reply \in Seq(ReplyChars) /\ object \in 0..Len(reply)
  /\ closed \in Nat /\ opened \in Nat /\ quoted \in BOOLEAN

Unclosed ==
  /\ closed = 0 /\ opened > 0
  /\ At(Scanned(Written), opened, quoted, FALSE, Len(reply) - object + 1)

Closed ==
  /\ closed \in object..Len(reply) /\ opened = 0
  /\ Scanned(Written).done = TRUE /\ Scanned(Written).len = closed - object + 1

ReplyInv ==
  /\ ReplyTypes
  /\ \A i \in 1..Len(reply) : object = 0 \/ i < object => reply[i] # "open"
  /\ object = 0 => closed = 0 /\ opened = 0 /\ quoted = FALSE
  /\ object > 0 => reply[object] = "open" /\ (Unclosed \/ Closed)

(* The reply goes on behind the start of the object. *)
LEMMA GoesOn ==
  ASSUME ReplyInv, object > 0, object' = object, closed' \in Nat, opened' \in Nat,
         quoted' \in BOOLEAN, reply' \in Seq(ReplyChars), Len(reply') >= Len(reply),
         \A i \in 1..Len(reply) : reply'[i] = reply[i],
         Unclosed' \/ Closed'
  PROVE  ReplyInv'
<1>1. /\ object \in 1..Len(reply) /\ Len(reply) \in Nat /\ Len(reply') \in Nat
      /\ reply[object] = "open" /\ \A i \in 1..Len(reply) : i < object => reply[i] # "open"
  BY DEF ReplyInv, ReplyTypes
<1>2. ReplyTypes'  BY <1>1 DEF ReplyTypes
<1>3. ASSUME NEW i \in 1..Len(reply'), object = 0 \/ i < object PROVE reply'[i] # "open"
  <2>1. i \in 1..Len(reply) /\ i < object  BY <1>1, <1>3
  <2> QED  BY <1>1, <2>1
<1>4. reply'[object] = "open"  BY <1>1
<1> QED  BY <1>1, <1>2, <1>3, <1>4 DEF ReplyInv

(* A character before the object, or after it. *)
LEMMA AroundKeeps == ReplyInv /\ Around => ReplyInv'
<1> SUFFICES ASSUME ReplyInv, Around PROVE ReplyInv'  OBVIOUS
<1>1. PICK c \in ReplyChars : /\ reply' = reply \o <<c>>
                              /\ (object = 0 /\ c # "open") \/ closed > 0
  BY DEF Around, Writes, ReplyChars
<1>2. UNCHANGED <<object, closed, opened, quoted>>  BY DEF Around
<1>3. reply \in Seq(ReplyChars) /\ Len(reply) \in Nat /\ object \in 0..Len(reply)
      /\ closed \in Nat /\ opened \in Nat /\ quoted \in BOOLEAN
  BY DEF ReplyInv, ReplyTypes
<1>4. /\ reply' \in Seq(ReplyChars) /\ Len(reply') = Len(reply) + 1
      /\ \A i \in 1..Len(reply) : reply'[i] = reply[i]
      /\ reply'[Len(reply) + 1] = c
  <2>1. 1 \in 1..(Len(reply) + 1)  BY <1>3
  <2> QED  BY <1>1, <1>3, <2>1, ScanOneMore
<1>5. CASE object = 0
  <2>1. closed = 0 /\ opened = 0 /\ quoted = FALSE /\ \A i \in 1..Len(reply) : reply[i] # "open"
    BY <1>5 DEF ReplyInv
  <2>2. c # "open"  BY <1>1, <2>1
  <2>3. ASSUME NEW i \in 1..Len(reply') PROVE reply'[i] # "open"
    <3>1. i \in 1..Len(reply) \/ i = Len(reply) + 1  BY <1>3, <1>4
    <3> QED  BY <1>4, <2>1, <2>2, <3>1
  <2>4. ReplyTypes'  BY <1>2, <1>3, <1>4 DEF ReplyTypes
  <2> QED  BY <1>2, <1>5, <2>1, <2>3, <2>4 DEF ReplyInv
<1>6. CASE object # 0
  <2>1. object > 0 /\ closed > 0 /\ object \in 1..(Len(reply) + 1)  BY <1>1, <1>3, <1>6
  <2>2. Closed
    <3>1. Unclosed \/ Closed  BY <2>1 DEF ReplyInv
    <3>2. closed # 0  BY <2>1
    <3>3. ~Unclosed  BY <3>2 DEF Unclosed
    <3> QED  BY <3>1, <3>3
  <2>3. Written' = SubSeq(reply', object, Len(reply) + 1)  BY <1>2, <1>4 DEF Written
  <2>4. Scanned(SubSeq(reply', object, Len(reply) + 1)) = Scan(Scanned(Written), c)
    BY <1>1, <1>3, <2>1, ScanOneMore DEF Written
  <2>5. Scan(Scanned(Written), c) = Scanned(Written)  BY <2>2, ScanDone DEF Closed
  <2>6. Scanned(Written)' = Scanned(Written)  BY <2>3, <2>4, <2>5
  <2>7. closed \in object..Len(reply')  BY <1>3, <1>4, <2>2 DEF Closed
  <2>8. Closed'  BY <1>2, <2>2, <2>6, <2>7 DEF Closed
  <2> QED  BY <1>2, <1>3, <1>4, <2>1, <2>8, GoesOn
<1> QED  BY <1>5, <1>6

(* The first brace, or another one. *)
LEMMA OpenKeeps == ReplyInv /\ Open => ReplyInv'
<1> SUFFICES ASSUME ReplyInv, Open PROVE ReplyInv'  OBVIOUS
<1> DEFINE c == "open"
           n == Len(reply)
<1>1. /\ reply' = reply \o <<c>> /\ closed = 0 /\ quoted = FALSE /\ closed' = 0 /\ quoted' = FALSE
      /\ object' = (IF object = 0 THEN Len(reply) + 1 ELSE object) /\ opened' = opened + 1
  BY DEF Open, Writes, ReplyInv, ReplyTypes
<1>2. reply \in Seq(ReplyChars) /\ n \in Nat /\ object \in 0..n /\ opened \in Nat
      /\ c \in ReplyChars
  BY DEF ReplyInv, ReplyTypes, ReplyChars
<1>3. object' \in 1..(n + 1) /\ object' \in Nat  BY <1>1, <1>2
<1>12. closed' \in Nat /\ opened' \in Nat  BY <1>1, <1>2
<1>13. quoted' \in BOOLEAN  BY <1>1
<1>4. /\ reply' \in Seq(ReplyChars) /\ Len(reply') = n + 1
      /\ \A i \in 1..n : reply'[i] = reply[i]
      /\ reply'[n + 1] = c
      /\ Scanned(SubSeq(reply', object', n + 1)) = Scan(Scanned(SubSeq(reply, object', n)), c)
  BY <1>1, <1>2, <1>3, ScanOneMore
<1>5. Written' = SubSeq(reply', object', n + 1)  BY <1>4 DEF Written
<1>6. At(Scanned(SubSeq(reply, object', n)), opened, FALSE, FALSE, n - object' + 1)
  <2>1. CASE object = 0
    <3>1. opened = 0 /\ object' = n + 1 /\ n - object' + 1 = 0  BY <1>1, <1>2, <2>1 DEF ReplyInv
    <3>2. SubSeq(reply, object', n) = <<>>  BY <1>2, <3>1, SubSeqEmpty
    <3>3. At(Start, 0, FALSE, FALSE, 0)  BY DEF At, Start, ScanStates
    <3> QED  BY <3>1, <3>2, <3>3, ScannedEmpty
  <2>2. CASE object # 0
    <3>1. Unclosed /\ object' = object  BY <1>1, <1>2, <2>2 DEF ReplyInv, Closed
    <3> QED  BY <1>1, <3>1 DEF Unclosed, Written
  <2> QED  BY <2>1, <2>2
<1>7. n - object' + 1 \in Nat /\ (n - object' + 1) + 1 = (n + 1) - object' + 1  BY <1>2, <1>3
<1>8. At(Scan(Scanned(SubSeq(reply, object', n)), c), opened + 1, FALSE, FALSE,
         (n - object' + 1) + 1)
  BY <1>2, <1>6, <1>7, ScanBraces
<1>9. Unclosed'
  <2>1. At(Scanned(Written)', opened', quoted', FALSE, Len(reply') - object' + 1)
    BY <1>1, <1>4, <1>5, <1>7, <1>8
  <2>2. closed' = 0 /\ opened' > 0  BY <1>1, <1>2
  <2> QED  BY <2>1, <2>2 DEF Unclosed
<1>10. CASE object = 0
  <2>1. object' = n + 1  BY <1>1, <1>10
  <2>2. object' \in 0..Len(reply')  BY <1>2, <1>3, <1>4
  <2>5. ReplyTypes'  BY <1>4, <1>12, <1>13, <2>2 DEF ReplyTypes
  <2>3. ASSUME NEW i \in 1..Len(reply'), object' = 0 \/ i < object' PROVE reply'[i] # c
    <3>1. i \in 1..n  BY <1>2, <1>4, <2>1, <2>3
    <3>2. reply[i] # c  BY <1>10, <3>1 DEF ReplyInv
    <3> QED  BY <1>4, <3>1, <3>2
  <2>4. object' > 0 /\ object' # 0  BY <1>3
  <2> QED  BY <1>4, <1>9, <2>1, <2>3, <2>4, <2>5 DEF ReplyInv
<1>11. CASE object # 0
  <2>1. object > 0 /\ object' = object /\ Len(reply') >= n  BY <1>1, <1>2, <1>4, <1>11
  <2> QED  BY <1>4, <1>9, <1>12, <1>13, <2>1, GoesOn
<1> QED  BY <1>10, <1>11

(* A character of the object. *)
LEMMA OneWritten ==
  ASSUME ReplyInv, object > 0, object' = object, NEW c \in ReplyChars, reply' = reply \o <<c>>
  PROVE  /\ reply' \in Seq(ReplyChars) /\ Len(reply') = Len(reply) + 1
         /\ \A i \in 1..Len(reply) : reply'[i] = reply[i]
         /\ Scanned(Written)' = Scan(Scanned(Written), c)
<1>1. reply \in Seq(ReplyChars) /\ object \in 1..(Len(reply) + 1)
  BY DEF ReplyInv, ReplyTypes
<1>2. /\ reply' \in Seq(ReplyChars) /\ Len(reply') = Len(reply) + 1
      /\ \A i \in 1..Len(reply) : reply'[i] = reply[i]
      /\ Scanned(SubSeq(reply', object, Len(reply) + 1)) = Scan(Scanned(Written), c)
  BY <1>1, ScanOneMore DEF Written
<1>3. Written' = SubSeq(reply', object, Len(reply) + 1)  BY <1>2 DEF Written
<1> QED  BY <1>2, <1>3

(* Two of them: a backslash in a string and what is escaped by it. *)
LEMMA TwoWritten ==
  ASSUME ReplyInv, object > 0, object' = object, NEW a \in ReplyChars, NEW b \in ReplyChars,
         reply' = reply \o <<a, b>>
  PROVE  /\ reply' \in Seq(ReplyChars) /\ Len(reply') = Len(reply) + 2
         /\ \A i \in 1..Len(reply) : reply'[i] = reply[i]
         /\ Scanned(Written)' = Scan(Scan(Scanned(Written), a), b)
<1> DEFINE one == reply \o <<a>>
           n == Len(reply)
<1>1. reply \in Seq(ReplyChars) /\ n \in Nat /\ object \in 1..(n + 1)
  BY DEF ReplyInv, ReplyTypes
<1>2. /\ one \in Seq(ReplyChars) /\ Len(one) = n + 1
      /\ \A i \in 1..n : one[i] = reply[i]
      /\ Scanned(SubSeq(one, object, n + 1)) = Scan(Scanned(Written), a)
  BY <1>1, ScanOneMore DEF Written
<1>3. reply' = one \o <<b>>
  <2>1. <<a>> \in Seq(ReplyChars) /\ <<b>> \in Seq(ReplyChars)  OBVIOUS
  <2>2. <<a, b>> = <<a>> \o <<b>>
    <3> DEFINE ab == <<a, b>>
               both == <<a>> \o <<b>>
    <3>1. ab \in Seq(ReplyChars) /\ Len(ab) = 2 /\ ab[1] = a /\ ab[2] = b  OBVIOUS
    <3>2. /\ both \in Seq(ReplyChars) /\ Len(both) = 2
          /\ both[1] = a /\ both[2] = b
      BY <2>1, ConcatProperties
    <3> HIDE DEF ab, both
    <3>3. \A i \in 1..2 : ab[i] = both[i]  BY <3>1, <3>2
    <3>4. ab = both  BY <3>1, <3>2, <3>3, SeqEqual
    <3> QED  BY <3>4 DEF ab, both
  <2>3. (reply \o <<a>>) \o <<b>> = reply \o (<<a>> \o <<b>>)
    BY <1>1, <2>1, ConcatAssociative, SMTT(30)
  <2> QED  BY <2>2, <2>3
<1> HIDE DEF one
<1>4. object \in 1..(Len(one) + 1)  BY <1>1, <1>2
<1>5. /\ reply' \in Seq(ReplyChars) /\ Len(reply') = (n + 1) + 1
      /\ \A i \in 1..(n + 1) : reply'[i] = one[i]
      /\ Scanned(SubSeq(reply', object, (n + 1) + 1)) = Scan(Scanned(SubSeq(one, object, n + 1)), b)
  <2>1. /\ reply' \in Seq(ReplyChars) /\ Len(reply') = Len(one) + 1
        /\ \A i \in 1..Len(one) : reply'[i] = one[i]
        /\ Scanned(SubSeq(reply', object, Len(one) + 1)) = Scan(Scanned(SubSeq(one, object, Len(one))), b)
    <3>1. /\ one \o <<b>> \in Seq(ReplyChars) /\ Len(one \o <<b>>) = Len(one) + 1
          /\ \A i \in 1..Len(one) : (one \o <<b>>)[i] = one[i]
          /\ Scanned(SubSeq(one \o <<b>>, object, Len(one) + 1))
               = Scan(Scanned(SubSeq(one, object, Len(one))), b)
      BY <1>2, <1>4, ScanOneMore
    <3> QED  BY <1>3, <3>1
  <2> QED  BY <1>2, <2>1
<1>6. Written' = SubSeq(reply', object, (n + 1) + 1)  BY <1>5 DEF Written
<1>7. (n + 1) + 1 = n + 2 /\ 1..n \subseteq 1..(n + 1)  BY <1>1
<1> QED  BY <1>2, <1>5, <1>6, <1>7

(* In the object: its text, its closing braces, its strings. *)
LEMMA InsideKeeps == ReplyInv /\ Inside => ReplyInv'
<1> SUFFICES ASSUME ReplyInv, Inside PROVE ReplyInv'  OBVIOUS
<1> DEFINE n == Len(reply)
           len == n - object + 1
<1>1. opened > 0 /\ object' = object  BY DEF Inside
<1>2. /\ reply \in Seq(ReplyChars) /\ n \in Nat /\ object \in 0..n
      /\ closed \in Nat /\ opened \in Nat
  BY DEF ReplyInv, ReplyTypes
<1>3. quoted \in BOOLEAN  BY DEF ReplyInv, ReplyTypes
<1>4. opened # 0  BY <1>1, <1>2
<1>5. object > 0
  <2>1. object # 0  BY <1>4 DEF ReplyInv
  <2> QED  BY <1>2, <2>1
<1>6. closed = 0 /\ At(Scanned(Written), opened, quoted, FALSE, len)
  <2>1. Unclosed \/ Closed  BY <1>5 DEF ReplyInv
  <2>2. ~Closed  BY <1>4 DEF Closed
  <2> QED  BY <2>1, <2>2 DEF Unclosed
<1>7. len \in Nat /\ len + 1 \in Nat /\ (n + 1) - object + 1 = len + 1 /\ (n + 2) - object + 1 = (len + 1) + 1
  BY <1>2, <1>5
<1> HIDE DEF len
<1>8. {"x", "quote", "escape", "open", "close"} \subseteq ReplyChars  BY DEF ReplyChars
(* What is left of each case: the scan is where the variables say. *)
<1>9. ASSUME reply' \in Seq(ReplyChars), \A i \in 1..n : reply'[i] = reply[i],
             \/ Len(reply') = n + 1 /\ At(Scanned(Written)', opened, quoted', FALSE, len + 1)
             \/ Len(reply') = n + 2 /\ At(Scanned(Written)', opened, quoted', FALSE, (len + 1) + 1),
             closed' = closed, opened' = opened, quoted' \in BOOLEAN
      PROVE  ReplyInv'
  <2>1. /\ Len(reply') = n + 1 => Len(reply') - object' + 1 = len + 1
        /\ Len(reply') = n + 2 => Len(reply') - object' + 1 = (len + 1) + 1
    BY <1>1, <1>7
  <2>2. Len(reply') = n + 1 \/ Len(reply') = n + 2  BY <1>9
  <2>3. At(Scanned(Written)', opened', quoted', FALSE, Len(reply') - object' + 1)
    BY <1>9, <2>1
  <2>4. Len(reply') >= n  BY <1>2, <2>2
  <2>5. Unclosed'  BY <1>1, <1>6, <1>9, <2>3 DEF Unclosed
  <2> QED  BY <1>1, <1>2, <1>5, <1>9, <2>4, <2>5, GoesOn
<1>10. CASE ~quoted /\ Writes(<<"x">>) /\ UNCHANGED <<closed, quoted, opened>>
  <2>1. reply' = reply \o <<"x">>  BY <1>10 DEF Writes
  <2>2. /\ reply' \in Seq(ReplyChars) /\ Len(reply') = n + 1
        /\ \A i \in 1..n : reply'[i] = reply[i]
        /\ Scanned(Written)' = Scan(Scanned(Written), "x")
    BY <1>1, <1>5, <1>8, <2>1, OneWritten
  <2>3. At(Scan(Scanned(Written), "x"), opened, quoted, FALSE, len + 1)
    BY <1>2, <1>3, <1>6, <1>7, ScanPlain
  <2> QED  BY <1>3, <1>9, <1>10, <2>2, <2>3
<1>11. CASE /\ ~quoted /\ Writes(<<"close">>) /\ opened' = opened - 1
            /\ closed' = IF opened = 1 THEN Len(reply) + 1 ELSE 0
            /\ UNCHANGED quoted
  <2>1. reply' = reply \o <<"close">> /\ quoted = FALSE /\ quoted' = FALSE  BY <1>3, <1>11 DEF Writes
  <2>2. /\ reply' \in Seq(ReplyChars) /\ Len(reply') = n + 1
        /\ \A i \in 1..n : reply'[i] = reply[i]
        /\ Scanned(Written)' = Scan(Scanned(Written), "close")
    BY <1>1, <1>5, <1>8, <2>1, OneWritten
  <2>3. /\ opened # 1 => At(Scan(Scanned(Written), "close"), opened - 1, FALSE, FALSE, len + 1)
        /\ opened = 1 => /\ Scan(Scanned(Written), "close").done = TRUE
                         /\ Scan(Scanned(Written), "close").len = len + 1
    <3>1. At(Scanned(Written), opened, FALSE, FALSE, len)  BY <1>6, <2>1
    <3> QED  BY <1>2, <1>7, <3>1, ScanBraces
  <2>4. Len(reply') >= n /\ closed' \in Nat /\ opened' \in Nat  BY <1>1, <1>2, <1>11, <2>2
  <2>5. Len(reply') - object' + 1 = len + 1  BY <1>1, <1>7, <2>2
  <2>6. CASE opened = 1
    <3>1. closed' = n + 1 /\ opened' = 0  BY <1>11, <2>6
    <3>2. closed' \in object'..Len(reply') /\ closed' - object' + 1 = len + 1
      BY <1>1, <1>2, <1>7, <2>2, <3>1
    <3>3. Scanned(Written)'.done = TRUE /\ Scanned(Written)'.len = len + 1  BY <2>2, <2>3, <2>6
    <3>4. Closed'  BY <3>1, <3>2, <3>3 DEF Closed
    <3> QED  BY <1>1, <1>2, <1>5, <2>1, <2>2, <2>4, <3>4, GoesOn
  <2>7. CASE opened # 1
    <3>1. closed' = 0 /\ opened' > 0 /\ opened' = opened - 1  BY <1>1, <1>2, <1>11, <2>7
    <3>2. At(Scanned(Written)', opened', quoted', FALSE, Len(reply') - object' + 1)
      BY <2>1, <2>2, <2>3, <2>5, <2>7, <3>1
    <3>3. Unclosed'  BY <3>1, <3>2 DEF Unclosed
    <3> QED  BY <1>1, <1>2, <1>5, <2>1, <2>2, <2>4, <3>3, GoesOn
  <2> QED  BY <2>6, <2>7
<1>12. CASE /\ quoted /\ UNCHANGED <<closed, quoted, opened>>
            /\ \E c \in {<<"x">>, <<"open">>, <<"close">>, <<"escape", "quote">>, <<"escape", "escape">>} :
                 Writes(c)
  <2>1. quoted = TRUE /\ quoted' = TRUE /\ closed' = closed /\ opened' = opened  BY <1>3, <1>12
  <2>2. At(Scanned(Written), opened, TRUE, FALSE, len)  BY <1>6, <2>1
  <2>3. ASSUME NEW c \in {"x", "open", "close"}, reply' = reply \o <<c>> PROVE ReplyInv'
    <3>1. c \in ReplyChars  BY <1>8
    <3>2. /\ reply' \in Seq(ReplyChars) /\ Len(reply') = n + 1
          /\ \A i \in 1..n : reply'[i] = reply[i]
          /\ Scanned(Written)' = Scan(Scanned(Written), c)
      BY <1>1, <1>5, <2>3, <3>1, OneWritten
    <3>3. At(Scan(Scanned(Written), "x"), opened, TRUE, FALSE, len + 1)
      BY <1>2, <1>7, <2>2, ScanPlain
    <3>4. /\ At(Scan(Scanned(Written), "open"), opened, TRUE, FALSE, len + 1)
          /\ At(Scan(Scanned(Written), "close"), opened, TRUE, FALSE, len + 1)
      BY <1>2, <1>7, <2>2, ScanQuoted
    <3>5. At(Scan(Scanned(Written), c), opened, quoted', FALSE, len + 1)  BY <2>1, <3>3, <3>4
    <3> QED  BY <1>9, <2>1, <3>2, <3>5
  <2>4. ASSUME NEW c \in {"quote", "escape"}, reply' = reply \o <<"escape", c>> PROVE ReplyInv'
    <3>1. c \in ReplyChars  BY <1>8
    <3>2. /\ reply' \in Seq(ReplyChars) /\ Len(reply') = n + 2
          /\ \A i \in 1..n : reply'[i] = reply[i]
          /\ Scanned(Written)' = Scan(Scan(Scanned(Written), "escape"), c)
      BY <1>1, <1>5, <1>8, <2>4, <3>1, TwoWritten
    <3>3. At(Scan(Scanned(Written), "escape"), opened, TRUE, TRUE, len + 1)
      BY <1>2, <1>7, <2>2, ScanQuoted
    <3>4. At(Scan(Scan(Scanned(Written), "escape"), c), opened, TRUE, FALSE, (len + 1) + 1)
      BY <1>2, <1>7, <3>3, ScanEscaped
    <3> QED  BY <1>9, <2>1, <3>2, <3>4
  <2>5. \/ \E c \in {"x", "open", "close"} : reply' = reply \o <<c>>
        \/ \E c \in {"quote", "escape"} : reply' = reply \o <<"escape", c>>
    <3>1. PICK c \in {<<"x">>, <<"open">>, <<"close">>, <<"escape", "quote">>, <<"escape", "escape">>} :
                 Writes(c)
      BY <1>12
    <3> QED  BY <3>1 DEF Writes
  <2> QED  BY <2>3, <2>4, <2>5
<1>13. CASE Writes(<<"quote">>) /\ quoted' = ~quoted /\ UNCHANGED <<closed, opened>>
  <2>1. reply' = reply \o <<"quote">>  BY <1>13 DEF Writes
  <2>2. /\ reply' \in Seq(ReplyChars) /\ Len(reply') = n + 1
        /\ \A i \in 1..n : reply'[i] = reply[i]
        /\ Scanned(Written)' = Scan(Scanned(Written), "quote")
    BY <1>1, <1>5, <1>8, <2>1, OneWritten
  <2>3. At(Scan(Scanned(Written), "quote"), opened, ~quoted, FALSE, len + 1)
    BY <1>2, <1>3, <1>6, <1>7, ScanPlain
  <2>4. quoted' \in BOOLEAN  BY <1>3, <1>13
  <2>5. At(Scanned(Written)', opened, quoted', FALSE, len + 1)  BY <1>13, <2>2, <2>3
  <2> QED  BY <1>9, <1>13, <2>2, <2>4, <2>5
<1> QED  BY <1>10, <1>11, <1>12, <1>13 DEF Inside

LEMMA ReplyInvInit == Init => ReplyInv
<1> SUFFICES ASSUME Init PROVE ReplyInv  OBVIOUS
<1> DEFINE none == <<>>
<1>1. reply = none /\ object = 0 /\ closed = 0 /\ opened = 0 /\ quoted = FALSE  BY DEF Init
<1>2. none \in Seq(ReplyChars) /\ Len(none) = 0  OBVIOUS
<1>3. ReplyTypes
  <2>1. none \in Seq(ReplyChars) /\ 0 \in 0..Len(none) /\ 0 \in Nat /\ FALSE \in BOOLEAN
    BY <1>2
  <2> QED  BY <1>1, <2>1 DEF ReplyTypes
<1> QED  BY <1>1, <1>2, <1>3 DEF ReplyInv

LEMMA SameReply == ReplyInv /\ UNCHANGED replyVars => ReplyInv'
<1> SUFFICES ASSUME ReplyInv, UNCHANGED replyVars PROVE ReplyInv'  OBVIOUS
<1>1. UNCHANGED <<reply, object, closed, opened, quoted>>  BY DEF replyVars
<1> QED  BY <1>1 DEF ReplyInv, ReplyTypes, Unclosed, Closed, Written

LEMMA ReplyInvNext == ReplyInv /\ [Next]_vars => ReplyInv'
<1> SUFFICES ASSUME ReplyInv, [Next]_vars PROVE ReplyInv'  OBVIOUS
<1>1. CASE Replies
  <2>1. Around \/ Open \/ Inside  BY <1>1 DEF Replies
  <2> QED  BY <2>1, AroundKeeps, OpenKeeps, InsideKeeps
<1>2. CASE Messages \/ Output \/ Reports \/ UNCHANGED vars
  <2>1. UNCHANGED replyVars  BY <1>2 DEF Messages, Output, Reports, vars
  <2> QED  BY <2>1, SameReply
<1> QED  BY <1>1, <1>2 DEF Next

(* The object of a reply (extract_json_object) is the whole object, whatever *)
(* text is around it and whatever braces, quotes and backslashes its strings *)
(* hold; an object that is not closed is none.                               *)
THEOREM ObjectAlwaysFound == Spec => []ObjectFound
<1>1. ReplyInv => ObjectFound
  <2> SUFFICES ASSUME ReplyInv
               PROVE  ExtractJsonObject(reply) =
                        IF closed > 0 THEN SubSeq(reply, object, closed) ELSE <<>>
    BY DEF ObjectFound
  <2>1. /\ reply \in Seq(ReplyChars) /\ Len(reply) \in Nat /\ DOMAIN reply = 1..Len(reply)
        /\ object \in 0..Len(reply)
    BY DEF ReplyInv, ReplyTypes
  <2>2. CASE object = 0
    <3>1. closed = 0 /\ ~(closed > 0) /\ \A i \in 1..Len(reply) : reply[i] # "open"
      BY <2>2 DEF ReplyInv
    <3>2. "open" \notin ToSet(reply)  BY <2>1, <3>1 DEF ToSet
    <3> QED  BY <3>1, <3>2 DEF ExtractJsonObject
  <2>3. CASE object # 0
    <3>1. /\ object \in 1..Len(reply) /\ object > 0  BY <2>1, <2>3
    <3>2. /\ reply[object] = "open" /\ (Unclosed \/ Closed)
          /\ \A i \in 1..Len(reply) : i < object => reply[i] # "open"
      BY <3>1 DEF ReplyInv
    <3>3. "open" \in ToSet(reply)  BY <2>1, <3>1, <3>2 DEF ToSet
    <3>4. SelectInSeq(reply, LAMBDA c : c = "open") = object
      <4> DEFINE I == {i \in 1..Len(reply) : reply[i] = "open"}
      <4>1. object \in I /\ \A i \in I : object <= i
        <5>1. ASSUME NEW i \in I PROVE ~(i < object)  BY <3>2
        <5> QED  BY <2>1, <3>1, <3>2, <5>1
      <4>2. I \subseteq Nat /\ I # {}  BY <2>1, <4>1
      <4>3. SelectInSeq(reply, LAMBDA c : c = "open") = Min(I)  BY <4>2 DEF SelectInSeq
      <4> HIDE DEF I
      <4>4. Min(I) \in I /\ \A i \in I : Min(I) <= i  BY <4>1 DEF Min
      <4> QED  BY <2>1, <3>1, <4>1, <4>2, <4>3, <4>4
    <3>5. ExtractJsonObject(reply) =
            IF Scanned(Written).done THEN SubSeq(Written, 1, Scanned(Written).len) ELSE <<>>
      BY <3>3, <3>4 DEF ExtractJsonObject, Scanned, Start, Written
    <3>6. CASE Unclosed
      <4>1. closed = 0 /\ Scanned(Written).done = FALSE  BY <3>6 DEF Unclosed, At
      <4>2. ~(closed > 0)  BY <4>1
      <4> QED  BY <3>5, <4>1, <4>2
    <3>7. CASE Closed
      <4>1. /\ closed \in object..Len(reply) /\ Scanned(Written).done = TRUE
            /\ Scanned(Written).len = closed - object + 1
        BY <3>7 DEF Closed
      <4>2. closed > 0  BY <2>1, <3>1, <4>1
      <4>3. SubSeq(Written, 1, closed - object + 1) = SubSeq(reply, object, closed)
        BY <2>1, <3>1, <4>1, SubSeqOfSubSeq DEF Written
      <4> QED  BY <3>5, <4>1, <4>2, <4>3
    <3> QED  BY <3>2, <3>6, <3>7
  <2> QED  BY <2>2, <2>3
<1> QED  BY <1>1, ReplyInvInit, ReplyInvNext, PTL DEF Spec

-----------------------------------------------------------------------------
(* The reports of the agents.                                              *)
(* What is selected of a sequence. *)
Selects(T, B) == [p \in Seq(B) \X B |-> IF p[2] \in T THEN Append(p[1], p[2]) ELSE p[1]]

LEMMA SelectsFolds ==
  ASSUME NEW T, NEW B, NEW seq \in Seq(B)
  PROVE  /\ Foldable(Seq(B), B, Selects(T, B), <<>>, seq)
         /\ \A s \in Seq(B), e \in B :
              Selects(T, B)[<<s, e>>] = IF e \in T THEN Append(s, e) ELSE s
<1>1. <<>> \in Seq(B)  OBVIOUS
<1>2. Selects(T, B) \in [Seq(B) \X B -> Seq(B)]
  <2>1. \A p \in Seq(B) \X B : (IF p[2] \in T THEN Append(p[1], p[2]) ELSE p[1]) \in Seq(B)
    <3>1. ASSUME NEW p \in Seq(B) \X B
          PROVE (IF p[2] \in T THEN Append(p[1], p[2]) ELSE p[1]) \in Seq(B)
      <4>1. p[1] \in Seq(B) /\ p[2] \in B  OBVIOUS
      <4>2. Append(p[1], p[2]) \in Seq(B)  BY <4>1, AppendProperties
      <4> QED  BY <4>1, <4>2
    <3> QED  BY <3>1
  <2> QED  BY <2>1 DEF Selects
<1> QED  BY <1>1, <1>2 DEF Foldable, Selects

LEMMA SelectedIs ==
  ASSUME NEW T, NEW B, NEW seq \in Seq(B)
  PROVE  Selected(T, seq) = Folded(Selects(T, B), <<>>, seq)
<1> DEFINE none == <<>>
           G == Selects(T, B)
           Next1(s, e) == IF e \in T THEN Append(s, e) ELSE s
           Steps(c) == c = [U \in SUBSET (DOMAIN seq) |->
                              IF U = {} THEN none ELSE Next1(c[U \ {Max(U)}], seq[Max(U)])]
           c == CHOOSE h : Steps(h)
<1>1. Len(seq) \in Nat /\ DOMAIN seq = 1..Len(seq) /\ \A i \in 1..Len(seq) : seq[i] \in B
  OBVIOUS
<1>2. /\ Foldable(Seq(B), B, G, none, seq)
      /\ \A s \in Seq(B), e \in B : G[<<s, e>>] = Next1(s, e)
  <2>1. Foldable(Seq(B), B, G, none, seq)  BY SelectsFolds
  <2>2. \A s \in Seq(B), e \in B : G[<<s, e>>] = Next1(s, e)  BY DEF Selects
  <2> QED  BY <2>1, <2>2
<1>3. Selected(T, seq) = c[DOMAIN seq]  BY DEF Selected, FoldLeft, MapThenFoldSet
<1> HIDE DEF G, none, Next1
<1>4. PICK h : HasSteps(h, Seq(B), G, none, seq)  BY <1>2, StepsExist
<1>5. Steps(h)
  <2>1. \A U \in SUBSET (DOMAIN seq) : U # {} => Max(U) \in DOMAIN seq /\ seq[Max(U)] \in B
    BY <1>1, Greatest
  <2>2. h \in [SUBSET (DOMAIN seq) -> Seq(B)] /\ h[{}] = none  BY <1>4 DEF HasSteps
  <2>3. ASSUME NEW U \in SUBSET (DOMAIN seq), U # {}
        PROVE  h[U] = Next1(h[U \ {Max(U)}], seq[Max(U)])
    <3>1. h[U] = G[<<h[U \ {Max(U)}], seq[Max(U)]>>]  BY <1>4, <2>3 DEF HasSteps
    <3>2. h[U \ {Max(U)}] \in Seq(B)  BY <2>2
    <3> QED  BY <1>2, <2>1, <2>3, <3>1, <3>2
  <2>4. \A U \in SUBSET (DOMAIN seq) :
          h[U] = IF U = {} THEN none ELSE Next1(h[U \ {Max(U)}], seq[Max(U)])
    BY <2>2, <2>3
  <2> QED  BY <2>2, <2>4
<1>6. Steps(c)  BY <1>5
<1> HIDE DEF c
<1>7. \A U \in SUBSET (DOMAIN seq) :
        c[U] = IF U = {} THEN none ELSE Next1(c[U \ {Max(U)}], seq[Max(U)])
  BY <1>6
<1>8. c[{}] = none  BY <1>7
<1>9. ASSUME NEW k \in 1..Len(seq), c[1..(k - 1)] \in Seq(B)
      PROVE  c[1..k] = G[<<c[1..(k - 1)], seq[k]>>]
  <2>1. k \in Nat \ {0} /\ 1..k \in SUBSET (DOMAIN seq)  BY <1>1
  <2>2. 1..k # {} /\ Max(1..k) = k /\ (1..k) \ {k} = 1..(k - 1)  BY <2>1, UpTo
  <2>3. c[1..k] = Next1(c[1..(k - 1)], seq[k])  BY <1>7, <2>1, <2>2
  <2> QED  BY <1>1, <1>2, <1>9, <2>3
<1>10. Follows(c, Seq(B), G, none, seq)  BY <1>8, <1>9 DEF Follows
<1>11. c[DOMAIN seq] = Folded(G, none, seq)  BY <1>2, <1>10, FoldIs
<1> QED  BY <1>3, <1>11 DEF G, none

LEMMA SelectedAppend ==
  ASSUME NEW T, NEW B, NEW seq \in Seq(B)
  PROVE  /\ Selected(T, seq) \in Seq(B)
         /\ \A e \in B : Selected(T, Append(seq, e)) =
                           IF e \in T THEN Append(Selected(T, seq), e) ELSE Selected(T, seq)
<1> DEFINE none == <<>>
           G == Selects(T, B)
<1>1. /\ Foldable(Seq(B), B, G, none, seq)
      /\ \A s \in Seq(B), e \in B : G[<<s, e>>] = IF e \in T THEN Append(s, e) ELSE s
  <2>1. Foldable(Seq(B), B, G, none, seq)  BY SelectsFolds
  <2>2. \A s \in Seq(B), e \in B : G[<<s, e>>] = IF e \in T THEN Append(s, e) ELSE s
    BY DEF Selects
  <2> QED  BY <2>1, <2>2
<1>2. Selected(T, seq) = Folded(G, none, seq)  BY SelectedIs
<1>3. ASSUME NEW e \in B
      PROVE  Selected(T, Append(seq, e)) = Folded(G, none, Append(seq, e))
  <2>1. Append(seq, e) \in Seq(B)  BY AppendProperties
  <2> QED  BY <2>1, SelectedIs
<1> HIDE DEF G, none
<1>4. Selected(T, seq) \in Seq(B)  BY <1>1, <1>2, FoldedType
<1>5. ASSUME NEW e \in B
      PROVE  Selected(T, Append(seq, e)) =
               IF e \in T THEN Append(Selected(T, seq), e) ELSE Selected(T, seq)
  <2>1. Folded(G, none, Append(seq, e)) = G[<<Folded(G, none, seq), e>>]  BY <1>1, FoldedAppend
  <2> QED  BY <1>1, <1>2, <1>3, <1>4, <2>1
<1> QED  BY <1>4, <1>5

LEMMA SelectedEmpty == \A T : Selected(T, <<>>) = <<>>
<1> SUFFICES ASSUME NEW T PROVE Selected(T, <<>>) = <<>>  OBVIOUS
<1> DEFINE none == <<>>
<1>1. none \in Seq({})  OBVIOUS
<1>2. Selected(T, none) = Folded(Selects(T, {}), none, none)  BY <1>1, SelectedIs
<1>3. Foldable(Seq({}), {}, Selects(T, {}), none, none)  BY <1>1, SelectsFolds
<1>4. Folded(Selects(T, {}), none, none) = none  BY <1>3, FoldedEmpty DEF Foldable
<1> QED  BY <1>2, <1>4

(* It depends on the elements of the sequence only. *)
LEMMA SelectedSame ==
  ASSUME NEW T, NEW U, NEW B, NEW seq \in Seq(B),
         \A i \in 1..Len(seq) : seq[i] \in T <=> seq[i] \in U
  PROVE  Selected(T, seq) = Selected(U, seq)
<1> DEFINE Agree(s) == \A i \in 1..Len(s) : s[i] \in T <=> s[i] \in U
           P == {s \in Seq(B) : Agree(s) => Selected(T, s) = Selected(U, s)}
<1>1. <<>> \in P  BY SelectedEmpty
<1>2. ASSUME NEW s \in Seq(B), NEW e \in B, s \in P PROVE Append(s, e) \in P
  <2> DEFINE t == Append(s, e)
  <2>1. /\ t \in Seq(B) /\ Len(t) = Len(s) + 1 /\ t[Len(s) + 1] = e /\ Len(s) \in Nat
        /\ \A i \in 1..Len(s) : t[i] = s[i]
    BY AppendProperties
  <2>2. /\ Selected(T, t) = IF e \in T THEN Append(Selected(T, s), e) ELSE Selected(T, s)
        /\ Selected(U, t) = IF e \in U THEN Append(Selected(U, s), e) ELSE Selected(U, s)
    BY SelectedAppend
  <2> HIDE DEF t
  <2>3. ASSUME Agree(t) PROVE Selected(T, t) = Selected(U, t)
    <3>1. \A i \in 1..Len(s) : i \in 1..Len(t)  BY <2>1
    <3>2. Len(s) + 1 \in 1..Len(t)  BY <2>1
    <3>3. (e \in T <=> e \in U) /\ Agree(s)  BY <2>1, <2>3, <3>1, <3>2
    <3> QED  BY <1>2, <2>2, <3>3
  <2> QED  BY <2>1, <2>3 DEF t
<1> HIDE DEF P
<1>3. seq \in P  BY <1>1, <1>2, SequenceInduction
<1> QED  BY <1>3 DEF P

(* All or nothing of it. *)
LEMMA SelectedAll ==
  ASSUME NEW T, NEW B, NEW seq \in Seq(B)
  PROVE  /\ (\A i \in 1..Len(seq) : seq[i] \in T) => Selected(T, seq) = seq
         /\ (\A i \in 1..Len(seq) : seq[i] \notin T) => Selected(T, seq) = <<>>
<1>1. ASSUME \A i \in 1..Len(seq) : seq[i] \in T PROVE Selected(T, seq) = seq
  <2> DEFINE P == {s \in Seq(B) : Selected(B, s) = s}
  <2>1. <<>> \in P  BY SelectedEmpty
  <2>2. ASSUME NEW s \in Seq(B), NEW e \in B, s \in P PROVE Append(s, e) \in P
    BY <2>2, SelectedAppend, AppendProperties
  <2> HIDE DEF P
  <2>3. seq \in P  BY <2>1, <2>2, SequenceInduction
  <2>4. Selected(T, seq) = Selected(B, seq)  BY <1>1, SelectedSame
  <2> QED  BY <2>3, <2>4 DEF P
<1>2. ASSUME \A i \in 1..Len(seq) : seq[i] \notin T PROVE Selected(T, seq) = <<>>
  <2> DEFINE P == {s \in Seq(B) : Selected({}, s) = <<>>}
  <2>1. <<>> \in P  BY SelectedEmpty
  <2>2. ASSUME NEW s \in Seq(B), NEW e \in B, s \in P PROVE Append(s, e) \in P
    BY <2>2, SelectedAppend, AppendProperties
  <2> HIDE DEF P
  <2>3. seq \in P  BY <2>1, <2>2, SequenceInduction
  <2>4. Selected(T, seq) = Selected({}, seq)  BY <1>2, SelectedSame
  <2> QED  BY <2>3, <2>4 DEF P
<1> QED  BY <1>1, <1>2

LEMMA SelectedConcat ==
  ASSUME NEW T, NEW B, NEW s \in Seq(B), NEW t \in Seq(B)
  PROVE  Selected(T, s \o t) = Selected(T, s) \o Selected(T, t)
<1> DEFINE P == {u \in Seq(B) : Selected(T, s \o u) = Selected(T, s) \o Selected(T, u)}
           S == Selected(T, s)
<1>1. S \in Seq(B)  BY SelectedAppend
<1> HIDE DEF S
<1>2. <<>> \in P
  <2>1. s \o <<>> = s /\ S \o <<>> = S  BY <1>1, ConcatEmptySeq
  <2>2. <<>> \in Seq(B) /\ Selected(T, <<>>) = <<>>  BY SelectedEmpty
  <2> QED  BY <2>1, <2>2 DEF S
<1>3. ASSUME NEW u \in Seq(B), NEW e \in B, u \in P PROVE Append(u, e) \in P
  <2>1. s \o Append(u, e) = Append(s \o u, e) /\ s \o u \in Seq(B)
    BY ConcatAppend, ConcatProperties
  <2>2. Selected(T, Append(s \o u, e)) =
          IF e \in T THEN Append(Selected(T, s \o u), e) ELSE Selected(T, s \o u)
    <3>1. ASSUME NEW w \in Seq(B)
          PROVE  Selected(T, Append(w, e)) =
                   IF e \in T THEN Append(Selected(T, w), e) ELSE Selected(T, w)
      BY SelectedAppend
    <3> QED  BY <2>1, <3>1
  <2>3. Selected(T, Append(u, e)) =
          IF e \in T THEN Append(Selected(T, u), e) ELSE Selected(T, u)
    BY SelectedAppend
  <2>4. S \o Append(Selected(T, u), e) = Append(S \o Selected(T, u), e)
    BY <1>1, SelectedAppend, ConcatAppend
  <2>5. Append(u, e) \in Seq(B)  BY AppendProperties
  <2> QED  BY <1>3, <2>1, <2>2, <2>3, <2>4, <2>5 DEF S
<1> HIDE DEF P
<1>4. t \in P  BY <1>2, <1>3, SequenceInduction
<1> QED  BY <1>4 DEF P

(* What is in it. *)
LEMMA SelectedHas ==
  ASSUME NEW T, NEW B, NEW seq \in Seq(B)
  PROVE  ToSet(Selected(T, seq)) = {e \in ToSet(seq) : e \in T}
<1> DEFINE P == {s \in Seq(B) : ToSet(Selected(T, s)) = {e \in ToSet(s) : e \in T}}
<1>1. <<>> \in P
  <2>1. ToSet(<<>>) = {}  BY DEF ToSet
  <2> QED  BY <2>1, SelectedEmpty
<1>2. ASSUME NEW s \in Seq(B), NEW e \in B, s \in P PROVE Append(s, e) \in P
  <2>1. ToSet(Append(s, e)) = ToSet(s) \cup {e}  BY ToSetAppend
  <2>2. ToSet(Append(Selected(T, s), e)) = ToSet(Selected(T, s)) \cup {e}
    BY SelectedAppend, ToSetAppend
  <2>3. Append(s, e) \in Seq(B)  BY AppendProperties
  <2>4. Selected(T, Append(s, e)) =
          IF e \in T THEN Append(Selected(T, s), e) ELSE Selected(T, s)
    BY SelectedAppend
  <2>5. ToSet(Selected(T, s)) = {x \in ToSet(s) : x \in T}  BY <1>2
  <2> HIDE DEF P
  <2>6. ToSet(Selected(T, Append(s, e))) = {x \in ToSet(Append(s, e)) : x \in T}
    <3>1. CASE e \in T  BY <2>1, <2>2, <2>4, <2>5, <3>1
    <3>2. CASE e \notin T  BY <2>1, <2>4, <2>5, <3>2
    <3> QED  BY <3>1, <3>2
  <2> QED  BY <2>3, <2>6 DEF P
<1> HIDE DEF P
<1>3. seq \in P  BY <1>1, <1>2, SequenceInduction
<1> QED  BY <1>3 DEF P

-----------------------------------------------------------------------------
(* The review: every finding is counted, and cargo's own lines that pass for one. *)
Severities == {"Error", "Warning", "Info"}
ReviewInv ==
  /\ findings \in Seq(Severities)
  /\ found \in [Severities -> Nat] /\ own \in [Severities -> Nat]
  /\ \A s \in Severities : Number(findings, s) = found[s] + own[s]

LEMMA SaysIs ==
  ASSUME NEW x \in Nat, NEW y \in Nat, NEW z \in Nat
  PROVE  /\ Says(x, y, z) \in [Severities -> Nat]
         /\ Says(x, y, z)["Error"] = x /\ Says(x, y, z)["Warning"] = y /\ Says(x, y, z)["Info"] = z
<1>1. Says(x, y, z) \in [Severities -> Nat]  BY DEF Says, Severities
<1>2. Says(x, y, z)["Error"] = x /\ Says(x, y, z)["Warning"] = y /\ Says(x, y, z)["Info"] = z
  BY DEF Says
<1> QED  BY <1>1, <1>2

LEMMA FoundIs == Found \in [Severities -> Nat] /\ \A s \in Severities : Found[s] = 0
<1>1. Found \in [Severities -> Nat]  BY DEF Found, Severities
<1>2. \A s \in Severities : Found[s] = 0  BY DEF Found, Severities
<1> QED  BY <1>1, <1>2

LEMMA PlusIs ==
  ASSUME NEW a \in [Severities -> Nat], NEW b \in [Severities -> Nat]
  PROVE  /\ Plus(a, b) \in [Severities -> Nat]
         /\ \A s \in Severities : Plus(a, b)[s] = a[s] + b[s]
BY DEF Plus

(* What a check is read as: so much found, and so much said by cargo.       *)
ReadAs(new, finds, says) ==
  /\ new \in Seq(Severities)
  /\ finds \in [Severities -> Nat] /\ says \in [Severities -> Nat]
  /\ \A s \in Severities : Number(new, s) = finds[s] + says[s]

LEMMA CheckKeeps ==
  ASSUME ReviewInv, NEW number, NEW new, NEW finds, NEW says,
         ReadAs(new, finds, says), Check(number, new, finds, says)
  PROVE  ReviewInv'
<1>1. findings' = findings \o new /\ found' = Plus(found, finds) /\ own' = Plus(own, says)
  BY DEF Check
<1>2. new \in Seq(Severities) /\ findings \in Seq(Severities)  BY DEF ReadAs, ReviewInv
<1>3. /\ finds \in [Severities -> Nat] /\ says \in [Severities -> Nat]
      /\ found \in [Severities -> Nat] /\ own \in [Severities -> Nat]
  BY DEF ReadAs, ReviewInv
<1>4. /\ found' \in [Severities -> Nat] /\ own' \in [Severities -> Nat]
      /\ \A s \in Severities : found'[s] = found[s] + finds[s] /\ own'[s] = own[s] + says[s]
  BY <1>1, <1>3, PlusIs
<1>5. findings' \in Seq(Severities)  BY <1>1, <1>2, ConcatProperties
<1>6. ASSUME NEW s \in Severities PROVE Number(findings', s) = found'[s] + own'[s]
  <2>1. Number(findings', s) = Number(findings, s) + Number(new, s)
    BY <1>1, <1>2, NumberConcat
  <2>2. Number(findings, s) = found[s] + own[s] /\ Number(new, s) = finds[s] + says[s]
    BY DEF ReviewInv, ReadAs
  <2>3. found[s] \in Nat /\ own[s] \in Nat /\ finds[s] \in Nat /\ says[s] \in Nat  BY <1>3
  <2>4. found'[s] = found[s] + finds[s] /\ own'[s] = own[s] + says[s]  BY <1>4
  <2> QED  BY <2>1, <2>2, <2>3, <2>4
<1> QED  BY <1>4, <1>5, <1>6 DEF ReviewInv

(* So many times one severity, all found. *)
LEMMA TimesReadAs ==
  ASSUME NEW n \in Nat
  PROVE  /\ ReadAs(Times("Warning", n), Says(0, n, 0), Found)
         /\ ReadAs(Times("Info", n), Says(0, 0, n), Found)
<1>1. Severities = {"Error", "Warning", "Info"} /\ 0 \in Nat  BY DEF Severities
<1>2. ASSUME NEW w \in Severities
      PROVE  /\ Times(w, n) \in Seq(Severities)
             /\ \A s \in Severities : Number(Times(w, n), s) = IF w = s THEN n ELSE 0
  <2>1. Times(w, n) \in Seq(Severities)  BY DEF Times
  <2>2. \A s \in Severities : Number(Times(w, n), s) = IF w = s THEN n ELSE 0
    BY NumberOfAll
  <2> QED  BY <2>1, <2>2
<1>3. Found \in [Severities -> Nat] /\ \A s \in Severities : Found[s] = 0  BY FoundIs
<1>4. ReadAs(Times("Warning", n), Says(0, n, 0), Found)
  <2> DEFINE finds == Says(0, n, 0)
  <2>1. finds \in [Severities -> Nat]
        /\ finds["Error"] = 0 /\ finds["Warning"] = n /\ finds["Info"] = 0
    BY <1>1, SaysIs
  <2> HIDE DEF finds
  <2>2. \A s \in Severities : Number(Times("Warning", n), s) = finds[s] + Found[s]
    <3>1. "Warning" \in Severities  BY <1>1
    <3>2. \A s \in Severities : Number(Times("Warning", n), s) = IF "Warning" = s THEN n ELSE 0
      BY <1>2, <3>1
    <3>3. \A s \in Severities : finds[s] + Found[s] = IF "Warning" = s THEN n ELSE 0
      BY <1>1, <1>3, <2>1
    <3> QED  BY <3>2, <3>3
  <2> QED  BY <1>1, <1>2, <1>3, <2>1, <2>2 DEF ReadAs, finds
<1>5. ReadAs(Times("Info", n), Says(0, 0, n), Found)
  <2> DEFINE finds == Says(0, 0, n)
  <2>1. finds \in [Severities -> Nat]
        /\ finds["Error"] = 0 /\ finds["Warning"] = 0 /\ finds["Info"] = n
    BY <1>1, SaysIs
  <2> HIDE DEF finds
  <2>2. \A s \in Severities : Number(Times("Info", n), s) = finds[s] + Found[s]
    <3>1. "Info" \in Severities  BY <1>1
    <3>2. \A s \in Severities : Number(Times("Info", n), s) = IF "Info" = s THEN n ELSE 0
      BY <1>2, <3>1
    <3>3. \A s \in Severities : finds[s] + Found[s] = IF "Info" = s THEN n ELSE 0
      BY <1>1, <1>3, <2>1
    <3> QED  BY <3>2, <3>3
  <2> QED  BY <1>1, <1>2, <1>3, <2>1, <2>2 DEF ReadAs, finds
<1> QED  BY <1>4, <1>5

LEMMA NothingReadAs == ReadAs(<<>>, Found, Found)
<1> DEFINE none == <<>>
<1>1. none \in Seq(Severities)  OBVIOUS
<1>2. \A s \in Severities : Number(none, s) = 0  BY NumberEmpty
<1> HIDE DEF none
<1>3. \A s \in Severities : Number(none, s) = Found[s] + Found[s]  BY <1>2, FoundIs
<1> QED  BY <1>1, <1>3, FoundIs DEF ReadAs, none

-----------------------------------------------------------------------------
(* The lines of clippy, and what they are read as. *)
Kinds == {"lint", "code", "cargoWarning", "cargoError", "emitted", "ends", "other"}
Countable == {"lint", "code", "cargoWarning", "cargoError"}
ClippyLines == {ClippyLine[k] : k \in Kinds}
Diagnostics == {l \in ClippyLines : IsDiagnostic(l)}
SeverityOf == [l \in ClippyLines |-> IF IsDiagnostic(l) THEN Severity[l.start] ELSE "Info"]
Printed(said) == Mapped(ClippyLine, said)
ReadsOf(said) == Mapped(SeverityOf, Selected(Diagnostics, Printed(said)))

Finds(said) == Says(HowMany(said, "lint") + HowMany(said, "code"), 0, 0)
CargoSays(said) == Says(HowMany(said, "cargoError"), HowMany(said, "cargoWarning"), 0)

LEMMA ClippyLineIs ==
  ASSUME NEW k \in Kinds
  PROVE  /\ ClippyLine[k] \in Diagnostics <=> k \in Countable
         /\ k \in Countable =>
              SeverityOf[ClippyLine[k]] = IF k = "cargoWarning" THEN "Warning" ELSE "Error"
<1> DEFINE l == ClippyLine[k]
<1>1. l \in ClippyLines  BY DEF ClippyLines
<1>2. IsDiagnostic(l) <=> k \in Countable
  <2>1. CASE k \in {"lint", "cargoError"}
    BY <2>1 DEF ClippyLine, Line, IsDiagnostic, Severity, Countable
  <2>2. CASE k \in {"code", "cargoWarning"}
    BY <2>2 DEF ClippyLine, Line, IsDiagnostic, Severity, Countable
  <2>3. CASE k \in {"emitted", "ends", "other"}
    BY <2>3 DEF ClippyLine, Line, IsDiagnostic, Severity, Countable
  <2> QED  BY <2>1, <2>2, <2>3 DEF Kinds
<1>3. ASSUME k \in Countable
      PROVE  Severity[l.start] = IF k = "cargoWarning" THEN "Warning" ELSE "Error"
  BY <1>3 DEF ClippyLine, Line, Severity, Countable
<1> HIDE DEF l
<1>4. l \in Diagnostics <=> k \in Countable  BY <1>1, <1>2 DEF Diagnostics
<1>5. ASSUME k \in Countable PROVE SeverityOf[l] = Severity[l.start]
  BY <1>1, <1>2, <1>5 DEF SeverityOf
<1> QED  BY <1>3, <1>4, <1>5 DEF l

LEMMA SeverityOfType == SeverityOf \in [ClippyLines -> Severities]
<1>1. ASSUME NEW k \in Kinds PROVE SeverityOf[ClippyLine[k]] \in Severities
  <2>1. ClippyLine[k] \in ClippyLines  BY DEF ClippyLines
  <2>2. CASE k \in Countable  BY <2>2, ClippyLineIs DEF Severities
  <2>3. CASE k \notin Countable
    <3>1. ClippyLine[k] \notin Diagnostics  BY <2>3, ClippyLineIs
    <3>2. ~IsDiagnostic(ClippyLine[k])  BY <2>1, <3>1 DEF Diagnostics
    <3> QED  BY <2>1, <3>2 DEF SeverityOf, Severities
  <2> QED  BY <2>2, <2>3
<1>2. \A l \in ClippyLines : SeverityOf[l] \in Severities  BY <1>1 DEF ClippyLines
<1> QED  BY <1>2 DEF SeverityOf

(* A line more. *)
LEMMA ReadsOneMore ==
  ASSUME NEW u \in Seq(Kinds), NEW e \in Kinds
  PROVE  /\ ReadsOf(u) \in Seq(Severities)
         /\ \A s \in Severities :
              Number(ReadsOf(Append(u, e)), s) =
                Number(ReadsOf(u), s)
                  + IF e \in Countable /\ s = (IF e = "cargoWarning" THEN "Warning" ELSE "Error")
                    THEN 1 ELSE 0
<1> DEFINE old == Printed(u)
           l == ClippyLine[e]
           chosen == Selected(Diagnostics, old)
<1>1. ClippyLine \in [Kinds -> ClippyLines] /\ l \in ClippyLines
  <2>1. ClippyLine = [k \in Kinds |-> ClippyLine[k]]  BY DEF ClippyLine, Kinds
  <2> QED  BY <2>1 DEF ClippyLines
<1>2. old \in Seq(ClippyLines) /\ Printed(Append(u, e)) = Append(old, l)
  <2>1. Mapped(ClippyLine, u) \in Seq(ClippyLines)  BY <1>1, MappedType
  <2>2. Mapped(ClippyLine, Append(u, e)) = Append(Mapped(ClippyLine, u), ClippyLine[e])
    BY <1>1, MappedMore
  <2> QED  BY <2>1, <2>2 DEF Printed
<1> HIDE DEF old
<1>3. /\ chosen \in Seq(ClippyLines)
      /\ Selected(Diagnostics, Append(old, l)) =
           IF l \in Diagnostics THEN Append(chosen, l) ELSE chosen
  BY <1>1, <1>2, SelectedAppend
<1> HIDE DEF chosen, l
<1>4. /\ Mapped(SeverityOf, chosen) \in Seq(Severities)
      /\ Mapped(SeverityOf, Append(chosen, l)) = Append(Mapped(SeverityOf, chosen), SeverityOf[l])
  <2>1. l \in ClippyLines /\ chosen \in Seq(ClippyLines)  BY <1>1, <1>3
  <2>2. Mapped(SeverityOf, chosen) \in Seq(Severities)  BY <2>1, SeverityOfType, MappedType
  <2>3. Mapped(SeverityOf, Append(chosen, l)) = Append(Mapped(SeverityOf, chosen), SeverityOf[l])
    BY <2>1, SeverityOfType, MappedMore, Zenon
  <2> QED  BY <2>2, <2>3
<1>5. ReadsOf(u) = Mapped(SeverityOf, chosen)  BY DEF ReadsOf, chosen, old
<1>6. ReadsOf(Append(u, e)) =
        IF l \in Diagnostics THEN Append(ReadsOf(u), SeverityOf[l]) ELSE ReadsOf(u)
  BY <1>2, <1>3, <1>4, <1>5 DEF ReadsOf
<1>7. l \in Diagnostics <=> e \in Countable  BY ClippyLineIs DEF l
<1>8. e \in Countable => SeverityOf[l] = IF e = "cargoWarning" THEN "Warning" ELSE "Error"
  BY ClippyLineIs DEF l
<1>9. SeverityOf[l] \in Severities  BY <1>1, SeverityOfType
<1>10. ASSUME NEW s \in Severities
       PROVE  /\ Number(ReadsOf(u), s) \in Nat
              /\ Number(Append(ReadsOf(u), SeverityOf[l]), s) =
                   Number(ReadsOf(u), s) + IF SeverityOf[l] = s THEN 1 ELSE 0
  BY <1>4, <1>5, <1>9, NumberAppend
<1>11. ASSUME NEW s \in Severities
       PROVE  Number(ReadsOf(Append(u, e)), s) =
                Number(ReadsOf(u), s)
                  + IF e \in Countable /\ s = (IF e = "cargoWarning" THEN "Warning" ELSE "Error")
                    THEN 1 ELSE 0
  <2>1. CASE e \in Countable  BY <1>6, <1>7, <1>8, <1>10, <2>1
  <2>2. CASE e \notin Countable  BY <1>6, <1>7, <1>10, <2>2
  <2> QED  BY <2>1, <2>2
<1> QED  BY <1>4, <1>5, <1>11

(* Line by line, the numbers of findings are those of the countable lines.  *)
LEMMA ReadsCount ==
  ASSUME NEW said \in Seq(Kinds)
  PROVE  /\ Number(ReadsOf(said), "Error") =
              Number(said, "lint") + Number(said, "code") + Number(said, "cargoError")
         /\ Number(ReadsOf(said), "Warning") = Number(said, "cargoWarning")
         /\ Number(ReadsOf(said), "Info") = 0
<1> DEFINE Errors(u) == Number(ReadsOf(u), "Error") =
                          Number(u, "lint") + Number(u, "code") + Number(u, "cargoError")
           Warnings(u) == Number(ReadsOf(u), "Warning") = Number(u, "cargoWarning")
           Infos(u) == Number(ReadsOf(u), "Info") = 0
           P == {u \in Seq(Kinds) : Errors(u) /\ Warnings(u) /\ Infos(u)}
<1>1. <<>> \in P
  <2> DEFINE none == <<>>
  <2>1. none \in Seq(Kinds)  OBVIOUS
  <2>2. Printed(none) = none  BY DEF Printed, Mapped
  <2>3. Selected(Diagnostics, none) = none  BY SelectedEmpty
  <2>4. Mapped(SeverityOf, none) = none  BY DEF Mapped
  <2>5. \A s : Number(none, s) = 0  BY NumberEmpty
  <2> HIDE DEF none
  <2>6. ReadsOf(none) = none  BY <2>2, <2>3, <2>4 DEF ReadsOf
  <2> QED  BY <2>1, <2>5, <2>6 DEF none
<1>2. ASSUME NEW u \in Seq(Kinds), NEW e \in Kinds, u \in P PROVE Append(u, e) \in P
  <2> DEFINE v == Append(u, e)
             r == ReadsOf(u)
             q == ReadsOf(v)
  <2>1. v \in Seq(Kinds)  BY AppendProperties
  <2>2. Errors(u) /\ Warnings(u) /\ Infos(u)  BY <1>2
  <2>3. "Error" \in Severities /\ "Warning" \in Severities /\ "Info" \in Severities
    BY DEF Severities
  <2>4. \A s \in Severities :
          Number(q, s) = Number(r, s)
            + IF e \in Countable /\ s = (IF e = "cargoWarning" THEN "Warning" ELSE "Error")
              THEN 1 ELSE 0
    BY ReadsOneMore
  <2>5. \A k : Number(u, k) \in Nat /\ Number(v, k) = Number(u, k) + IF e = k THEN 1 ELSE 0
    BY NumberAppend
  <2> HIDE DEF v, r, q
  <2>6. Number(q, "Error") = Number(r, "Error") + IF e \in {"lint", "code", "cargoError"} THEN 1 ELSE 0
    BY <2>3, <2>4 DEF Countable
  <2>7. Number(q, "Warning") = Number(r, "Warning") + IF e = "cargoWarning" THEN 1 ELSE 0
    BY <2>3, <2>4 DEF Countable
  <2>8. Number(q, "Info") = Number(r, "Info") + 0
    BY <2>3, <2>4 DEF Countable
  <2>9. /\ Number(v, "lint") = Number(u, "lint") + IF e = "lint" THEN 1 ELSE 0
        /\ Number(v, "code") = Number(u, "code") + IF e = "code" THEN 1 ELSE 0
        /\ Number(v, "cargoError") = Number(u, "cargoError") + IF e = "cargoError" THEN 1 ELSE 0
        /\ Number(v, "cargoWarning") = Number(u, "cargoWarning") + IF e = "cargoWarning" THEN 1 ELSE 0
        /\ Number(u, "lint") \in Nat /\ Number(u, "code") \in Nat
        /\ Number(u, "cargoError") \in Nat /\ Number(u, "cargoWarning") \in Nat
    BY <2>5
  <2>10. Errors(v)
    <3>1. Number(r, "Error") = Number(u, "lint") + Number(u, "code") + Number(u, "cargoError")
      BY <2>2 DEF r
    <3>2. Number(q, "Error") = Number(v, "lint") + Number(v, "code") + Number(v, "cargoError")
      <4> DEFINE a == Number(u, "lint")
                 b == Number(u, "code")
                 c == Number(u, "cargoError")
                 x == Number(v, "lint")
                 y == Number(v, "code")
                 z == Number(v, "cargoError")
                 old == Number(r, "Error")
                 new == Number(q, "Error")
      <4>1. a \in Nat /\ b \in Nat /\ c \in Nat /\ old = a + b + c  BY <2>9, <3>1
      <4>2. /\ new = old + IF e \in {"lint", "code", "cargoError"} THEN 1 ELSE 0
            /\ x = a + IF e = "lint" THEN 1 ELSE 0
            /\ y = b + IF e = "code" THEN 1 ELSE 0
            /\ z = c + IF e = "cargoError" THEN 1 ELSE 0
        BY <2>6, <2>9
      <4> HIDE DEF a, b, c, x, y, z, old, new
      <4>3. CASE e = "lint"
        <5>1. new = old + 1 /\ x = a + 1 /\ y = b + 0 /\ z = c + 0  BY <4>2, <4>3
        <5> QED  BY <4>1, <5>1 DEF new, x, y, z
      <4>4. CASE e = "code"
        <5>1. new = old + 1 /\ x = a + 0 /\ y = b + 1 /\ z = c + 0  BY <4>2, <4>4
        <5> QED  BY <4>1, <5>1 DEF new, x, y, z
      <4>5. CASE e = "cargoError"
        <5>1. new = old + 1 /\ x = a + 0 /\ y = b + 0 /\ z = c + 1  BY <4>2, <4>5
        <5> QED  BY <4>1, <5>1 DEF new, x, y, z
      <4>6. CASE e \notin {"lint", "code", "cargoError"}
        <5>1. new = old + 0 /\ x = a + 0 /\ y = b + 0 /\ z = c + 0  BY <4>2, <4>6
        <5> QED  BY <4>1, <5>1 DEF new, x, y, z
      <4> QED  BY <4>3, <4>4, <4>5, <4>6
    <3> QED  BY <3>2 DEF q
  <2>11. Warnings(v)
    <3>1. Number(r, "Warning") = Number(u, "cargoWarning")  BY <2>2 DEF r
    <3>2. Number(q, "Warning") = Number(v, "cargoWarning")  BY <2>7, <2>9, <3>1
    <3> QED  BY <3>2 DEF q
  <2>12. Infos(v)
    <3>1. Number(r, "Info") = 0  BY <2>2 DEF r
    <3>2. Number(q, "Info") = 0  BY <2>8, <3>1
    <3> QED  BY <3>2 DEF q
  <2> QED  BY <2>1, <2>10, <2>11, <2>12 DEF v
<1> HIDE DEF P
<1>3. said \in P  BY <1>1, <1>2, SequenceInduction
<1> QED  BY <1>3 DEF P

(* What the parser makes of the lines. *)
LEMMA ClippyParses ==
  ASSUME NEW said \in Seq(Kinds)
  PROVE  ParseClippyOutput([stdout |-> <<>>, stderr |-> Printed(said)]) = ReadsOf(said)
<1> DEFINE none == <<>>
           text == Printed(said)
           prints == [stdout |-> none, stderr |-> text]
           T == {l \in ToSet(text) : IsDiagnostic(l)}
           chosen == Selected(Diagnostics, text)
<1>1. prints.stdout = none /\ prints.stderr = text  OBVIOUS
<1>2. text \in Seq(ClippyLines)
  <2>1. ClippyLine = [k \in Kinds |-> ClippyLine[k]]  BY DEF ClippyLine, Kinds
  <2>2. ClippyLine \in [Kinds -> ClippyLines]  BY <2>1 DEF ClippyLines
  <2> QED  BY <2>2, MappedType DEF Printed
<1> HIDE DEF none, text, prints
<1>3. Selected(T, text) = chosen
  <2>0. DOMAIN text = 1..Len(text)  BY <1>2
  <2>1. \A i \in 1..Len(text) : text[i] \in ClippyLines /\ text[i] \in ToSet(text)
    BY <1>2, <2>0 DEF ToSet
  <2>2. \A i \in 1..Len(text) : text[i] \in T <=> text[i] \in Diagnostics
    BY <2>1 DEF Diagnostics
  <2> HIDE DEF T
  <2> QED  BY <1>2, <2>2, SelectedSame
<1>4. ParseClippyOutput(prints) = [i \in DOMAIN chosen |-> Severity[chosen[i].start]]
  <2>1. (IF prints.stderr = <<>> THEN prints.stdout ELSE prints.stderr) = text
    BY <1>1 DEF none
  <2> HIDE DEF chosen
  <2> QED  BY <1>3, <2>1 DEF ParseClippyOutput
<1>5. \A i \in DOMAIN chosen : chosen[i] \in Diagnostics
  <2>1. ToSet(chosen) = {l \in ToSet(text) : l \in Diagnostics}  BY <1>2, SelectedHas
  <2>2. \A i \in DOMAIN chosen : chosen[i] \in ToSet(chosen)  BY DEF ToSet
  <2> QED  BY <2>1, <2>2
<1> HIDE DEF chosen
<1>6. \A l \in Diagnostics : SeverityOf[l] = Severity[l.start]  BY DEF SeverityOf, Diagnostics
<1>7. [i \in DOMAIN chosen |-> Severity[chosen[i].start]] = Mapped(SeverityOf, chosen)
  BY <1>5, <1>6 DEF Mapped
<1> QED  BY <1>4, <1>7 DEF ReadsOf, chosen, text, prints, none

LEMMA ClippyReads ==
  ASSUME NEW said \in Seq(Kinds)
  PROVE  ReadAs(ReadsOf(said), Finds(said), CargoSays(said))
<1> DEFINE finds == Finds(said)
           says == CargoSays(said)
           Nr(k) == Number(said, k)
<1>1. "other" \in Kinds  BY DEF Kinds
<1>2. \A k : Nr(k) \in Nat  BY <1>1, NumberAppend
<1>3. finds = Says(Nr("lint") + Nr("code"), 0, 0) /\ says = Says(Nr("cargoError"), Nr("cargoWarning"), 0)
  BY DEF Finds, CargoSays, HowMany, Number
<1>4. /\ Number(ReadsOf(said), "Error") = Nr("lint") + Nr("code") + Nr("cargoError")
      /\ Number(ReadsOf(said), "Warning") = Nr("cargoWarning")
      /\ Number(ReadsOf(said), "Info") = 0
  BY ReadsCount
<1> HIDE DEF Nr
<1>5. Nr("lint") + Nr("code") \in Nat /\ Nr("cargoError") \in Nat /\ Nr("cargoWarning") \in Nat
      /\ 0 \in Nat
  BY <1>2
<1>6. /\ finds \in [Severities -> Nat] /\ finds["Error"] = Nr("lint") + Nr("code")
      /\ finds["Warning"] = 0 /\ finds["Info"] = 0
  BY <1>3, <1>5, SaysIs
<1>7. /\ says \in [Severities -> Nat] /\ says["Error"] = Nr("cargoError")
      /\ says["Warning"] = Nr("cargoWarning") /\ says["Info"] = 0
  BY <1>3, <1>5, SaysIs
<1> HIDE DEF finds, says
<1>8. ReadsOf(said) \in Seq(Severities)  BY <1>1, ReadsOneMore
<1>9. \A s \in Severities : Number(ReadsOf(said), s) = finds[s] + says[s]
  <2>1. Number(ReadsOf(said), "Error") = finds["Error"] + says["Error"]
    BY <1>2, <1>4, <1>6, <1>7
  <2>2. Number(ReadsOf(said), "Warning") = finds["Warning"] + says["Warning"]
    BY <1>2, <1>4, <1>6, <1>7
  <2>3. Number(ReadsOf(said), "Info") = finds["Info"] + says["Info"]  BY <1>4, <1>6, <1>7
  <2> QED  BY <2>1, <2>2, <2>3 DEF Severities
<1> QED  BY <1>6, <1>7, <1>8, <1>9 DEF ReadAs, finds, says

LEMMA FmtReads ==
  ASSUME NEW n \in 0..2, NEW success \in BOOLEAN
  PROVE  ParseFmtOutput([stdout |-> FlattenSeq([i \in 1..n |-> <<"diff", "other", "blank">>]),
                         success |-> success]) = Times("Warning", n)
<1> DEFINE x == <<"diff", "other", "blank">>
           seqs == [i \in 1..n |-> x]
           text == FlattenSeq(seqs)
           D == {"diff"}
           B == {"diff", "other", "blank"}
           none == <<>>
           diffs == Selected(D, text)
<1>1. x \in Seq(B) /\ none \in Seq(B) /\ none \in Seq(Seq(B))  OBVIOUS
<1>2. Selected(D, x) = <<"diff">>
  <2> DEFINE a == <<"diff">>
             b == <<"other">>
             c == <<"blank">>
  <2>1. x = a \o b \o c  OBVIOUS
  <2>2. a \in Seq(B) /\ Len(a) = 1 /\ a[1] = "diff"  OBVIOUS
  <2>3. b \in Seq(B) /\ Len(b) = 1 /\ b[1] = "other"  OBVIOUS
  <2>4. c \in Seq(B) /\ Len(c) = 1 /\ c[1] = "blank"  OBVIOUS
  <2> HIDE DEF x, a, b, c
  <2>5. Selected(D, a) = a /\ Selected(D, b) = none /\ Selected(D, c) = none
    <3>1. \A i \in 1..1 : i = 1  OBVIOUS
    <3>2. "diff" \in D /\ "other" \notin D /\ "blank" \notin D  OBVIOUS
    <3> HIDE DEF D, B
    <3>3. (\A i \in 1..Len(a) : a[i] \in D) /\ (\A i \in 1..Len(b) : b[i] \notin D)
          /\ \A i \in 1..Len(c) : c[i] \notin D
      BY <2>2, <2>3, <2>4, <3>1, <3>2
    <3> QED  BY <2>2, <2>3, <2>4, <3>3, SelectedAll
  <2>6. a \o b \in Seq(B) /\ a \o none = a  BY <2>2, <2>3, ConcatProperties, ConcatEmptySeq
  <2>7. Selected(D, a \o b) = a  BY <2>2, <2>3, <2>5, <2>6, SelectedConcat
  <2>8. Selected(D, (a \o b) \o c) = Selected(D, a \o b) \o Selected(D, c)
    BY <2>4, <2>6, SelectedConcat
  <2>9. Selected(D, x) = a  BY <2>1, <2>5, <2>6, <2>7, <2>8
  <2> QED  BY <2>9 DEF a
<1> HIDE DEF x
<1>3. FlattenSeq(none) = none
  <2>1. FlattenSeq(none) = Folded(Concat(B), none, none)  BY <1>1, FlattenIs
  <2>2. Foldable(Seq(B), Seq(B), Concat(B), none, none)  BY <1>1, ConcatFolds
  <2> HIDE DEF B, none
  <2>3. Concat(B) \in [Seq(B) \X Seq(B) -> Seq(B)] /\ none \in Seq(B)  BY <2>2 DEF Foldable
  <2> QED  BY <2>1, <2>3, FoldedEmpty DEF none
<1>4. FlattenSeq(<<x>>) = x /\ FlattenSeq(<<x, x>>) = x \o x
  <2>1. Append(none, x) = <<x>> /\ <<x>> \in Seq(Seq(B)) /\ Append(<<x>>, x) = <<x, x>>
    <3>1. <<x>> \in Seq(Seq(B))  BY <1>1
    <3> QED  BY <1>1, <3>1, Appended
  <2>2. FlattenSeq(<<x>>) = FlattenSeq(none) \o x  BY <1>1, <2>1, FlattenAppend
  <2>3. none \o x = x  BY <1>1, ConcatEmptySeq
  <2>4. FlattenSeq(<<x, x>>) = FlattenSeq(<<x>>) \o x  BY <1>1, <2>1, FlattenAppend
  <2> QED  BY <1>3, <2>2, <2>3, <2>4
<1>5. CASE n = 0
  <2>1. seqs = none  BY <1>5
  <2>2. text = none /\ diffs = none  BY <1>3, <2>1, SelectedEmpty
  <2> HIDE DEF text
  <2>3. ParseFmtOutput([stdout |-> text, success |-> success]) = Times("Warning", n)
    BY <1>5, <2>2 DEF ParseFmtOutput, Times
  <2> QED  BY <2>3 DEF text, x
<1>6. CASE n = 1
  <2>1. seqs = <<x>>  BY <1>6
  <2>2. text = x  BY <1>4, <2>1
  <2>3. diffs = <<"diff">>  BY <1>2, <2>2
  <2> HIDE DEF text
  <2>4. ParseFmtOutput([stdout |-> text, success |-> success]) = [i \in 1..1 |-> "Warning"]
    BY <2>3 DEF ParseFmtOutput
  <2> QED  BY <1>6, <2>4 DEF text, x, Times
<1>7. CASE n = 2
  <2>1. seqs = <<x, x>>  BY <1>7
  <2>2. text = x \o x  BY <1>4, <2>1
  <2>3. diffs = <<"diff">> \o <<"diff">>
    <3>1. Selected(D, x \o x) = Selected(D, x) \o Selected(D, x)  BY <1>1, SelectedConcat
    <3> QED  BY <1>2, <2>2, <3>1
  <2>4. diffs = <<"diff", "diff">>  BY <2>3
  <2> HIDE DEF text
  <2>5. ParseFmtOutput([stdout |-> text, success |-> success]) = [i \in 1..2 |-> "Warning"]
    BY <2>4 DEF ParseFmtOutput
  <2> QED  BY <1>7, <2>5 DEF text, x, Times
<1> QED  BY <1>5, <1>6, <1>7

LEMMA FmtFailureReads ==
  ParseFmtOutput([stdout |-> <<"other">>, success |-> FALSE]) = Times("Warning", 1)
<1> DEFINE text == <<"other">>
           D == {"diff"}
           none == <<>>
<1>1. text \in Seq({"other"}) /\ DOMAIN text = 1..1 /\ Len(text) = 1 /\ text[1] = "other"
  OBVIOUS
<1>2. Selected(D, text) = none
  <2>1. \A i \in 1..Len(text) : text[i] \notin D  BY <1>1
  <2> HIDE DEF text, D
  <2> QED  BY <1>1, <2>1, SelectedAll
<1>3. \E i \in DOMAIN text : text[i] # "blank"  BY <1>1
<1> HIDE DEF text
<1>4. ParseFmtOutput([stdout |-> text, success |-> FALSE]) = <<"Warning">>
  BY <1>2, <1>3 DEF ParseFmtOutput
<1>5. <<"Warning">> = [i \in 1..1 |-> "Warning"]  OBVIOUS
<1> QED  BY <1>4, <1>5 DEF Times, text

LEMMA GrepReads ==
  ASSUME NEW n \in Nat
  PROVE  ParseTodoOutput([stdout |-> [i \in 1..n |-> 3]]) = Times("Info", n)
<1> DEFINE text == [i \in 1..n |-> 3]
           T == {parts \in ToSet(text) : parts >= 2}
<1>1. text \in Seq(Nat) /\ Len(text) = n /\ DOMAIN text = 1..n  OBVIOUS
<1>2. \A i \in 1..Len(text) : text[i] \in T  BY <1>1 DEF ToSet
<1> HIDE DEF T
<1>3. Selected(T, text) = text  BY <1>1, <1>2, SelectedAll
<1> QED  BY <1>1, <1>3 DEF ParseTodoOutput, Times, T

LEMMA NotStartedReads ==
  /\ ParseClippyOutput(NotStarted) = <<>>
  /\ ParseFmtOutput(NotStarted) = <<>>
  /\ ParseTodoOutput(NotStarted) = <<>>
<1> DEFINE none == <<>>
           l == Line("other", FALSE)
           text == <<l>>
           T == {k \in ToSet(text) : IsDiagnostic(k)}
<1>1. NotStarted.stdout = none /\ NotStarted.stderr = text  BY DEF NotStarted
<1>2. \A U : Selected(U, none) = none  BY SelectedEmpty
<1>3. ~IsDiagnostic(l)  BY DEF IsDiagnostic, Line, Severity
<1>4. text \in Seq({l}) /\ Len(text) = 1 /\ text[1] = l /\ text # none  OBVIOUS
<1>5. Selected(T, text) = none
  <2>1. l \notin T  BY <1>3
  <2> HIDE DEF T, l, text
  <2>2. \A i \in 1..Len(text) : text[i] \notin T  BY <1>4, <2>1
  <2> QED  BY <1>4, <2>2, SelectedAll
<1>6. ParseClippyOutput(NotStarted) = none
  <2>1. ParseClippyOutput(NotStarted) =
          LET d == Selected(T, text) IN [i \in DOMAIN d |-> Severity[d[i].start]]
    <3> HIDE DEF text
    <3> QED  BY <1>1, <1>4 DEF ParseClippyOutput
  <2> HIDE DEF text, T
  <2> QED  BY <1>5, <2>1
<1>7. ParseFmtOutput(NotStarted) = none  BY <1>1, <1>2 DEF ParseFmtOutput
<1>8. ParseTodoOutput(NotStarted) = none  BY <1>1, <1>2 DEF ParseTodoOutput
<1> QED  BY <1>6, <1>7, <1>8

LEMMA ClippyKeeps ==
  ASSUME ReviewInv, NEW said \in Seq(Kinds), ClippyPrints(said)
  PROVE  ReviewInv'
<1> DEFINE text == [i \in DOMAIN said |-> ClippyLine[said[i]]]
<1>1. Check(1, ParseClippyOutput([stdout |-> <<>>, stderr |-> text]), Finds(said), CargoSays(said))
  BY DEF ClippyPrints, Finds, CargoSays
<1>2. text = Printed(said)  BY DEF Printed, Mapped
<1> HIDE DEF text
<1>3. Check(1, ReadsOf(said), Finds(said), CargoSays(said))  BY <1>1, <1>2, ClippyParses
<1> QED  BY <1>3, ClippyReads, CheckKeeps

LEMMA RunCheckKeeps == ReviewInv /\ RunCheck => ReviewInv'
<1> SUFFICES ASSUME ReviewInv, RunCheck PROVE ReviewInv'  OBVIOUS
<1>1. CASE RunClippy
  <2>1. PICK n \in 0..3 : \E said \in [1..n -> DOMAIN ClippyLine] : ClippyPrints(said)
    BY <1>1 DEF RunClippy
  <2>2. PICK said \in [1..n -> DOMAIN ClippyLine] : ClippyPrints(said)  BY <2>1
  <2>3. DOMAIN ClippyLine = Kinds  BY DEF ClippyLine, Kinds
  <2>4. said \in Seq(Kinds)  BY <2>2, <2>3
  <2> QED  BY <2>2, <2>4, ClippyKeeps
<1>2. CASE RunFmt
  <2>1. ASSUME NEW n \in 0..2, NEW success \in BOOLEAN,
               Check(2, ParseFmtOutput(
                          [stdout |-> FlattenSeq([i \in 1..n |-> <<"diff", "other", "blank">>]),
                           success |-> success]), Says(0, n, 0), Found)
        PROVE  ReviewInv'
    <3>1. n \in Nat  OBVIOUS
    <3>2. Check(2, Times("Warning", n), Says(0, n, 0), Found)  BY <2>1, FmtReads
    <3>3. ReadAs(Times("Warning", n), Says(0, n, 0), Found)  BY <3>1, TimesReadAs
    <3> QED  BY <3>2, <3>3, CheckKeeps
  <2>2. ASSUME Check(2, ParseFmtOutput([stdout |-> <<"other">>, success |-> FALSE]),
                     Says(0, 1, 0), Found)
        PROVE  ReviewInv'
    <3>1. 1 \in Nat  OBVIOUS
    <3>2. Check(2, Times("Warning", 1), Says(0, 1, 0), Found)  BY <2>2, FmtFailureReads
    <3>3. ReadAs(Times("Warning", 1), Says(0, 1, 0), Found)  BY <3>1, TimesReadAs
    <3> QED  BY <3>2, <3>3, CheckKeeps
  <2> QED  BY <1>2, <2>1, <2>2 DEF RunFmt
<1>3. CASE RunGrep
  <2>1. PICK n \in 0..2 :
          Check(3, ParseTodoOutput([stdout |-> [i \in 1..n |-> 3]]), Says(0, 0, n), Found)
    BY <1>3 DEF RunGrep
  <2>2. n \in Nat  OBVIOUS
  <2>3. Check(3, Times("Info", n), Says(0, 0, n), Found)  BY <2>1, <2>2, GrepReads
  <2>4. ReadAs(Times("Info", n), Says(0, 0, n), Found)  BY <2>2, TimesReadAs
  <2> QED  BY <2>3, <2>4, CheckKeeps
<1>4. CASE CannotStart
  <2>1. PICK number \in {1, 2, 3} : Check(number, <<>>, Found, Found)
    BY <1>4, NotStartedReads DEF CannotStart
  <2> QED  BY <2>1, NothingReadAs, CheckKeeps
<1> QED  BY <1>1, <1>2, <1>3, <1>4 DEF RunCheck

LEMMA ReviewIsRight == ReviewInv => ReviewReportIsRight
<1> SUFFICES ASSUME ReviewInv PROVE ReviewReportIsRight  OBVIOUS
<1> DEFINE report == BuildReviewReport(findings)
           Nr(s) == Number(findings, s)
<1>1. /\ report["Error"] = Nr("Error")
      /\ report["Warning"] = Nr("Warning")
      /\ report["Info"] = Nr("Info")
      /\ report.clean <=> findings = <<>>
  BY DEF BuildReviewReport, Number
<1>2. /\ findings \in Seq(Severities)
      /\ found \in [Severities -> Nat] /\ own \in [Severities -> Nat]
      /\ \A s \in Severities : Nr(s) = found[s] + own[s]
  BY DEF ReviewInv
<1>3. \A s \in DOMAIN found : report[s] = found[s] + own[s]
  <2>1. \A s \in Severities : report[s] = Nr(s)
    <3> HIDE DEF report, Nr
    <3> QED  BY <1>1 DEF Severities
  <2> QED  BY <1>2, <2>1
<1>4. (findings = <<>>) <=> (found = Found /\ own = Found)
  <2>1. ASSUME findings = <<>> PROVE found = Found /\ own = Found
    <3>1. \A s \in Severities : Nr(s) = 0  BY <2>1, NumberEmpty
    <3>2. ASSUME NEW s \in Severities PROVE found[s] = 0 /\ own[s] = 0
      <4>1. found[s] \in Nat /\ own[s] \in Nat /\ found[s] + own[s] = 0  BY <1>2, <3>1
      <4> QED  BY <4>1
    <3>3. Found \in [Severities -> Nat] /\ \A s \in Severities : Found[s] = 0  BY FoundIs
    <3> QED  BY <1>2, <3>2, <3>3
  <2>2. ASSUME found = Found, own = Found, findings # <<>> PROVE FALSE
    <3>1. \A s \in Severities : Nr(s) = 0  BY <1>2, <2>2, FoundIs
    <3>2. PICK t \in Seq(Severities) : \E e \in Severities : findings = Append(t, e)
      BY <1>2, <2>2, SequenceEmptyOrAppend
    <3>3. PICK e \in Severities : findings = Append(t, e)  BY <3>2
    <3>4. Nr(e) = Number(t, e) + 1 /\ Number(t, e) \in Nat  BY <3>3, NumberAppend
    <3>5. Nr(e) = 0  BY <3>1
    <3> HIDE DEF Nr
    <3> QED  BY <3>4, <3>5
  <2> QED  BY <2>1, <2>2
<1> QED  BY <1>1, <1>3, <1>4 DEF ReviewReportIsRight

-----------------------------------------------------------------------------
(* The test report: the counts after each line. *)
Statuses == {"ok", "FAILED", "ignored"}
Counts == [total : Nat, ok : Nat, FAILED : Nat, ignored : Nat, failures : Nat]
TestLines ==
  {Case(s) : s \in Statuses} \cup {Summary(p[1], p[2], p[3]) : p \in Nat \X Nat \X Nat}
    \cup {OtherLine}
CountStep == [p \in Counts \X TestLines |-> CountLine(p[1], p[2])]
Counted(lines) == FoldLeft(CountLine, NoTests, lines)

TestInv ==
  /\ output \in Seq(TestLines) /\ failing \in Nat
  /\ Counted(output).FAILED = failing /\ Counted(output).failures = failing

(* A case counts one up, a summary replaces what there is but the failures. *)
LEMMA CaseCounts ==
  ASSUME NEW acc \in Counts, NEW s \in Statuses
  PROVE  /\ CountLine(acc, Case(s)) \in Counts
         /\ CountLine(acc, Case(s)).failures = acc.failures + IF s = "FAILED" THEN 1 ELSE 0
         /\ CountLine(acc, Case(s)).FAILED = acc.FAILED + IF s = "FAILED" THEN 1 ELSE 0
<1> DEFINE l == Case(s)
<1>1. l.line = "case" /\ l.status = s  BY DEF Case
<1> HIDE DEF l
<1>2. CountLine(acc, l) =
        [acc EXCEPT ![l.status] = @ + 1,
                    !.failures = IF l.status = "FAILED" THEN @ + 1 ELSE @]
  BY <1>1 DEF CountLine
<1>3. acc.ok + 1 \in Nat /\ acc.FAILED + 1 \in Nat /\ acc.ignored + 1 \in Nat
      /\ acc.failures + 1 \in Nat /\ acc.failures \in Nat /\ acc.FAILED \in Nat
  BY DEF Counts
<1>4. CASE s = "ok"
  <2>1. CountLine(acc, l) = [acc EXCEPT !.ok = acc.ok + 1, !.failures = acc.failures]
    BY <1>1, <1>2, <1>4 DEF Counts
  <2>2. CountLine(acc, l) \in Counts  BY <1>3, <2>1 DEF Counts
  <2>3. CountLine(acc, l).failures = acc.failures  BY <2>1 DEF Counts
  <2>4. CountLine(acc, l).FAILED = acc.FAILED  BY <2>1 DEF Counts
  <2>5. s # "FAILED" /\ acc.failures = acc.failures + 0 /\ acc.FAILED = acc.FAILED + 0
    BY <1>3, <1>4
  <2> QED  BY <2>2, <2>3, <2>4, <2>5 DEF l
<1>5. CASE s = "ignored"
  <2>1. CountLine(acc, l) = [acc EXCEPT !.ignored = acc.ignored + 1, !.failures = acc.failures]
    BY <1>1, <1>2, <1>5 DEF Counts
  <2>2. CountLine(acc, l) \in Counts  BY <1>3, <2>1 DEF Counts
  <2>3. CountLine(acc, l).failures = acc.failures  BY <2>1 DEF Counts
  <2>4. CountLine(acc, l).FAILED = acc.FAILED  BY <2>1 DEF Counts
  <2>5. s # "FAILED" /\ acc.failures = acc.failures + 0 /\ acc.FAILED = acc.FAILED + 0
    BY <1>3, <1>5
  <2> QED  BY <2>2, <2>3, <2>4, <2>5 DEF l
<1>6. CASE s = "FAILED"
  <2>1. CountLine(acc, l) = [acc EXCEPT !.FAILED = acc.FAILED + 1, !.failures = acc.failures + 1]
    BY <1>1, <1>2, <1>6 DEF Counts
  <2> QED  BY <1>3, <1>6, <2>1 DEF Counts, l
<1> QED  BY <1>4, <1>5, <1>6 DEF Statuses

LEMMA SummaryCounts ==
  ASSUME NEW acc \in Counts, NEW p \in Nat, NEW f \in Nat, NEW i \in Nat
  PROVE  /\ CountLine(acc, Summary(p, f, i)) \in Counts
         /\ CountLine(acc, Summary(p, f, i)).FAILED = f
         /\ CountLine(acc, Summary(p, f, i)).failures = acc.failures
<1> DEFINE l == Summary(p, f, i)
<1>1. l.line = "summary" /\ l.ok = p /\ l.FAILED = f /\ l.ignored = i  BY DEF Summary
<1> HIDE DEF l
<1>2. CountLine(acc, l) = [acc EXCEPT !.total = p + f + i, !.ok = p, !.FAILED = f, !.ignored = i]
  BY <1>1 DEF CountLine
<1>3. p + f + i \in Nat  OBVIOUS
<1> QED  BY <1>2, <1>3 DEF Counts, l

LEMMA OtherCounts == \A acc : CountLine(acc, OtherLine) = acc
BY DEF CountLine, OtherLine

LEMMA CountType == \A acc \in Counts, l \in TestLines : CountLine(acc, l) \in Counts
<1> SUFFICES ASSUME NEW acc \in Counts, NEW l \in TestLines PROVE CountLine(acc, l) \in Counts
  OBVIOUS
<1>1. CASE l \in {Case(s) : s \in Statuses}  BY <1>1, CaseCounts
<1>2. CASE l \in {Summary(p[1], p[2], p[3]) : p \in Nat \X Nat \X Nat}
  <2>1. PICK p \in Nat \X Nat \X Nat : l = Summary(p[1], p[2], p[3])  BY <1>2
  <2>2. p[1] \in Nat /\ p[2] \in Nat /\ p[3] \in Nat  OBVIOUS
  <2> QED  BY <2>1, <2>2, SummaryCounts
<1>3. CASE l = OtherLine  BY <1>3, OtherCounts
<1> QED  BY <1>1, <1>2, <1>3 DEF TestLines

LEMMA CountFolds ==
  ASSUME NEW t \in Seq(TestLines)
  PROVE  /\ Foldable(Counts, TestLines, CountStep, NoTests, t)
         /\ \A acc \in Counts, l \in TestLines : CountStep[<<acc, l>>] = CountLine(acc, l)
<1>1. NoTests \in Counts  BY DEF NoTests, Counts
<1>2. CountStep \in [Counts \X TestLines -> Counts]  BY CountType DEF CountStep
<1> QED  BY <1>1, <1>2 DEF Foldable, CountStep

LEMMA CountedIs ==
  ASSUME NEW t \in Seq(TestLines)
  PROVE  Counted(t) = Folded(CountStep, NoTests, t)
<1> DEFINE Steps(c) == c = [T \in SUBSET (DOMAIN t) |->
                              IF T = {} THEN NoTests ELSE CountLine(c[T \ {Max(T)}], t[Max(T)])]
           c == CHOOSE h : Steps(h)
<1>1. /\ Len(t) \in Nat /\ DOMAIN t = 1..Len(t) /\ \A i \in 1..Len(t) : t[i] \in TestLines
  OBVIOUS
<1>2. /\ Foldable(Counts, TestLines, CountStep, NoTests, t)
      /\ \A acc \in Counts, l \in TestLines : CountStep[<<acc, l>>] = CountLine(acc, l)
  BY CountFolds
<1>3. Counted(t) = c[DOMAIN t]  BY DEF Counted, FoldLeft, MapThenFoldSet
<1>4. PICK h : HasSteps(h, Counts, CountStep, NoTests, t)  BY <1>2, StepsExist
<1>5. Steps(h)
  <2>1. \A T \in SUBSET (DOMAIN t) : T # {} => Max(T) \in DOMAIN t /\ t[Max(T)] \in TestLines
    BY <1>1, Greatest
  <2>2. h \in [SUBSET (DOMAIN t) -> Counts] /\ h[{}] = NoTests  BY <1>4 DEF HasSteps
  <2>3. ASSUME NEW T \in SUBSET (DOMAIN t), T # {}
        PROVE  h[T] = CountLine(h[T \ {Max(T)}], t[Max(T)])
    <3>1. h[T] = CountStep[<<h[T \ {Max(T)}], t[Max(T)]>>]  BY <1>4, <2>3 DEF HasSteps
    <3>2. h[T \ {Max(T)}] \in Counts  BY <2>2
    <3> QED  BY <1>2, <2>1, <2>3, <3>1, <3>2
  <2>4. \A T \in SUBSET (DOMAIN t) :
          h[T] = IF T = {} THEN NoTests ELSE CountLine(h[T \ {Max(T)}], t[Max(T)])
    BY <2>2, <2>3
  <2> QED  BY <2>2, <2>4
<1>6. Steps(c)  BY <1>5
<1> HIDE DEF c
<1>7. \A T \in SUBSET (DOMAIN t) :
        c[T] = IF T = {} THEN NoTests ELSE CountLine(c[T \ {Max(T)}], t[Max(T)])
  BY <1>6
<1>8. c[{}] = NoTests  BY <1>7
<1>9. ASSUME NEW k \in 1..Len(t), c[1..(k - 1)] \in Counts
      PROVE  c[1..k] = CountStep[<<c[1..(k - 1)], t[k]>>]
  <2>1. k \in Nat \ {0} /\ 1..k \in SUBSET (DOMAIN t)  BY <1>1
  <2>2. 1..k # {} /\ Max(1..k) = k /\ (1..k) \ {k} = 1..(k - 1)  BY <2>1, UpTo
  <2>3. c[1..k] = CountLine(c[1..(k - 1)], t[k])  BY <1>7, <2>1, <2>2
  <2> QED  BY <1>1, <1>2, <1>9, <2>3
<1>10. Follows(c, Counts, CountStep, NoTests, t)  BY <1>8, <1>9 DEF Follows
<1>11. c[DOMAIN t] = Folded(CountStep, NoTests, t)  BY <1>2, <1>10, FoldIs
<1> QED  BY <1>3, <1>11

LEMMA CountedAppend ==
  ASSUME NEW t \in Seq(TestLines)
  PROVE  /\ Counted(t) \in Counts
         /\ \A l \in TestLines : Counted(Append(t, l)) = CountLine(Counted(t), l)
<1>1. /\ Foldable(Counts, TestLines, CountStep, NoTests, t)
      /\ \A acc \in Counts, l \in TestLines : CountStep[<<acc, l>>] = CountLine(acc, l)
  BY CountFolds
<1>2. Counted(t) = Folded(CountStep, NoTests, t) /\ Counted(t) \in Counts
  BY <1>1, CountedIs, FoldedType
<1>3. ASSUME NEW l \in TestLines PROVE Counted(Append(t, l)) = CountLine(Counted(t), l)
  <2>1. Append(t, l) \in Seq(TestLines)  OBVIOUS
  <2>2. Folded(CountStep, NoTests, Append(t, l)) = CountStep[<<Counted(t), l>>]
    BY <1>1, <1>2, FoldedAppend
  <2> QED  BY <1>1, <1>2, <2>1, <2>2, CountedIs
<1> QED  BY <1>2, <1>3

LEMMA CountedEmpty == Counted(<<>>) = NoTests
<1> DEFINE none == <<>>
<1>1. none \in Seq(TestLines)  OBVIOUS
<1>2. Counted(none) = Folded(CountStep, NoTests, none)  BY <1>1, CountedIs
<1>3. CountStep \in [Counts \X TestLines -> Counts] /\ NoTests \in Counts
  BY <1>1, CountFolds DEF Foldable
<1> QED  BY <1>2, <1>3, FoldedEmpty

(* The lines of the cases, in a row: how many failed counts. *)
TestKinds == {"ok", "FAILED", "ignored", "reason"}
CasesOf(tests) == Mapped(TestLine, tests)
OneIf(kind) == IF kind = "FAILED" THEN 1 ELSE 0

LEMMA TestLineIs ==
  /\ DOMAIN TestLine = TestKinds
  /\ TestLine \in [TestKinds -> TestLines]
  /\ \A acc \in Counts, kind \in TestKinds :
       /\ CountLine(acc, TestLine[kind]) \in Counts
       /\ CountLine(acc, TestLine[kind]).failures = acc.failures + OneIf(kind)
       /\ CountLine(acc, TestLine[kind]).FAILED = acc.FAILED + OneIf(kind)
<1>1. /\ DOMAIN TestLine = TestKinds /\ TestLine["reason"] = OtherLine
      /\ \A s \in Statuses : TestLine[s] = Case(s)
  BY DEF TestLine, TestKinds, Statuses
<1>2. \A kind \in TestKinds : kind \in Statuses \/ kind = "reason"  BY DEF TestKinds, Statuses
<1>3. \A kind \in TestKinds : TestLine[kind] \in TestLines  BY <1>1, <1>2 DEF TestLines
<1>4. TestLine \in [TestKinds -> TestLines]
  <2>1. TestLine = [kind \in TestKinds |-> TestLine[kind]]  BY DEF TestLine, TestKinds
  <2> QED  BY <1>3, <2>1
<1>5. ASSUME NEW acc \in Counts, NEW kind \in TestKinds
      PROVE  /\ CountLine(acc, TestLine[kind]) \in Counts
             /\ CountLine(acc, TestLine[kind]).failures = acc.failures + OneIf(kind)
             /\ CountLine(acc, TestLine[kind]).FAILED = acc.FAILED + OneIf(kind)
  <2>1. CASE kind \in Statuses
    <3>1. TestLine[kind] = Case(kind)  BY <1>1, <2>1
    <3>2. /\ CountLine(acc, Case(kind)) \in Counts
          /\ CountLine(acc, Case(kind)).failures = acc.failures + OneIf(kind)
          /\ CountLine(acc, Case(kind)).FAILED = acc.FAILED + OneIf(kind)
      BY <2>1, CaseCounts DEF OneIf
    <3> QED  BY <3>1, <3>2
  <2>2. CASE kind = "reason"
    <3>1. CountLine(acc, TestLine[kind]) = acc  BY <1>1, <2>2, OtherCounts
    <3>2. acc.failures + OneIf(kind) = acc.failures /\ acc.FAILED + OneIf(kind) = acc.FAILED
      BY <2>2 DEF Counts, OneIf
    <3> QED  BY <3>1, <3>2
  <2> QED  BY <1>2, <2>1, <2>2
<1> QED  BY <1>1, <1>4, <1>5

LEMMA CasesCount ==
  ASSUME NEW t \in Seq(TestLines), NEW tests \in Seq(TestKinds)
  PROVE  /\ CasesOf(tests) \in Seq(TestLines)
         /\ Counted(t \o CasesOf(tests)).failures = Counted(t).failures + Number(tests, "FAILED")
         /\ Counted(t \o CasesOf(tests)).FAILED = Counted(t).FAILED + Number(tests, "FAILED")
<1> DEFINE Good(u) == /\ CasesOf(u) \in Seq(TestLines)
                      /\ Counted(t \o CasesOf(u)).failures
                           = Counted(t).failures + Number(u, "FAILED")
                      /\ Counted(t \o CasesOf(u)).FAILED
                           = Counted(t).FAILED + Number(u, "FAILED")
           P == {u \in Seq(TestKinds) : Good(u)}
<1>1. Counted(t) \in Counts  BY CountedAppend
<1>2. <<>> \in P
  <2>1. CasesOf(<<>>) = <<>>  BY DEF CasesOf, Mapped
  <2>2. t \o <<>> = t /\ Number(<<>>, "FAILED") = 0  BY ConcatEmptySeq, NumberEmpty
  <2>3. Counted(t).failures \in Nat /\ Counted(t).FAILED \in Nat  BY <1>1 DEF Counts
  <2>4. <<>> \in Seq(TestLines) /\ <<>> \in Seq(TestKinds)  OBVIOUS
  <2>5. Counted(t).failures + 0 = Counted(t).failures /\ Counted(t).FAILED + 0 = Counted(t).FAILED
    BY <2>3
  <2> QED  BY <2>1, <2>2, <2>4, <2>5
<1>3. ASSUME NEW u \in Seq(TestKinds), NEW e \in TestKinds, u \in P PROVE Append(u, e) \in P
  <2> DEFINE v == Append(u, e)
             l == TestLine[e]
             old == CasesOf(u)
             new == CasesOf(v)
  <2>1. v \in Seq(TestKinds)  BY AppendProperties
  <2>2. l \in TestLines /\ old \in Seq(TestLines)  BY <1>3, TestLineIs
  <2>3. new = Append(old, l)
    <3>1. TestLine \in [TestKinds -> TestLines]  BY TestLineIs
    <3> QED  BY <3>1, MappedMore DEF CasesOf
  <2>4. t \o new = Append(t \o old, l) /\ t \o old \in Seq(TestLines)
    BY <2>2, <2>3, ConcatAppend, ConcatProperties
  <2>5. Counted(t \o new) = CountLine(Counted(t \o old), l) /\ Counted(t \o old) \in Counts
    BY <2>2, <2>4, CountedAppend
  <2>6. /\ Counted(t \o new).failures = Counted(t \o old).failures + OneIf(e)
        /\ Counted(t \o new).FAILED = Counted(t \o old).FAILED + OneIf(e)
    BY <2>5, TestLineIs
  <2>7. Number(v, "FAILED") = Number(u, "FAILED") + OneIf(e)  BY NumberAppend DEF OneIf
  <2>8. new \in Seq(TestLines)  BY <2>2, <2>3, AppendProperties
  <2>9. /\ Counted(t \o old).failures = Counted(t).failures + Number(u, "FAILED")
        /\ Counted(t \o old).FAILED = Counted(t).FAILED + Number(u, "FAILED")
    BY <1>3
  <2>10. /\ Counted(t).failures \in Nat /\ Counted(t).FAILED \in Nat
         /\ Number(u, "FAILED") \in Nat /\ OneIf(e) \in Nat
    BY <1>1, NumberAppend DEF Counts, OneIf
  <2> HIDE DEF new, old, v
  <2>11. Counted(t \o new).failures = Counted(t).failures + Number(v, "FAILED")
    BY <2>6, <2>7, <2>9, <2>10
  <2>12. Counted(t \o new).FAILED = Counted(t).FAILED + Number(v, "FAILED")
    BY <2>6, <2>7, <2>9, <2>10
  <2> QED  BY <2>1, <2>8, <2>11, <2>12 DEF new, v
<1> HIDE DEF P
<1>4. tests \in P  BY <1>2, <1>3, SequenceInduction
<1> QED  BY <1>4 DEF P

(* A binary: its cases, and what ends its output. *)
LEMMA RunsLines ==
  ASSUME TestInv, failing = 0, NEW tests \in Seq(TestKinds), NEW ending, Runs(tests, ending)
  PROVE  /\ output' = (output \o CasesOf(tests)) \o ending
         /\ failing' = Number(tests, "FAILED") /\ failing' \in Nat
         /\ output \o CasesOf(tests) \in Seq(TestLines)
         /\ Counted(output \o CasesOf(tests)).failures = failing'
         /\ Counted(output \o CasesOf(tests)).FAILED = failing'
<1> DEFINE cases == CasesOf(tests)
           f == Number(tests, "FAILED")
<1>1. cases = [i \in DOMAIN tests |-> TestLine[tests[i]]]  BY DEF CasesOf, Mapped
<1>2. output' = (output \o cases) \o ending /\ failing' = f
  BY <1>1 DEF Runs, HowMany, Number
<1>3. /\ output \in Seq(TestLines)
      /\ Counted(output).failures = 0 /\ Counted(output).FAILED = 0
  BY DEF TestInv
<1>4. "ok" \in TestKinds  BY DEF TestKinds
<1>5. f \in Nat  BY <1>4, NumberAppend
<1>6. /\ cases \in Seq(TestLines)
      /\ Counted(output \o cases).failures = Counted(output).failures + f
      /\ Counted(output \o cases).FAILED = Counted(output).FAILED + f
  BY <1>3, CasesCount
<1> HIDE DEF f, cases
<1>7. Counted(output \o cases).failures = f /\ Counted(output \o cases).FAILED = f
  BY <1>3, <1>5, <1>6
<1>8. output \o cases \in Seq(TestLines)  BY <1>3, <1>6, ConcatProperties
<1> QED  BY <1>2, <1>5, <1>7, <1>8 DEF f, cases

LEMMA BreaksOffKeeps ==
  ASSUME TestInv, failing = 0, NEW tests \in Seq(TestKinds), BreaksOff(tests)
  PROVE  TestInv'
<1> DEFINE t == output \o CasesOf(tests)
           one == <<OtherLine>>
<1>1. Runs(tests, one)  BY DEF BreaksOff
<1>2. /\ output' = t \o one /\ failing' \in Nat /\ t \in Seq(TestLines)
      /\ Counted(t).failures = failing' /\ Counted(t).FAILED = failing'
  BY <1>1, RunsLines
<1> HIDE DEF t
<1>3. OtherLine \in TestLines  BY DEF TestLines
<1>4. output' = Append(t, OtherLine) /\ output' \in Seq(TestLines)
  <2>1. Append(t, OtherLine) = t \o one  BY <1>2, <1>3, AppendIsConcat
  <2> QED  BY <1>2, <1>3, <2>1, AppendProperties
<1>5. Counted(output') = Counted(t)  BY <1>2, <1>3, <1>4, OtherCounts, CountedAppend
<1> QED  BY <1>2, <1>4, <1>5 DEF TestInv

LEMMA BinaryKeeps ==
  ASSUME TestInv, failing = 0, NEW tests \in Seq(TestKinds), Binary(tests)
  PROVE  TestInv'
<1> DEFINE p == Number(tests, "ok")
           f == Number(tests, "FAILED")
           g == Number(tests, "ignored") + Number(tests, "reason")
           s == Summary(p, f, g)
           ends == <<OtherLine, s>>
           t == output \o CasesOf(tests)
<1>1. Runs(tests, ends)  BY DEF Binary, HowMany, Number
<1>2. /\ output' = t \o ends /\ failing' = f /\ t \in Seq(TestLines)
      /\ Counted(t).failures = failing'
  BY <1>1, RunsLines
<1>3. p \in Nat /\ f \in Nat /\ g \in Nat
  <2>1. "ok" \in TestKinds  BY DEF TestKinds
  <2>2. \A v : Number(tests, v) \in Nat  BY <2>1, NumberAppend
  <2> QED  BY <2>2
<1> HIDE DEF p, f, g, t
<1>4. OtherLine \in TestLines /\ s \in TestLines
  <2>1. <<p, f, g>> \in Nat \X Nat \X Nat  BY <1>3
  <2>2. s = Summary(<<p, f, g>>[1], <<p, f, g>>[2], <<p, f, g>>[3])  OBVIOUS
  <2> QED  BY <2>1, <2>2 DEF TestLines
<1> HIDE DEF s
<1>5. output' = Append(Append(t, OtherLine), s)
  <2> DEFINE one == <<OtherLine>>
  <2>1. one \in Seq(TestLines) /\ ends = Append(one, s) /\ Append(t, OtherLine) = t \o one
    BY <1>2, <1>4, Appended, AppendIsConcat
  <2> HIDE DEF one, ends
  <2>2. t \o ends = Append(t \o one, s)  BY <1>2, <1>4, <2>1, ConcatAppend
  <2> QED  BY <1>2, <2>1, <2>2
<1> HIDE DEF ends
<1>6. Append(t, OtherLine) \in Seq(TestLines) /\ output' \in Seq(TestLines)
  BY <1>2, <1>4, <1>5, AppendProperties
<1>7. Counted(t) \in Counts  BY <1>2, CountedAppend
<1>8. Counted(Append(t, OtherLine)) = Counted(t)  BY <1>2, <1>4, OtherCounts, CountedAppend
<1>9. Counted(output') = CountLine(Counted(t), s)  BY <1>4, <1>5, <1>6, <1>8, CountedAppend
<1>10. Counted(output').FAILED = f /\ Counted(output').failures = Counted(t).failures
  <2>1. CountLine(Counted(t), Summary(p, f, g)).FAILED = f  BY <1>3, <1>7, SummaryCounts
  <2>2. CountLine(Counted(t), Summary(p, f, g)).failures = Counted(t).failures
    BY <1>3, <1>7, SummaryCounts
  <2> QED  BY <1>9, <2>1, <2>2 DEF s
<1> QED  BY <1>2, <1>3, <1>6, <1>10 DEF TestInv

LEMMA RunTestsKeeps == TestInv /\ RunTests => TestInv'
<1> SUFFICES ASSUME TestInv, RunTests PROVE TestInv'  OBVIOUS
<1>1. PICK n \in 0..2 : \E tests \in [1..n -> DOMAIN TestLine] : Binary(tests) \/ BreaksOff(tests)
  BY DEF RunTests
<1>2. PICK tests \in [1..n -> DOMAIN TestLine] : Binary(tests) \/ BreaksOff(tests)  BY <1>1
<1>3. DOMAIN TestLine = TestKinds  BY TestLineIs
<1>4. tests \in Seq(TestKinds) /\ failing = 0  BY <1>2, <1>3 DEF RunTests
<1> QED  BY <1>2, <1>4, BinaryKeeps, BreaksOffKeeps

LEMMA TestsAreRight == TestInv => TestReportIsRight
<1> SUFFICES ASSUME TestInv PROVE TestReportIsRight  OBVIOUS
<1> DEFINE s == Counted(output)
           summary == ParseCargoTestOutput(output)
<1>1. s \in Counts /\ s.FAILED = failing /\ s.failures = failing /\ failing \in Nat
  BY CountedAppend DEF TestInv
<1>2. summary = IF s.total = 0 THEN [s EXCEPT !.total = s.ok + s.FAILED + s.ignored] ELSE s
  BY DEF ParseCargoTestOutput, Counted
<1> HIDE DEF s, summary
<1>3. summary.FAILED = failing /\ summary.failures = failing  BY <1>1, <1>2 DEF Counts
<1>4. failing > 0 <=> failing # 0  BY <1>1
<1>5. Verdict(summary) = IF failing > 0 THEN "FAIL" ELSE "PASS"  BY <1>3, <1>4 DEF Verdict
<1> QED  BY <1>3, <1>5 DEF TestReportIsRight, summary

LEMMA SelectedDifferent ==
  ASSUME NEW T, NEW B, NEW seq \in Seq(B), Different(seq)
  PROVE  Different(Selected(T, seq))
<1> DEFINE P == {s \in Seq(B) : Different(s) => Different(Selected(T, s))}
<1>1. <<>> \in P
  <2>1. Different(<<>>)  BY DEF Different
  <2> QED  BY <2>1, SelectedEmpty
<1>2. ASSUME NEW s \in Seq(B), NEW e \in B, s \in P PROVE Append(s, e) \in P
  <2>1. Append(s, e) \in Seq(B)  BY AppendProperties
  <2>2. Selected(T, Append(s, e)) = IF e \in T THEN Append(Selected(T, s), e) ELSE Selected(T, s)
    BY SelectedAppend
  <2>3. Selected(T, s) \in Seq(B) /\ ToSet(Selected(T, s)) = {x \in ToSet(s) : x \in T}
    BY SelectedAppend, SelectedHas
  <2>4. ASSUME Different(Append(s, e)) PROVE Different(Selected(T, Append(s, e)))
    <3>1. Different(s) /\ e \notin ToSet(s)  BY <2>4, DifferentAppend
    <3>2. Different(Selected(T, s))  BY <1>2, <3>1
    <3>3. e \notin ToSet(Selected(T, s))  BY <2>3, <3>1
    <3>4. Different(Append(Selected(T, s), e))  BY <2>3, <3>2, <3>3, DifferentAppend
    <3> QED  BY <2>2, <3>2, <3>4
  <2> QED  BY <2>1, <2>4
<1> HIDE DEF P
<1>3. seq \in P  BY <1>1, <1>2, SequenceInduction
<1> QED  BY <1>3 DEF P

-----------------------------------------------------------------------------
(* The plan: its items, the sum of their minutes, and its quadrants. *)
Quadrants == {"UrgentImportant", "NotUrgentImportant", "UrgentNotImportant", "Neither"}
Items == [title : Nat \cup {"whole"}, priority : Quadrants, minutes : Nat]
AddMinutes == [p \in Nat \X Items |-> p[1] + p[2].minutes]
TotalMinutes(items) == FoldLeft(LAMBDA sum, item : sum + item.minutes, 0, items)

LEMMA MinutesFold ==
  ASSUME NEW t \in Seq(Items)
  PROVE  /\ Foldable(Nat, Items, AddMinutes, 0, t)
         /\ \A sum \in Nat, x \in Items : AddMinutes[<<sum, x>>] = sum + x.minutes
<1>1. \A sum \in Nat, x \in Items : sum + x.minutes \in Nat  BY DEF Items
<1>2. AddMinutes \in [Nat \X Items -> Nat]
  <2>1. \A p \in Nat \X Items : p[1] + p[2].minutes \in Nat  BY <1>1
  <2> QED  BY <2>1 DEF AddMinutes
<1> QED  BY <1>2 DEF Foldable, AddMinutes

LEMMA TotalMinutesIs ==
  ASSUME NEW t \in Seq(Items)
  PROVE  TotalMinutes(t) = Folded(AddMinutes, 0, t)
<1> DEFINE Steps(c) == c = [T \in SUBSET (DOMAIN t) |->
                              IF T = {} THEN 0 ELSE c[T \ {Max(T)}] + t[Max(T)].minutes]
           c == CHOOSE h : Steps(h)
<1>1. /\ Len(t) \in Nat /\ DOMAIN t = 1..Len(t) /\ \A i \in 1..Len(t) : t[i] \in Items
  OBVIOUS
<1>2. /\ Foldable(Nat, Items, AddMinutes, 0, t)
      /\ \A sum \in Nat, x \in Items : AddMinutes[<<sum, x>>] = sum + x.minutes
  BY MinutesFold
<1>3. TotalMinutes(t) = c[DOMAIN t]  BY DEF TotalMinutes, FoldLeft, MapThenFoldSet
<1>4. PICK h : HasSteps(h, Nat, AddMinutes, 0, t)  BY <1>2, StepsExist
<1>5. Steps(h)
  <2>1. \A T \in SUBSET (DOMAIN t) : T # {} => Max(T) \in DOMAIN t /\ t[Max(T)] \in Items
    BY <1>1, Greatest
  <2>2. h \in [SUBSET (DOMAIN t) -> Nat] /\ h[{}] = 0  BY <1>4 DEF HasSteps
  <2>3. ASSUME NEW T \in SUBSET (DOMAIN t), T # {}
        PROVE  h[T] = h[T \ {Max(T)}] + t[Max(T)].minutes
    <3>1. h[T] = AddMinutes[<<h[T \ {Max(T)}], t[Max(T)]>>]  BY <1>4, <2>3 DEF HasSteps
    <3>2. h[T \ {Max(T)}] \in Nat  BY <2>2
    <3> QED  BY <1>2, <2>1, <2>3, <3>1, <3>2
  <2>4. \A T \in SUBSET (DOMAIN t) :
          h[T] = IF T = {} THEN 0 ELSE h[T \ {Max(T)}] + t[Max(T)].minutes
    BY <2>2, <2>3
  <2> QED  BY <2>2, <2>4
<1>6. Steps(c)  BY <1>5
<1> HIDE DEF c
<1>7. \A T \in SUBSET (DOMAIN t) :
        c[T] = IF T = {} THEN 0 ELSE c[T \ {Max(T)}] + t[Max(T)].minutes
  BY <1>6
<1>8. c[{}] = 0  BY <1>7
<1>9. ASSUME NEW k \in 1..Len(t), c[1..(k - 1)] \in Nat
      PROVE  c[1..k] = AddMinutes[<<c[1..(k - 1)], t[k]>>]
  <2>1. k \in Nat \ {0} /\ 1..k \in SUBSET (DOMAIN t)  BY <1>1
  <2>2. 1..k # {} /\ Max(1..k) = k /\ (1..k) \ {k} = 1..(k - 1)  BY <2>1, UpTo
  <2>3. c[1..k] = c[1..(k - 1)] + t[k].minutes  BY <1>7, <2>1, <2>2
  <2> QED  BY <1>1, <1>2, <1>9, <2>3
<1>10. Follows(c, Nat, AddMinutes, 0, t)  BY <1>8, <1>9 DEF Follows
<1>11. c[DOMAIN t] = Folded(AddMinutes, 0, t)  BY <1>2, <1>10, FoldIs
<1> QED  BY <1>3, <1>11

LEMMA MinutesAppend ==
  ASSUME NEW t \in Seq(Items)
  PROVE  /\ TotalMinutes(t) \in Nat
         /\ \A x \in Items : TotalMinutes(Append(t, x)) = TotalMinutes(t) + x.minutes
<1>1. /\ Foldable(Nat, Items, AddMinutes, 0, t)
      /\ \A sum \in Nat, x \in Items : AddMinutes[<<sum, x>>] = sum + x.minutes
  BY MinutesFold
<1>2. TotalMinutes(t) = Folded(AddMinutes, 0, t) /\ TotalMinutes(t) \in Nat
  BY <1>1, TotalMinutesIs, FoldedType
<1>3. ASSUME NEW x \in Items PROVE TotalMinutes(Append(t, x)) = TotalMinutes(t) + x.minutes
  <2>1. Append(t, x) \in Seq(Items)  OBVIOUS
  <2>2. Folded(AddMinutes, 0, Append(t, x)) = AddMinutes[<<TotalMinutes(t), x>>]
    BY <1>1, <1>2, FoldedAppend
  <2> QED  BY <1>1, <1>2, <2>1, <2>2, TotalMinutesIs
<1> QED  BY <1>2, <1>3

LEMMA MinutesEmpty == TotalMinutes(<<>>) = 0
<1> DEFINE none == <<>>
<1>1. none \in Seq(Items)  OBVIOUS
<1>2. TotalMinutes(none) = Folded(AddMinutes, 0, none)  BY <1>1, TotalMinutesIs
<1>3. AddMinutes \in [Nat \X Items -> Nat] /\ 0 \in Nat  BY <1>1, MinutesFold DEF Foldable
<1>4. Folded(AddMinutes, 0, none) = 0  BY <1>3, FoldedEmpty
<1> QED  BY <1>2, <1>4

LEMMA MinutesConcat ==
  ASSUME NEW s \in Seq(Items), NEW t \in Seq(Items)
  PROVE  TotalMinutes(s \o t) = TotalMinutes(s) + TotalMinutes(t)
<1> DEFINE P == {u \in Seq(Items) : TotalMinutes(s \o u) = TotalMinutes(s) + TotalMinutes(u)}
<1>1. TotalMinutes(s) \in Nat  BY MinutesAppend
<1>2. <<>> \in P
  <2>1. s \o <<>> = s /\ <<>> \in Seq(Items)  BY ConcatEmptySeq
  <2> QED  BY <1>1, <2>1, MinutesEmpty
<1>3. ASSUME NEW u \in Seq(Items), NEW e \in Items, u \in P PROVE Append(u, e) \in P
  <2>1. s \o Append(u, e) = Append(s \o u, e) /\ s \o u \in Seq(Items)
    BY ConcatAppend, ConcatProperties
  <2>2. TotalMinutes(Append(s \o u, e)) = TotalMinutes(s \o u) + e.minutes
    BY <2>1, MinutesAppend
  <2>3. /\ TotalMinutes(Append(u, e)) = TotalMinutes(u) + e.minutes
        /\ TotalMinutes(u) \in Nat /\ e.minutes \in Nat
    BY MinutesAppend DEF Items
  <2>4. TotalMinutes(s \o u) = TotalMinutes(s) + TotalMinutes(u)  BY <1>3
  <2>5. Append(u, e) \in Seq(Items)  BY AppendProperties
  <2>6. TotalMinutes(s \o Append(u, e)) = TotalMinutes(s) + TotalMinutes(Append(u, e))
    BY <1>1, <2>1, <2>2, <2>3, <2>4
  <2> QED  BY <2>5, <2>6
<1> HIDE DEF P
<1>4. t \in P  BY <1>2, <1>3, SequenceInduction
<1> QED  BY <1>4 DEF P

(* The quadrants share the items out. *)
Of(k) == {x \in Items : x.priority = Priorities[k]}
Part(k, items) == Selected(Of(k), items)
Four(f) == f[1] + f[2] + f[3] + f[4]
Lengths(items) == [k \in 1..4 |-> Len(Part(k, items))]
Sums(items) == [k \in 1..4 |-> TotalMinutes(Part(k, items))]

LEMMA FourWithOneMore ==
  ASSUME NEW f \in [1..4 -> Nat], NEW g \in [1..4 -> Nat], NEW m \in Nat, NEW j \in 1..4,
         \A k \in 1..4 : g[k] = f[k] + IF k = j THEN m ELSE 0
  PROVE  Four(g) = Four(f) + m
<1>1. f[1] \in Nat /\ f[2] \in Nat /\ f[3] \in Nat /\ f[4] \in Nat  OBVIOUS
<1>2. \A k \in 1..4 : IF k = j THEN g[k] = f[k] + m ELSE g[k] = f[k]
  <2>1. ASSUME NEW k \in 1..4 PROVE IF k = j THEN g[k] = f[k] + m ELSE g[k] = f[k]
    <3>1. CASE k = j  BY <3>1
    <3>2. CASE k # j
      <4>1. g[k] = f[k] + 0 /\ f[k] \in Nat  BY <3>2
      <4> QED  BY <3>2, <4>1
    <3> QED  BY <3>1, <3>2
  <2> QED  BY <2>1
<1>3. 1 \in 1..4 /\ 2 \in 1..4 /\ 3 \in 1..4 /\ 4 \in 1..4  OBVIOUS
<1>4. CASE j = 1
  <2>1. g[1] = f[1] + m /\ g[2] = f[2] /\ g[3] = f[3] /\ g[4] = f[4]
    BY <1>2, <1>3, <1>4
  <2> QED  BY <1>1, <2>1 DEF Four
<1>5. CASE j = 2
  <2>1. g[2] = f[2] + m /\ g[1] = f[1] /\ g[3] = f[3] /\ g[4] = f[4]
    BY <1>2, <1>3, <1>5
  <2> QED  BY <1>1, <2>1 DEF Four
<1>6. CASE j = 3
  <2>1. g[3] = f[3] + m /\ g[1] = f[1] /\ g[2] = f[2] /\ g[4] = f[4]
    BY <1>2, <1>3, <1>6
  <2> QED  BY <1>1, <2>1 DEF Four
<1>7. CASE j = 4
  <2>1. g[4] = f[4] + m /\ g[1] = f[1] /\ g[2] = f[2] /\ g[3] = f[3]
    BY <1>2, <1>3, <1>7
  <2> QED  BY <1>1, <2>1 DEF Four
<1>8. j = 1 \/ j = 2 \/ j = 3 \/ j = 4  OBVIOUS
<1> QED  BY <1>4, <1>5, <1>6, <1>7, <1>8

LEMMA PriorityIs ==
  /\ \A p \in Quadrants : \E j \in 1..4 : p = Priorities[j]
  /\ \A j, k \in 1..4 : Priorities[j] = Priorities[k] => j = k
  /\ \A k \in 1..4 : Priorities[k] \in Quadrants
<1>1. /\ Priorities[1] = "UrgentImportant" /\ Priorities[2] = "NotUrgentImportant"
      /\ Priorities[3] = "UrgentNotImportant" /\ Priorities[4] = "Neither"
  BY DEF Priorities
<1>2. \A k \in 1..4 : k = 1 \/ k = 2 \/ k = 3 \/ k = 4  OBVIOUS
<1> QED  BY <1>1, <1>2 DEF Quadrants

LEMMA PartAppend ==
  ASSUME NEW items \in Seq(Items), NEW e \in Items, NEW k
  PROVE  /\ Part(k, items) \in Seq(Items)
         /\ Len(Part(k, items)) \in Nat /\ TotalMinutes(Part(k, items)) \in Nat
         /\ Len(Part(k, Append(items, e))) =
              Len(Part(k, items)) + IF e.priority = Priorities[k] THEN 1 ELSE 0
         /\ TotalMinutes(Part(k, Append(items, e))) =
              TotalMinutes(Part(k, items)) + IF e.priority = Priorities[k] THEN e.minutes ELSE 0
<1> DEFINE s == Part(k, items)
           t == Part(k, Append(items, e))
<1>1. s \in Seq(Items)  BY SelectedAppend DEF Part
<1>2. t = IF e \in Of(k) THEN Append(s, e) ELSE s  BY SelectedAppend DEF Part
<1>3. e \in Of(k) <=> e.priority = Priorities[k]  BY DEF Of
<1> HIDE DEF s, t
<1>4. Len(s) \in Nat /\ Len(Append(s, e)) = Len(s) + 1  BY <1>1, AppendProperties
<1>5. TotalMinutes(s) \in Nat /\ TotalMinutes(Append(s, e)) = TotalMinutes(s) + e.minutes
  BY <1>1, MinutesAppend
<1>6. Len(t) = Len(s) + IF e.priority = Priorities[k] THEN 1 ELSE 0  BY <1>2, <1>3, <1>4
<1>7. TotalMinutes(t) = TotalMinutes(s) + IF e.priority = Priorities[k] THEN e.minutes ELSE 0
  BY <1>2, <1>3, <1>5
<1> QED  BY <1>1, <1>4, <1>5, <1>6, <1>7 DEF s, t

LEMMA PartsWhole ==
  ASSUME NEW items \in Seq(Items)
  PROVE  Four(Lengths(items)) = Len(items) /\ Four(Sums(items)) = TotalMinutes(items)
<1> DEFINE P == {s \in Seq(Items) : /\ Four(Lengths(s)) = Len(s)
                                    /\ Four(Sums(s)) = TotalMinutes(s)}
<1>1. <<>> \in P
  <2> DEFINE none == <<>>
  <2>1. \A k : Part(k, none) = none  BY SelectedEmpty DEF Part
  <2>2. Len(none) = 0 /\ none \in Seq(Items) /\ TotalMinutes(none) = 0  BY MinutesEmpty
  <2> HIDE DEF none
  <2>3. Four(Lengths(none)) = 0 /\ Four(Sums(none)) = 0
    BY <2>1, <2>2 DEF Four, Lengths, Sums
  <2> QED  BY <2>2, <2>3 DEF none
<1>2. ASSUME NEW s \in Seq(Items), NEW e \in Items, s \in P PROVE Append(s, e) \in P
  <2> DEFINE t == Append(s, e)
             m == e.minutes
  <2>1. t \in Seq(Items) /\ Len(t) = Len(s) + 1 /\ Len(s) \in Nat  BY AppendProperties
  <2>2. TotalMinutes(t) = TotalMinutes(s) + m  BY MinutesAppend
  <2>3. m \in Nat /\ e.priority \in Quadrants  BY DEF Items
  <2>4. PICK j \in 1..4 : e.priority = Priorities[j]  BY <2>3, PriorityIs
  <2>5. \A k \in 1..4 : (e.priority = Priorities[k]) <=> (k = j)  BY <2>4, PriorityIs
  <2>6. ASSUME NEW k \in 1..4
        PROVE  /\ Lengths(s)[k] \in Nat /\ Sums(s)[k] \in Nat
               /\ Lengths(t)[k] = Lengths(s)[k] + IF k = j THEN 1 ELSE 0
               /\ Sums(t)[k] = Sums(s)[k] + IF k = j THEN m ELSE 0
    <3>1. /\ Len(Part(k, s)) \in Nat /\ TotalMinutes(Part(k, s)) \in Nat
          /\ Len(Part(k, t)) = Len(Part(k, s)) + IF k = j THEN 1 ELSE 0
          /\ TotalMinutes(Part(k, t)) = TotalMinutes(Part(k, s)) + IF k = j THEN m ELSE 0
      <4>1. (e.priority = Priorities[k]) <=> (k = j)  BY <2>5
      <4>2. /\ Len(Part(k, s)) \in Nat /\ TotalMinutes(Part(k, s)) \in Nat
            /\ Len(Part(k, t)) =
                 Len(Part(k, s)) + IF e.priority = Priorities[k] THEN 1 ELSE 0
            /\ TotalMinutes(Part(k, t)) =
                 TotalMinutes(Part(k, s)) + IF e.priority = Priorities[k] THEN m ELSE 0
        <5>1. Len(Part(k, s)) \in Nat /\ TotalMinutes(Part(k, s)) \in Nat  BY PartAppend
        <5>2. Len(Part(k, t)) = Len(Part(k, s)) + IF e.priority = Priorities[k] THEN 1 ELSE 0
          BY PartAppend
        <5>3. TotalMinutes(Part(k, t)) =
                TotalMinutes(Part(k, s)) + IF e.priority = Priorities[k] THEN m ELSE 0
          BY PartAppend
        <5> QED  BY <5>1, <5>2, <5>3
      <4> HIDE DEF m
      <4> HIDE DEF t
      <4> QED  BY <4>1, <4>2
    <3> HIDE DEF t, m
    <3>2. /\ Lengths(s)[k] = Len(Part(k, s)) /\ Lengths(t)[k] = Len(Part(k, t))
          /\ Sums(s)[k] = TotalMinutes(Part(k, s)) /\ Sums(t)[k] = TotalMinutes(Part(k, t))
      BY DEF Lengths, Sums
    <3> QED  BY <3>1, <3>2
  <2>7. Lengths(s) \in [1..4 -> Nat] /\ Sums(s) \in [1..4 -> Nat]
    BY <2>6 DEF Lengths, Sums
  <2> HIDE DEF t, m
  <2>8. \A k \in 1..4 : Lengths(t)[k] \in Nat /\ Sums(t)[k] \in Nat
    <3>1. \A a \in Nat, c \in BOOLEAN :
            (a + IF c THEN 1 ELSE 0) \in Nat /\ (a + IF c THEN m ELSE 0) \in Nat
      BY <2>3
    <3> QED  BY <2>6, <3>1
  <2>9. Lengths(t) \in [1..4 -> Nat] /\ Sums(t) \in [1..4 -> Nat]
    BY <2>8 DEF Lengths, Sums
  <2>10. Four(Lengths(t)) = Four(Lengths(s)) + 1  BY <2>6, <2>7, <2>9, FourWithOneMore
  <2>11. Four(Sums(t)) = Four(Sums(s)) + m  BY <2>3, <2>6, <2>7, <2>9, FourWithOneMore
  <2>12. Four(Lengths(s)) = Len(s) /\ Four(Sums(s)) = TotalMinutes(s)  BY <1>2
  <2> QED  BY <2>1, <2>2, <2>10, <2>11, <2>12 DEF t
<1> HIDE DEF P
<1>3. items \in P  BY <1>1, <1>2, SequenceInduction
<1> QED  BY <1>3 DEF P

(* What is urgent and important comes first. *)
Urgent(seq, i) == seq[i].priority = Priorities[1]
UrgentFirst(seq) == \A i, j \in 1..Len(seq) : i < j /\ Urgent(seq, j) => Urgent(seq, i)

LEMMA UrgentConcat ==
  ASSUME NEW s \in Seq(Items), NEW t \in Seq(Items), UrgentFirst(s),
         \A i \in 1..Len(t) : ~Urgent(t, i)
  PROVE  UrgentFirst(s \o t)
<1> DEFINE u == s \o t
           n == Len(s)
<1>1. /\ u \in Seq(Items) /\ Len(u) = n + Len(t) /\ n \in Nat /\ Len(t) \in Nat
      /\ \A i \in 1..(n + Len(t)) : u[i] = IF i <= n THEN s[i] ELSE t[i - n]
  BY ConcatProperties
<1> HIDE DEF u
<1>2. ASSUME NEW i \in 1..Len(u), NEW j \in 1..Len(u), i < j, Urgent(u, j) PROVE Urgent(u, i)
  <2>1. j <= n
    <3> SUFFICES ASSUME ~(j <= n) PROVE FALSE  OBVIOUS
    <3>1. j - n \in 1..Len(t) /\ u[j] = t[j - n]  BY <1>1
    <3> QED  BY <1>2, <3>1 DEF Urgent
  <2>2. i \in 1..n /\ j \in 1..n /\ i <= n  BY <1>1, <1>2, <2>1
  <2>3. u[i] = s[i] /\ u[j] = s[j]  BY <1>1, <2>1, <2>2
  <2> HIDE DEF n
  <2>4. \A a, b \in 1..n : a < b /\ Urgent(s, b) => Urgent(s, a)  BY DEF UrgentFirst, n
  <2> QED  BY <1>2, <2>2, <2>3, <2>4 DEF Urgent
<1> QED  BY <1>2 DEF UrgentFirst, u

LEMMA PartHas ==
  ASSUME NEW items \in Seq(Items), NEW k \in 1..4
  PROVE  /\ Part(k, items) \in Seq(Items)
         /\ ToSet(Part(k, items)) = {x \in ToSet(items) : x.priority = Priorities[k]}
         /\ \A i \in 1..Len(Part(k, items)) : Part(k, items)[i].priority = Priorities[k]
         /\ Selected({x \in ToSet(items) : x.priority = Priorities[k]}, items) = Part(k, items)
<1> DEFINE s == Part(k, items)
           T == {x \in ToSet(items) : x.priority = Priorities[k]}
<1>1. s \in Seq(Items) /\ ToSet(s) = {x \in ToSet(items) : x \in Of(k)}
  BY SelectedAppend, SelectedHas DEF Part
<1>2. DOMAIN items = 1..Len(items) /\ \A i \in 1..Len(items) : items[i] \in Items  OBVIOUS
<1>3. \A x \in ToSet(items) : x \in Items  BY <1>2 DEF ToSet
<1>4. \A x \in Items : x \in Of(k) <=> x.priority = Priorities[k]  BY DEF Of
<1> HIDE DEF s
<1>5. ToSet(s) = T  BY <1>1, <1>3, <1>4
<1>6. DOMAIN s = 1..Len(s) /\ \A i \in 1..Len(s) : s[i] \in ToSet(s)  BY <1>1 DEF ToSet
<1>7. \A i \in 1..Len(s) : s[i].priority = Priorities[k]  BY <1>5, <1>6
<1>8. \A i \in 1..Len(items) : items[i] \in T <=> items[i] \in Of(k)
  BY <1>2, <1>4 DEF ToSet
<1> HIDE DEF T
<1>9. Selected(T, items) = Selected(Of(k), items)  BY <1>8, SelectedSame
<1> QED  BY <1>1, <1>5, <1>7, <1>9 DEF s, T, Part

(* The plan of any items. *)
LEMMA PlanOfItems ==
  ASSUME NEW items \in Seq(Items)
  PROVE  LET plan == BuildPlan(items) IN
           /\ plan.shown \in Seq(Items) /\ plan.items = Len(items)
           /\ Len(plan.shown) = Len(items) /\ ToSet(plan.shown) = ToSet(items)
           /\ plan.minutes = TotalMinutes(items) /\ UrgentFirst(plan.shown)
<1> DEFINE Q(p) == Selected({item \in ToSet(items) : item.priority = p}, items)
           a == Part(1, items)
           b == Part(2, items)
           c == Part(3, items)
           d == Part(4, items)
           seqs == [i \in DOMAIN Priorities |-> Q(Priorities[i])]
           none == <<>>
           shown == ((a \o b) \o c) \o d
<1>1. /\ 1 \in 1..4 /\ 2 \in 1..4 /\ 3 \in 1..4 /\ 4 \in 1..4  OBVIOUS
<1>2. \A k \in 1..4 : /\ Part(k, items) \in Seq(Items)
                      /\ ToSet(Part(k, items)) = {x \in ToSet(items) : x.priority = Priorities[k]}
                      /\ \A i \in 1..Len(Part(k, items)) :
                           Part(k, items)[i].priority = Priorities[k]
                      /\ Q(Priorities[k]) = Part(k, items)
  BY PartHas
<1>3. a \in Seq(Items) /\ b \in Seq(Items) /\ c \in Seq(Items) /\ d \in Seq(Items)
  BY <1>1, <1>2
<1>4. seqs = <<a, b, c, d>>
  <2>1. DOMAIN Priorities = 1..4  BY DEF Priorities
  <2> HIDE DEF Q
  <2>2. seqs = [i \in 1..4 |-> Part(i, items)]  BY <1>2, <2>1
  <2> QED  BY <2>2
<1> HIDE DEF a, b, c, d, seqs
<1>5. a \o b \in Seq(Items) /\ (a \o b) \o c \in Seq(Items) /\ shown \in Seq(Items)
  <2>1. a \o b \in Seq(Items)  BY <1>3, ConcatProperties
  <2>2. (a \o b) \o c \in Seq(Items)  BY <1>3, <2>1, ConcatProperties
  <2>3. shown \in Seq(Items)  BY <1>3, <2>2, ConcatProperties
  <2> QED  BY <2>1, <2>2, <2>3
<1>6. FlattenSeq(<<a, b, c, d>>) = shown
  <2>1. none \in Seq(Seq(Items)) /\ none \in Seq(Items)  OBVIOUS
  <2>2. FlattenSeq(none) = none
    <3>1. FlattenSeq(none) = Folded(Concat(Items), none, none)  BY <2>1, FlattenIs
    <3>2. Foldable(Seq(Items), Seq(Items), Concat(Items), none, none)  BY <2>1, ConcatFolds
    <3> QED  BY <3>1, <3>2, FoldedEmpty DEF Foldable
  <2> DEFINE one == Append(none, a)
             two == Append(one, b)
             three == Append(two, c)
             four == Append(three, d)
  <2>3. one \in Seq(Seq(Items)) /\ FlattenSeq(one) = FlattenSeq(none) \o a
    BY <1>3, <2>1, AppendProperties, FlattenAppend
  <2>4. none \o a = a  BY <1>3, ConcatEmptySeq
  <2> HIDE DEF one, none
  <2>5. two \in Seq(Seq(Items)) /\ FlattenSeq(two) = FlattenSeq(one) \o b
    BY <1>3, <2>3, AppendProperties, FlattenAppend
  <2> HIDE DEF two
  <2>6. three \in Seq(Seq(Items)) /\ FlattenSeq(three) = FlattenSeq(two) \o c
    BY <1>3, <2>5, AppendProperties, FlattenAppend
  <2> HIDE DEF three
  <2>7. FlattenSeq(four) = FlattenSeq(three) \o d  BY <1>3, <2>6, FlattenAppend
  <2> HIDE DEF four
  <2>8. FlattenSeq(four) = shown  BY <2>2, <2>3, <2>4, <2>5, <2>6, <2>7
  <2>9. four = <<a, b, c, d>>
    <3>1. one = <<a>> /\ two = <<a, b>>
      BY <1>3, Appended DEF one, two, none
    <3>2. Append(<<a, b>>, c) = <<a, b, c>> /\ Append(<<a, b, c>>, d) = <<a, b, c, d>>
      BY <1>3, AppendedMore
    <3> QED  BY <3>1, <3>2 DEF three, four
  <2> QED  BY <2>8, <2>9
<1> HIDE DEF shown
<1> DEFINE plan == BuildPlan(items)
<1>7. plan.shown = shown /\ plan.items = Len(items) /\ plan.minutes = TotalMinutes(shown)
  BY <1>4, <1>6 DEF BuildPlan, TotalMinutes, seqs
<1>8. /\ Lengths(items)[1] = Len(a) /\ Lengths(items)[2] = Len(b)
      /\ Lengths(items)[3] = Len(c) /\ Lengths(items)[4] = Len(d)
  BY <1>1 DEF Lengths, a, b, c, d
<1>9. /\ Sums(items)[1] = TotalMinutes(a) /\ Sums(items)[2] = TotalMinutes(b)
      /\ Sums(items)[3] = TotalMinutes(c) /\ Sums(items)[4] = TotalMinutes(d)
  BY <1>1 DEF Sums, a, b, c, d
<1>10. /\ Len(shown) = Len(a) + Len(b) + Len(c) + Len(d)
       /\ TotalMinutes(shown) =
            TotalMinutes(a) + TotalMinutes(b) + TotalMinutes(c) + TotalMinutes(d)
       /\ ToSet(shown) = ToSet(a) \cup ToSet(b) \cup ToSet(c) \cup ToSet(d)
  <2>1. /\ Len(a \o b) = Len(a) + Len(b)
        /\ TotalMinutes(a \o b) = TotalMinutes(a) + TotalMinutes(b)
        /\ ToSet(a \o b) = ToSet(a) \cup ToSet(b)
    BY <1>3, ConcatProperties, MinutesConcat, ToSetConcat
  <2> DEFINE ab == a \o b
             abc == ab \o c
  <2>2. ab \in Seq(Items) /\ abc \in Seq(Items) /\ shown = abc \o d  BY <1>5 DEF shown
  <2> HIDE DEF ab
  <2>3. /\ Len(abc) = Len(ab) + Len(c)
        /\ TotalMinutes(abc) = TotalMinutes(ab) + TotalMinutes(c)
        /\ ToSet(abc) = ToSet(ab) \cup ToSet(c)
    BY <1>3, <2>2, ConcatProperties, MinutesConcat, ToSetConcat
  <2> HIDE DEF abc
  <2>4. /\ Len(shown) = Len(abc) + Len(d)
        /\ TotalMinutes(shown) = TotalMinutes(abc) + TotalMinutes(d)
        /\ ToSet(shown) = ToSet(abc) \cup ToSet(d)
    BY <1>3, <2>2, ConcatProperties, MinutesConcat, ToSetConcat
  <2> QED  BY <2>1, <2>3, <2>4 DEF ab
<1>11. Len(shown) = Len(items) /\ TotalMinutes(shown) = TotalMinutes(items)
  BY <1>8, <1>9, <1>10, PartsWhole DEF Four
<1>12. ToSet(shown) = ToSet(items)
  <2>1. \A x \in ToSet(items) : x \in Items  BY DEF ToSet
  <2>2. \A x \in ToSet(items) : x.priority \in Quadrants  BY <2>1 DEF Items
  <2>3. \A x \in ToSet(items) : \E k \in 1..4 : x.priority = Priorities[k]  BY <2>2, PriorityIs
  <2>4. \A k \in 1..4 : k = 1 \/ k = 2 \/ k = 3 \/ k = 4  OBVIOUS
  <2>5. /\ ToSet(a) = {x \in ToSet(items) : x.priority = Priorities[1]}
        /\ ToSet(b) = {x \in ToSet(items) : x.priority = Priorities[2]}
        /\ ToSet(c) = {x \in ToSet(items) : x.priority = Priorities[3]}
        /\ ToSet(d) = {x \in ToSet(items) : x.priority = Priorities[4]}
    BY <1>1, <1>2 DEF a, b, c, d
  <2> QED  BY <1>10, <2>3, <2>4, <2>5
<1>13. UrgentFirst(shown)
  <2>1. UrgentFirst(a)
    <3>1. \A i \in 1..Len(a) : a[i].priority = Priorities[1]  BY <1>1, <1>2 DEF a
    <3> QED  BY <3>1 DEF UrgentFirst, Urgent
  <2>2. Priorities[2] # Priorities[1] /\ Priorities[3] # Priorities[1]
        /\ Priorities[4] # Priorities[1]
    BY DEF Priorities
  <2>3. \A i \in 1..Len(b) : ~Urgent(b, i)  BY <1>1, <1>2, <2>2 DEF b, Urgent
  <2>4. \A i \in 1..Len(c) : ~Urgent(c, i)  BY <1>1, <1>2, <2>2 DEF c, Urgent
  <2>5. \A i \in 1..Len(d) : ~Urgent(d, i)  BY <1>1, <1>2, <2>2 DEF d, Urgent
  <2>6. UrgentFirst(a \o b)  BY <1>3, <2>1, <2>3, UrgentConcat
  <2>7. UrgentFirst((a \o b) \o c)  BY <1>3, <1>5, <2>4, <2>6, UrgentConcat
  <2>8. UrgentFirst(((a \o b) \o c) \o d)  BY <1>3, <1>5, <2>5, <2>7, UrgentConcat
  <2> QED  BY <2>8 DEF shown
<1> QED  BY <1>5, <1>7, <1>11, <1>12, <1>13

-----------------------------------------------------------------------------
(* The description: fragments named by their place in it. *)
Keywords == {"urgent", "important", "quick", "complex"}
Fragments == [name : Nat, words : SUBSET Keywords, bytes : {0, 2, 3}]
Long == {f \in Fragments : f.bytes >= 3}
Duration(f) == IF "quick" \in f.words THEN 15
               ELSE IF "complex" \in f.words THEN 120 ELSE DefaultMinutes
Durations == [f \in Fragments |-> Duration(f)]
ItemOf == [f \in Fragments |-> Item(f, DefaultMinutes)]
ItemsOf(tasks) == Mapped(ItemOf, tasks)

PlanInv ==
  /\ description \in Seq(Fragments)
  /\ \A i \in 1..Len(description) : description[i].name = i - 1

LEMMA DescribeKeeps == PlanInv /\ Describe => PlanInv'
<1> SUFFICES ASSUME PlanInv, Describe PROVE PlanInv'  OBVIOUS
<1> DEFINE n == Len(description)
<1>1. PICK words \in SUBSET {"urgent", "important"}, effort \in {{}, {"quick"}, {"complex"}},
           bytes \in {0, 2, 3} :
        description' = Append(description,
                              [name |-> n, words |-> words \cup effort, bytes |-> bytes])
  BY DEF Describe
<1> DEFINE f == [name |-> n, words |-> words \cup effort, bytes |-> bytes]
<1>2. description \in Seq(Fragments) /\ n \in Nat  BY DEF PlanInv
<1>3. words \cup effort \in SUBSET Keywords  BY DEF Keywords
<1>4. f \in Fragments /\ f.name = n  BY <1>2, <1>3 DEF Fragments
<1>5. description' = Append(description, f)  BY <1>1
<1> HIDE DEF f
<1>6. /\ description' \in Seq(Fragments) /\ Len(description') = n + 1
      /\ description'[n + 1] = f /\ \A i \in 1..n : description'[i] = description[i]
  BY <1>2, <1>4, <1>5, AppendProperties
<1>7. \A i \in 1..n : description[i].name = i - 1  BY DEF PlanInv
<1> HIDE DEF n
<1>8. ASSUME NEW i \in 1..(n + 1) PROVE description'[i].name = i - 1
  <2>1. CASE i \in 1..n  BY <1>6, <1>7, <2>1
  <2>2. CASE i = n + 1
    <3>1. i - 1 = n  BY <1>2, <2>2
    <3> QED  BY <1>4, <1>6, <2>2, <3>1
  <2>3. i \in 1..n \/ i = n + 1  BY <1>2
  <2> QED  BY <2>1, <2>2, <2>3
<1> QED  BY <1>6, <1>8 DEF PlanInv

LEMMA ItemIs ==
  ASSUME NEW f \in Fragments
  PROVE  /\ ItemOf[f] \in Items
         /\ ItemOf[f].title = f.name /\ ItemOf[f].minutes = Durations[f]
         /\ Durations[f] \in Nat
<1>1. f.name \in Nat /\ "meeting" \notin f.words  BY DEF Fragments, Keywords
<1>2. ClassifyPriority(f.words) \in Quadrants  BY DEF ClassifyPriority, Priorities, Quadrants
<1>3. EstimateDuration(f.words, DefaultMinutes) = Duration(f)
  BY <1>1 DEF EstimateDuration, Duration
<1>4. Duration(f) \in Nat  BY DEF Duration, DefaultMinutes
<1>5. ItemOf[f] = [title |-> f.name, priority |-> ClassifyPriority(f.words),
                   minutes |-> EstimateDuration(f.words, DefaultMinutes)]
  BY DEF ItemOf, Item
<1>6. Durations[f] = Duration(f)  BY DEF Durations
<1>7. ItemOf[f] \in Items  BY <1>1, <1>2, <1>3, <1>4, <1>5 DEF Items
<1> QED  BY <1>3, <1>4, <1>5, <1>6, <1>7

LEMMA ItemsAppend ==
  ASSUME NEW s \in Seq(Fragments)
  PROVE  /\ ItemsOf(s) \in Seq(Items) /\ Len(ItemsOf(s)) = Len(s)
         /\ \A e \in Fragments : ItemsOf(Append(s, e)) = Append(ItemsOf(s), ItemOf[e])
<1>1. ItemOf \in [Fragments -> Items]
  <2>1. \A f \in Fragments : ItemOf[f] \in Items  BY ItemIs
  <2> QED  BY <2>1 DEF ItemOf
<1>2. ASSUME NEW e \in Fragments
      PROVE  /\ Mapped(ItemOf, s) \in Seq(Items) /\ Len(Mapped(ItemOf, s)) = Len(s)
             /\ Mapped(ItemOf, Append(s, e)) = Append(Mapped(ItemOf, s), ItemOf[e])
  BY <1>1, MappedAppend
<1> DEFINE some == [name |-> 0, words |-> {}, bytes |-> 0]
<1>3. some \in Fragments  BY DEF Fragments
<1> QED  BY <1>2, <1>3 DEF ItemsOf

(* Different tasks are as many as there are, and take the time of each. *)
LEMMA TasksAddUp ==
  ASSUME NEW tasks \in Seq(Fragments), Different(tasks),
         NEW g, \A f \in ToSet(tasks) : g[f] = Durations[f]
  PROVE  /\ ItemsOf(tasks) \in Seq(Items) /\ Len(ItemsOf(tasks)) = Len(tasks)
         /\ IsFiniteSet(ToSet(tasks)) /\ Len(tasks) = Cardinality(ToSet(tasks))
         /\ TotalMinutes(ItemsOf(tasks)) = SumOf(g, ToSet(tasks))
<1> DEFINE Counts1(s) == IsFiniteSet(ToSet(s)) /\ Len(s) = Cardinality(ToSet(s))
           Sums1(s) == \A h : (\A f \in ToSet(s) : h[f] = Durations[f]) =>
                                TotalMinutes(ItemsOf(s)) = SumOf(h, ToSet(s))
           P == {s \in Seq(Fragments) : Different(s) => Counts1(s) /\ Sums1(s)}
<1>1. <<>> \in P
  <2> DEFINE none == <<>>
  <2>1. none \in Seq(Fragments) /\ ToSet(none) = {} /\ Len(none) = 0  BY DEF ToSet
  <2>2. ItemsOf(none) = none  BY DEF ItemsOf, Mapped
  <2>3. TotalMinutes(none) = 0  BY MinutesEmpty
  <2> HIDE DEF none
  <2>4. Counts1(none)  BY <2>1, FS_EmptySet
  <2>5. Sums1(none)  BY <2>1, <2>2, <2>3, SumOfNone
  <2> QED  BY <2>1, <2>4, <2>5 DEF none
<1>2. ASSUME NEW s \in Seq(Fragments), NEW e \in Fragments, s \in P PROVE Append(s, e) \in P
  <2> DEFINE t == Append(s, e)
             S == ToSet(s)
  <2>1. t \in Seq(Fragments) /\ Len(t) = Len(s) + 1 /\ Len(s) \in Nat  BY AppendProperties
  <2>2. ToSet(t) = S \cup {e}  BY ToSetAppend
  <2>3. ASSUME Different(t) PROVE Counts1(t) /\ Sums1(t)
    <3>1. Different(s) /\ e \notin S  BY <2>3, DifferentAppend
    <3>2. Counts1(s) /\ Sums1(s)  BY <1>2, <3>1
    <3>3. ItemsOf(s) \in Seq(Items) /\ ItemsOf(t) = Append(ItemsOf(s), ItemOf[e])
      BY ItemsAppend
    <3>4. \A f \in Fragments : Durations[f] \in Nat  BY ItemIs
    <3>5. \A f \in S : f \in Fragments  BY DEF ToSet
    <3> HIDE DEF t, S
    <3>6. Counts1(t)
      <4>1. IsFiniteSet(S) /\ Len(s) = Cardinality(S)  BY <3>2 DEF S
      <4>2. IsFiniteSet(S \cup {e}) /\ Cardinality(S \cup {e}) = Cardinality(S) + 1
        BY <3>1, <4>1, FS_AddElement
      <4> QED  BY <2>1, <2>2, <4>1, <4>2
    <3>7. ASSUME NEW h, \A f \in ToSet(t) : h[f] = Durations[f]
          PROVE  TotalMinutes(ItemsOf(t)) = SumOf(h, ToSet(t))
      <4>1. h[e] = Durations[e] /\ \A f \in S : h[f] = Durations[f]  BY <2>2, <3>7
      <4>2. TotalMinutes(ItemsOf(s)) = SumOf(h, S)  BY <3>2, <4>1 DEF S
      <4>3. TotalMinutes(ItemsOf(t)) = TotalMinutes(ItemsOf(s)) + ItemOf[e].minutes
            /\ TotalMinutes(ItemsOf(s)) \in Nat
        BY <3>3, ItemIs, MinutesAppend
      <4>4. ItemOf[e].minutes = h[e] /\ h[e] \in Nat  BY <4>1, ItemIs
      <4>5. \A f \in S \cup {e} : h[f] \in Nat  BY <3>4, <3>5, <4>1
      <4>6. IsFiniteSet(S)  BY <3>2 DEF S
      <4>7. SumOf(h, S \cup {e}) = h[e] + SumOf(h, S)  BY <3>1, <4>5, <4>6, SumOfMore
      <4> QED  BY <2>2, <4>2, <4>3, <4>4, <4>7
    <3> QED  BY <3>6, <3>7
  <2> QED  BY <2>1, <2>3
<1> HIDE DEF P
<1>3. tasks \in P  BY <1>1, <1>2, SequenceInduction
<1>4. Counts1(tasks) /\ Sums1(tasks)  BY <1>3 DEF P
<1>5. ItemsOf(tasks) \in Seq(Items) /\ Len(ItemsOf(tasks)) = Len(tasks)  BY ItemsAppend
<1> QED  BY <1>4, <1>5

(* The items of a description: its tasks', or one for the whole. *)
LEMMA ParsedItems ==
  ASSUME PlanInv,
         NEW tasks, tasks = Selected({f \in ToSet(description) : f.bytes >= 3}, description),
         NEW items, items = ParseTasks(description, DefaultMinutes)
  PROVE  /\ tasks \in Seq(Fragments) /\ Different(tasks)
         /\ ToSet(tasks) = {f \in ToSet(description) : f.bytes >= 3}
         /\ items \in Seq(Items)
         /\ IF tasks = <<>> /\ description # <<>> THEN Len(items) = 1 ELSE items = ItemsOf(tasks)
<1> DEFINE K == {f \in ToSet(description) : f.bytes >= 3}
           none == <<>>
<1>1. /\ description \in Seq(Fragments)
      /\ ToSet(description) = {description[i] : i \in 1..Len(description)}
  BY DEF PlanInv, ToSet
<1>2. \A f \in ToSet(description) : f \in Fragments  BY <1>1
<1>3. \A i \in 1..Len(description) : description[i] \in K <=> description[i] \in Long
  BY <1>1, <1>2 DEF Long
<1>4. K = {f \in ToSet(description) : f \in Long}  BY <1>2 DEF Long
<1>5. tasks = Selected(K, description)  OBVIOUS
<1> HIDE DEF K
<1>6. tasks = Selected(Long, description)  BY <1>1, <1>3, <1>5, SelectedSame
<1>7. tasks \in Seq(Fragments) /\ ToSet(tasks) = K
  <2>1. Selected(Long, description) \in Seq(Fragments)  BY <1>1, SelectedAppend
  <2>2. ToSet(Selected(Long, description)) = {f \in ToSet(description) : f \in Long}
    BY <1>1, SelectedHas
  <2> QED  BY <1>4, <1>6, <2>1, <2>2
<1>8. Different(tasks)
  <2>1. Different(description)
    <3>1. \A i \in 1..Len(description) : description[i].name = i - 1  BY DEF PlanInv
    <3>2. ASSUME NEW i \in 1..Len(description), NEW j \in 1..Len(description),
                 description[i] = description[j]
          PROVE  i = j
      <4>1. i - 1 = j - 1  BY <3>1, <3>2
      <4> QED  BY <4>1
    <3> QED  BY <3>2 DEF Different
  <2> QED  BY <1>1, <1>6, <2>1, SelectedDifferent
<1> DEFINE all == UNION {description[i].words : i \in DOMAIN description}
           whole == [title |-> "whole", minutes |-> DefaultMinutes,
                     priority |-> ClassifyPriority(all)]
<1>9. items = IF tasks = none /\ description # none THEN <<whole>>
              ELSE [i \in DOMAIN tasks |-> Item(tasks[i], DefaultMinutes)]
  BY DEF ParseTasks
<1>10. whole \in Items
  <2>1. ClassifyPriority(all) \in Quadrants  BY DEF ClassifyPriority, Priorities, Quadrants
  <2> HIDE DEF all
  <2>2. DefaultMinutes \in Nat  BY DEF DefaultMinutes
  <2> QED  BY <2>1, <2>2 DEF Items
<1> HIDE DEF whole
<1>11. CASE tasks = none /\ description # none
  <2>1. items = <<whole>>  BY <1>9, <1>11
  <2>2. items \in Seq(Items) /\ Len(items) = 1  BY <1>10, <2>1
  <2> QED  BY <1>7, <1>8, <1>11, <2>2 DEF K
<1>12. CASE ~(tasks = none /\ description # none)
  <2>1. \A i \in DOMAIN tasks : tasks[i] \in Fragments
    <3>1. tasks \in Seq(Fragments)  BY <1>7
    <3> QED  BY <3>1
  <2>2. items = [i \in DOMAIN tasks |-> Item(tasks[i], DefaultMinutes)]  BY <1>9, <1>12
  <2>3. \A f \in Fragments : ItemOf[f] = Item(f, DefaultMinutes)  BY DEF ItemOf
  <2>4. items = ItemsOf(tasks)  BY <2>1, <2>2, <2>3 DEF ItemsOf, Mapped
  <2>5. ItemsOf(tasks) \in Seq(Items)  BY <1>7, ItemsAppend
  <2> QED  BY <1>7, <1>8, <1>12, <2>4, <2>5 DEF K
<1> QED  BY <1>11, <1>12

LEMMA PlanIsRight == PlanInv => PlanIsWhole
<1> SUFFICES ASSUME PlanInv PROVE PlanIsWhole  OBVIOUS
<1> DEFINE items == ParseTasks(description, DefaultMinutes)
           plan == BuildPlan(items)
           K == {f \in ToSet(description) : f.bytes >= 3}
           tasks == Selected(K, description)
           minutes == [f \in K |-> Duration(f)]
           shown == plan.shown
<1>1. /\ tasks \in Seq(Fragments) /\ Different(tasks) /\ ToSet(tasks) = K
      /\ items \in Seq(Items)
      /\ IF tasks = <<>> /\ description # <<>> THEN Len(items) = 1 ELSE items = ItemsOf(tasks)
  BY ParsedItems
<1>2. /\ shown \in Seq(Items) /\ plan.items = Len(items)
      /\ Len(shown) = Len(items) /\ ToSet(shown) = ToSet(items)
      /\ plan.minutes = TotalMinutes(items) /\ UrgentFirst(shown)
  BY <1>1, PlanOfItems
<1>3. K = {} <=> tasks = <<>>
  <2> HIDE DEF tasks, K
  <2>1. ToSet(tasks) = {tasks[i] : i \in 1..Len(tasks)} /\ Len(tasks) \in Nat  BY <1>1 DEF ToSet
  <2>2. ASSUME tasks # <<>> PROVE K # {}
    <3>1. Len(tasks) # 0  BY <1>1, <2>2
    <3>2. 1 \in 1..Len(tasks)  BY <2>1, <3>1
    <3> QED  BY <1>1, <2>1, <3>2
  <2>3. ASSUME tasks = <<>> PROVE K = {}  BY <1>1, <2>3 DEF ToSet
  <2> QED  BY <2>2, <2>3
<1>4. description = <<>> => K = {}  BY DEF ToSet
<1>5. \A f \in K : f \in Fragments
  BY DEF PlanInv, ToSet
<1>6. \A f \in K : minutes[f] = Durations[f]  BY <1>5 DEF Durations
<1>7. PlanIsWhole =
        (/\ Len(shown) = plan.items /\ ToSet(shown) = ToSet(items)
         /\ K # {} => /\ {item.title : item \in ToSet(shown)} = {f.name : f \in K}
                      /\ plan.items = Cardinality(K)
                      /\ plan.minutes = SumOf(minutes, K)
         /\ K = {} /\ description # <<>> => plan.items = 1
         /\ \A i, j \in DOMAIN shown :
              shown[j].priority = Priorities[1] /\ i < j => shown[i].priority = Priorities[1])
  BY DEF PlanIsWhole, SumOf, Duration
<1> HIDE DEF items, plan, tasks, minutes, K
<1>8. ASSUME K # {}
      PROVE  /\ {item.title : item \in ToSet(shown)} = {f.name : f \in K}
             /\ plan.items = Cardinality(K)
             /\ plan.minutes = SumOf(minutes, K)
  <2>1. items = ItemsOf(tasks)  BY <1>1, <1>3, <1>8
  <2>2. /\ Len(ItemsOf(tasks)) = Len(tasks) /\ Len(tasks) = Cardinality(K)
        /\ TotalMinutes(ItemsOf(tasks)) = SumOf(minutes, K)
    <3>1. \A f \in ToSet(tasks) : minutes[f] = Durations[f]  BY <1>1, <1>6
    <3> QED  BY <1>1, <3>1, TasksAddUp
  <2>3. {item.title : item \in ToSet(items)} = {f.name : f \in K}
    <3>1. ToSet(items) = {ItemOf[f] : f \in K}
      <4>1. DOMAIN tasks = 1..Len(tasks)  BY <1>1
      <4>2. K = {tasks[i] : i \in DOMAIN tasks}  BY <1>1 DEF ToSet
      <4>3. DOMAIN items = DOMAIN tasks /\ \A i \in DOMAIN tasks : items[i] = ItemOf[tasks[i]]
        BY <2>1 DEF ItemsOf, Mapped
      <4>4. ToSet(items) = {items[i] : i \in DOMAIN items}  BY DEF ToSet
      <4> QED  BY <4>2, <4>3, <4>4
    <3>2. \A f \in K : ItemOf[f].title = f.name  BY <1>5, ItemIs
    <3> QED  BY <3>1, <3>2
  <2> QED  BY <1>2, <2>1, <2>2, <2>3
<1>9. ASSUME K = {}, description # <<>> PROVE plan.items = 1
  BY <1>1, <1>2, <1>3, <1>9
<1>10. ASSUME NEW i \in DOMAIN shown, NEW j \in DOMAIN shown,
              shown[j].priority = Priorities[1], i < j
       PROVE  shown[i].priority = Priorities[1]
  <2>1. DOMAIN shown = 1..Len(shown)  BY <1>2
  <2> QED  BY <1>2, <1>10, <2>1 DEF UrgentFirst, Urgent
<1>11. Len(shown) = plan.items /\ ToSet(shown) = ToSet(items)  BY <1>2
<1> HIDE DEF shown
<1> QED  BY <1>7, <1>8, <1>9, <1>10, <1>11

-----------------------------------------------------------------------------
(* A page that is fetched is one of the results, and three at most are. *)
ResearchInv == results \in Nat /\ pages \in Nat /\ pages <= results /\ pages <= 3

LEMMA ResearchKeeps == ResearchInv /\ Investigate => ResearchInv'
<1> SUFFICES ASSUME ResearchInv, Investigate PROVE ResearchInv'  OBVIOUS
<1>1. CASE Recall  BY <1>1 DEF Recall, ResearchInv
<1>2. CASE FindResult  BY <1>2 DEF FindResult, ResearchInv
<1>3. CASE FetchPage  BY <1>3 DEF FetchPage, ResearchInv
<1> QED  BY <1>1, <1>2, <1>3 DEF Investigate

LEMMA SynthesisRight == ResearchInv => SynthesisIsRight
<1> SUFFICES ASSUME ResearchInv PROVE SynthesisIsRight  OBVIOUS
<1> DEFINE summary == SynthesizeFindings(known, results, pages)
<1>1. /\ summary.nothing = (~known /\ results = 0 /\ pages = 0)
      /\ summary.sources = results + pages
  BY DEF SynthesizeFindings
<1>2. results \in Nat /\ pages \in Nat /\ pages <= results /\ pages <= 3  BY DEF ResearchInv
<1>3. results = 0 => pages = 0  BY <1>2
<1> HIDE DEF summary
<1>4. summary.nothing <=> ~known /\ results = 0  BY <1>1, <1>3
<1>5. summary.sources \in results..(2 * results) /\ summary.sources <= results + 3
  BY <1>1, <1>2
<1> QED  BY <1>4, <1>5 DEF SynthesisIsRight, summary

-----------------------------------------------------------------------------
ReportsInv == TestInv /\ ReviewInv /\ PlanInv /\ ResearchInv

LEMMA ReportsInvInit == Init => ReportsInv
<1> SUFFICES ASSUME Init PROVE ReportsInv  OBVIOUS
<1> DEFINE none == <<>>
<1>1. /\ output = none /\ failing = 0 /\ findings = none /\ found = Found /\ own = Found
      /\ description = none /\ results = 0 /\ pages = 0
  BY DEF Init, ReportInit
<1>2. /\ none \in Seq(TestLines) /\ none \in Seq(Severities) /\ none \in Seq(Fragments)
      /\ Len(none) = 0
  OBVIOUS
<1>3. Counted(none) = NoTests /\ \A s : Number(none, s) = 0  BY CountedEmpty, NumberEmpty
<1> HIDE DEF none
<1>4. TestInv  BY <1>1, <1>2, <1>3 DEF TestInv, NoTests
<1>5. ReviewInv
  <2>1. \A s \in Severities : Number(none, s) = Found[s] + Found[s]  BY <1>3, FoundIs
  <2> QED  BY <1>1, <1>2, <2>1, FoundIs DEF ReviewInv
<1>6. PlanInv  BY <1>1, <1>2 DEF PlanInv
<1>7. ResearchInv  BY <1>1 DEF ResearchInv
<1> QED  BY <1>4, <1>5, <1>6, <1>7 DEF ReportsInv

LEMMA SameReports ==
  /\ TestInv /\ UNCHANGED testVars => TestInv'
  /\ ReviewInv /\ UNCHANGED reviewVars => ReviewInv'
  /\ PlanInv /\ UNCHANGED description => PlanInv'
  /\ ResearchInv /\ UNCHANGED researchVars => ResearchInv'
<1>1. ASSUME TestInv, UNCHANGED testVars PROVE TestInv'
  <2>1. output' = output /\ failing' = failing  BY <1>1 DEF testVars
  <2>2. Counted(output)' = Counted(output)  BY <2>1 DEF Counted
  <2> QED  BY <1>1, <2>1, <2>2 DEF TestInv
<1>2. ASSUME ReviewInv, UNCHANGED reviewVars PROVE ReviewInv'
  <2>1. findings' = findings /\ found' = found /\ own' = own  BY <1>2 DEF reviewVars
  <2> QED  BY <1>2, <2>1 DEF ReviewInv, Number
<1>3. ASSUME PlanInv, UNCHANGED description PROVE PlanInv'  BY <1>3 DEF PlanInv
<1>4. ASSUME ResearchInv, UNCHANGED researchVars PROVE ResearchInv'
  BY <1>4 DEF ResearchInv, researchVars
<1> QED  BY <1>1, <1>2, <1>3, <1>4

LEMMA ReportsInvNext == ReportsInv /\ [Next]_vars => ReportsInv'
<1> SUFFICES ASSUME ReportsInv, [Next]_vars PROVE ReportsInv'  OBVIOUS
<1>1. TestInv /\ ReviewInv /\ PlanInv /\ ResearchInv  BY DEF ReportsInv
<1>2. TestInv'
  <2>1. RunTests \/ UNCHANGED testVars
    BY DEF Next, Messages, Output, Replies, Reports, RunCheck, RunClippy, ClippyPrints,
           RunFmt, RunGrep, CannotStart, Check, Describe, Investigate, vars, reportVars
  <2> QED  BY <1>1, <2>1, RunTestsKeeps, SameReports
<1>3. ReviewInv'
  <2>1. RunCheck \/ UNCHANGED reviewVars
    BY DEF Next, Messages, Output, Replies, Reports, RunTests, Describe, Investigate, vars,
           reportVars
  <2> QED  BY <1>1, <2>1, RunCheckKeeps, SameReports
<1>4. PlanInv'
  <2>1. Describe \/ UNCHANGED description
    BY DEF Next, Messages, Output, Replies, Reports, RunTests, RunCheck, RunClippy,
           ClippyPrints, RunFmt, RunGrep, CannotStart, Check, Investigate, vars, reportVars
  <2> QED  BY <1>1, <2>1, DescribeKeeps, SameReports
<1>5. ResearchInv'
  <2>1. Investigate \/ UNCHANGED researchVars
    BY DEF Next, Messages, Output, Replies, Reports, RunTests, RunCheck, RunClippy,
           ClippyPrints, RunFmt, RunGrep, CannotStart, Check, Describe, vars, reportVars
  <2> QED  BY <1>1, <2>1, ResearchKeeps, SameReports
<1> QED  BY <1>2, <1>3, <1>4, <1>5 DEF ReportsInv

(* For any number of test binaries, lines of clippy, tasks, results and     *)
(* pages, whatever is printed of what ReportInputs lets a program print:    *)
(* the verdict of the test report is that of the tests reported as failed,  *)
(* also of a run that broke off; the review counts the findings of the      *)
(* checks by severity, and with them cargo's own lines that its parser does *)
(* not know; the plan has every task of the description once and with its   *)
(* time (parse_tasks, build_plan); and the synthesis says "nothing" exactly *)
(* when neither the memory nor the search had anything.                     *)
THEOREM ReportsAlwaysRight == Spec => []ReportsAreRight
<1>1. ReportsInv => ReportsAreRight
  BY TestsAreRight, ReviewIsRight, PlanIsRight, SynthesisRight DEF ReportsInv, ReportsAreRight
<1> QED  BY <1>1, ReportsInvInit, ReportsInvNext, PTL DEF Spec

=============================================================================
