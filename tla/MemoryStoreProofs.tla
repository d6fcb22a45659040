-------------------------- MODULE MemoryStoreProofs --------------------------
(***************************************************************************)
(* Theorems about MemoryStore: what add() promised to persist has a row,   *)
(* and an important memory is always in one of the layers, on its way      *)
(* between them, or known to be lost.  The invariant adds the memories     *)
(* whose add() is not through yet.                                         *)
(***************************************************************************)
EXTENDS MemoryStore, FoldLemmas

LayerTypes ==
  /\ working \in Seq(Memories) /\ Len(working) <= Size
  /\ rows \in [Memories -> Nat]
  /\ adding \subseteq Memories /\ saving \subseteq Memories /\ missed \subseteq Memories
  /\ outcome \in [Memories -> Outcomes]

(* Where a memory can be. *)
Somewhere(m) == m \in Working \cup saving \cup missed \/ rows[m] > 0

(* A memory that was handed to add(), whether or not it has returned. *)
Known(m) == m \in adding \/ outcome[m] \in {"kept", "held", "failed"}

LayerInv ==
  /\ LayerTypes
  /\ \A m \in Memories : outcome[m] = "kept" => rows[m] > 0
  /\ \A m \in Memories : Known(m) /\ Important(m) => Somewhere(m)

-----------------------------------------------------------------------------
LEMMA Sizes == Size \in Nat \ {0}
  BY MemoryAssumption

(* Appending. *)
LEMMA AppendedSet ==
  ASSUME NEW S, NEW seq \in Seq(S), NEW m \in S
  PROVE  /\ Append(seq, m) \in Seq(S) /\ Len(Append(seq, m)) = Len(seq) + 1 /\ Len(seq) \in Nat
         /\ m \in ToSet(Append(seq, m))
         /\ ToSet(seq) \subseteq ToSet(Append(seq, m))
<1>1. /\ Append(seq, m) \in Seq(S) /\ Len(Append(seq, m)) = Len(seq) + 1 /\ Len(seq) \in Nat
      /\ Append(seq, m)[Len(seq) + 1] = m
      /\ \A i \in 1..Len(seq) : Append(seq, m)[i] = seq[i]
      /\ DOMAIN seq = 1..Len(seq) /\ DOMAIN Append(seq, m) = 1..(Len(seq) + 1)
  OBVIOUS
<1>2. ASSUME NEW i \in 1..Len(seq) PROVE i \in 1..(Len(seq) + 1)  BY <1>1
<1>3. Len(seq) + 1 \in 1..(Len(seq) + 1)  BY <1>1
<1> QED  BY <1>1, <1>2, <1>3 DEF ToSet

(* The eviction takes from the front what is over the size; the rest stays. *)
LEMMA KeptOrEvicted ==
  ASSUME NEW S, NEW seq \in Seq(S)
  PROVE  /\ Kept(seq) \in Seq(S) /\ Len(Kept(seq)) <= Size
         /\ Evicted(seq) \subseteq S
         /\ \A m \in ToSet(seq) : m \in ToSet(Kept(seq)) \/ m \in Evicted(seq)
<1> DEFINE n == Len(seq)
           k == n - Size
<1>0. n \in Nat /\ DOMAIN seq = 1..n /\ \A i \in 1..n : seq[i] \in S  OBVIOUS
<1>1. CASE n <= Size
  <2>1. Kept(seq) = seq /\ Evicted(seq) = {}  BY <1>0, <1>1, Sizes DEF Kept, Evicted
  <2> QED  BY <1>0, <1>1, <2>1
<1>2. CASE n > Size
  <2>1. Kept(seq) = SubSeq(seq, k + 1, n) /\ Evicted(seq) = {seq[i] : i \in 1..k}
    BY <1>2 DEF Kept, Evicted
  <2>2. k \in Nat /\ k + 1 \in 1..n /\ n - (k + 1) + 1 = Size
    BY <1>0, <1>2, Sizes
  <2>3. /\ SubSeq(seq, k + 1, n) \in Seq(S) /\ Len(SubSeq(seq, k + 1, n)) = Size
        /\ \A j \in 1..Size : SubSeq(seq, k + 1, n)[j] = seq[k + j]
    BY <1>0, <2>2, Sizes
  <2>4. DOMAIN SubSeq(seq, k + 1, n) = 1..Size  BY <2>3
  <2>5. ASSUME NEW i \in 1..n PROVE i \in 1..k \/ (i - k \in 1..Size /\ k + (i - k) = i)
    BY <1>0, <2>2, Sizes
  <2>6. ASSUME NEW i \in 1..n
        PROVE  seq[i] \in ToSet(SubSeq(seq, k + 1, n)) \/ seq[i] \in {seq[j] : j \in 1..k}
    <3>1. CASE i \in 1..k  BY <3>1
    <3>2. CASE i - k \in 1..Size /\ k + (i - k) = i
      <4>1. SubSeq(seq, k + 1, n)[i - k] = seq[i]  BY <2>3, <3>2
      <4> QED  BY <2>4, <3>2, <4>1 DEF ToSet
    <3> QED  BY <2>5, <3>1, <3>2
  <2>7. \A i \in 1..k : i \in 1..n  BY <1>0, <2>2
  <2>8. Evicted(seq) \subseteq S  BY <1>0, <2>1, <2>7
  <2>9. \A m \in ToSet(seq) : m \in ToSet(Kept(seq)) \/ m \in Evicted(seq)
    BY <1>0, <2>1, <2>6 DEF ToSet
  <2> QED  BY <2>1, <2>3, <2>8, <2>9, Sizes
<1> QED  BY <1>0, <1>1, <1>2, Sizes

-----------------------------------------------------------------------------
LEMMA InitLayers == Init => LayerInv
<1> SUFFICES ASSUME Init PROVE LayerInv  OBVIOUS
<1>1. <<>> \in Seq(Memories) /\ Len(<<>>) = 0  OBVIOUS
<1>2. LayerTypes  BY <1>1, Sizes DEF Init, LayerTypes, Outcomes
<1>3. \A m \in Memories : ~Known(m)  BY DEF Init, Known
<1>4. \A m \in Memories : outcome[m] # "kept"  BY DEF Init
<1> QED  BY <1>2, <1>3, <1>4 DEF LayerInv

(* Readers and access control change no layer. *)
LEMMA SameLayers == LayerInv /\ UNCHANGED storeVars => LayerInv'
  BY DEF LayerInv, LayerTypes, Known, Somewhere, Working, Important, storeVars

LEMMA AddKeeps ==
  ASSUME LayerInv, NEW m \in Memories, NEW p \in BOOLEAN, Add(m, p)
  PROVE  LayerInv'
<1> DEFINE all == Append(working, m)
<1>1. /\ working \in Seq(Memories) /\ all \in Seq(Memories)
      /\ m \in ToSet(all) /\ Working \subseteq ToSet(all)
  BY AppendedSet DEF LayerInv, LayerTypes, Working
<1>2. /\ working' = Kept(all)
      /\ saving' = saving \cup {e \in Evicted(all) : Important(e)}
      /\ UNCHANGED <<rows, missed>> /\ outcome[m] = "none"
  BY DEF Add
<1>3. /\ Kept(all) \in Seq(Memories) /\ Len(Kept(all)) <= Size /\ Evicted(all) \subseteq Memories
      /\ \A e \in ToSet(all) : e \in ToSet(Kept(all)) \/ e \in Evicted(all)
  BY <1>1, KeptOrEvicted
<1>4. /\ adding' \subseteq adding \cup {m} /\ adding' \subseteq Memories
      /\ outcome' \in [Memories -> Outcomes]
      /\ \A e \in Memories : outcome'[e] = outcome[e] \/ (e = m /\ outcome'[e] = "held")
  BY DEF Add, LayerInv, LayerTypes, Outcomes
<1>5. LayerTypes'  BY <1>2, <1>3, <1>4 DEF LayerInv, LayerTypes
<1>6. ASSUME NEW e \in Memories, outcome'[e] = "kept" PROVE rows'[e] > 0
  BY <1>2, <1>4, <1>6 DEF LayerInv
<1>7. ASSUME NEW e \in Memories, Known(e)', Important(e)' PROVE Somewhere(e)'
  <2>1. Important(e) /\ (e = m \/ Known(e))  BY <1>4, <1>7 DEF Known, Important
  <2>2. e \in ToSet(all) \/ e \in saving \cup missed \/ rows[e] > 0
    BY <1>1, <2>1 DEF LayerInv, Somewhere
  <2>3. e \in ToSet(all) => e \in Working' \/ e \in saving'
    BY <1>2, <1>3, <2>1 DEF Working
  <2> QED  BY <1>2, <2>2, <2>3 DEF Somewhere
<1> QED  BY <1>5, <1>6, <1>7 DEF LayerInv

(* add() returns, with a row or without. *)
LEMMA PersistKeeps ==
  ASSUME LayerInv, NEW m \in adding, Persist(m) \/ PersistFails(m)
  PROVE  LayerInv'
<1>1. /\ m \in Memories /\ rows[m] \in Nat /\ UNCHANGED <<working, saving, missed>>
      /\ adding' = adding \ {m}
  BY DEF LayerInv, LayerTypes, Persist, PersistFails
<1>2. \/ rows' = [rows EXCEPT ![m] = @ + 1] /\ outcome' = [outcome EXCEPT ![m] = "kept"]
      \/ rows' = rows /\ outcome' = [outcome EXCEPT ![m] = "failed"]
  BY DEF Persist, PersistFails, WriteRow
<1>3. /\ rows' \in [Memories -> Nat] /\ \A e \in Memories : rows[e] > 0 => rows'[e] > 0
      /\ outcome'[m] = "kept" => rows'[m] > 0
      /\ outcome' \in [Memories -> Outcomes]
      /\ \A e \in Memories \ {m} : outcome'[e] = outcome[e]
  <2>1. rows \in [Memories -> Nat] /\ outcome \in [Memories -> Outcomes]
    BY DEF LayerInv, LayerTypes
  <2>2. CASE rows' = [rows EXCEPT ![m] = @ + 1] /\ outcome' = [outcome EXCEPT ![m] = "kept"]
    <3>1. rows' \in [Memories -> Nat] /\ rows'[m] > 0  BY <1>1, <2>1, <2>2
    <3>2. \A e \in Memories : rows[e] > 0 => rows'[e] > 0  BY <1>1, <2>1, <2>2
    <3>3. outcome' \in [Memories -> Outcomes]  BY <2>1, <2>2 DEF Outcomes
    <3> QED  BY <2>1, <2>2, <3>1, <3>2, <3>3
  <2>3. CASE rows' = rows /\ outcome' = [outcome EXCEPT ![m] = "failed"]
    <3>1. outcome' \in [Memories -> Outcomes] /\ outcome'[m] = "failed"
      BY <1>1, <2>1, <2>3 DEF Outcomes
    <3> QED  BY <2>1, <2>3, <3>1
  <2> QED  BY <1>2, <2>2, <2>3
<1>4. LayerTypes'  BY <1>1, <1>3 DEF LayerInv, LayerTypes
<1>5. ASSUME NEW e \in Memories, Known(e)', Important(e)' PROVE Somewhere(e)'
  <2>1. Known(e) /\ Important(e)  BY <1>1, <1>3, <1>5 DEF Known, Important
  <2> QED  BY <1>1, <1>3, <2>1 DEF LayerInv, Somewhere, Working
<1> QED  BY <1>3, <1>4, <1>5 DEF LayerInv

(* The spawned task of an eviction is through, with a row or without. *)
LEMMA SaveKeeps ==
  ASSUME LayerInv, NEW m \in saving, SaveEvicted(m) \/ SaveFails(m)
  PROVE  LayerInv'
<1>1. /\ m \in Memories /\ rows[m] \in Nat /\ UNCHANGED <<working, adding, outcome>>
      /\ saving' = saving \ {m}
  BY DEF LayerInv, LayerTypes, SaveEvicted, SaveFails
<1>2. \/ rows' = [rows EXCEPT ![m] = @ + 1] /\ missed' = missed
      \/ rows' = rows /\ missed' = missed \cup {m}
  BY DEF SaveEvicted, SaveFails, WriteRow
<1>3. /\ rows' \in [Memories -> Nat] /\ \A e \in Memories : rows[e] > 0 => rows'[e] > 0
      /\ missed \subseteq missed' /\ missed' \subseteq Memories
      /\ rows'[m] > 0 \/ m \in missed'
  BY <1>1, <1>2 DEF LayerInv, LayerTypes
<1>4. LayerTypes'  BY <1>1, <1>3 DEF LayerInv, LayerTypes
<1>5. ASSUME NEW e \in Memories, Known(e)', Important(e)' PROVE Somewhere(e)'
  <2>1. Known(e) /\ Important(e)  BY <1>1, <1>5 DEF Known, Important
  <2> QED  BY <1>1, <1>3, <2>1 DEF LayerInv, Somewhere, Working
<1> QED  BY <1>1, <1>3, <1>4, <1>5 DEF LayerInv

(* Working memory is gone, what was important in it is known to be missed.  *)
LEMMA ClearKeeps == LayerInv /\ ClearWorkingMemory => LayerInv'
<1> SUFFICES ASSUME LayerInv, ClearWorkingMemory PROVE LayerInv'  OBVIOUS
<1>1. /\ working' = <<>> /\ missed' = missed \cup {m \in Working : Important(m)}
      /\ UNCHANGED <<rows, adding, saving, outcome>>
  BY DEF ClearWorkingMemory
<1>2. <<>> \in Seq(Memories) /\ Len(<<>>) = 0  OBVIOUS
<1>3. Working \subseteq Memories  BY DEF LayerInv, LayerTypes, Working, ToSet
<1>4. LayerTypes'  BY <1>1, <1>2, <1>3, Sizes DEF LayerInv, LayerTypes
<1>5. ASSUME NEW e \in Memories, Known(e)', Important(e)' PROVE Somewhere(e)'
  BY <1>1, <1>5 DEF LayerInv, Known, Important, Somewhere
<1> QED  BY <1>1, <1>4, <1>5 DEF LayerInv

LEMMA CrashKeeps == LayerInv /\ Crash => LayerInv'
<1> SUFFICES ASSUME LayerInv, Crash PROVE LayerInv'  OBVIOUS
<1>1. /\ working' = <<>> /\ adding' = {} /\ saving' = {} /\ rows' = rows
      /\ missed' = missed \cup saving \cup {m \in Working : Important(m)}
      /\ outcome' = [m \in Memories |-> IF m \in adding THEN "lost" ELSE outcome[m]]
  BY DEF Crash
<1>2. <<>> \in Seq(Memories) /\ Len(<<>>) = 0  OBVIOUS
<1>3. Working \subseteq Memories  BY DEF LayerInv, LayerTypes, Working, ToSet
<1>4. LayerTypes'  BY <1>1, <1>2, <1>3, Sizes DEF LayerInv, LayerTypes, Outcomes
<1>5. ASSUME NEW e \in Memories, Known(e)', Important(e)' PROVE Somewhere(e)'
  <2>1. Known(e) /\ Important(e)  BY <1>1, <1>5 DEF Known, Important
  <2> QED  BY <1>1, <2>1 DEF LayerInv, Somewhere
<1>6. ASSUME NEW e \in Memories, outcome'[e] = "kept" PROVE rows'[e] > 0
  BY <1>1, <1>6 DEF LayerInv
<1> QED  BY <1>4, <1>5, <1>6 DEF LayerInv

LEMMA ReadKeeps == ASSUME NEW r \in Readers, Read(r) PROVE UNCHANGED storeVars
  BY DEF Read, Search, SearchTable, SearchFails, AskAgent, AskTask, CheckAccess, AgentWorking,
         AgentTable, AgentTableFails, Return, BuildContext, ContextSearch, ContextFound,
         ContextOwn, Step

LEMMA NextKeeps == LayerInv /\ [Next]_vars => LayerInv'
<1> SUFFICES ASSUME LayerInv, [Next]_vars PROVE LayerInv'  OBVIOUS
<1>1. CASE Write
  <2>1. ASSUME NEW m \in Memories, NEW p \in BOOLEAN,
               Add(m, p) \/ \E a \in Agents : AddAuthorized(a, m, p)
        PROVE  LayerInv'
    BY <2>1, AddKeeps DEF AddAuthorized
  <2> QED  BY <1>1, <2>1, PersistKeeps, SaveKeeps, ClearKeeps DEF Write
<1>2. CASE Crash  BY <1>2, CrashKeeps
<1>3. ASSUME NEW p \in Shares, Grant(p) \/ Revoke(p) PROVE LayerInv'
  BY <1>3, SameLayers DEF Grant, Revoke
<1>4. ASSUME NEW r \in Readers, Read(r) PROVE LayerInv'  BY <1>4, ReadKeeps, SameLayers
<1>5. CASE UNCHANGED vars  BY <1>5, SameLayers DEF vars
<1> QED  BY <1>1, <1>2, <1>3, <1>4, <1>5 DEF Next

LEMMA LayerInvariant == Spec => []LayerInv
  BY InitLayers, NextKeeps, PTL DEF Spec

-----------------------------------------------------------------------------
(* Contexts.  A fold of texts or memories is one of FoldLemmas. *)

SomeTexts == {Text[m] : m \in Memories}

LEMMA UsedIs ==
  ASSUME NEW seq \in Seq(SomeTexts)
  PROVE  Used(seq) = Folded([p \in Nat \X SomeTexts |-> p[1] + Tokens[p[2]]], 0, seq)
<1> DEFINE G == [p \in Nat \X SomeTexts |-> p[1] + Tokens[p[2]]]
           Steps(c) == c = [T \in SUBSET (DOMAIN seq) |->
                              IF T = {} THEN 0 ELSE c[T \ {Max(T)}] + Tokens[seq[Max(T)]]]
           c == CHOOSE h : Steps(h)
<1>1. \A t \in SomeTexts : Tokens[t] \in Nat  BY MemoryAssumption DEF SomeTexts
<1>2. G \in [Nat \X SomeTexts -> Nat] /\ \A n \in Nat, t \in SomeTexts : G[<<n, t>>] = n + Tokens[t]
  BY <1>1
<1>3. 0 \in Nat /\ Len(seq) \in Nat /\ DOMAIN seq = 1..Len(seq)
      /\ \A i \in 1..Len(seq) : seq[i] \in SomeTexts
  OBVIOUS
<1> HIDE DEF G
<1>4. Foldable(Nat, SomeTexts, G, 0, seq) /\ \E h : HasSteps(h, Nat, G, 0, seq)
  BY <1>2, <1>3, StepsExist DEF Foldable
<1> PICK h : HasSteps(h, Nat, G, 0, seq)  BY <1>4
<1>5. Steps(h)
  <2>1. \A T \in SUBSET (DOMAIN seq) : T # {} => Max(T) \in DOMAIN seq /\ seq[Max(T)] \in SomeTexts
    BY <1>3, Greatest
  <2>2. h \in [SUBSET (DOMAIN seq) -> Nat] /\ h[{}] = 0  BY <1>4 DEF HasSteps
  <2>3. ASSUME NEW T \in SUBSET (DOMAIN seq), T # {}
        PROVE  h[T] = h[T \ {Max(T)}] + Tokens[seq[Max(T)]]
    <3>1. h[T] = G[<<h[T \ {Max(T)}], seq[Max(T)]>>]  BY <1>4, <2>3 DEF HasSteps
    <3>2. h[T \ {Max(T)}] \in Nat  BY <2>2
    <3> QED  BY <1>2, <2>1, <2>3, <3>1, <3>2
  <2>4. \A T \in SUBSET (DOMAIN seq) :
          h[T] = IF T = {} THEN 0 ELSE h[T \ {Max(T)}] + Tokens[seq[Max(T)]]
    BY <2>2, <2>3
  <2> QED  BY <2>2, <2>4
<1>6. Steps(c)  BY <1>5
<1>7. Used(seq) = c[DOMAIN seq]  BY DEF Used, FoldLeft, MapThenFoldSet
<1> HIDE DEF c
<1>8. \A T \in SUBSET (DOMAIN seq) :
        c[T] = IF T = {} THEN 0 ELSE c[T \ {Max(T)}] + Tokens[seq[Max(T)]]
  BY <1>6
<1>9. c[{}] = 0  BY <1>8
<1>10. ASSUME NEW k \in 1..Len(seq), c[1..(k - 1)] \in Nat
       PROVE  c[1..k] = G[<<c[1..(k - 1)], seq[k]>>]
  <2>1. k \in Nat \ {0} /\ 1..k \in SUBSET (DOMAIN seq)  BY <1>3
  <2>2. 1..k # {} /\ Max(1..k) = k /\ (1..k) \ {k} = 1..(k - 1)  BY <2>1, UpTo
  <2>3. c[1..k] = c[1..(k - 1)] + Tokens[seq[k]]  BY <1>8, <2>1, <2>2
  <2> QED  BY <1>2, <1>3, <1>10, <2>3
<1>11. Follows(c, Nat, G, 0, seq)  BY <1>9, <1>10 DEF Follows
<1>12. c[DOMAIN seq] = Folded(G, 0, seq)  BY <1>4, <1>11, FoldIs
<1> QED  BY <1>7, <1>12 DEF G

LEMMA UsedSteps ==
  /\ Used(<<>>) = 0
  /\ \A seq \in Seq(SomeTexts) :
       /\ Used(seq) \in Nat
       /\ \A t \in SomeTexts : Used(Append(seq, t)) = Used(seq) + Tokens[t]
<1> DEFINE G == [p \in Nat \X SomeTexts |-> p[1] + Tokens[p[2]]]
<1>1. \A t \in SomeTexts : Tokens[t] \in Nat  BY MemoryAssumption DEF SomeTexts
<1>2. G \in [Nat \X SomeTexts -> Nat] /\ \A n \in Nat, t \in SomeTexts : G[<<n, t>>] = n + Tokens[t]
  BY <1>1
<1>3. \A seq \in Seq(SomeTexts) : Used(seq) = Folded(G, 0, seq)  BY UsedIs
<1> HIDE DEF G
<1>4. \A seq \in Seq(SomeTexts) : Foldable(Nat, SomeTexts, G, 0, seq)  BY <1>2 DEF Foldable
<1>5. Used(<<>>) = 0
  <2>1. <<>> \in Seq(SomeTexts)  OBVIOUS
  <2>2. Folded(G, 0, <<>>) = 0  BY <1>4, <2>1, FoldedEmpty DEF Foldable
  <2> QED  BY <1>3, <2>1, <2>2
<1>6. ASSUME NEW seq \in Seq(SomeTexts) PROVE Used(seq) \in Nat
  <2>1. Folded(G, 0, seq) \in Nat  BY <1>4, FoldedType
  <2> QED  BY <1>3, <2>1
<1>7. ASSUME NEW seq \in Seq(SomeTexts), NEW t \in SomeTexts
      PROVE  Used(Append(seq, t)) = Used(seq) + Tokens[t]
  <2>1. Foldable(Nat, SomeTexts, G, 0, seq)  BY <1>4
  <2>2. Folded(G, 0, Append(seq, t)) = G[<<Folded(G, 0, seq), t>>]  BY <2>1, FoldedAppend
  <2>3. Append(seq, t) \in Seq(SomeTexts)  OBVIOUS
  <2>4. Used(seq) \in Nat  BY <1>6
  <2> QED  BY <1>2, <1>3, <2>2, <2>3, <2>4
<1> QED  BY <1>5, <1>6, <1>7

(* What a context may have, and a layer of it on the way. *)
Fits(parts) ==
  /\ parts \in Seq(SomeTexts) /\ Used(parts) <= Budget
  /\ \A i, j \in 1..Len(parts) : i < j /\ parts[i] = parts[j] => j <= TakeRecent
Layers == {acc \in [parts : Seq(SomeTexts), full : BOOLEAN] : Fits(acc.parts)}

(* Taking a memory: with a look at duplicates the context goes on to fit.   *)
LEMMA TakeFits ==
  ASSUME NEW acc \in Layers, NEW m \in Memories, NEW dedupe \in BOOLEAN,
         dedupe \/ Len(acc.parts) < TakeRecent
  PROVE  /\ Take(acc, m, dedupe) \in Layers
         /\ Len(Take(acc, m, dedupe).parts) <= Len(acc.parts) + 1
<1> DEFINE parts == acc.parts
           more == Append(parts, Text[m])
<1>1. /\ acc \in [parts : Seq(SomeTexts), full : BOOLEAN] /\ Fits(parts)
      /\ parts \in Seq(SomeTexts) /\ Len(parts) \in Nat /\ Text[m] \in SomeTexts
      /\ Used(parts) \in Nat
  BY UsedSteps DEF Layers, Fits, SomeTexts
<1>2. CASE acc.full \/ Used(parts) + Tokens[Text[m]] > Budget
  <2> DEFINE new == [acc EXCEPT !.full = TRUE]
  <2>1. Take(acc, m, dedupe) = new  BY <1>2 DEF Take
  <2>2. new.parts = parts /\ new \in [parts : Seq(SomeTexts), full : BOOLEAN]  BY <1>1
  <2> HIDE DEF new
  <2> QED  BY <1>1, <2>1, <2>2 DEF Layers
<1>3. CASE /\ ~(acc.full \/ Used(parts) + Tokens[Text[m]] > Budget)
           /\ dedupe /\ Contains(parts, Text[m])
  <2>1. Take(acc, m, dedupe) = acc  BY <1>3 DEF Take
  <2> QED  BY <1>1, <2>1
<1>4. CASE /\ ~(acc.full \/ Used(parts) + Tokens[Text[m]] > Budget)
           /\ ~(dedupe /\ Contains(parts, Text[m]))
  <2> DEFINE new == [acc EXCEPT !.parts = more]
  <2>1. Take(acc, m, dedupe) = new  BY <1>4 DEF Take
  <2>2. new.parts = more /\ new \in [parts : Seq(SomeTexts), full : BOOLEAN]  BY <1>1
  <2>3. /\ more \in Seq(SomeTexts) /\ Len(more) = Len(parts) + 1
        /\ more[Len(parts) + 1] = Text[m] /\ \A i \in 1..Len(parts) : more[i] = parts[i]
    BY <1>1, AppendProperties
  <2>4. Used(more) <= Budget
    <3>1. Used(more) = Used(parts) + Tokens[Text[m]] /\ Tokens[Text[m]] \in Nat /\ Budget \in Nat
      BY <1>1, UsedSteps, MemoryAssumption
    <3> QED  BY <1>1, <1>4, <3>1
  <2> HIDE DEF more, new
  <2>5. ASSUME NEW i \in 1..Len(more), NEW j \in 1..Len(more), i < j, more[i] = more[j]
        PROVE  j <= TakeRecent
    <3>1. i \in 1..Len(parts) /\ more[i] = parts[i]  BY <1>1, <2>3, <2>5
    <3>2. CASE j \in 1..Len(parts)
      <4>1. parts[i] = parts[j]  BY <2>3, <2>5, <3>1, <3>2
      <4> QED  BY <1>1, <2>5, <3>1, <3>2, <4>1 DEF Fits
    <3>3. CASE j \notin 1..Len(parts)
      <4>1. j = Len(parts) + 1  BY <1>1, <2>3, <3>3
      <4>2. parts[i] = Text[m]  BY <2>3, <2>5, <3>1, <4>1
      <4>3. Contains(parts, Text[m])  BY <3>1, <4>2 DEF Contains
      <4>4. Len(parts) < TakeRecent  BY <1>4, <4>3
      <4> QED  BY <1>1, <4>1, <4>4, MemoryAssumption
    <3> QED  BY <3>2, <3>3
  <2>6. Fits(more)  BY <2>3, <2>4, <2>5 DEF Fits
  <2>7. new \in Layers  BY <2>2, <2>6 DEF Layers
  <2> QED  BY <1>1, <2>1, <2>2, <2>3, <2>7
<1> QED  BY <1>2, <1>3, <1>4

(* A layer is a fold of Take. *)
Accs == [parts : Seq(SomeTexts), full : BOOLEAN]
TakeStep(dedupe) == [p \in Accs \X Memories |-> Take(p[1], p[2], dedupe)]

LEMMA TakeType ==
  ASSUME NEW acc \in Accs, NEW m \in Memories, NEW dedupe \in BOOLEAN
  PROVE  Take(acc, m, dedupe) \in Accs
<1>1. acc.parts \in Seq(SomeTexts) /\ Text[m] \in SomeTexts  BY DEF Accs, SomeTexts
<1>2. Append(acc.parts, Text[m]) \in Seq(SomeTexts)  BY <1>1
<1> QED  BY <1>1, <1>2 DEF Accs, Take

LEMMA LayerIs ==
  ASSUME NEW parts \in Seq(SomeTexts), NEW seq \in Seq(Memories), NEW dedupe \in BOOLEAN
  PROVE  LET base == [parts |-> parts, full |-> FALSE]
         IN  /\ Foldable(Accs, Memories, TakeStep(dedupe), base, seq)
             /\ Layer(parts, seq, dedupe) = Folded(TakeStep(dedupe), base, seq).parts
<1> DEFINE G == TakeStep(dedupe)
           b == [parts |-> parts, full |-> FALSE]
           Steps(c) == c = [T \in SUBSET (DOMAIN seq) |->
                              IF T = {} THEN b ELSE Take(c[T \ {Max(T)}], seq[Max(T)], dedupe)]
           c == CHOOSE h : Steps(h)
<1>1. /\ G \in [Accs \X Memories -> Accs]
      /\ \A acc \in Accs, m \in Memories : G[<<acc, m>>] = Take(acc, m, dedupe)
  BY TakeType DEF TakeStep
<1>2. /\ b \in Accs /\ Len(seq) \in Nat /\ DOMAIN seq = 1..Len(seq)
      /\ \A i \in 1..Len(seq) : seq[i] \in Memories
  BY DEF Accs
<1>3. Layer(parts, seq, dedupe) = c[DOMAIN seq].parts
  BY DEF Layer, FoldLeft, MapThenFoldSet
<1> HIDE DEF G, b
<1>4. Foldable(Accs, Memories, G, b, seq)  BY <1>1, <1>2 DEF Foldable
<1>5. PICK h : HasSteps(h, Accs, G, b, seq)  BY <1>4, StepsExist
<1>6. Steps(h)
  <2>1. \A T \in SUBSET (DOMAIN seq) : T # {} => Max(T) \in DOMAIN seq /\ seq[Max(T)] \in Memories
    BY <1>2, Greatest
  <2>2. h \in [SUBSET (DOMAIN seq) -> Accs] /\ h[{}] = b  BY <1>5 DEF HasSteps
  <2>3. ASSUME NEW T \in SUBSET (DOMAIN seq), T # {}
        PROVE  h[T] = Take(h[T \ {Max(T)}], seq[Max(T)], dedupe)
    <3>1. h[T] = G[<<h[T \ {Max(T)}], seq[Max(T)]>>]  BY <1>5, <2>3 DEF HasSteps
    <3>2. h[T \ {Max(T)}] \in Accs  BY <2>2
    <3> QED  BY <1>1, <2>1, <2>3, <3>1, <3>2
  <2>4. \A T \in SUBSET (DOMAIN seq) :
          h[T] = IF T = {} THEN b ELSE Take(h[T \ {Max(T)}], seq[Max(T)], dedupe)
    BY <2>2, <2>3
  <2> QED  BY <2>2, <2>4
<1>7. Steps(c)  BY <1>6
<1> HIDE DEF c
<1>8. \A T \in SUBSET (DOMAIN seq) :
        c[T] = IF T = {} THEN b ELSE Take(c[T \ {Max(T)}], seq[Max(T)], dedupe)
  BY <1>7
<1>9. c[{}] = b  BY <1>8
<1>10. ASSUME NEW k \in 1..Len(seq), c[1..(k - 1)] \in Accs
       PROVE  c[1..k] = G[<<c[1..(k - 1)], seq[k]>>]
  <2>1. k \in Nat \ {0} /\ 1..k \in SUBSET (DOMAIN seq)  BY <1>2
  <2>2. 1..k # {} /\ Max(1..k) = k /\ (1..k) \ {k} = 1..(k - 1)  BY <2>1, UpTo
  <2>3. c[1..k] = Take(c[1..(k - 1)], seq[k], dedupe)  BY <1>8, <2>1, <2>2
  <2> QED  BY <1>1, <1>2, <1>10, <2>3
<1>11. Follows(c, Accs, G, b, seq)  BY <1>9, <1>10 DEF Follows
<1>12. c[DOMAIN seq] = Folded(G, b, seq)  BY <1>4, <1>11, FoldIs
<1> QED  BY <1>3, <1>4, <1>12 DEF G, b

(* A layer put on a context that fits, or the first one with no more        *)
(* memories than may repeat a text, makes one that fits.                    *)
LEMMA LayerFits ==
  ASSUME NEW parts, Fits(parts), NEW seq \in Seq(Memories), NEW dedupe \in BOOLEAN,
         dedupe \/ (parts = <<>> /\ Len(seq) <= TakeRecent)
  PROVE  Fits(Layer(parts, seq, dedupe))
<1> DEFINE G == TakeStep(dedupe)
           b == [parts |-> parts, full |-> FALSE]
           g == ValuesOf(G, b, seq)
           Good(k) == g[k] \in Layers /\ (dedupe \/ Len(g[k].parts) <= k)
           N == {k \in Nat : k <= Len(seq) => Good(k)}
<1>1. parts \in Seq(SomeTexts) /\ Len(seq) \in Nat /\ \A i \in 1..Len(seq) : seq[i] \in Memories
  BY DEF Fits
<1>2. Foldable(Accs, Memories, G, b, seq) /\ Layer(parts, seq, dedupe) = Folded(G, b, seq).parts
  BY <1>1, LayerIs
<1>3. b \in Layers /\ (dedupe \/ Len(b.parts) <= 0)  BY <1>1 DEF Layers
<1>4. \A acc \in Accs, m \in Memories : G[<<acc, m>>] = Take(acc, m, dedupe)  BY DEF TakeStep
<1> HIDE DEF G, b
<1>5. HasValues(g, Accs, G, b, seq)  BY <1>2, Values
<1>6. Folded(G, b, seq) = g[Len(seq)]  BY DEF Folded
<1> HIDE DEF g
<1>7. N \subseteq Nat /\ 0 \in N  BY <1>3, <1>5 DEF HasValues
<1>8. ASSUME NEW k \in N PROVE k + 1 \in N
  <2> SUFFICES ASSUME k + 1 <= Len(seq) PROVE Good(k + 1)  OBVIOUS
  <2>1. k + 1 \in 1..Len(seq) /\ (k + 1) - 1 = k /\ k \in 0..Len(seq) /\ Good(k)  BY <1>1
  <2>2. g[k] \in Accs /\ g[k + 1] = G[<<g[k], seq[k + 1]>>]  BY <1>5, <2>1 DEF HasValues
  <2>3. g[k + 1] = Take(g[k], seq[k + 1], dedupe) /\ seq[k + 1] \in Memories
    BY <1>1, <1>4, <2>1, <2>2
  <2>4. g[k].parts \in Seq(SomeTexts) /\ Len(g[k].parts) \in Nat  BY <2>2 DEF Accs
  <2>5. dedupe \/ Len(g[k].parts) < TakeRecent
    BY <1>1, <2>1, <2>4, MemoryAssumption
  <2>6. g[k + 1] \in Layers /\ Len(g[k + 1].parts) <= Len(g[k].parts) + 1
    BY <2>1, <2>3, <2>5, TakeFits
  <2>7. Len(g[k + 1].parts) \in Nat  BY <2>6 DEF Layers
  <2> QED  BY <2>1, <2>4, <2>6, <2>7
<1> HIDE DEF N
<1>9. Len(seq) \in N  BY <1>1, <1>7, <1>8, FromZeroOn
<1>10. g[Len(seq)] \in Layers  BY <1>1, <1>9 DEF N
<1> QED  BY <1>2, <1>6, <1>10 DEF Layers

-----------------------------------------------------------------------------
(* The readers.  Between its two looks a reader of an agent's or a task's   *)
(* memories has each it must find in hand already or in the table, where    *)
(* rows are only ever added; a context fits at every step.                  *)

ReaderRec ==
  [op : Ops, hits : SUBSET Memories, who : Agents \cup {None},
   whom : Agents \cup Tasks \cup {None}, kind : Types \cup {None},
   sure : SUBSET Memories, context : BOOLEAN, parts : Seq(SomeTexts)]

Misses(rec) == {m \in rec.sure : m \notin rec.hits}

Good(rec) ==
  /\ rec \in ReaderRec /\ Fits(rec.parts)
  /\ rec.op = "agent table" =>
       rec.sure \subseteq Of(rec.whom) /\ \A m \in Misses(rec) : rows[m] > 0
  /\ rec.op = "agent done" => Misses(rec) = {}

ReaderInv ==
  /\ reader \in [Readers -> ReaderRec] /\ \A r \in Readers : Good(reader[r])
  /\ grants \subseteq Agents \X Agents /\ crashes \in 0..MaxCrash

(* A step of one reader that leaves its record good keeps the invariant.    *)
LEMMA StepKeeps ==
  ASSUME ReaderInv, NEW r \in Readers, NEW rec, Good(rec), Step(r, rec)
  PROVE  ReaderInv'
<1>1. /\ reader' = [reader EXCEPT ![r] = rec] /\ UNCHANGED <<rows, grants, crashes>>
      /\ rec \in ReaderRec
  BY DEF Step, storeVars, Good
<1>2. reader' \in [Readers -> ReaderRec]  BY <1>1 DEF ReaderInv
<1>3. ASSUME NEW q \in Readers PROVE Good(reader[q])'
  <2>1. reader'[q] = rec \/ reader'[q] = reader[q]  BY <1>1 DEF ReaderInv
  <2>2. Good(reader'[q])  BY <2>1 DEF ReaderInv
  <2> QED  BY <1>1, <2>2 DEF Good, ReaderRec, Fits, Misses, Of
<1> QED  BY <1>1, <1>2, <1>3 DEF ReaderInv

LEMMA EmptyFits == <<>> \in Seq(SomeTexts) /\ Fits(<<>>)
<1>1. <<>> \in Seq(SomeTexts) /\ Len(<<>>) = 0 /\ 1..0 = {}  OBVIOUS
<1>2. Used(<<>>) <= Budget  BY UsedSteps, MemoryAssumption
<1> QED  BY <1>1, <1>2 DEF Fits

(* A record that promises nothing is good when its context fits. *)
LEMMA FreshGood ==
  ASSUME NEW rec \in ReaderRec, rec.op # "agent table", rec.sure = {}, Fits(rec.parts)
  PROVE  Good(rec)
<1>1. Misses(rec) = {}  BY DEF Misses
<1> QED  BY <1>1 DEF Good

LEMMA IdleGood == Good(Idle) /\ Idle.sure = {} /\ Idle.parts = <<>> /\ Fits(Idle.parts)
<1>1. Idle.op = "idle" /\ Idle.sure = {} /\ Idle.parts = <<>>  BY DEF Idle
<1>2. Idle \in ReaderRec  BY EmptyFits DEF Idle, ReaderRec, Ops
<1> QED  BY <1>1, <1>2, EmptyFits, FreshGood

(* What a step changes of a record that is good. *)
LEMMA SearchWorkingGood ==
  ASSUME NEW rec0, Good(rec0), NEW k \in Types \cup {None}, NEW rec \in SearchWorking(rec0, k)
  PROVE  Good(rec)
<1>1. PICK h \in SUBSET (Working \cap OfKind(k)) :
         rec = [rec0 EXCEPT !.op = "search", !.kind = k, !.hits = h]
  BY DEF SearchWorking
<1>2. rec0 \in ReaderRec /\ Fits(rec0.parts) /\ h \subseteq Memories  BY <1>1 DEF Good, OfKind
<1>3. rec \in ReaderRec /\ rec.op = "search" /\ rec.parts = rec0.parts
  BY <1>1, <1>2 DEF ReaderRec, Ops
<1> QED  BY <1>2, <1>3 DEF Good

-----------------------------------------------------------------------------
LEMMA SearchReads ==
  ASSUME ReaderInv, NEW r \in Readers,
         \/ \E k \in Kinds : Search(r, k)
         \/ SearchTable(r) \/ SearchFails(r) \/ ContextSearch(r)
  PROVE  ReaderInv'
<1>1. Good(reader[r]) /\ reader[r] \in ReaderRec  BY DEF ReaderInv
<1>2. ASSUME NEW k \in Kinds, Search(r, k) PROVE ReaderInv'
  <2>1. k \in Types \cup {None}  BY MemoryAssumption
  <2> QED  BY <1>2, <2>1, IdleGood, SearchWorkingGood, StepKeeps DEF Search
<1>3. CASE SearchTable(r)
  <2>0. PICK H \in Found(OfKind(reader[r].kind)) : \E B \in Best(reader[r].hits \cup H) :
           Step(r, [reader[r] EXCEPT !.op = "search done", !.hits = B])
    BY <1>3 DEF SearchTable
  <2>1. PICK B \in Best(reader[r].hits \cup H) :
           Step(r, [reader[r] EXCEPT !.op = "search done", !.hits = B])
    BY <2>0
  <2> DEFINE rec == [reader[r] EXCEPT !.op = "search done", !.hits = B]
  <2>2. H \subseteq Memories  BY DEF Found, OfKind
  <2>3. B \subseteq Memories  BY <1>1, <2>2 DEF Best, ReaderRec
  <2>4. rec \in ReaderRec /\ rec.op = "search done" /\ rec.parts = reader[r].parts
    BY <1>1, <2>3 DEF ReaderRec, Ops
  <2> HIDE DEF rec
  <2>5. Good(rec)  BY <1>1, <2>4 DEF Good
  <2> QED  BY <2>1, <2>5, StepKeeps DEF rec
<1>4. CASE SearchFails(r)  BY <1>4, IdleGood, StepKeeps DEF SearchFails
<1>5. CASE ContextSearch(r)
  BY <1>1, <1>5, SearchWorkingGood, StepKeeps DEF ContextSearch
<1> QED  BY <1>2, <1>3, <1>4, <1>5

(* The access check, and the first look.  What the look must find is among  *)
(* what it has, or has a row.                                               *)
LEMMA AgentReads ==
  ASSUME ReaderInv, NEW r \in Readers,
         \/ \E a \in Agents, b \in Agents : AskAgent(r, a, b)
         \/ \E t \in Tasks : AskTask(r, t)
         \/ CheckAccess(r) \/ AgentWorking(r)
  PROVE  ReaderInv'
<1>1. Good(reader[r]) /\ reader[r] \in ReaderRec /\ Fits(reader[r].parts)
  BY DEF ReaderInv, Good
<1>2. ASSUME NEW a \in Agents, NEW b \in Agents, AskAgent(r, a, b) PROVE ReaderInv'
  <2> DEFINE rec == [Idle EXCEPT !.op = "check", !.who = a, !.whom = b]
  <2>1. /\ rec \in ReaderRec /\ rec.op = "check" /\ rec.sure = {} /\ rec.parts = Idle.parts
    BY IdleGood DEF Good, ReaderRec, Ops
  <2> HIDE DEF rec
  <2>2. Good(rec)  BY <2>1, FreshGood, IdleGood
  <2> QED  BY <1>2, <2>2, StepKeeps DEF AskAgent, rec
<1>3. ASSUME NEW t \in Tasks, AskTask(r, t) PROVE ReaderInv'
  <2> DEFINE rec == [Idle EXCEPT !.op = "agent", !.whom = t]
  <2>1. /\ rec \in ReaderRec /\ rec.op = "agent" /\ rec.sure = {} /\ rec.parts = Idle.parts
    BY IdleGood DEF Good, ReaderRec, Ops
  <2> HIDE DEF rec
  <2>2. Good(rec)  BY <2>1, FreshGood, IdleGood
  <2> QED  BY <1>3, <2>2, StepKeeps DEF AskTask, rec
<1>4. CASE CheckAccess(r)
  <2> DEFINE rec == [reader[r] EXCEPT !.op = "agent", !.who = None]
  <2>1. rec \in ReaderRec /\ rec.op = "agent" /\ rec.parts = reader[r].parts
    BY <1>1 DEF ReaderRec, Ops
  <2>2. Step(r, rec) \/ Step(r, Idle)  BY <1>4 DEF CheckAccess
  <2> HIDE DEF rec
  <2>3. Good(rec)  BY <1>1, <2>1 DEF Good
  <2> QED  BY <2>2, <2>3, IdleGood, StepKeeps
<1>5. CASE AgentWorking(r)
  <2> DEFINE mine == Of(reader[r].whom)
             rec == [reader[r] EXCEPT !.op = "agent table", !.hits = mine \cap Working,
                       !.sure = mine \cap (Working \cup Stored)]
  <2>1. mine \subseteq Memories  BY DEF Of
  <2>2. rec \in ReaderRec  BY <1>1, <2>1 DEF ReaderRec, Ops
  <2>3. /\ rec.op = "agent table" /\ rec.parts = reader[r].parts
        /\ rec.whom = reader[r].whom /\ rec.hits = mine \cap Working
        /\ rec.sure = mine \cap (Working \cup Stored)
    BY <1>1 DEF ReaderRec
  <2>4. Step(r, rec)  BY <1>5 DEF AgentWorking
  <2> HIDE DEF rec
  <2>5. \A m \in Misses(rec) : rows[m] > 0  BY <2>3 DEF Misses, Stored
  <2>6. rec.sure \subseteq Of(rec.whom)  BY <2>3
  <2>7. Good(rec)  BY <1>1, <2>2, <2>3, <2>5, <2>6 DEF Good
  <2> QED  BY <2>4, <2>7, StepKeeps
<1> QED  BY <1>2, <1>3, <1>4, <1>5

LEMMA RowsAre ==
  ASSUME LayerInv, NEW S \in SUBSET Memories
  PROVE  IsFiniteSet(S) /\ RowsOf(S) = SumOf(rows, S) /\ RowsOf(S) \in Nat
<1>1. IsFiniteSet(S)  BY MemoryAssumption, FS_Subset
<1>2. \A x \in S : rows[x] \in Nat  BY DEF LayerInv, LayerTypes
<1>3. RowsOf(S) = SumOf(rows, S)  BY DEF RowsOf, SumOf
<1> QED  BY <1>1, <1>2, <1>3, SumOfType

(* A query that the limit does not cut off finds every memory with a row.   *)
LEMMA FoundAll ==
  ASSUME LayerInv, NEW S \in SUBSET Memories, NEW H \in Found(S), ~(RowsOf(S) > MaxResults)
  PROVE  \A m \in S : rows[m] > 0 => m \in H
<1>1. H \subseteq S /\ RowsOf(H) >= Limit(RowsOf(S))  BY DEF Found
<1>2. RowsOf(S) \in Nat /\ RowsOf(H) \in Nat /\ IsFiniteSet(S)
      /\ RowsOf(S) = SumOf(rows, S) /\ RowsOf(H) = SumOf(rows, H)
  BY <1>1, RowsAre
<1>3. Limit(RowsOf(S)) = RowsOf(S)  BY <1>2, MemoryAssumption DEF Limit
<1>4. \A x \in S : rows[x] \in Nat  BY DEF LayerInv, LayerTypes
<1>5. \A x \in S \ H : rows[x] = 0  BY <1>1, <1>2, <1>3, <1>4, SumOfWhole
<1> QED  BY <1>5

(* The second look.  Cut off by the limit or failed, it promises nothing.   *)
LEMMA TableReads ==
  ASSUME LayerInv, ReaderInv, NEW r \in Readers, AgentTable(r) \/ AgentTableFails(r)
  PROVE  ReaderInv'
<1> DEFINE mine == Of(reader[r].whom)
<1>1. /\ reader[r] \in ReaderRec /\ Fits(reader[r].parts) /\ reader[r].op = "agent table"
      /\ reader[r].sure \subseteq mine /\ \A m \in Misses(reader[r]) : rows[m] > 0
  BY DEF ReaderInv, Good, AgentTable, AgentTableFails
<1>2. mine \in SUBSET Memories  BY DEF Of
<1> DEFINE Rec(H, s) == [reader[r] EXCEPT !.op = "agent done", !.hits = reader[r].hits \cup H,
                                          !.sure = s]
<1>3. PICK H \in SUBSET (mine \cap Stored) :
        \/ Step(r, Rec(H, {}))
        \/ /\ ~(RowsOf(mine) > MaxResults) /\ H \in Found(mine)
           /\ Step(r, Rec(H, reader[r].sure))
  <2>1. CASE AgentTable(r)
    <3>1. PICK H \in Found(mine) :
            Step(r, Rec(H, IF RowsOf(mine) > MaxResults THEN {} ELSE reader[r].sure))
      BY <2>1 DEF AgentTable
    <3>2. H \in SUBSET (mine \cap Stored)  BY DEF Found
    <3> QED  BY <3>1, <3>2
  <2>2. CASE AgentTableFails(r)  BY <2>2 DEF AgentTableFails
  <2> QED  BY <2>1, <2>2
<1>4. ASSUME NEW s \in SUBSET Memories, s \subseteq reader[r].hits \cup H PROVE Good(Rec(H, s))
  <2> DEFINE rec == Rec(H, s)
  <2>1. rec \in ReaderRec  BY <1>1, <1>2, <1>3 DEF ReaderRec, Ops
  <2>2. rec.op = "agent done" /\ rec.parts = reader[r].parts /\ rec.sure = s
        /\ rec.hits = reader[r].hits \cup H
    BY <1>1 DEF ReaderRec
  <2> HIDE DEF rec
  <2>3. Misses(rec) = {}  BY <1>4, <2>2 DEF Misses
  <2>4. Good(rec)  BY <1>1, <2>1, <2>2, <2>3 DEF Good
  <2> QED  BY <2>4 DEF rec
<1>5. CASE Step(r, Rec(H, {}))  BY <1>4, <1>5, StepKeeps
<1>6. CASE /\ ~(RowsOf(mine) > MaxResults) /\ H \in Found(mine)
           /\ Step(r, Rec(H, reader[r].sure))
  <2>1. \A m \in mine : rows[m] > 0 => m \in H  BY <1>2, <1>6, FoundAll
  <2>2. reader[r].sure \subseteq reader[r].hits \cup H  BY <1>1, <2>1 DEF Misses
  <2>3. reader[r].sure \in SUBSET Memories  BY <1>1 DEF ReaderRec
  <2> QED  BY <1>4, <1>6, <2>2, <2>3, StepKeeps
<1> QED  BY <1>3, <1>5, <1>6

-----------------------------------------------------------------------------
LEMMA FirstOf ==
  ASSUME NEW S, NEW seq \in Seq(S), NEW n \in Nat
  PROVE  First(n, seq) \in Seq(S) /\ Len(First(n, seq)) <= n
<1> DEFINE k == IF n < Len(seq) THEN n ELSE Len(seq)
<1>1. Len(seq) \in Nat /\ k \in Nat /\ k <= n /\ k <= Len(seq)  OBVIOUS
<1>2. First(n, seq) = SubSeq(seq, 1, k)  BY DEF First
<1> HIDE DEF k
<1>3. \A i \in 1..k : seq[i] \in S  BY <1>1
<1>4. SubSeq(seq, 1, k) \in Seq(S) /\ Len(SubSeq(seq, 1, k)) = k
  BY <1>1, <1>3, SubSeqProperties
<1> QED  BY <1>1, <1>2, <1>4

LEMMA OrderedIs ==
  ASSUME NEW S \in SUBSET Memories, NEW seq \in SetToSeqs(S)
  PROVE  seq \in Seq(Memories)
<1>1. Cardinality(S) \in Nat  BY MemoryAssumption, FS_Subset, FS_CardinalityType
<1>2. seq \in [1..Cardinality(S) -> S]  BY DEF SetToSeqs
<1>3. seq \in Seq(S)  BY <1>1, <1>2
<1> QED  BY <1>3

(* The three layers of a context. *)
LEMMA ContextReads ==
  ASSUME LayerInv, ReaderInv, NEW r \in Readers,
         \/ \E a \in Agents \cup {None} : BuildContext(r, a)
         \/ ContextFound(r) \/ ContextOwn(r)
  PROVE  ReaderInv'
<1>1. Good(reader[r]) /\ reader[r] \in ReaderRec /\ Fits(reader[r].parts)
  BY DEF ReaderInv, Good
<1>2. ASSUME NEW a \in Agents \cup {None}, BuildContext(r, a) PROVE ReaderInv'
  <2> DEFINE seq == First(TakeRecent, Reverse(working))
             new == Layer(<<>>, seq, FALSE)
             rec == [Idle EXCEPT !.op = "context", !.whom = a, !.context = TRUE, !.parts = new]
  <2>1. Reverse(working) \in Seq(Memories)
    <3>1. working \in Seq(Memories) /\ Len(working) \in Nat
          /\ \A i \in 1..Len(working) : working[i] \in Memories
      BY DEF LayerInv, LayerTypes
    <3>2. \A i \in 1..Len(working) : (Len(working) - i) + 1 \in 1..Len(working)  BY <3>1
    <3>3. Reverse(working) \in [1..Len(working) -> Memories]  BY <3>1, <3>2 DEF Reverse
    <3> QED  BY <3>1, <3>3
  <2>2. seq \in Seq(Memories) /\ Len(seq) <= TakeRecent  BY <2>1, FirstOf, MemoryAssumption
  <2>3. Fits(new)  BY <2>2, EmptyFits, LayerFits
  <2>4. Step(r, rec)  BY <1>2 DEF BuildContext
  <2> HIDE DEF new
  <2>5. rec \in ReaderRec /\ rec.op = "context" /\ rec.sure = {} /\ rec.parts = new
    BY <2>3, IdleGood DEF Good, ReaderRec, Ops, Fits
  <2> HIDE DEF rec
  <2>6. Good(rec)  BY <2>3, <2>5, FreshGood
  <2> QED  BY <2>4, <2>6, StepKeeps
<1>3. CASE ContextFound(r)
  <2>1. PICK seq \in SetToSeqs(reader[r].hits) :
          Step(r, [reader[r] EXCEPT
                     !.op = IF reader[r].whom = None THEN "context done" ELSE "agent",
                     !.hits = {}, !.parts = Layer(@, seq, TRUE)])
    BY <1>3 DEF ContextFound
  <2> DEFINE new == Layer(reader[r].parts, seq, TRUE)
             o == IF reader[r].whom = None THEN "context done" ELSE "agent"
             rec == [reader[r] EXCEPT !.op = o, !.hits = {}, !.parts = new]
  <2>2. seq \in Seq(Memories)  BY <1>1, OrderedIs DEF ReaderRec
  <2>3. Fits(new)  BY <1>1, <2>2, LayerFits
  <2>4. Step(r, rec)  BY <2>1
  <2> HIDE DEF new
  <2>5. rec \in ReaderRec /\ rec.op \in {"context done", "agent"} /\ rec.parts = new
    BY <1>1, <2>3 DEF ReaderRec, Ops, Fits
  <2> HIDE DEF rec
  <2>6. Good(rec)  BY <2>3, <2>5 DEF Good
  <2> QED  BY <2>4, <2>6, StepKeeps
<1>4. CASE ContextOwn(r)
  <2>1. PICK all \in SetToSeqs(reader[r].hits) :
          Step(r, [reader[r] EXCEPT !.op = "context done", !.hits = {}, !.sure = {},
                                    !.parts = Layer(@, First(TakeOwn, all), TRUE)])
    BY <1>4 DEF ContextOwn
  <2> DEFINE seq == First(TakeOwn, all)
             new == Layer(reader[r].parts, seq, TRUE)
             rec == [reader[r] EXCEPT !.op = "context done", !.hits = {}, !.sure = {},
                                      !.parts = new]
  <2>2. seq \in Seq(Memories)  BY <1>1, OrderedIs, FirstOf, MemoryAssumption DEF ReaderRec
  <2>3. Fits(new)  BY <1>1, <2>2, LayerFits
  <2>4. Step(r, rec)  BY <2>1
  <2> HIDE DEF new
  <2>5. rec \in ReaderRec /\ rec.op = "context done" /\ rec.parts = new
    BY <1>1, <2>3 DEF ReaderRec, Ops, Fits
  <2> HIDE DEF rec
  <2>6. Good(rec)  BY <2>3, <2>5 DEF Good
  <2> QED  BY <2>4, <2>6, StepKeeps
<1> QED  BY <1>2, <1>3, <1>4

(* Writing changes no reader, and takes no row away. *)
LEMMA SameReaders ==
  ASSUME ReaderInv, UNCHANGED <<grants, reader, crashes>>,
         \A m \in Memories : rows[m] > 0 => rows'[m] > 0
  PROVE  ReaderInv'
<1>1. ASSUME NEW r \in Readers PROVE Good(reader[r])'
  <2>1. Good(reader[r]) /\ reader'[r] = reader[r]  BY DEF ReaderInv
  <2>2. \A m \in Misses(reader[r]) : m \in Memories  BY <2>1 DEF Good, ReaderRec, Misses
  <2> QED  BY <2>1, <2>2 DEF Good, ReaderRec, Fits, Misses, Of
<1> QED  BY <1>1 DEF ReaderInv, ReaderRec

LEMMA WriteReads == LayerInv /\ ReaderInv /\ Write => ReaderInv'
<1> SUFFICES ASSUME LayerInv, ReaderInv, Write PROVE ReaderInv'  OBVIOUS
<1>1. UNCHANGED <<grants, reader, crashes>>
  BY DEF Write, Add, AddAuthorized, Persist, PersistFails, SaveEvicted, SaveFails,
         ClearWorkingMemory
<1>2. rows' = rows \/ \E m \in Memories : WriteRow(m)
  <2>1. adding \subseteq Memories /\ saving \subseteq Memories  BY DEF LayerInv, LayerTypes
  <2> QED
    BY <2>1 DEF Write, Add, AddAuthorized, Persist, PersistFails, SaveEvicted, SaveFails,
                ClearWorkingMemory
<1>3. rows \in [Memories -> Nat]  BY DEF LayerInv, LayerTypes
<1>4. \A m \in Memories : rows[m] > 0 => rows'[m] > 0  BY <1>2, <1>3 DEF WriteRow
<1> QED  BY <1>1, <1>4, SameReaders

LEMMA CrashReads == LayerInv /\ ReaderInv /\ Crash => ReaderInv'
<1> SUFFICES ASSUME LayerInv, ReaderInv, Crash PROVE ReaderInv'  OBVIOUS
<1>1. /\ reader' = [r \in Readers |-> Idle] /\ grants' = {} /\ rows' = rows
      /\ crashes' = crashes + 1 /\ crashes < MaxCrash
  BY DEF Crash
<1>2. crashes' \in 0..MaxCrash  BY <1>1, MemoryAssumption DEF ReaderInv
<1>3. Good(Idle)' <=> Good(Idle)  BY <1>1 DEF Good, ReaderRec, Fits, Misses, Of
<1>4. ASSUME NEW r \in Readers PROVE Good(reader[r])'
  <2>1. reader'[r] = Idle  BY <1>1
  <2>2. Good(reader'[r])  BY <2>1, IdleGood
  <2> QED  BY <1>1, <2>2 DEF Good, ReaderRec, Fits, Misses, Of
<1>5. Idle \in ReaderRec  BY IdleGood DEF Good
<1>6. reader' \in [Readers -> ReaderRec]  BY <1>1, <1>5
<1> QED  BY <1>1, <1>2, <1>4, <1>6 DEF ReaderInv

LEMMA GrantReads ==
  ASSUME ReaderInv, NEW p \in Shares, Grant(p) \/ Revoke(p)
  PROVE  ReaderInv'
<1>1. UNCHANGED <<rows, reader, crashes>> /\ grants' \subseteq grants \cup {p}
  BY DEF Grant, Revoke, storeVars
<1>2. grants' \subseteq Agents \X Agents  BY <1>1, MemoryAssumption DEF ReaderInv
<1>3. ASSUME NEW r \in Readers PROVE Good(reader[r])'
  <2>1. Good(reader[r]) /\ reader'[r] = reader[r]  BY <1>1 DEF ReaderInv
  <2> QED  BY <1>1, <2>1 DEF Good, ReaderRec, Fits, Misses, Of
<1> QED  BY <1>1, <1>2, <1>3 DEF ReaderInv

-----------------------------------------------------------------------------
StoreInv == LayerInv /\ ReaderInv

LEMMA InitStore == Init => StoreInv
<1> SUFFICES ASSUME Init PROVE ReaderInv  BY InitLayers DEF StoreInv
<1>1. reader = [r \in Readers |-> Idle] /\ grants = {} /\ crashes = 0  BY DEF Init
<1>2. Idle \in ReaderRec  BY IdleGood DEF Good
<1>3. reader \in [Readers -> ReaderRec] /\ \A r \in Readers : Good(reader[r])
  BY <1>1, <1>2, IdleGood
<1>4. crashes \in 0..MaxCrash  BY <1>1, MemoryAssumption
<1> QED  BY <1>1, <1>3, <1>4 DEF ReaderInv

LEMMA NextStore == StoreInv /\ [Next]_vars => StoreInv'
<1> SUFFICES ASSUME LayerInv, ReaderInv, [Next]_vars PROVE ReaderInv'  BY NextKeeps DEF StoreInv
<1>1. CASE Write  BY <1>1, WriteReads
<1>2. CASE Crash  BY <1>2, CrashReads
<1>3. ASSUME NEW p \in Shares, Grant(p) \/ Revoke(p) PROVE ReaderInv'  BY <1>3, GrantReads
<1>4. ASSUME NEW r \in Readers, Read(r) PROVE ReaderInv'
  <2>1. CASE Return(r)  BY <2>1, IdleGood, StepKeeps DEF Return
  <2> QED  BY <1>4, <2>1, SearchReads, AgentReads, TableReads, ContextReads DEF Read
<1>5. CASE UNCHANGED vars  BY <1>5, SameReaders DEF vars, storeVars
<1> QED  BY <1>1, <1>2, <1>3, <1>4, <1>5 DEF Next

LEMMA StoreInvariant == Spec => []StoreInv
  BY InitStore, NextStore, PTL DEF Spec

-----------------------------------------------------------------------------
(* Every variable keeps its type: what the store's operations (store.rs)    *)
(* and the layers of a context (retrieval.rs) put together has the parts    *)
(* the next step reads, and working memory stays within its size.           *)
THEOREM TypeCorrect == Spec => []TypeOK
<1>1. StoreInv => TypeOK
  BY DEF StoreInv, LayerInv, LayerTypes, ReaderInv, ReaderRec, SomeTexts, TypeOK
<1> QED  BY <1>1, StoreInvariant, PTL

(* Working memory never has more than working_memory_size items (store.rs,  *)
(* add): the eviction of every add() makes room.                            *)
THEOREM WorkingBounded == Spec => [](Len(working) <= Size)
<1>1. LayerInv => Len(working) <= Size  BY DEF LayerInv, LayerTypes
<1> QED  BY <1>1, LayerInvariant, PTL

(* An add() with persist that returned Ok left a row (store.rs, persist).   *)
THEOREM PersistedAlwaysKept == Spec => []PersistedIsKept
<1>1. LayerInv => PersistedIsKept  BY DEF LayerInv, PersistedIsKept
<1> QED  BY <1>1, LayerInvariant, PTL

(* An important memory is nowhere lost but by a crash, a clear or a failed  *)
(* write (store.rs, add and its spawned persister).                         *)
THEOREM ImportantAlwaysKept == Spec => []ImportantIsKept
<1>1. LayerInv => ImportantIsKept  BY DEF LayerInv, Known, Somewhere, ImportantIsKept
<1> QED  BY <1>1, LayerInvariant, PTL

(* A reader of an agent's or a task's memories (store.rs, get_by_agent and  *)
(* get_by_task) finds every one that was stored when it began, unless a     *)
(* query fails or the limit cuts it off: a memory that leaves working       *)
(* memory between the two looks was seen there or has its row already.      *)
THEOREM AgentAlwaysSeesAll == Spec => []AgentSeesAll
<1>1. StoreInv => AgentSeesAll
  BY DEF StoreInv, ReaderInv, Good, Misses, AgentSeesAll
<1> QED  BY <1>1, StoreInvariant, PTL

(* A context (retrieval.rs, build_context) costs at most max_context_tokens *)
(* at every step, and no text is in it twice beyond the first layer.        *)
THEOREM ContextAlwaysFits == Spec => []ContextFits
<1>1. ASSUME StoreInv, NEW r \in Readers
      PROVE  /\ Used(reader[r].parts) <= Budget
             /\ \A i, j \in DOMAIN reader[r].parts :
                  i < j /\ reader[r].parts[i] = reader[r].parts[j] => j <= TakeRecent
  <2>1. Fits(reader[r].parts)  BY <1>1 DEF StoreInv, ReaderInv, Good
  <2>2. DOMAIN reader[r].parts = 1..Len(reader[r].parts)  BY <2>1 DEF Fits
  <2> QED  BY <2>1, <2>2 DEF Fits
<1>2. StoreInv => ContextFits  BY <1>1 DEF ContextFits
<1> QED  BY <1>2, StoreInvariant, PTL

=============================================================================
