----------------------------- MODULE FoldLemmas -----------------------------
(***************************************************************************)
(* Folds of sequences, sums over finite sets, and sequences one element    *)
(* after the other, as far as the proofs need them.  FoldLeft and          *)
(* MapThenSumSet take operators; here the operator is a function G on      *)
(* pairs, so that the facts can be used for any of them: Folded is the     *)
(* fold, StepsExist says that the functions by which the community modules *)
(* define theirs exist, and FoldIs that they give Folded.                  *)
(***************************************************************************)
EXTENDS SequencesExt, SequenceTheorems, FiniteSetTheorems, TLAPS

(* The values of a fold after each element, and after the last. *)
IsValues(g, G, b, seq) ==
  g = [k \in 0..Len(seq) |-> IF k = 0 THEN b ELSE G[<<g[k - 1], seq[k]>>]]
ValuesOf(G, b, seq) == CHOOSE g : IsValues(g, G, b, seq)
Folded(G, b, seq) == ValuesOf(G, b, seq)[Len(seq)]

(* A fold of a sequence over B from b in A. *)
Foldable(A, B, G, b, seq) == G \in [A \X B -> A] /\ b \in A /\ seq \in Seq(B)

(* The same with the type of the values, and over all subsets of a set, of  *)
(* which pick takes one element after the other.                            *)
HasValues(g, A, G, b, seq) ==
  /\ g \in [0..Len(seq) -> A] /\ g[0] = b
  /\ \A k \in 1..Len(seq) : g[k] = G[<<g[k - 1], seq[k]>>]
HasSubsets(h, S, A, G, b, pick) ==
  /\ h \in [SUBSET S -> A]
  /\ \A T \in SUBSET S : h[T] = IF T = {} THEN b ELSE G[<<h[T \ {pick[T]}], pick[T]>>]
HasSteps(h, A, G, b, seq) ==
  /\ h \in [SUBSET (DOMAIN seq) -> A]
  /\ \A T \in SUBSET (DOMAIN seq) :
       h[T] = IF T = {} THEN b ELSE G[<<h[T \ {Max(T)}], seq[Max(T)]>>]
Follows(c, A, G, b, seq) ==
  /\ c[{}] = b
  /\ \A k \in 1..Len(seq) : c[1..(k - 1)] \in A => c[1..k] = G[<<c[1..(k - 1)], seq[k]>>]

-----------------------------------------------------------------------------
(* A set of numbers that has an element has a least one. *)
LEMMA Least ==
  ASSUME NEW T, T \subseteq Nat, T # {}
  PROVE  \E x \in T : \A y \in T : x <= y
<1>1. PICK x \in T : \A y \in T : ~(<<y, x>> \in OpToRel(<, Nat))
  BY NatLessThanWellFounded, WFMin
<1>2. ASSUME NEW y \in T PROVE x <= y
  <2>1. ~(y < x)  BY <1>1, <1>2 DEF OpToRel
  <2> QED  BY <2>1
<1> QED  BY <1>2

(* Induction: a set of numbers with zero and every successor has them all. *)
LEMMA FromZeroOn ==
  ASSUME NEW T, T \subseteq Nat, 0 \in T, \A n \in T : n + 1 \in T
  PROVE  \A n \in Nat : n \in T
<1> SUFFICES ASSUME Nat \ T # {} PROVE FALSE  OBVIOUS
<1>1. PICK x \in Nat \ T : \A y \in Nat \ T : x <= y  BY Least
<1>2. x # 0 /\ x - 1 \in Nat /\ x - 1 < x  OBVIOUS
<1>3. x - 1 \in T  BY <1>1, <1>2
<1>4. (x - 1) + 1 = x  OBVIOUS
<1> QED  BY <1>3, <1>4

(* The elements of a sequence one by one, the last one first. *)
LEMMA UpTo ==
  ASSUME NEW k \in Nat \ {0}
  PROVE  1..k # {} /\ Max(1..k) = k /\ (1..k) \ {k} = 1..(k - 1)
<1>1. k \in 1..k /\ \A y \in 1..k : k >= y  OBVIOUS
<1>2. \A x \in 1..k : (\A y \in 1..k : x >= y) => x = k  BY <1>1
<1>3. Max(1..k) = k  BY <1>1, <1>2 DEF Max
<1>4. (1..k) \ {k} = 1..(k - 1)  OBVIOUS
<1> QED  BY <1>1, <1>3, <1>4

(* A set of positions has a greatest one. *)
LEMMA Greatest ==
  ASSUME NEW n \in Nat, NEW T, T \subseteq 1..n, T # {}
  PROVE  Max(T) \in T /\ \A y \in T : Max(T) >= y
<1> DEFINE U == {n - i : i \in T}
<1>1. U \subseteq Nat /\ U # {}  OBVIOUS
<1>2. PICK u \in U : \A v \in U : u <= v  BY <1>1, Least
<1>3. PICK x \in T : u = n - x  OBVIOUS
<1>4. ASSUME NEW y \in T PROVE x >= y
  <2>1. u <= n - y  BY <1>2
  <2> QED  BY <1>3, <2>1
<1>5. \E z \in T : \A y \in T : z >= y  BY <1>4
<1> QED  BY <1>5 DEF Max

-----------------------------------------------------------------------------
(* The recursion over the subsets of a finite set has a solution. *)
LEMMA SubsetsFolded ==
  ASSUME NEW S, IsFiniteSet(S), NEW A, NEW b \in A, NEW G, NEW pick,
         \A T \in SUBSET S : T # {} => pick[T] \in T,
         \A a \in A, x \in S : G[<<a, x>>] \in A
  PROVE  \E h : HasSubsets(h, S, A, G, b, pick)
<1> DEFINE Right(h, T) == h[T] = IF T = {} THEN b ELSE G[<<h[T \ {pick[T]}], pick[T]>>]
           Solved(n) == \E h \in [SUBSET S -> A] : \A T \in SUBSET S :
                          Cardinality(T) <= n => Right(h, T)
           N == {n \in Nat : Solved(n)}
<1>1. \A T \in SUBSET S : IsFiniteSet(T) /\ Cardinality(T) \in Nat
  BY FS_Subset, FS_CardinalityType
<1>2. \A T \in SUBSET S : Cardinality(T) <= 0 => T = {}
  <2>1. ASSUME NEW T \in SUBSET S, Cardinality(T) <= 0 PROVE T = {}
    <3>1. Cardinality(T) = 0  BY <1>1, <2>1
    <3> QED  BY <1>1, <3>1, FS_EmptySet
  <2> QED  BY <2>1
<1>3. 0 \in N
  <2> DEFINE h == [T \in SUBSET S |-> b]
  <2>1. h \in [SUBSET S -> A] /\ \A T \in SUBSET S : T = {} => Right(h, T)  OBVIOUS
  <2> QED  BY <1>2, <2>1
<1>4. ASSUME NEW n \in N PROVE n + 1 \in N
  <2>1. PICK g \in [SUBSET S -> A] : \A T \in SUBSET S : Cardinality(T) <= n => Right(g, T)
    OBVIOUS
  <2> DEFINE Up(T) == IF T = {} THEN b ELSE G[<<g[T \ {pick[T]}], pick[T]>>]
             h == [T \in SUBSET S |-> Up(T)]
  <2>2. h \in [SUBSET S -> A]
    <3>1. ASSUME NEW T \in SUBSET S PROVE Up(T) \in A
      <4>1. CASE T = {}  BY <4>1
      <4>2. CASE T # {}
        <5>1. pick[T] \in S /\ T \ {pick[T]} \in SUBSET S  BY <4>2
        <5>2. g[T \ {pick[T]}] \in A  BY <5>1
        <5> QED  BY <4>2, <5>1, <5>2
      <4> QED  BY <4>1, <4>2
    <3> QED  BY <3>1
  <2>3. \A T \in SUBSET S : Cardinality(T) <= n => h[T] = g[T]  BY <2>1
  <2>4. ASSUME NEW T \in SUBSET S, Cardinality(T) <= n + 1 PROVE Right(h, T)
    <3>1. CASE T = {}  BY <3>1
    <3>2. CASE T # {}
      <4>1. T \ {pick[T]} \in SUBSET S /\ Cardinality(T \ {pick[T]}) = Cardinality(T) - 1
        BY <1>1, <3>2, FS_RemoveElement
      <4>2. Cardinality(T \ {pick[T]}) <= n  BY <1>1, <2>4, <4>1
      <4>3. h[T \ {pick[T]}] = g[T \ {pick[T]}]  BY <2>3, <4>1, <4>2
      <4>4. h[T] = G[<<g[T \ {pick[T]}], pick[T]>>]  BY <3>2
      <4> QED  BY <3>2, <4>3, <4>4
    <3> QED  BY <3>1, <3>2
  <2> HIDE DEF h, Right
  <2>5. Solved(n + 1)  BY <2>2, <2>4
  <2> QED  BY <2>5
<1>5. Cardinality(S) \in N
  <2>1. N \subseteq Nat  OBVIOUS
  <2> HIDE DEF N
  <2>2. \A n \in Nat : n \in N  BY <1>3, <1>4, <2>1, FromZeroOn
  <2> QED  BY <1>1, <2>2
<1>6. \A T \in SUBSET S : Cardinality(T) <= Cardinality(S)  BY FS_Subset
<1> QED  BY <1>5, <1>6 DEF HasSubsets

(* So has the one by which FoldLeft is defined. *)
LEMMA StepsExist ==
  ASSUME NEW A, NEW B, NEW G, NEW b, NEW seq, Foldable(A, B, G, b, seq)
  PROVE  \E h : HasSteps(h, A, G, b, seq)
<1> USE DEF Foldable
<1> DEFINE S == DOMAIN seq
           H == [p \in A \X S |-> G[<<p[1], seq[p[2]]>>]]
           pick == [T \in SUBSET S |-> Max(T)]
<1>1. S = 1..Len(seq) /\ Len(seq) \in Nat /\ \A i \in S : seq[i] \in B  OBVIOUS
<1>2. IsFiniteSet(S)  BY <1>1, FS_Interval
<1>3. \A T \in SUBSET S : T # {} => Max(T) \in T  BY <1>1, Greatest
<1>4. \A T \in SUBSET S : T # {} => pick[T] \in T  BY <1>3
<1>5. \A a \in A, x \in S : H[<<a, x>>] = G[<<a, seq[x]>>] /\ H[<<a, x>>] \in A  BY <1>1
<1> HIDE DEF H, S, pick
<1>6. PICK h : HasSubsets(h, S, A, H, b, pick)  BY <1>2, <1>4, <1>5, SubsetsFolded
<1>7. ASSUME NEW T \in SUBSET S, T # {}
      PROVE  h[T] = G[<<h[T \ {Max(T)}], seq[Max(T)]>>]
  <2>1. pick[T] = Max(T) /\ Max(T) \in S  BY <1>3, <1>7 DEF pick
  <2>2. h[T \ {Max(T)}] \in A  BY <1>6 DEF HasSubsets
  <2>3. h[T] = H[<<h[T \ {Max(T)}], Max(T)>>]  BY <1>6, <1>7, <2>1 DEF HasSubsets
  <2> QED  BY <1>5, <2>1, <2>2, <2>3
<1>8. h \in [SUBSET S -> A] /\ h[{}] = b  BY <1>6 DEF HasSubsets
<1>9. \A T \in SUBSET S : h[T] = IF T = {} THEN b ELSE G[<<h[T \ {Max(T)}], seq[Max(T)]>>]
  BY <1>7, <1>8
<1> QED  BY <1>8, <1>9 DEF S, HasSteps

-----------------------------------------------------------------------------
(* The values of a fold are those of its function. *)
LEMMA Values ==
  ASSUME NEW A, NEW B, NEW G, NEW b, NEW seq, Foldable(A, B, G, b, seq)
  PROVE  HasValues(ValuesOf(G, b, seq), A, G, b, seq)
<1>1. Len(seq) \in Nat /\ DOMAIN seq = 1..Len(seq) /\ \A i \in 1..Len(seq) : seq[i] \in B
  BY DEF Foldable
<1>2. PICK h : HasSteps(h, A, G, b, seq)  BY StepsExist
<1> DEFINE f == [k \in 0..Len(seq) |-> h[1..k]]
<1>3. f \in [0..Len(seq) -> A]
  <2>1. \A k \in 0..Len(seq) : 1..k \in SUBSET (DOMAIN seq)  BY <1>1
  <2> QED  BY <1>2, <2>1 DEF HasSteps
<1>4. f[0] = b
  <2>1. 1..0 = {} /\ 0 \in 0..Len(seq)  BY <1>1
  <2>2. h[{}] = b  BY <1>2 DEF HasSteps
  <2> QED  BY <2>1, <2>2
<1>5. ASSUME NEW k \in 1..Len(seq) PROVE f[k] = G[<<f[k - 1], seq[k]>>]
  <2>1. k \in Nat \ {0} /\ k \in 0..Len(seq) /\ k - 1 \in 0..Len(seq)  BY <1>1
  <2>2. 1..k # {} /\ Max(1..k) = k /\ (1..k) \ {k} = 1..(k - 1)  BY <2>1, UpTo
  <2>3. 1..k \in SUBSET (DOMAIN seq)  BY <1>1
  <2>4. h[1..k] = G[<<h[1..(k - 1)], seq[k]>>]  BY <1>2, <2>2, <2>3 DEF HasSteps
  <2> QED  BY <2>1, <2>4
<1> HIDE DEF f
<1>6. IsValues(f, G, b, seq)
  <2>1. \A k \in 0..Len(seq) : f[k] = IF k = 0 THEN b ELSE G[<<f[k - 1], seq[k]>>]
    BY <1>1, <1>4, <1>5
  <2> QED  BY <1>3, <2>1 DEF IsValues
<1> DEFINE g == ValuesOf(G, b, seq)
<1>7. IsValues(g, G, b, seq)  BY <1>6 DEF ValuesOf
<1> HIDE DEF g
<1>8. /\ g = [k \in 0..Len(seq) |-> g[k]]
      /\ \A k \in 0..Len(seq) : g[k] = IF k = 0 THEN b ELSE G[<<g[k - 1], seq[k]>>]
  BY <1>7 DEF IsValues
<1>9. g[0] = b /\ \A k \in 1..Len(seq) : g[k] = G[<<g[k - 1], seq[k]>>]
  <2>1. 0 \in 0..Len(seq) /\ \A k \in 1..Len(seq) : k \in 0..Len(seq) /\ k # 0  BY <1>1
  <2> QED  BY <1>8, <2>1
<1>10. \A k \in 0..Len(seq) : g[k] = f[k]
  <2> DEFINE N == {n \in Nat : n <= Len(seq) => g[n] = f[n]}
  <2>1. N \subseteq Nat /\ 0 \in N  BY <1>4, <1>9
  <2>2. ASSUME NEW n \in N PROVE n + 1 \in N
    <3> SUFFICES ASSUME n + 1 <= Len(seq) PROVE g[n + 1] = f[n + 1]  OBVIOUS
    <3>1. n + 1 \in 1..Len(seq) /\ n <= Len(seq) /\ (n + 1) - 1 = n  BY <1>1
    <3>2. g[n] = f[n]  BY <3>1
    <3> QED  BY <1>5, <1>9, <3>1, <3>2
  <2> HIDE DEF N
  <2>3. \A n \in Nat : n \in N  BY <2>1, <2>2, FromZeroOn
  <2> QED  BY <1>1, <2>3 DEF N
<1>11. g \in [0..Len(seq) -> A]  BY <1>3, <1>8, <1>10
<1> QED  BY <1>9, <1>11 DEF HasValues, g

(* A fold has the type of its function, and takes the elements in order. *)
LEMMA FoldedType ==
  ASSUME NEW A, NEW B, NEW G, NEW b, NEW seq, Foldable(A, B, G, b, seq)
  PROVE  Folded(G, b, seq) \in A
<1>1. Len(seq) \in 0..Len(seq)  BY DEF Foldable
<1>2. HasValues(ValuesOf(G, b, seq), A, G, b, seq)  BY Values
<1> QED  BY <1>1, <1>2 DEF HasValues, Folded

LEMMA FoldedEmpty ==
  ASSUME NEW A, NEW B, NEW G \in [A \X B -> A], NEW b \in A
  PROVE  Folded(G, b, <<>>) = b
<1> DEFINE none == <<>>
<1>1. none \in Seq(B) /\ Len(none) = 0  OBVIOUS
<1> HIDE DEF none
<1>2. HasValues(ValuesOf(G, b, none), A, G, b, none)  BY <1>1, Values DEF Foldable
<1> QED  BY <1>1, <1>2 DEF HasValues, Folded, none

LEMMA FoldedAppend ==
  ASSUME NEW A, NEW B, NEW G, NEW b, NEW seq, Foldable(A, B, G, b, seq), NEW e \in B
  PROVE  Folded(G, b, Append(seq, e)) = G[<<Folded(G, b, seq), e>>]
<1> DEFINE n == Len(seq)
           all == Append(seq, e)
<1>1. /\ all \in Seq(B) /\ Len(all) = n + 1 /\ n \in Nat /\ all[n + 1] = e
      /\ \A i \in 1..n : all[i] = seq[i]
  BY AppendProperties DEF Foldable
<1> HIDE DEF all
<1> DEFINE f == ValuesOf(G, b, all)
           g == ValuesOf(G, b, seq)
<1>2. HasValues(f, A, G, b, all)  BY <1>1, Values DEF Foldable
<1>3. HasValues(g, A, G, b, seq)  BY Values
<1> HIDE DEF f, g
<1>4. f[n] = g[n]
  <2> DEFINE N == {m \in Nat : m <= n => f[m] = g[m]}
  <2>1. N \subseteq Nat /\ 0 \in N  BY <1>2, <1>3 DEF HasValues
  <2>2. ASSUME NEW m \in N PROVE m + 1 \in N
    <3> SUFFICES ASSUME m + 1 <= n PROVE f[m + 1] = g[m + 1]  OBVIOUS
    <3>1. m + 1 \in 1..n /\ m + 1 \in 1..Len(all) /\ m <= n /\ (m + 1) - 1 = m  BY <1>1
    <3>2. f[m] = g[m]  BY <3>1
    <3>3. f[m + 1] = G[<<f[m], all[m + 1]>>]  BY <1>2, <3>1 DEF HasValues
    <3>4. g[m + 1] = G[<<g[m], seq[m + 1]>>]  BY <1>3, <3>1 DEF HasValues
    <3> QED  BY <1>1, <3>1, <3>2, <3>3, <3>4
  <2> HIDE DEF N
  <2>3. \A m \in Nat : m \in N  BY <2>1, <2>2, FromZeroOn
  <2> QED  BY <1>1, <2>3 DEF N
<1>5. n + 1 \in 1..Len(all) /\ (n + 1) - 1 = n  BY <1>1
<1>6. f[n + 1] = G[<<f[n], e>>]  BY <1>1, <1>2, <1>5 DEF HasValues
<1> QED  BY <1>1, <1>4, <1>6 DEF Folded, f, g, all

(* A function that goes through the sequence with G ends with the fold. *)
LEMMA FoldIs ==
  ASSUME NEW A, NEW B, NEW G, NEW b, NEW seq, NEW c,
         Foldable(A, B, G, b, seq), Follows(c, A, G, b, seq)
  PROVE  c[DOMAIN seq] = Folded(G, b, seq)
<1> USE DEF Foldable
<1> DEFINE n == Len(seq)
<1>1. n \in Nat /\ DOMAIN seq = 1..n  OBVIOUS
<1> DEFINE g == ValuesOf(G, b, seq)
<1>2. HasValues(g, A, G, b, seq)  BY Values
<1> HIDE DEF g
<1> DEFINE N == {m \in Nat : m <= n => c[1..m] = g[m]}
<1>3. N \subseteq Nat /\ 0 \in N
  <2>1. 1..0 = {}  OBVIOUS
  <2> QED  BY <1>2, <2>1 DEF HasValues, Follows
<1>4. ASSUME NEW m \in N PROVE m + 1 \in N
  <2> SUFFICES ASSUME m + 1 <= n PROVE c[1..(m + 1)] = g[m + 1]  OBVIOUS
  <2>1. m + 1 \in 1..n /\ m \in 0..n /\ (m + 1) - 1 = m  BY <1>1
  <2>2. c[1..m] = g[m] /\ g[m] \in A  BY <1>2, <2>1 DEF HasValues
  <2>3. c[1..(m + 1)] = G[<<g[m], seq[m + 1]>>]  BY <2>1, <2>2 DEF Follows
  <2> QED  BY <1>2, <2>1, <2>3 DEF HasValues
<1> HIDE DEF N
<1>5. \A m \in Nat : m \in N  BY <1>3, <1>4, FromZeroOn
<1> QED  BY <1>1, <1>5 DEF N, Folded, g

-----------------------------------------------------------------------------
(* FlattenSeq, the fold of the concatenation. *)
Concat(S) == [p \in Seq(S) \X Seq(S) |-> p[1] \o p[2]]
IsFlat(f, seqs) ==
  f = [i \in 1..Len(seqs) |-> IF i = 1 THEN seqs[i] ELSE f[i - 1] \o seqs[i]]
FlatOf(seqs) == CHOOSE f : IsFlat(f, seqs)

LEMMA ConcatFolds ==
  ASSUME NEW S, NEW seqs \in Seq(Seq(S))
  PROVE  /\ Foldable(Seq(S), Seq(S), Concat(S), <<>>, seqs)
         /\ \A s, t \in Seq(S) : Concat(S)[<<s, t>>] = s \o t
<1>1. Concat(S) \in [Seq(S) \X Seq(S) -> Seq(S)]
  <2>1. \A p \in Seq(S) \X Seq(S) : p[1] \o p[2] \in Seq(S)  BY ConcatProperties
  <2> QED  BY <2>1 DEF Concat
<1>2. <<>> \in Seq(S)  OBVIOUS
<1> QED  BY <1>1, <1>2 DEF Foldable, Concat

LEMMA FlattenIs ==
  ASSUME NEW S, NEW seqs \in Seq(Seq(S))
  PROVE  FlattenSeq(seqs) = Folded(Concat(S), <<>>, seqs)
<1> DEFINE n == Len(seqs)
           G == Concat(S)
           none == <<>>
           g == ValuesOf(G, none, seqs)
           f == FlatOf(seqs)
           h == [i \in 1..n |-> g[i]]
<1>1. /\ Foldable(Seq(S), Seq(S), G, none, seqs) /\ none \in Seq(S) /\ n \in Nat
      /\ \A i \in 1..n : seqs[i] \in Seq(S)
      /\ \A s, t \in Seq(S) : G[<<s, t>>] = s \o t
  <2>1. none \in Seq(S) /\ n \in Nat /\ \A i \in 1..n : seqs[i] \in Seq(S)  OBVIOUS
  <2>2. /\ Foldable(Seq(S), Seq(S), G, none, seqs)
        /\ \A s, t \in Seq(S) : G[<<s, t>>] = s \o t
    BY ConcatFolds
  <2> QED  BY <2>1, <2>2
<1>2. none \o seqs[1] = seqs[1] \/ n = 0
  <2>1. n = 0 \/ seqs[1] \in Seq(S)  BY <1>1
  <2> QED  BY <2>1, ConcatEmptySeq
<1>3. n = 0 => seqs = none  BY <1>1
<1>4. FlattenSeq(seqs) = IF n = 0 THEN seqs ELSE f[n]  BY DEF FlattenSeq, FlatOf, IsFlat
<1> HIDE DEF G, none
<1>5. HasValues(g, Seq(S), G, none, seqs)  BY <1>1, Values
<1> HIDE DEF g
<1>6. \A i \in 1..n : g[i] = IF i = 1 THEN seqs[i] ELSE g[i - 1] \o seqs[i]
  <2>1. ASSUME NEW i \in 1..n
        PROVE  g[i] = IF i = 1 THEN seqs[i] ELSE g[i - 1] \o seqs[i]
    <3>1. g[i] = G[<<g[i - 1], seqs[i]>>] /\ i - 1 \in 0..n /\ n # 0  BY <1>1, <1>5 DEF HasValues
    <3>2. g[i] = g[i - 1] \o seqs[i]  BY <1>1, <1>5, <3>1 DEF HasValues
    <3>3. i = 1 => g[i - 1] = none  BY <1>5 DEF HasValues
    <3> QED  BY <1>2, <3>1, <3>2, <3>3
  <2> QED  BY <2>1
<1>7. IsFlat(h, seqs)
  <2>1. \A i \in 1..n : i # 1 => i - 1 \in 1..n  BY <1>1
  <2>2. \A i \in 1..n : h[i] = IF i = 1 THEN seqs[i] ELSE h[i - 1] \o seqs[i]
    BY <1>6, <2>1
  <2> QED  BY <2>2 DEF IsFlat
<1>8. IsFlat(f, seqs)  BY <1>7 DEF FlatOf
<1> HIDE DEF f, h
<1>9. \A i \in 1..n : f[i] = IF i = 1 THEN seqs[i] ELSE f[i - 1] \o seqs[i]
  BY <1>8 DEF IsFlat
<1> DEFINE N == {m \in Nat : m + 1 <= n => f[m + 1] = g[m + 1]}
<1>10. N \subseteq Nat /\ 0 \in N
  <2>1. 0 + 1 <= n => 1 \in 1..n  BY <1>1
  <2> QED  BY <1>6, <1>9, <2>1
<1>11. ASSUME NEW m \in N PROVE m + 1 \in N
  <2> SUFFICES ASSUME (m + 1) + 1 <= n PROVE f[(m + 1) + 1] = g[(m + 1) + 1]  OBVIOUS
  <2>1. /\ (m + 1) + 1 \in 1..n /\ (m + 1) + 1 # 1 /\ ((m + 1) + 1) - 1 = m + 1
        /\ m + 1 <= n
    BY <1>1
  <2>2. f[m + 1] = g[m + 1]  BY <2>1
  <2> QED  BY <1>6, <1>9, <2>1, <2>2
<1> HIDE DEF N
<1>12. n # 0 => f[n] = g[n]
  <2>1. ASSUME n # 0 PROVE f[n] = g[n]
    <3>1. n - 1 \in Nat /\ (n - 1) + 1 = n /\ n <= n  BY <1>1, <2>1
    <3>2. n - 1 \in N  BY <1>10, <1>11, <3>1, FromZeroOn
    <3> QED  BY <3>1, <3>2 DEF N
  <2> QED  BY <2>1
<1>13. n = 0 => g[n] = none  BY <1>5 DEF HasValues
<1> QED  BY <1>3, <1>4, <1>12, <1>13 DEF Folded, g, G, none

LEMMA FlattenAppend ==
  ASSUME NEW S, NEW seqs \in Seq(Seq(S)), NEW s \in Seq(S)
  PROVE  /\ FlattenSeq(seqs) \in Seq(S)
         /\ FlattenSeq(Append(seqs, s)) = FlattenSeq(seqs) \o s
<1> DEFINE F == Folded(Concat(S), <<>>, seqs)
<1>1. /\ Foldable(Seq(S), Seq(S), Concat(S), <<>>, seqs)
      /\ \A u, t \in Seq(S) : Concat(S)[<<u, t>>] = u \o t
  BY ConcatFolds
<1>2. FlattenSeq(seqs) = F /\ F \in Seq(S)  BY <1>1, FoldedType, FlattenIs
<1>3. Append(seqs, s) \in Seq(Seq(S))  OBVIOUS
<1>4. FlattenSeq(Append(seqs, s)) = Folded(Concat(S), <<>>, Append(seqs, s))
  BY <1>3, FlattenIs
<1>5. Folded(Concat(S), <<>>, Append(seqs, s)) = Concat(S)[<<F, s>>]  BY <1>1, FoldedAppend
<1> QED  BY <1>1, <1>2, <1>4, <1>5

-----------------------------------------------------------------------------
(* The sum of a function over a set, as MapThenSumSet takes it. *)
SumOf(f, S) == MapThenSumSet(LAMBDA x : f[x], S)
AnyOf(T) == CHOOSE x \in T : TRUE
IsSums(c, f, S) ==
  c = [T \in SUBSET S |-> IF T = {} THEN 0 ELSE f[AnyOf(T)] + c[T \ {AnyOf(T)}]]
HasSums(c, f, S) ==
  /\ c \in [SUBSET S -> Nat] /\ c[{}] = 0
  /\ \A T \in SUBSET S : T # {} => c[T] = f[AnyOf(T)] + c[T \ {AnyOf(T)}]
SumsOf(f, S) == CHOOSE c : IsSums(c, f, S)

(* Induction over the subsets of a finite set. *)
LEMMA SubsetInduction ==
  ASSUME NEW S, IsFiniteSet(S), NEW P,
         \A T \in SUBSET S : (\A x \in T : T \ {x} \in P) => T \in P
  PROVE  \A T \in SUBSET S : T \in P
<1> DEFINE Has(n) == \A T \in SUBSET S : Cardinality(T) <= n => T \in P
           N == {n \in Nat : Has(n)}
<1>1. \A T \in SUBSET S : IsFiniteSet(T) /\ Cardinality(T) \in Nat
  BY FS_Subset, FS_CardinalityType
<1>2. 0 \in N
  <2>1. ASSUME NEW T \in SUBSET S, Cardinality(T) <= 0 PROVE T \in P
    <3>1. Cardinality(T) = 0  BY <1>1, <2>1
    <3>2. T = {}  BY <1>1, <3>1, FS_EmptySet
    <3> QED  BY <3>2
  <2> QED  BY <2>1
<1>3. ASSUME NEW n \in N PROVE n + 1 \in N
  <2>1. ASSUME NEW T \in SUBSET S, Cardinality(T) <= n + 1 PROVE T \in P
    <3>1. ASSUME NEW x \in T PROVE T \ {x} \in P
      <4>1. T \ {x} \in SUBSET S /\ Cardinality(T \ {x}) = Cardinality(T) - 1
        BY <1>1, FS_RemoveElement
      <4>2. Cardinality(T \ {x}) <= n  BY <1>1, <2>1, <4>1
      <4> QED  BY <4>1, <4>2
    <3> QED  BY <3>1
  <2> QED  BY <2>1
<1>4. N \subseteq Nat  OBVIOUS
<1> HIDE DEF N
<1>5. \A n \in Nat : n \in N  BY <1>2, <1>3, <1>4, FromZeroOn
<1>6. ASSUME NEW T \in SUBSET S PROVE T \in P
  <2>1. Cardinality(T) \in N /\ Cardinality(T) <= Cardinality(T)  BY <1>1, <1>5
  <2> QED  BY <2>1 DEF N
<1> QED  BY <1>6

LEMMA SumsExist ==
  ASSUME NEW S, IsFiniteSet(S), NEW f, \A x \in S : f[x] \in Nat
  PROVE  HasSums(SumsOf(f, S), f, S)
<1> DEFINE G == [p \in Nat \X S |-> f[p[2]] + p[1]]
           pick == [T \in SUBSET S |-> AnyOf(T)]
<1>1. \A T \in SUBSET S : T # {} => pick[T] = AnyOf(T) /\ AnyOf(T) \in T  BY DEF AnyOf
<1>2. \A a \in Nat, x \in S : G[<<a, x>>] = f[x] + a /\ G[<<a, x>>] \in Nat  OBVIOUS
<1> HIDE DEF G, pick
<1>3. 0 \in Nat /\ \A T \in SUBSET S : T # {} => pick[T] \in T  BY <1>1
<1>4. \A a \in Nat, x \in S : G[<<a, x>>] \in Nat  BY <1>2
<1>5. PICK h : HasSubsets(h, S, Nat, G, 0, pick)  BY <1>3, <1>4, SubsetsFolded
<1>6. h \in [SUBSET S -> Nat] /\ h[{}] = 0  BY <1>5 DEF HasSubsets
<1>7. ASSUME NEW T \in SUBSET S, T # {} PROVE h[T] = f[AnyOf(T)] + h[T \ {AnyOf(T)}]
  <2>1. h[T] = G[<<h[T \ {AnyOf(T)}], AnyOf(T)>>]  BY <1>1, <1>5, <1>7 DEF HasSubsets
  <2>2. h[T \ {AnyOf(T)}] \in Nat /\ AnyOf(T) \in S  BY <1>1, <1>6, <1>7
  <2> QED  BY <1>2, <2>1, <2>2
<1>8. IsSums(h, f, S)
  <2>1. \A T \in SUBSET S : h[T] = IF T = {} THEN 0 ELSE f[AnyOf(T)] + h[T \ {AnyOf(T)}]
    BY <1>6, <1>7
  <2> QED  BY <1>6, <2>1 DEF IsSums
<1> DEFINE c == SumsOf(f, S)
<1>9. IsSums(c, f, S)  BY <1>8 DEF SumsOf
<1> HIDE DEF c
<1>10. /\ c = [T \in SUBSET S |-> c[T]] /\ c[{}] = 0
       /\ \A T \in SUBSET S : T # {} => c[T] = f[AnyOf(T)] + c[T \ {AnyOf(T)}]
  BY <1>9 DEF IsSums
<1>11. \A T \in SUBSET S : c[T] = h[T]
  <2> DEFINE P == {T \in SUBSET S : c[T] = h[T]}
  <2>1. ASSUME NEW T \in SUBSET S, \A x \in T : T \ {x} \in P PROVE T \in P
    <3>1. CASE T = {}  BY <1>6, <1>10, <3>1
    <3>2. CASE T # {}
      <4>1. c[T \ {AnyOf(T)}] = h[T \ {AnyOf(T)}]  BY <1>1, <2>1, <3>2
      <4> QED  BY <1>7, <1>10, <3>2, <4>1
    <3> QED  BY <3>1, <3>2
  <2> HIDE DEF P
  <2>2. \A T \in SUBSET S : T \in P  BY <2>1, SubsetInduction
  <2> QED  BY <2>2 DEF P
<1>12. c \in [SUBSET S -> Nat]  BY <1>6, <1>10, <1>11
<1> QED  BY <1>10, <1>12 DEF HasSums, c

(* The order does not matter. *)
LEMMA SumsCommute ==
  ASSUME NEW S, IsFiniteSet(S), NEW f, \A x \in S : f[x] \in Nat, NEW c, HasSums(c, f, S)
  PROVE  \A T \in SUBSET S : \A x \in T : c[T] = f[x] + c[T \ {x}]
<1> DEFINE P == {T \in SUBSET S : \A x \in T : c[T] = f[x] + c[T \ {x}]}
<1>1. ASSUME NEW T \in SUBSET S, \A x \in T : T \ {x} \in P PROVE T \in P
  <2> SUFFICES ASSUME NEW x \in T PROVE c[T] = f[x] + c[T \ {x}]  OBVIOUS
  <2> DEFINE y == AnyOf(T)
  <2>1. y \in T /\ c[T] = f[y] + c[T \ {y}]  BY DEF HasSums, AnyOf
  <2> HIDE DEF y
  <2>2. CASE x = y  BY <2>1, <2>2
  <2>3. CASE x # y
    <3> DEFINE rest == T \ {x, y}
    <3>1. /\ x \in T \ {y} /\ (T \ {y}) \ {x} = rest
          /\ y \in T \ {x} /\ (T \ {x}) \ {y} = rest /\ rest \in SUBSET S
      BY <2>1, <2>3
    <3> HIDE DEF rest
    <3>2. c[T \ {y}] = f[x] + c[rest]  BY <1>1, <2>1, <3>1
    <3>3. c[T \ {x}] = f[y] + c[rest]  BY <1>1, <3>1
    <3>4. f[x] \in Nat /\ f[y] \in Nat /\ c[rest] \in Nat  BY <2>1, <3>1 DEF HasSums
    <3> QED  BY <2>1, <3>2, <3>3, <3>4
  <2> QED  BY <2>2, <2>3
<1> HIDE DEF P
<1>2. \A T \in SUBSET S : T \in P  BY <1>1, SubsetInduction
<1> QED  BY <1>2 DEF P

(* A part of the set has no greater sum, whichever set it is taken in. *)
LEMMA SumsOfPart ==
  ASSUME NEW S, IsFiniteSet(S), NEW f, \A x \in S : f[x] \in Nat, NEW c, HasSums(c, f, S),
         NEW H \in SUBSET S, NEW d, HasSums(d, f, H)
  PROVE  d[H] = c[H] /\ \A T \in SUBSET S : H \subseteq T => c[H] <= c[T]
<1>1. d[H] = c[H]
  <2> DEFINE P == {T \in SUBSET H : d[T] = c[T]}
  <2>1. ASSUME NEW T \in SUBSET H, \A x \in T : T \ {x} \in P PROVE T \in P
    <3>1. CASE T = {}  BY <3>1 DEF HasSums
    <3>2. CASE T # {}
      <4>1. AnyOf(T) \in T  BY <3>2 DEF AnyOf
      <4>2. d[T \ {AnyOf(T)}] = c[T \ {AnyOf(T)}]  BY <2>1, <4>1
      <4>3. T \in SUBSET S  OBVIOUS
      <4>4. d[T] = f[AnyOf(T)] + d[T \ {AnyOf(T)}]  BY <3>2 DEF HasSums
      <4>5. c[T] = f[AnyOf(T)] + c[T \ {AnyOf(T)}]  BY <3>2, <4>3 DEF HasSums
      <4> QED  BY <4>2, <4>4, <4>5
    <3> QED  BY <3>1, <3>2
  <2>2. IsFiniteSet(H)  BY FS_Subset
  <2> HIDE DEF P
  <2>3. \A T \in SUBSET H : T \in P  BY <2>1, <2>2, SubsetInduction
  <2> QED  BY <2>3 DEF P
<1>2. \A T \in SUBSET S : H \subseteq T => c[H] <= c[T]
  <2> DEFINE P == {T \in SUBSET S : H \subseteq T => c[H] <= c[T]}
  <2>1. \A T \in SUBSET S : c[T] \in Nat  BY DEF HasSums
  <2>2. ASSUME NEW T \in SUBSET S, \A x \in T : T \ {x} \in P PROVE T \in P
    <3> SUFFICES ASSUME H \subseteq T PROVE c[H] <= c[T]  OBVIOUS
    <3>1. CASE T = H  BY <2>1, <3>1
    <3>2. CASE T # H
      <4>1. PICK x \in T : x \notin H  BY <3>2
      <4>2. c[H] <= c[T \ {x}]  BY <2>2, <4>1
      <4>3. c[T] = f[x] + c[T \ {x}]  BY SumsCommute
      <4>4. f[x] \in Nat /\ c[T \ {x}] \in Nat  BY <2>1
      <4> QED  BY <2>1, <4>2, <4>3, <4>4
    <3> QED  BY <3>1, <3>2
  <2> HIDE DEF P
  <2>3. \A T \in SUBSET S : T \in P  BY <2>2, SubsetInduction
  <2> QED  BY <2>3 DEF P
<1> QED  BY <1>1, <1>2

LEMMA SumOfIs == ASSUME NEW f, NEW S PROVE SumOf(f, S) = SumsOf(f, S)[S]
  BY DEF SumOf, MapThenSumSet, MapThenFoldSet, SumsOf, IsSums, AnyOf

LEMMA SumOfType ==
  ASSUME NEW S, IsFiniteSet(S), NEW f, \A x \in S : f[x] \in Nat
  PROVE  SumOf(f, S) \in Nat
<1>1. HasSums(SumsOf(f, S), f, S)  BY SumsExist
<1>2. S \in SUBSET S  OBVIOUS
<1> QED  BY <1>1, <1>2, SumOfIs DEF HasSums

(* A part with the whole sum leaves nothing but zeros. *)
LEMMA SumOfWhole ==
  ASSUME NEW S, IsFiniteSet(S), NEW f, \A x \in S : f[x] \in Nat,
         NEW H \in SUBSET S, SumOf(f, H) >= SumOf(f, S)
  PROVE  \A x \in S \ H : f[x] = 0
<1> DEFINE c == SumsOf(f, S)
           d == SumsOf(f, H)
<1>1. IsFiniteSet(H) /\ \A x \in H : f[x] \in Nat  BY FS_Subset
<1>2. HasSums(c, f, S) /\ HasSums(d, f, H)  BY <1>1, SumsExist
<1>3. d[H] >= c[S]  BY SumOfIs
<1> HIDE DEF c, d
<1>4. ASSUME NEW x \in S \ H PROVE f[x] = 0
  <2>1. d[H] = c[H] /\ c[H] <= c[S \ {x}]  BY <1>2, SumsOfPart
  <2>2. c[S] = f[x] + c[S \ {x}]  BY <1>2, SumsCommute
  <2>3. c[H] \in Nat /\ c[S \ {x}] \in Nat /\ f[x] \in Nat  BY <1>2 DEF HasSums
  <2> QED  BY <1>3, <2>1, <2>2, <2>3
<1> QED  BY <1>4

(* The sum over a set with one element more, and over none. *)
LEMMA SumOfNone == \A f : SumOf(f, {}) = 0
<1> SUFFICES ASSUME NEW f PROVE SumOf(f, {}) = 0  OBVIOUS
<1>1. IsFiniteSet({})  BY FS_EmptySet
<1>2. HasSums(SumsOf(f, {}), f, {})  BY <1>1, SumsExist
<1> QED  BY <1>2, SumOfIs DEF HasSums

LEMMA SumOfMore ==
  ASSUME NEW S, IsFiniteSet(S), NEW e, e \notin S, NEW f, \A x \in S \cup {e} : f[x] \in Nat
  PROVE  SumOf(f, S \cup {e}) = f[e] + SumOf(f, S)
<1> DEFINE U == S \cup {e}
           c == SumsOf(f, U)
           d == SumsOf(f, S)
<1>1. IsFiniteSet(U) /\ U \ {e} = S /\ e \in U /\ S \in SUBSET U /\ U \in SUBSET U
  BY FS_AddElement
<1>2. HasSums(c, f, U) /\ HasSums(d, f, S)  BY <1>1, SumsExist
<1>3. SumOf(f, U) = c[U] /\ SumOf(f, S) = d[S]  BY SumOfIs
<1>4. \A x \in U : f[x] \in Nat  OBVIOUS
<1> HIDE DEF c, d, U
<1>5. c[U] = f[e] + c[U \ {e}]  BY <1>1, <1>2, <1>4, SumsCommute
<1>6. d[S] = c[S]  BY <1>1, <1>2, <1>4, SumsOfPart
<1> QED  BY <1>1, <1>3, <1>5, <1>6 DEF U

-----------------------------------------------------------------------------
(* Induction over sequences: a set with the empty one and all one longer. *)
LEMMA SequenceInduction ==
  ASSUME NEW B, NEW P, <<>> \in P,
         \A s \in Seq(B), e \in B : s \in P => Append(s, e) \in P
  PROVE  \A s \in Seq(B) : s \in P
<1> DEFINE N == {n \in Nat : \A s \in Seq(B) : Len(s) = n => s \in P}
<1>1. N \subseteq Nat  OBVIOUS
<1>2. 0 \in N
  <2>1. \A s \in Seq(B) : Len(s) = 0 => s = <<>>  OBVIOUS
  <2> QED  BY <2>1
<1>3. ASSUME NEW n \in N PROVE n + 1 \in N
  <2>1. ASSUME NEW s \in Seq(B), Len(s) = n + 1 PROVE s \in P
    <3>1. n \in Nat /\ n + 1 # 0  OBVIOUS
    <3>2. s # <<>>  BY <2>1, <3>1
    <3>3. PICK t \in Seq(B) : \E e \in B : s = Append(t, e)  BY <3>2, SequenceEmptyOrAppend
    <3>4. PICK e \in B : s = Append(t, e)  BY <3>3
    <3>5. Len(s) = Len(t) + 1 /\ Len(t) \in Nat  BY <3>4, AppendProperties
    <3>6. Len(t) = n  BY <2>1, <3>1, <3>5
    <3> QED  BY <3>4, <3>6
  <2> QED  BY <2>1
<1> HIDE DEF N
<1>4. \A n \in Nat : n \in N  BY <1>1, <1>2, <1>3, FromZeroOn
<1>5. ASSUME NEW s \in Seq(B) PROVE s \in P
  <2>1. Len(s) \in N  BY <1>4
  <2> QED  BY <2>1 DEF N
<1> QED  BY <1>5

(* Concatenation, one element further. *)
LEMMA ConcatAppend ==
  ASSUME NEW B, NEW s \in Seq(B), NEW t \in Seq(B), NEW e \in B
  PROVE  s \o Append(t, e) = Append(s \o t, e)
<1> DEFINE one == <<e>>
<1>1. one \in Seq(B)  OBVIOUS
<1>2. Append(t, e) = t \o one /\ s \o t \in Seq(B)  BY AppendIsConcat, ConcatProperties
<1>3. Append(s \o t, e) = (s \o t) \o one  BY <1>2, AppendIsConcat
<1> HIDE DEF one
<1>4. (s \o t) \o one = s \o (t \o one)  BY <1>1, ConcatAssociative
<1> QED  BY <1>2, <1>3, <1>4

(* One element after the other. *)
LEMMA Appended == ASSUME NEW S, NEW e \in S, NEW f \in S
  PROVE  Append(<<>>, e) = <<e>> /\ Append(<<e>>, f) = <<e, f>>
<1> DEFINE one == <<e>>
           two == <<e, f>>
           more == Append(one, f)
<1>0. one \in Seq(S)  OBVIOUS
<1>1. Len(one) = 1 /\ one[1] = e  OBVIOUS
<1>2. two \in Seq(S) /\ Len(two) = 2 /\ two[1] = e /\ two[2] = f  OBVIOUS
<1> HIDE DEF one
<1>3. more \in Seq(S) /\ Len(more) = Len(one) + 1 /\ more[1] = e /\ more[Len(one) + 1] = f
  <2>1. /\ more \in Seq(S) /\ Len(more) = Len(one) + 1 /\ more[Len(one) + 1] = f
        /\ \A i \in 1..Len(one) : more[i] = one[i]
    BY <1>0, AppendProperties
  <2>2. 1 \in 1..Len(one)  BY <1>1
  <2> HIDE DEF more
  <2> QED  BY <1>1, <2>1, <2>2
<1> HIDE DEF two, more
<1>4. \A i \in 1..2 : i = 1 \/ i = 2  OBVIOUS
<1>5. Len(more) = Len(two) /\ \A i \in 1..Len(more) : more[i] = two[i]
  BY <1>1, <1>2, <1>3, <1>4
<1>6. more = two  BY <1>2, <1>3, <1>5, SeqEqual
<1> QED  BY <1>6 DEF one, two, more

LEMMA AppendedMore ==
  ASSUME NEW S, NEW a \in S, NEW b \in S, NEW c \in S, NEW d \in S
  PROVE  /\ Append(<<a, b>>, c) = <<a, b, c>>
         /\ Append(<<a, b, c>>, d) = <<a, b, c, d>>
<1> DEFINE two == <<a, b>>
           three == <<a, b, c>>
           four == <<a, b, c, d>>
           x == Append(two, c)
           y == Append(three, d)
<1>1. two \in Seq(S) /\ Len(two) = 2 /\ two[1] = a /\ two[2] = b  OBVIOUS
<1>2. /\ three \in Seq(S) /\ Len(three) = 3
      /\ three[1] = a /\ three[2] = b /\ three[3] = c
  OBVIOUS
<1>3. /\ four \in Seq(S) /\ Len(four) = 4
      /\ four[1] = a /\ four[2] = b /\ four[3] = c /\ four[4] = d
  OBVIOUS
<1> HIDE DEF two, three, four
<1>4. /\ x \in Seq(S) /\ Len(x) = Len(two) + 1 /\ x[Len(two) + 1] = c
      /\ \A i \in 1..Len(two) : x[i] = two[i]
  <2>1. two \in Seq(S)  BY <1>1
  <2> QED  BY <2>1, AppendProperties
<1>5. /\ y \in Seq(S) /\ Len(y) = Len(three) + 1 /\ y[Len(three) + 1] = d
      /\ \A i \in 1..Len(three) : y[i] = three[i]
  <2>1. three \in Seq(S)  BY <1>2
  <2> QED  BY <2>1, AppendProperties
<1> HIDE DEF x, y
<1>6. x = three
  <2>1. Len(x) = 3 /\ x[1] = a /\ x[2] = b /\ x[3] = c  BY <1>1, <1>4
  <2>2. \A i \in 1..3 : i = 1 \/ i = 2 \/ i = 3  OBVIOUS
  <2>3. \A i \in 1..Len(x) : x[i] = three[i]  BY <1>2, <2>1, <2>2
  <2> QED  BY <1>2, <1>4, <2>1, <2>3, SeqEqual
<1>7. y = four
  <2>1. Len(y) = 4 /\ y[1] = a /\ y[2] = b /\ y[3] = c /\ y[4] = d  BY <1>2, <1>5
  <2>2. \A i \in 1..4 : i = 1 \/ i = 2 \/ i = 3 \/ i = 4  OBVIOUS
  <2>3. \A i \in 1..Len(y) : y[i] = four[i]  BY <1>3, <2>1, <2>2
  <2> QED  BY <1>3, <1>5, <2>1, <2>3, SeqEqual
<1> QED  BY <1>6, <1>7 DEF x, y, two, three, four

-----------------------------------------------------------------------------
(* The elements of a sequence. *)
LEMMA ToSetAppend ==
  ASSUME NEW B, NEW seq \in Seq(B), NEW e \in B
  PROVE  ToSet(Append(seq, e)) = ToSet(seq) \cup {e}
<1> DEFINE t == Append(seq, e)
           n == Len(seq)
<1>1. /\ t \in Seq(B) /\ Len(t) = n + 1 /\ t[n + 1] = e /\ n \in Nat
      /\ \A i \in 1..n : t[i] = seq[i]
  BY AppendProperties
<1>2. DOMAIN t = 1..(n + 1) /\ DOMAIN seq = 1..n /\ 1..(n + 1) = (1..n) \cup {n + 1}  BY <1>1
<1> HIDE DEF t, n
<1>3. ToSet(t) = {t[i] : i \in 1..n} \cup {t[n + 1]}  BY <1>2 DEF ToSet
<1>4. {t[i] : i \in 1..n} = {seq[i] : i \in 1..n}  BY <1>1
<1> QED  BY <1>1, <1>2, <1>3, <1>4 DEF ToSet, t

LEMMA ToSetConcat ==
  ASSUME NEW B, NEW s \in Seq(B), NEW t \in Seq(B)
  PROVE  ToSet(s \o t) = ToSet(s) \cup ToSet(t)
<1> DEFINE u == s \o t
           n == Len(s)
           m == Len(t)
<1>1. /\ u \in Seq(B) /\ Len(u) = n + m /\ n \in Nat /\ m \in Nat
      /\ \A i \in 1..(n + m) : u[i] = IF i <= n THEN s[i] ELSE t[i - n]
  BY ConcatProperties
<1> HIDE DEF u
<1>2. ToSet(u) = {u[i] : i \in 1..(n + m)}  BY <1>1 DEF ToSet
<1>3. ToSet(s) = {s[i] : i \in 1..n} /\ ToSet(t) = {t[i] : i \in 1..m}  BY DEF ToSet
<1> HIDE DEF n, m
<1>4. \A i \in 1..n : i \in 1..(n + m) /\ u[i] = s[i]  BY <1>1
<1>5. ASSUME NEW i \in 1..m PROVE \E j \in 1..(n + m) : u[j] = t[i]
  <2>1. n + i \in 1..(n + m) /\ ~(n + i <= n) /\ (n + i) - n = i  BY <1>1
  <2> QED  BY <1>1, <2>1
<1>6. ASSUME NEW i \in 1..(n + m)
      PROVE  (\E j \in 1..n : u[i] = s[j]) \/ (\E j \in 1..m : u[i] = t[j])
  <2>1. CASE i <= n
    <3>1. i \in 1..n  BY <1>1, <2>1
    <3> QED  BY <1>4, <3>1
  <2>2. CASE ~(i <= n)
    <3>1. i - n \in 1..m  BY <1>1, <2>2
    <3> QED  BY <1>1, <2>2, <3>1
  <2> QED  BY <2>1, <2>2
<1> QED  BY <1>2, <1>3, <1>4, <1>5, <1>6 DEF u

(* Different elements stay different. *)
Different(seq) == \A i, j \in 1..Len(seq) : seq[i] = seq[j] => i = j

LEMMA DifferentAppend ==
  ASSUME NEW B, NEW seq \in Seq(B), NEW e \in B
  PROVE  Different(Append(seq, e)) <=> Different(seq) /\ e \notin ToSet(seq)
<1> DEFINE t == Append(seq, e)
           n == Len(seq)
<1>1. /\ t \in Seq(B) /\ Len(t) = n + 1 /\ t[n + 1] = e /\ n \in Nat
      /\ \A i \in 1..n : t[i] = seq[i]
  BY AppendProperties
<1>2. ToSet(seq) = {seq[i] : i \in 1..n}  BY DEF ToSet
<1> HIDE DEF t
<1>3. ASSUME Different(t) PROVE Different(seq) /\ e \notin ToSet(seq)
  <2>1. \A i \in 1..n : i \in 1..(n + 1) /\ i # n + 1  BY <1>1
  <2>2. n + 1 \in 1..(n + 1)  BY <1>1
  <2> HIDE DEF n
  <2>3. \A i, j \in 1..(n + 1) : t[i] = t[j] => i = j  BY <1>1, <1>3 DEF Different
  <2>4. \A i \in 1..n : seq[i] # e  BY <1>1, <2>1, <2>2, <2>3
  <2>5. \A i, j \in 1..n : seq[i] = seq[j] => i = j  BY <1>1, <2>1, <2>3
  <2> QED  BY <1>2, <2>4, <2>5 DEF Different, n
<1>4. ASSUME Different(seq), e \notin ToSet(seq) PROVE Different(t)
  <2>1. \A i, j \in 1..n : seq[i] = seq[j] => i = j  BY <1>4 DEF Different
  <2>2. \A i \in 1..n : seq[i] # e  BY <1>2, <1>4
  <2> HIDE DEF n
  <2>3. ASSUME NEW i \in 1..(n + 1), NEW j \in 1..(n + 1), t[i] = t[j] PROVE i = j
    <3>1. (i \in 1..n \/ i = n + 1) /\ (j \in 1..n \/ j = n + 1)  BY <1>1
    <3> QED  BY <1>1, <2>1, <2>2, <2>3, <3>1
  <2> QED  BY <1>1, <2>3 DEF Different
<1> QED  BY <1>3, <1>4 DEF t

-----------------------------------------------------------------------------
(* How often a value is in a sequence. *)
Number(seq, v) == Cardinality({i \in DOMAIN seq : seq[i] = v})

LEMMA NumberAppend ==
  ASSUME NEW B, NEW seq \in Seq(B), NEW e \in B, NEW v
  PROVE  /\ Number(seq, v) \in Nat
         /\ Number(Append(seq, e), v) = Number(seq, v) + IF e = v THEN 1 ELSE 0
<1> DEFINE t == Append(seq, e)
           n == Len(seq)
           I == {i \in 1..n : seq[i] = v}
           J == {i \in 1..(n + 1) : t[i] = v}
<1>1. /\ t \in Seq(B) /\ Len(t) = n + 1 /\ t[n + 1] = e /\ n \in Nat
      /\ \A i \in 1..n : t[i] = seq[i]
  BY AppendProperties
<1>2. DOMAIN t = 1..(n + 1) /\ DOMAIN seq = 1..n  BY <1>1
<1> HIDE DEF t, n
<1>3. I \subseteq 1..n /\ IsFiniteSet(1..n)  BY <1>1, FS_Interval
<1>4. IsFiniteSet(I) /\ Cardinality(I) \in Nat  BY <1>3, FS_Subset, FS_CardinalityType
<1>5. J = IF e = v THEN I \cup {n + 1} ELSE I
  <2>1. 1..(n + 1) = (1..n) \cup {n + 1}  BY <1>1
  <2> QED  BY <1>1, <2>1
<1>6. n + 1 \notin I  BY <1>1
<1> HIDE DEF I, J
<1>7. Cardinality(J) = Cardinality(I) + IF e = v THEN 1 ELSE 0
  <2>1. CASE e = v
    <3>1. Cardinality(I \cup {n + 1}) = Cardinality(I) + 1  BY <1>4, <1>6, FS_AddElement
    <3> QED  BY <1>5, <2>1, <3>1
  <2>2. CASE e # v  BY <1>4, <1>5, <2>2
  <2> QED  BY <2>1, <2>2
<1> QED  BY <1>2, <1>4, <1>7 DEF Number, I, J, t

LEMMA NumberEmpty == \A v : Number(<<>>, v) = 0
<1>1. \A v : {i \in DOMAIN <<>> : <<>>[i] = v} = {}  OBVIOUS
<1> QED  BY <1>1, FS_EmptySet DEF Number

LEMMA NumberConcat ==
  ASSUME NEW B, NEW s \in Seq(B), NEW t \in Seq(B), NEW v
  PROVE  Number(s \o t, v) = Number(s, v) + Number(t, v)
<1> DEFINE P == {u \in Seq(B) : Number(s \o u, v) = Number(s, v) + Number(u, v)}
<1>1. ASSUME NEW u \in Seq(B), NEW e \in B
      PROVE  /\ Number(u, v) \in Nat
             /\ Number(Append(u, e), v) = Number(u, v) + IF e = v THEN 1 ELSE 0
  BY NumberAppend
<1>2. <<>> \in P
  <2>1. s \o <<>> = s /\ Number(<<>>, v) = 0 /\ <<>> \in Seq(B)
    BY ConcatEmptySeq, NumberEmpty
  <2>2. Number(s, v) \in Nat
    <3>1. CASE s = <<>>  BY <3>1, NumberEmpty
    <3>2. CASE s # <<>>
      <4>1. s[1] \in B  BY <3>2
      <4> QED  BY <1>1, <4>1
    <3> QED  BY <3>1, <3>2
  <2> QED  BY <2>1, <2>2
<1>3. ASSUME NEW u \in Seq(B), NEW e \in B, u \in P PROVE Append(u, e) \in P
  <2>1. s \o Append(u, e) = Append(s \o u, e)  BY ConcatAppend
  <2>2. s \o u \in Seq(B)  BY ConcatProperties
  <2>3. Number(Append(s \o u, e), v) = Number(s \o u, v) + IF e = v THEN 1 ELSE 0
    BY <1>1, <2>2
  <2>4. Number(Append(u, e), v) = Number(u, v) + IF e = v THEN 1 ELSE 0  BY <1>1
  <2>5. Number(s, v) \in Nat /\ Number(u, v) \in Nat /\ Append(u, e) \in Seq(B)
    BY <1>1, AppendProperties
  <2>6. Number(s \o u, v) = Number(s, v) + Number(u, v)  BY <1>3
  <2>7. Number(s \o Append(u, e), v) = Number(s, v) + Number(Append(u, e), v)
    BY <2>1, <2>3, <2>4, <2>5, <2>6
  <2> QED  BY <2>5, <2>7
<1> HIDE DEF P
<1>4. t \in P  BY <1>2, <1>3, SequenceInduction
<1> QED  BY <1>4 DEF P

(* A sequence of one value only. *)
Times(w, n) == [i \in 1..n |-> w]

LEMMA NumberOfAll ==
  ASSUME NEW n \in Nat, NEW w, NEW v
  PROVE  Number(Times(w, n), v) = IF w = v THEN n ELSE 0
<1> DEFINE s == Times(w, n)
<1>0. DOMAIN s = 1..n /\ \A i \in 1..n : s[i] = w  BY DEF Times
<1> HIDE DEF s
<1>1. CASE w = v
  <2>1. {i \in DOMAIN s : s[i] = v} = 1..n  BY <1>0, <1>1
  <2>2. Cardinality(1..n) = n  BY FS_Interval
  <2> QED  BY <1>1, <2>1, <2>2 DEF Number, s
<1>2. CASE w # v
  <2>1. {i \in DOMAIN s : s[i] = v} = {}  BY <1>0, <1>2
  <2> QED  BY <1>2, <2>1, FS_EmptySet DEF Number, s
<1> QED  BY <1>1, <1>2 DEF s

-----------------------------------------------------------------------------
(* A function over a sequence. *)
Mapped(f, seq) == [i \in DOMAIN seq |-> f[seq[i]]]

LEMMA MappedAppend ==
  ASSUME NEW B, NEW C, NEW f \in [B -> C], NEW seq \in Seq(B), NEW e \in B
  PROVE  /\ Mapped(f, seq) \in Seq(C) /\ Len(Mapped(f, seq)) = Len(seq)
         /\ Mapped(f, Append(seq, e)) = Append(Mapped(f, seq), f[e])
<1> DEFINE t == Append(seq, e)
           n == Len(seq)
           old == Mapped(f, seq)
           new == Mapped(f, t)
           y == f[e]
<1>1. /\ t \in Seq(B) /\ Len(t) = n + 1 /\ t[n + 1] = e /\ n \in Nat
      /\ \A i \in 1..n : t[i] = seq[i]
  BY AppendProperties
<1>2. DOMAIN t = 1..(n + 1) /\ DOMAIN seq = 1..n /\ y \in C  BY <1>1
<1> HIDE DEF t
<1>3. old = [i \in 1..n |-> f[seq[i]]] /\ new = [i \in 1..(n + 1) |-> f[t[i]]]
  BY <1>2 DEF Mapped
<1>4. \A i \in 1..n : f[seq[i]] \in C /\ seq[i] \in B  OBVIOUS
<1> HIDE DEF old, new, n
<1>5. old \in [1..n -> C]  BY <1>3, <1>4
<1>6. old \in Seq(C) /\ Len(old) = n  BY <1>1, <1>5
<1>7. \A i \in 1..(n + 1) : new[i] = IF i <= n THEN old[i] ELSE y
  <2>1. ASSUME NEW i \in 1..(n + 1) PROVE new[i] = IF i <= n THEN old[i] ELSE y
    <3>1. CASE i <= n
      <4>1. i \in 1..n  BY <1>1, <3>1
      <4> QED  BY <1>1, <1>3, <3>1, <4>1
    <3>2. CASE ~(i <= n)
      <4>1. i = n + 1  BY <1>1, <3>2
      <4> QED  BY <1>1, <1>3, <3>2, <4>1
    <3> QED  BY <3>1, <3>2
  <2> QED  BY <2>1
<1> HIDE DEF y
<1>8. new \in Seq(C) /\ Len(new) = n + 1
  <2>1. \A i \in 1..(n + 1) : new[i] \in C
    <3>1. ASSUME NEW i \in 1..(n + 1) PROVE new[i] \in C
      <4>1. CASE i <= n
        <5>1. i \in 1..n  BY <1>1, <4>1
        <5> QED  BY <1>5, <1>7, <4>1, <5>1
      <4>2. CASE ~(i <= n)  BY <1>2, <1>7, <4>2
      <4> QED  BY <4>1, <4>2
    <3> QED  BY <3>1
  <2>2. new = [i \in 1..(n + 1) |-> new[i]]  BY <1>3
  <2>3. new \in [1..(n + 1) -> C] /\ n + 1 \in Nat  BY <1>1, <2>1, <2>2
  <2> QED  BY <2>3
<1>9. /\ Append(old, y) \in Seq(C) /\ Len(Append(old, y)) = n + 1
      /\ Append(old, y)[n + 1] = y /\ \A i \in 1..n : Append(old, y)[i] = old[i]
  BY <1>2, <1>6, AppendProperties
<1>10. \A i \in 1..(n + 1) : new[i] = Append(old, y)[i]
  <2>1. ASSUME NEW i \in 1..(n + 1) PROVE new[i] = Append(old, y)[i]
    <3>1. CASE i <= n
      <4>1. i \in 1..n  BY <1>1, <3>1
      <4> QED  BY <1>7, <1>9, <3>1, <4>1
    <3>2. CASE ~(i <= n)
      <4>1. i = n + 1  BY <1>1, <3>2
      <4> QED  BY <1>7, <1>9, <3>2, <4>1
    <3> QED  BY <3>1, <3>2
  <2> QED  BY <2>1
<1>11. new = Append(old, y)  BY <1>8, <1>9, <1>10, SeqEqual
<1> QED  BY <1>6, <1>11 DEF old, new, t, n, y

LEMMA MappedMore ==
  \A B, C : \A f \in [B -> C], seq \in Seq(B), e \in B :
    Mapped(f, Append(seq, e)) = Append(Mapped(f, seq), f[e])
<1> SUFFICES ASSUME NEW B, NEW C, NEW f \in [B -> C], NEW seq \in Seq(B), NEW e \in B
             PROVE  Mapped(f, Append(seq, e)) = Append(Mapped(f, seq), f[e])
  OBVIOUS
<1>1. /\ Mapped(f, seq) \in Seq(C) /\ Len(Mapped(f, seq)) = Len(seq)
      /\ Mapped(f, Append(seq, e)) = Append(Mapped(f, seq), f[e])
  BY MappedAppend
<1> QED  BY <1>1

LEMMA MappedType == \A B, C : \A f \in [B -> C], seq \in Seq(B) : Mapped(f, seq) \in Seq(C)
<1> SUFFICES ASSUME NEW B, NEW C, NEW f \in [B -> C], NEW seq \in Seq(B)
             PROVE  Mapped(f, seq) \in Seq(C)
  OBVIOUS
<1>1. DOMAIN seq = 1..Len(seq) /\ Len(seq) \in Nat /\ \A i \in 1..Len(seq) : f[seq[i]] \in C
  OBVIOUS
<1>2. Mapped(f, seq) \in [1..Len(seq) -> C]  BY <1>1 DEF Mapped
<1> QED  BY <1>1, <1>2

=============================================================================
