-------------------------- MODULE TranscriptProofs --------------------------
(***************************************************************************)
(* Theorems about Transcript, for every recording, whatever is said in it  *)
(* and heard of it, every diarization and every configuration: where       *)
(* segments are cut and why, which are too long, who speaks in them, that  *)
(* a segment in which two people talk at once is rejected, and, if what    *)
(* was heard tells the words apart and in order, that every word heard is  *)
(* there once.                                                             *)
(*                                                                         *)
(* The argument follows rechunk_video: the merged words are words that     *)
(* super-chunks heard; sentences, packed segments and the segments that    *)
(* _enforce_min_duration leaves are each the merged words, cut at fewer    *)
(* and fewer places.  Every loop is followed by the partial results of its *)
(* fold (FoldProofs), with what holds of the words up to there.  For the   *)
(* words themselves the loop of merge_superchunk_words is followed once    *)
(* more, with the numbers of the words, which the program does not know.   *)
(***************************************************************************)
EXTENDS Transcript, VadProofs, FunctionTheorems

-----------------------------------------------------------------------------
(* Orders: the places of a sequence, picked in order. *)

\* before[i] are the members of D that come before i in a total order.
Ordering(D, before) ==
    /\ before \in [D -> SUBSET D]
    /\ \A i \in D : i \notin before[i]
    /\ \A i, j \in D : j \in before[i] => before[j] \subseteq before[i]
    /\ \A i, j \in D : i = j \/ i \in before[j] \/ j \in before[i]

\* Whoever has more before it comes later, and every place is taken.
Ranked(D, before) ==
    /\ Cardinality(D) \in Nat
    /\ \A i \in D : Cardinality(before[i]) \in 0..(Cardinality(D) - 1)
    /\ \A i, j \in D : j \in before[i] => Cardinality(before[j]) < Cardinality(before[i])
    /\ \A i, j \in D : Cardinality(before[i]) = Cardinality(before[j]) => i = j
    /\ \A k \in 1..Cardinality(D) : \E i \in D : Cardinality(before[i]) = k - 1

\* In a total order on a finite set everybody has a place of its own, and every
\* place from 1 to the number of elements is taken.
LEMMA Ranks ==
  ASSUME NEW D, IsFiniteSet(D), NEW before, Ordering(D, before)
  PROVE  Ranked(D, before)
<1> DEFINE n == Cardinality(D)
           rank == [i \in D |-> Cardinality(before[i])]
<1>1. n \in Nat
  BY FS_CardinalityType
<1>2. \A i \in D : before[i] \in SUBSET D /\ i \notin before[i]
  BY DEF Ordering
<1>3. ASSUME NEW i \in D
      PROVE  /\ IsFiniteSet(before[i]) /\ Cardinality(before[i]) \in Nat
             /\ Cardinality(before[i]) \in 0..(n - 1)
  <2>1. before[i] \in SUBSET D /\ i \notin before[i]
    BY <1>2
  <2>2. IsFiniteSet(before[i]) /\ Cardinality(before[i]) <= n
        /\ (n = Cardinality(before[i]) => D = before[i])
    BY <2>1, FS_Subset
  <2>3. Cardinality(before[i]) \in Nat
    BY <2>2, FS_CardinalityType
  <2>4. n # Cardinality(before[i])
    BY <2>1, <2>2
  <2> QED
    BY <1>1, <2>2, <2>3, <2>4
<1>4. ASSUME NEW i \in D, NEW j \in D, j \in before[i]
      PROVE  Cardinality(before[j]) < Cardinality(before[i])
  <2>1. before[j] \in SUBSET before[i] /\ j \notin before[j]
    BY <1>2, <1>4 DEF Ordering
  <2>2. /\ Cardinality(before[j]) <= Cardinality(before[i])
        /\ Cardinality(before[i]) = Cardinality(before[j]) => before[i] = before[j]
    BY <1>3, <2>1, FS_Subset
  <2>3. Cardinality(before[j]) # Cardinality(before[i])
    BY <1>4, <2>1, <2>2
  <2> QED
    BY <1>3, <2>2, <2>3
<1>5. ASSUME NEW i \in D, NEW j \in D, Cardinality(before[i]) = Cardinality(before[j])
      PROVE  i = j
  <2>1. i = j \/ i \in before[j] \/ j \in before[i]
    BY DEF Ordering
  <2>2. i \notin before[j]
    <3>1. i \in before[j] => Cardinality(before[i]) < Cardinality(before[j])
      BY <1>4
    <3> QED
      BY <1>3, <1>5, <3>1
  <2>3. j \notin before[i]
    <3>1. j \in before[i] => Cardinality(before[j]) < Cardinality(before[i])
      BY <1>4
    <3> QED
      BY <1>3, <1>5, <3>1
  <2> QED
    BY <2>1, <2>2, <2>3
<1>6. rank \in Injection(D, 0..(n - 1))
  <2>1. rank \in [D -> 0..(n - 1)]
    BY <1>3
  <2>2. DOMAIN rank = D /\ \A i, j \in D : rank[i] = rank[j] => i = j
    BY <1>5
  <2> HIDE DEF rank
  <2> QED
    BY <2>1, <2>2 DEF Injection, IsInjective
<1>7. IsFiniteSet(0..(n - 1)) /\ Cardinality(0..(n - 1)) = n
  <2>1. 0 \in Int /\ n - 1 \in Int
    BY <1>1
  <2>2. IsFiniteSet(0..(n - 1))
        /\ Cardinality(0..(n - 1)) = IF 0 > n - 1 THEN 0 ELSE (n - 1) - 0 + 1
    BY <2>1, FS_Interval
  <2>3. (IF 0 > n - 1 THEN 0 ELSE (n - 1) - 0 + 1) = n
    BY <1>1
  <2> QED
    BY <2>2, <2>3
<1>8. rank \in Surjection(D, 0..(n - 1))
  <2> HIDE DEF rank
  <2> QED
    BY <1>6, <1>7, FS_Injection
<1>9. ASSUME NEW k \in 1..n PROVE \E i \in D : Cardinality(before[i]) = k - 1
  <2>1. k - 1 \in 0..(n - 1)
    BY <1>1
  <2>2. \A t \in 0..(n - 1) : \E i \in D : rank[i] = t
    <3> HIDE DEF rank
    <3> QED
      BY <1>8 DEF Surjection
  <2>3. PICK i \in D : rank[i] = k - 1
    BY <2>1, <2>2
  <2> QED
    BY <2>3
<1> HIDE DEF rank
<1> QED
  BY <1>1, <1>3, <1>4, <1>5, <1>9 DEF Ranked

\* InOrder lists the numbers of a finite set, each once, and increasing.
LEMMA InOrderFacts ==
  ASSUME NEW S \in SUBSET Int, IsFiniteSet(S)
  PROVE  /\ Cardinality(S) \in Nat
         /\ InOrder(S) \in Seq(S) /\ Len(InOrder(S)) = Cardinality(S)
         /\ \A k \in 1..Cardinality(S) : InOrder(S)[k] \in S
         /\ \A j, k \in 1..Cardinality(S) : j < k => InOrder(S)[j] < InOrder(S)[k]
         /\ \A x \in S : \E k \in 1..Cardinality(S) : InOrder(S)[k] = x
<1> DEFINE n == Cardinality(S)
           before == [x \in S |-> {y \in S : y < x}]
           at(k) == CHOOSE x \in S : Cardinality({y \in S : y < x}) = k - 1
<1>1. Ordering(S, before)
  <2>1. \A i \in S : before[i] = {y \in S : y < i} /\ i \in Int
    OBVIOUS
  <2>2. before \in [S -> SUBSET S]
    OBVIOUS
  <2> HIDE DEF before
  <2>3. ASSUME NEW i \in S PROVE i \notin before[i]
    <3>1. before[i] = {y \in S : y < i} /\ ~ (i < i)
      BY <2>1
    <3> QED
      BY <3>1
  <2>4. ASSUME NEW i \in S, NEW j \in S, j \in before[i]
        PROVE  before[j] \subseteq before[i]
    <3>1. i \in Int /\ j \in Int /\ j < i
      BY <2>1, <2>4
    <3>2. \A y \in S : y \in Int /\ (y < j => y < i)
      BY <3>1
    <3> QED
      BY <2>1, <3>2
  <2>5. \A i, j \in S : i = j \/ i \in before[j] \/ j \in before[i]
    BY <2>1
  <2> QED
    BY <2>2, <2>3, <2>4, <2>5 DEF Ordering
<1>2. /\ n \in Nat
      /\ \A i \in S : Cardinality(before[i]) \in 0..(n - 1)
      /\ \A i, j \in S : j \in before[i] => Cardinality(before[j]) < Cardinality(before[i])
      /\ \A i, j \in S : Cardinality(before[i]) = Cardinality(before[j]) => i = j
      /\ \A k \in 1..n : \E i \in S : Cardinality(before[i]) = k - 1
  <2> HIDE DEF before, n
  <2>1. Ranked(S, before)
    BY <1>1, Ranks
  <2> QED
    BY <2>1 DEF n, Ranked
<1>3. ASSUME NEW k \in 1..n
      PROVE  at(k) \in S /\ Cardinality(before[at(k)]) = k - 1
  <2>1. \E x \in S : Cardinality({y \in S : y < x}) = k - 1
    <3>1. PICK x \in S : Cardinality(before[x]) = k - 1
      BY <1>2
    <3>2. before[x] = {y \in S : y < x}
      OBVIOUS
    <3> QED
      BY <3>1, <3>2
  <2>2. at(k) \in S /\ Cardinality({y \in S : y < at(k)}) = k - 1
    BY <2>1
  <2> HIDE DEF at
  <2>3. before[at(k)] = {y \in S : y < at(k)}
    BY <2>2
  <2> QED
    BY <2>2, <2>3
<1>4. InOrder(S) = [k \in 1..n |-> at(k)]
  BY DEF InOrder
<1> HIDE DEF at
<1>5. \A k \in 1..n : InOrder(S)[k] \in S /\ Cardinality(before[InOrder(S)[k]]) = k - 1
  <2> HIDE DEF n
  <2> QED
    BY <1>3, <1>4
<1>6. InOrder(S) \in Seq(S) /\ Len(InOrder(S)) = n
  <2>1. InOrder(S) \in [1..n -> S]
    <3> HIDE DEF n
    <3> QED
      BY <1>3, <1>4
  <2> HIDE DEF n
  <2> QED
    BY <1>2, <2>1
<1>7. ASSUME NEW j \in 1..n, NEW k \in 1..n, j < k
      PROVE  InOrder(S)[j] < InOrder(S)[k]
  <2> DEFINE x == InOrder(S)[j]
             y == InOrder(S)[k]
  <2>1. x \in S /\ y \in S /\ Cardinality(before[x]) = j - 1 /\ Cardinality(before[y]) = k - 1
    BY <1>5
  <2> HIDE DEF x, y
  <2>2. j - 1 < k - 1 /\ ~ (k - 1 < j - 1) /\ j - 1 # k - 1
    BY <1>2, <1>7
  <2>3. x # y
    BY <2>1, <2>2
  <2>4. y \notin before[x]
    <3> HIDE DEF before
    <3> QED
      BY <1>2, <2>1, <2>2
  <2>5. ~ (y < x)
    BY <2>1, <2>4
  <2>6. x < y
    BY <2>1, <2>3, <2>5
  <2> QED
    BY <2>6 DEF x, y
<1>8. ASSUME NEW x \in S PROVE \E k \in 1..n : InOrder(S)[k] = x
  <2> DEFINE k == Cardinality(before[x]) + 1
  <2>1. k \in 1..n /\ k - 1 = Cardinality(before[x])
    <3>1. Cardinality(before[x]) \in 0..(n - 1)
      BY <1>2
    <3> HIDE DEF before
    <3> QED
      BY <1>2, <3>1
  <2> HIDE DEF k, before
  <2>2. InOrder(S)[k] = x
    BY <1>2, <1>5, <2>1
  <2> QED
    BY <2>1, <2>2
<1> QED
  BY <1>2, <1>5, <1>6, <1>7, <1>8

\* What is picked out of a sequence is what is at the places.
LEMMA AtFacts ==
  ASSUME NEW S, NEW s \in Seq(S), NEW places \in SUBSET DOMAIN s
  PROVE  /\ At(s, places) \in Seq(S)
         /\ \A k \in 1..Len(At(s, places)) : \E i \in places : At(s, places)[k] = s[i]
<1>1. Len(s) \in Nat /\ DOMAIN s = 1..Len(s) /\ \A i \in DOMAIN s : s[i] \in S
  OBVIOUS
<1>2. IsFiniteSet(places) /\ places \in SUBSET Int
  <2>1. IsFiniteSet(1..Len(s))
    BY <1>1, FS_Interval
  <2> QED
    BY <1>1, <2>1, FS_Subset
<1> DEFINE n == Cardinality(places)
<1>3. n \in Nat /\ \A k \in 1..n : InOrder(places)[k] \in places
  BY <1>2, InOrderFacts
<1>4. At(s, places) = [k \in 1..n |-> s[InOrder(places)[k]]]
  BY DEF At
<1> HIDE DEF n
<1>5. At(s, places) \in [1..n -> S]
  BY <1>1, <1>3, <1>4
<1>6. At(s, places) \in Seq(S) /\ Len(At(s, places)) = n
  BY <1>3, <1>5
<1> QED
  BY <1>3, <1>4, <1>6

-----------------------------------------------------------------------------
(* The loops of rechunk.py, by the partial results of their folds. *)

\* FoldLeft, as the library's nested definitions unfold.
LEMMA MatchesIsFold ==
  ASSUME NEW trailing, NEW leading
  PROVE  Matches(trailing, leading) = (CHOOSE iter : iter = [s \in SUBSET DOMAIN trailing |->
            IF s = {} THEN <<>> ELSE Match(iter[s \ {Max(s)}], trailing[Max(s)], leading)])[DOMAIN trailing]
  BY DEF Matches, FoldLeft, MapThenFoldSet

\* V has all that the loop may make, and part[k] is what it has made at k.
MatchesStays(V, n, trailing, leading) ==
    /\ <<>> \in V
    /\ \A v \in V, k \in 1..n : Match(v, trailing[k], leading) \in V

MatchesParts(part, V, n, trailing, leading) ==
    /\ part \in [0..n -> V]
    /\ part[0] = <<>>
    /\ \A k \in 1..n : part[k] = Match(part[k - 1], trailing[k], leading)
    /\ part[n] = Matches(trailing, leading)

\* The partial results of the loop over the trailing words.
LEMMA MatchesPrefixes ==
  ASSUME NEW n \in Nat, NEW trailing, NEW leading, DOMAIN trailing = 1..n, NEW V, MatchesStays(V, n, trailing, leading)
  PROVE  \E part : MatchesParts(part, V, n, trailing, leading)
<1> DEFINE base == <<>>
           step == [k \in 1..n |-> [v \in V |-> Match(v, trailing[k], leading)]]
           Equation(g) == g = [s \in SUBSET DOMAIN trailing |->
                IF s = {} THEN <<>> ELSE Match(g[s \ {Max(s)}], trailing[Max(s)], leading)]
           iter == CHOOSE g : Equation(g)
<1>1. n \in Nat /\ base \in V
  BY DEF MatchesStays
<1>2. \A k \in 1..n, v \in V : step[k][v] = Match(v, trailing[k], leading) /\ step[k][v] \in V
  BY DEF MatchesStays
<1>3. \A s \in SUBSET (1..n) : s # {} => Max(s) \in 1..n /\ s \ {Max(s)} \in SUBSET (1..n)
  BY <1>1, MaxIsGreatest
<1>4. StepsIn(step, n, V)
  <2> HIDE DEF step
  <2> QED
    BY <1>2 DEF StepsIn
<1>5. PICK h \in [SUBSET (1..n) -> V] : FoldsBy(h, n, V, base, step)
  <2> HIDE DEF step, base
  <2> QED
    BY <1>1, <1>4, FoldExists
<1>6. Equation(h)
  <2>1. h[{}] = base /\ \A s \in SUBSET (1..n) :
            s # {} /\ h[s \ {Max(s)}] \in V => h[s] = step[Max(s)][h[s \ {Max(s)}]]
    <3> HIDE DEF step, base
    <3> QED
      BY <1>5 DEF FoldsBy
  <2>2. ASSUME NEW s \in SUBSET (1..n)
        PROVE  h[s] = IF s = {} THEN <<>> ELSE Match(h[s \ {Max(s)}], trailing[Max(s)], leading)
    <3>1. CASE s = {}
      BY <2>1, <3>1
    <3>2. CASE s # {}
      <4>1. Max(s) \in 1..n /\ s \ {Max(s)} \in SUBSET (1..n)
        BY <1>3, <3>2
      <4>2. h[s \ {Max(s)}] \in V
        BY <1>5, <4>1
      <4>3. h[s] = step[Max(s)][h[s \ {Max(s)}]]
        BY <2>1, <3>2, <4>2
      <4>4. step[Max(s)][h[s \ {Max(s)}]] = Match(h[s \ {Max(s)}], trailing[Max(s)], leading)
        <5> HIDE DEF step
        <5> QED
          BY <1>2, <4>1, <4>2
      <4> QED
        BY <3>2, <4>3, <4>4
    <3> QED
      BY <3>1, <3>2
  <2> QED
    BY <1>5, <2>2
<1>7. Equation(iter)
  <2> HIDE DEF Equation
  <2> QED
    BY <1>6
<1>8. iter = [s \in SUBSET (1..n) |->
                IF s = {} THEN <<>> ELSE Match(iter[s \ {Max(s)}], trailing[Max(s)], leading)]
  <2> HIDE DEF iter
  <2> QED
    BY <1>7
<1>9. iter[1..n] = Matches(trailing, leading)
  BY MatchesIsFold
<1> HIDE DEF Equation, iter
<1>10. FoldsBy(iter, n, V, base, step)
  <2>1. iter[{}] = base
    BY <1>8
  <2>2. ASSUME NEW s \in SUBSET (1..n), s # {}, iter[s \ {Max(s)}] \in V
        PROVE  iter[s] = step[Max(s)][iter[s \ {Max(s)}]]
    <3>1. iter[s] = Match(iter[s \ {Max(s)}], trailing[Max(s)], leading)
      BY <1>8, <2>2
    <3>2. Max(s) \in 1..n
      BY <1>3, <2>2
    <3> HIDE DEF step
    <3> QED
      BY <1>2, <2>2, <3>1, <3>2
  <2> HIDE DEF step, base
  <2> QED
    BY <2>1, <2>2 DEF FoldsBy
<1>11. ComesOf(iter[1..n], n, V, base, step)
  <2> HIDE DEF step, base
  <2> QED
    BY <1>1, <1>4, <1>10, FoldPrefixes
<1>12. PICK part \in [0..n -> V] :
          /\ part[0] = base
          /\ \A k \in 1..n : part[k] = step[k][part[k - 1]]
          /\ part[n] = iter[1..n]
  <2> HIDE DEF step, base
  <2> QED
    BY <1>11 DEF ComesOf
<1>13. \A k \in 1..n : part[k] = Match(part[k - 1], trailing[k], leading)
  <2>1. \A k \in 1..n : k - 1 \in 0..n
    BY <1>1
  <2> HIDE DEF step
  <2> QED
    BY <1>2, <1>12, <2>1
<1>14. part[n] = Matches(trailing, leading)
  <2> HIDE DEF step, base
  <2> QED
    BY <1>9, <1>12
<1>15. part[0] = <<>>
  BY <1>12
<1> HIDE DEF step, base
<1>16. MatchesParts(part, V, n, trailing, leading)
  BY <1>12, <1>13, <1>14, <1>15 DEF MatchesParts
<1> QED
  BY <1>16

\* FoldLeft, unfolded.
LEMMA MergeWordsIsFold ==
  ASSUME NEW chunks
  PROVE  MergeSuperchunkWords(chunks) = (CHOOSE iter : iter = [s \in SUBSET DOMAIN chunks |->
            IF s = {} THEN <<>> ELSE MergeWith(iter[s \ {Max(s)}], [j \in DOMAIN chunks |-> j][Max(s)], chunks)])[DOMAIN chunks]
  BY DEF MergeSuperchunkWords, FoldLeft, MapThenFoldSet

\* V has all that the loop may make, and part[k] is what it has made at k.
MergeWordsStays(V, n, chunks) ==
    /\ <<>> \in V
    /\ \A v \in V, k \in 1..n : MergeWith(v, [j \in DOMAIN chunks |-> j][k], chunks) \in V

MergeWordsParts(part, V, n, chunks) ==
    /\ part \in [0..n -> V]
    /\ part[0] = <<>>
    /\ \A k \in 1..n : part[k] = MergeWith(part[k - 1], [j \in DOMAIN chunks |-> j][k], chunks)
    /\ part[n] = MergeSuperchunkWords(chunks)

\* The partial results of the loop over the super-chunks.
LEMMA MergeWordsPrefixes ==
  ASSUME NEW n \in Nat, NEW chunks, DOMAIN chunks = 1..n, NEW V, MergeWordsStays(V, n, chunks)
  PROVE  \E part : MergeWordsParts(part, V, n, chunks)
<1> DEFINE base == <<>>
           step == [k \in 1..n |-> [v \in V |-> MergeWith(v, [j \in DOMAIN chunks |-> j][k], chunks)]]
           Equation(g) == g = [s \in SUBSET DOMAIN chunks |->
                IF s = {} THEN <<>> ELSE MergeWith(g[s \ {Max(s)}], [j \in DOMAIN chunks |-> j][Max(s)], chunks)]
           iter == CHOOSE g : Equation(g)
<1>1. n \in Nat /\ base \in V
  BY DEF MergeWordsStays
<1>2. \A k \in 1..n, v \in V : step[k][v] = MergeWith(v, [j \in DOMAIN chunks |-> j][k], chunks) /\ step[k][v] \in V
  BY DEF MergeWordsStays
<1>3. \A s \in SUBSET (1..n) : s # {} => Max(s) \in 1..n /\ s \ {Max(s)} \in SUBSET (1..n)
  BY <1>1, MaxIsGreatest
<1>4. StepsIn(step, n, V)
  <2> HIDE DEF step
  <2> QED
    BY <1>2 DEF StepsIn
<1>5. PICK h \in [SUBSET (1..n) -> V] : FoldsBy(h, n, V, base, step)
  <2> HIDE DEF step, base
  <2> QED
    BY <1>1, <1>4, FoldExists
<1>6. Equation(h)
  <2>1. h[{}] = base /\ \A s \in SUBSET (1..n) :
            s # {} /\ h[s \ {Max(s)}] \in V => h[s] = step[Max(s)][h[s \ {Max(s)}]]
    <3> HIDE DEF step, base
    <3> QED
      BY <1>5 DEF FoldsBy
  <2>2. ASSUME NEW s \in SUBSET (1..n)
        PROVE  h[s] = IF s = {} THEN <<>> ELSE MergeWith(h[s \ {Max(s)}], [j \in DOMAIN chunks |-> j][Max(s)], chunks)
    <3>1. CASE s = {}
      BY <2>1, <3>1
    <3>2. CASE s # {}
      <4>1. Max(s) \in 1..n /\ s \ {Max(s)} \in SUBSET (1..n)
        BY <1>3, <3>2
      <4>2. h[s \ {Max(s)}] \in V
        BY <1>5, <4>1
      <4>3. h[s] = step[Max(s)][h[s \ {Max(s)}]]
        BY <2>1, <3>2, <4>2
      <4>4. step[Max(s)][h[s \ {Max(s)}]] = MergeWith(h[s \ {Max(s)}], [j \in DOMAIN chunks |-> j][Max(s)], chunks)
        <5> HIDE DEF step
        <5> QED
          BY <1>2, <4>1, <4>2
      <4> QED
        BY <3>2, <4>3, <4>4
    <3> QED
      BY <3>1, <3>2
  <2> QED
    BY <1>5, <2>2
<1>7. Equation(iter)
  <2> HIDE DEF Equation
  <2> QED
    BY <1>6
<1>8. iter = [s \in SUBSET (1..n) |->
                IF s = {} THEN <<>> ELSE MergeWith(iter[s \ {Max(s)}], [j \in DOMAIN chunks |-> j][Max(s)], chunks)]
  <2> HIDE DEF iter
  <2> QED
    BY <1>7
<1>9. iter[1..n] = MergeSuperchunkWords(chunks)
  BY MergeWordsIsFold
<1> HIDE DEF Equation, iter
<1>10. FoldsBy(iter, n, V, base, step)
  <2>1. iter[{}] = base
    BY <1>8
  <2>2. ASSUME NEW s \in SUBSET (1..n), s # {}, iter[s \ {Max(s)}] \in V
        PROVE  iter[s] = step[Max(s)][iter[s \ {Max(s)}]]
    <3>1. iter[s] = MergeWith(iter[s \ {Max(s)}], [j \in DOMAIN chunks |-> j][Max(s)], chunks)
      BY <1>8, <2>2
    <3>2. Max(s) \in 1..n
      BY <1>3, <2>2
    <3> HIDE DEF step
    <3> QED
      BY <1>2, <2>2, <3>1, <3>2
  <2> HIDE DEF step, base
  <2> QED
    BY <2>1, <2>2 DEF FoldsBy
<1>11. ComesOf(iter[1..n], n, V, base, step)
  <2> HIDE DEF step, base
  <2> QED
    BY <1>1, <1>4, <1>10, FoldPrefixes
<1>12. PICK part \in [0..n -> V] :
          /\ part[0] = base
          /\ \A k \in 1..n : part[k] = step[k][part[k - 1]]
          /\ part[n] = iter[1..n]
  <2> HIDE DEF step, base
  <2> QED
    BY <1>11 DEF ComesOf
<1>13. \A k \in 1..n : part[k] = MergeWith(part[k - 1], [j \in DOMAIN chunks |-> j][k], chunks)
  <2>1. \A k \in 1..n : k - 1 \in 0..n
    BY <1>1
  <2> HIDE DEF step
  <2> QED
    BY <1>2, <1>12, <2>1
<1>14. part[n] = MergeSuperchunkWords(chunks)
  <2> HIDE DEF step, base
  <2> QED
    BY <1>9, <1>12
<1>15. part[0] = <<>>
  BY <1>12
<1> HIDE DEF step, base
<1>16. MergeWordsParts(part, V, n, chunks)
  BY <1>12, <1>13, <1>14, <1>15 DEF MergeWordsParts
<1> QED
  BY <1>16

\* FoldLeft, unfolded.
LEMMA PackIsFold ==
  ASSUME NEW sentences, NEW cfg
  PROVE  PackSentences(sentences, cfg) = (CHOOSE iter : iter = [s \in SUBSET DOMAIN sentences |->
            IF s = {} THEN [packed |-> <<>>, speaker |-> NoSpeaker] ELSE PackSentence(iter[s \ {Max(s)}], sentences[Max(s)], cfg)])[DOMAIN sentences].packed
  BY DEF PackSentences, FoldLeft, MapThenFoldSet

\* V has all that the loop may make, and part[k] is what it has made at k.
PackStays(V, n, sentences, cfg) ==
    /\ [packed |-> <<>>, speaker |-> NoSpeaker] \in V
    /\ \A v \in V, k \in 1..n : PackSentence(v, sentences[k], cfg) \in V

PackParts(part, V, n, sentences, cfg) ==
    /\ part \in [0..n -> V]
    /\ part[0] = [packed |-> <<>>, speaker |-> NoSpeaker]
    /\ \A k \in 1..n : part[k] = PackSentence(part[k - 1], sentences[k], cfg)
    /\ part[n].packed = PackSentences(sentences, cfg)

\* The partial results of the loop over the sentences.
LEMMA PackPrefixes ==
  ASSUME NEW n \in Nat, NEW sentences, NEW cfg, DOMAIN sentences = 1..n, NEW V, PackStays(V, n, sentences, cfg)
  PROVE  \E part : PackParts(part, V, n, sentences, cfg)
<1> DEFINE base == [packed |-> <<>>, speaker |-> NoSpeaker]
           step == [k \in 1..n |-> [v \in V |-> PackSentence(v, sentences[k], cfg)]]
           Equation(g) == g = [s \in SUBSET DOMAIN sentences |->
                IF s = {} THEN [packed |-> <<>>, speaker |-> NoSpeaker] ELSE PackSentence(g[s \ {Max(s)}], sentences[Max(s)], cfg)]
           iter == CHOOSE g : Equation(g)
<1>1. n \in Nat /\ base \in V
  BY DEF PackStays
<1>2. \A k \in 1..n, v \in V : step[k][v] = PackSentence(v, sentences[k], cfg) /\ step[k][v] \in V
  BY DEF PackStays
<1>3. \A s \in SUBSET (1..n) : s # {} => Max(s) \in 1..n /\ s \ {Max(s)} \in SUBSET (1..n)
  BY <1>1, MaxIsGreatest
<1>4. StepsIn(step, n, V)
  <2> HIDE DEF step
  <2> QED
    BY <1>2 DEF StepsIn
<1>5. PICK h \in [SUBSET (1..n) -> V] : FoldsBy(h, n, V, base, step)
  <2> HIDE DEF step, base
  <2> QED
    BY <1>1, <1>4, FoldExists
<1>6. Equation(h)
  <2>1. h[{}] = base /\ \A s \in SUBSET (1..n) :
            s # {} /\ h[s \ {Max(s)}] \in V => h[s] = step[Max(s)][h[s \ {Max(s)}]]
    <3> HIDE DEF step, base
    <3> QED
      BY <1>5 DEF FoldsBy
  <2>2. ASSUME NEW s \in SUBSET (1..n)
        PROVE  h[s] = IF s = {} THEN [packed |-> <<>>, speaker |-> NoSpeaker] ELSE PackSentence(h[s \ {Max(s)}], sentences[Max(s)], cfg)
    <3>1. CASE s = {}
      BY <2>1, <3>1
    <3>2. CASE s # {}
      <4>1. Max(s) \in 1..n /\ s \ {Max(s)} \in SUBSET (1..n)
        BY <1>3, <3>2
      <4>2. h[s \ {Max(s)}] \in V
        BY <1>5, <4>1
      <4>3. h[s] = step[Max(s)][h[s \ {Max(s)}]]
        BY <2>1, <3>2, <4>2
      <4>4. step[Max(s)][h[s \ {Max(s)}]] = PackSentence(h[s \ {Max(s)}], sentences[Max(s)], cfg)
        <5> HIDE DEF step
        <5> QED
          BY <1>2, <4>1, <4>2
      <4> QED
        BY <3>2, <4>3, <4>4
    <3> QED
      BY <3>1, <3>2
  <2> QED
    BY <1>5, <2>2
<1>7. Equation(iter)
  <2> HIDE DEF Equation
  <2> QED
    BY <1>6
<1>8. iter = [s \in SUBSET (1..n) |->
                IF s = {} THEN [packed |-> <<>>, speaker |-> NoSpeaker] ELSE PackSentence(iter[s \ {Max(s)}], sentences[Max(s)], cfg)]
  <2> HIDE DEF iter
  <2> QED
    BY <1>7
<1>9. iter[1..n].packed = PackSentences(sentences, cfg)
  BY PackIsFold
<1> HIDE DEF Equation, iter
<1>10. FoldsBy(iter, n, V, base, step)
  <2>1. iter[{}] = base
    BY <1>8
  <2>2. ASSUME NEW s \in SUBSET (1..n), s # {}, iter[s \ {Max(s)}] \in V
        PROVE  iter[s] = step[Max(s)][iter[s \ {Max(s)}]]
    <3>1. iter[s] = PackSentence(iter[s \ {Max(s)}], sentences[Max(s)], cfg)
      BY <1>8, <2>2
    <3>2. Max(s) \in 1..n
      BY <1>3, <2>2
    <3> HIDE DEF step
    <3> QED
      BY <1>2, <2>2, <3>1, <3>2
  <2> HIDE DEF step, base
  <2> QED
    BY <2>1, <2>2 DEF FoldsBy
<1>11. ComesOf(iter[1..n], n, V, base, step)
  <2> HIDE DEF step, base
  <2> QED
    BY <1>1, <1>4, <1>10, FoldPrefixes
<1>12. PICK part \in [0..n -> V] :
          /\ part[0] = base
          /\ \A k \in 1..n : part[k] = step[k][part[k - 1]]
          /\ part[n] = iter[1..n]
  <2> HIDE DEF step, base
  <2> QED
    BY <1>11 DEF ComesOf
<1>13. \A k \in 1..n : part[k] = PackSentence(part[k - 1], sentences[k], cfg)
  <2>1. \A k \in 1..n : k - 1 \in 0..n
    BY <1>1
  <2> HIDE DEF step
  <2> QED
    BY <1>2, <1>12, <2>1
<1>14. part[n].packed = PackSentences(sentences, cfg)
  <2> HIDE DEF step, base
  <2> QED
    BY <1>9, <1>12
<1>15. part[0] = [packed |-> <<>>, speaker |-> NoSpeaker]
  BY <1>12
<1> HIDE DEF step, base
<1>16. PackParts(part, V, n, sentences, cfg)
  BY <1>12, <1>13, <1>14, <1>15 DEF PackParts
<1> QED
  BY <1>16

\* FoldLeft, unfolded.
LEMMA EnforceIsFold ==
  ASSUME NEW segs, NEW cfg
  PROVE  EnforceMinDuration(segs, cfg) = (CHOOSE iter : iter = [s \in SUBSET DOMAIN segs |->
            IF s = {} THEN [done |-> <<>>, carry |-> <<>>] ELSE PlaceSegment(iter[s \ {Max(s)}], [j \in DOMAIN segs |-> j][Max(s)], segs, cfg)])[DOMAIN segs].done
  BY DEF EnforceMinDuration, FoldLeft, MapThenFoldSet

\* V has all that the loop may make, and part[k] is what it has made at k.
EnforceStays(V, n, segs, cfg) ==
    /\ [done |-> <<>>, carry |-> <<>>] \in V
    /\ \A v \in V, k \in 1..n : PlaceSegment(v, [j \in DOMAIN segs |-> j][k], segs, cfg) \in V

EnforceParts(part, V, n, segs, cfg) ==
    /\ part \in [0..n -> V]
    /\ part[0] = [done |-> <<>>, carry |-> <<>>]
    /\ \A k \in 1..n : part[k] = PlaceSegment(part[k - 1], [j \in DOMAIN segs |-> j][k], segs, cfg)
    /\ part[n].done = EnforceMinDuration(segs, cfg)

\* The partial results of the loop over the packed segments.
LEMMA EnforcePrefixes ==
  ASSUME NEW n \in Nat, NEW segs, NEW cfg, DOMAIN segs = 1..n, NEW V, EnforceStays(V, n, segs, cfg)
  PROVE  \E part : EnforceParts(part, V, n, segs, cfg)
<1> DEFINE base == [done |-> <<>>, carry |-> <<>>]
           step == [k \in 1..n |-> [v \in V |-> PlaceSegment(v, [j \in DOMAIN segs |-> j][k], segs, cfg)]]
           Equation(g) == g = [s \in SUBSET DOMAIN segs |->
                IF s = {} THEN [done |-> <<>>, carry |-> <<>>] ELSE PlaceSegment(g[s \ {Max(s)}], [j \in DOMAIN segs |-> j][Max(s)], segs, cfg)]
           iter == CHOOSE g : Equation(g)
<1>1. n \in Nat /\ base \in V
  BY DEF EnforceStays
<1>2. \A k \in 1..n, v \in V : step[k][v] = PlaceSegment(v, [j \in DOMAIN segs |-> j][k], segs, cfg) /\ step[k][v] \in V
  BY DEF EnforceStays
<1>3. \A s \in SUBSET (1..n) : s # {} => Max(s) \in 1..n /\ s \ {Max(s)} \in SUBSET (1..n)
  BY <1>1, MaxIsGreatest
<1>4. StepsIn(step, n, V)
  <2> HIDE DEF step
  <2> QED
    BY <1>2 DEF StepsIn
<1>5. PICK h \in [SUBSET (1..n) -> V] : FoldsBy(h, n, V, base, step)
  <2> HIDE DEF step, base
  <2> QED
    BY <1>1, <1>4, FoldExists
<1>6. Equation(h)
  <2>1. h[{}] = base /\ \A s \in SUBSET (1..n) :
            s # {} /\ h[s \ {Max(s)}] \in V => h[s] = step[Max(s)][h[s \ {Max(s)}]]
    <3> HIDE DEF step, base
    <3> QED
      BY <1>5 DEF FoldsBy
  <2>2. ASSUME NEW s \in SUBSET (1..n)
        PROVE  h[s] = IF s = {} THEN [done |-> <<>>, carry |-> <<>>] ELSE PlaceSegment(h[s \ {Max(s)}], [j \in DOMAIN segs |-> j][Max(s)], segs, cfg)
    <3>1. CASE s = {}
      BY <2>1, <3>1
    <3>2. CASE s # {}
      <4>1. Max(s) \in 1..n /\ s \ {Max(s)} \in SUBSET (1..n)
        BY <1>3, <3>2
      <4>2. h[s \ {Max(s)}] \in V
        BY <1>5, <4>1
      <4>3. h[s] = step[Max(s)][h[s \ {Max(s)}]]
        BY <2>1, <3>2, <4>2
      <4>4. step[Max(s)][h[s \ {Max(s)}]] = PlaceSegment(h[s \ {Max(s)}], [j \in DOMAIN segs |-> j][Max(s)], segs, cfg)
        <5> HIDE DEF step
        <5> QED
          BY <1>2, <4>1, <4>2
      <4> QED
        BY <3>2, <4>3, <4>4
    <3> QED
      BY <3>1, <3>2
  <2> QED
    BY <1>5, <2>2
<1>7. Equation(iter)
  <2> HIDE DEF Equation
  <2> QED
    BY <1>6
<1>8. iter = [s \in SUBSET (1..n) |->
                IF s = {} THEN [done |-> <<>>, carry |-> <<>>] ELSE PlaceSegment(iter[s \ {Max(s)}], [j \in DOMAIN segs |-> j][Max(s)], segs, cfg)]
  <2> HIDE DEF iter
  <2> QED
    BY <1>7
<1>9. iter[1..n].done = EnforceMinDuration(segs, cfg)
  BY EnforceIsFold
<1> HIDE DEF Equation, iter
<1>10. FoldsBy(iter, n, V, base, step)
  <2>1. iter[{}] = base
    BY <1>8
  <2>2. ASSUME NEW s \in SUBSET (1..n), s # {}, iter[s \ {Max(s)}] \in V
        PROVE  iter[s] = step[Max(s)][iter[s \ {Max(s)}]]
    <3>1. iter[s] = PlaceSegment(iter[s \ {Max(s)}], [j \in DOMAIN segs |-> j][Max(s)], segs, cfg)
      BY <1>8, <2>2
    <3>2. Max(s) \in 1..n
      BY <1>3, <2>2
    <3> HIDE DEF step
    <3> QED
      BY <1>2, <2>2, <3>1, <3>2
  <2> HIDE DEF step, base
  <2> QED
    BY <2>1, <2>2 DEF FoldsBy
<1>11. ComesOf(iter[1..n], n, V, base, step)
  <2> HIDE DEF step, base
  <2> QED
    BY <1>1, <1>4, <1>10, FoldPrefixes
<1>12. PICK part \in [0..n -> V] :
          /\ part[0] = base
          /\ \A k \in 1..n : part[k] = step[k][part[k - 1]]
          /\ part[n] = iter[1..n]
  <2> HIDE DEF step, base
  <2> QED
    BY <1>11 DEF ComesOf
<1>13. \A k \in 1..n : part[k] = PlaceSegment(part[k - 1], [j \in DOMAIN segs |-> j][k], segs, cfg)
  <2>1. \A k \in 1..n : k - 1 \in 0..n
    BY <1>1
  <2> HIDE DEF step
  <2> QED
    BY <1>2, <1>12, <2>1
<1>14. part[n].done = EnforceMinDuration(segs, cfg)
  <2> HIDE DEF step, base
  <2> QED
    BY <1>9, <1>12
<1>15. part[0] = [done |-> <<>>, carry |-> <<>>]
  BY <1>12
<1> HIDE DEF step, base
<1>16. EnforceParts(part, V, n, segs, cfg)
  BY <1>12, <1>13, <1>14, <1>15 DEF EnforceParts
<1> QED
  BY <1>16

-----------------------------------------------------------------------------
(* Sentences: where the words may be cut. *)

\* Words have a time.
Timed(T) == \A w \in T : w.start \in Int /\ w.end \in Int

\* With split, nobody else speaks from word a + 1 to word b, if every word has
\* a speaker.
Labelled(words) == \A i \in 1..Len(words) : words[i].speaker # NoSpeaker
OneVoice(words, a, b) == \A i \in (a + 1)..b : words[i].speaker = words[b].speaker

IsSentence(words, cfg, a, b) ==
    /\ a \in Nat /\ b \in 1..Len(words) /\ a < b
    /\ b \in FindBoundaries(words, cfg)
    /\ \A i \in (a + 1)..(b - 1) : i \notin FindBoundaries(words, cfg)

\* What a segment may be made of: the words from a + 1 to b.
Fine(words, cfg, a, b) ==
    /\ a \in Nat /\ b \in 1..Len(words) /\ a < b
    /\ b \in FindBoundaries(words, cfg)
    /\ IsSentence(words, cfg, a, b) \/ words[b].end - words[a + 1].start <= cfg.max
    /\ cfg.split /\ Labelled(words) => OneVoice(words, a, b)

\* Every boundary is the place of a word, and the last word is one.
LEMMA BoundaryFacts ==
  ASSUME NEW T, NEW words \in Seq(T), NEW cfg
  PROVE  /\ FindBoundaries(words, cfg) \in SUBSET (1..Len(words))
         /\ words # <<>> => Len(words) \in FindBoundaries(words, cfg)
         /\ \A i \in 1..(Len(words) - 1) :
              i \in FindBoundaries(words, cfg) <=>
                \/ words[i].stop
                \/ words[i + 1].start - words[i].end >= cfg.silence
                \/ cfg.split /\ SpeakerChanges(words[i], words[i + 1])
<1>1. DOMAIN words = 1..Len(words) /\ Len(words) \in Nat
  OBVIOUS
<1>2. words # <<>> => Len(words) \in 1..Len(words)
  OBVIOUS
<1>3. ASSUME NEW i \in 1..(Len(words) - 1)
      PROVE  i \in FindBoundaries(words, cfg) <=>
                \/ words[i].stop
                \/ words[i + 1].start - words[i].end >= cfg.silence
                \/ cfg.split /\ SpeakerChanges(words[i], words[i + 1])
  <2> DEFINE N == Len(words)
  <2>1. i \in 1..N /\ i # N
    <3>1. N \in Nat /\ i \in 1..(N - 1)
      BY <1>1
    <3> HIDE DEF N
    <3> QED
      BY <3>1
  <2>2. i \in DOMAIN words /\ i # Len(words)
    BY <1>1, <2>1
  <2> QED
    BY <2>2, Zenon DEF FindBoundaries
<1>4. /\ FindBoundaries(words, cfg) \in SUBSET (1..Len(words))
      /\ words # <<>> => Len(words) \in FindBoundaries(words, cfg)
  BY <1>1, <1>2, Zenon DEF FindBoundaries
<1> QED
  BY <1>3, <1>4

\* Within a sentence the speaker does not change.
LEMMA SentenceIsFine ==
  ASSUME NEW T, NEW words \in Seq(T), NEW cfg, NEW a, NEW b, IsSentence(words, cfg, a, b)
  PROVE  Fine(words, cfg, a, b)
<1>1. /\ a \in Nat /\ b \in 1..Len(words) /\ a < b /\ b \in FindBoundaries(words, cfg)
      /\ \A i \in (a + 1)..(b - 1) : i \notin FindBoundaries(words, cfg)
      /\ Len(words) \in Nat
  BY DEF IsSentence
<1>2. ASSUME cfg.split, Labelled(words) PROVE OneVoice(words, a, b)
  <2> DEFINE Bad == {d \in Nat : b - d \in (a + 1)..b
                                 /\ words[b - d].speaker # words[b].speaker}
  <2>1. Bad = {}
    <3> SUFFICES ASSUME Bad # {} PROVE FALSE
      OBVIOUS
    <3>1. Bad \subseteq Nat
      OBVIOUS
    <3>2. PICK d \in Bad : \A e \in Bad : d <= e
      <4> HIDE DEF Bad
      <4> QED
        BY <3>1, LeastNatural
    <3>3. d \in Nat /\ b - d \in (a + 1)..b /\ words[b - d].speaker # words[b].speaker
      OBVIOUS
    <3>4. d # 0
      <4>1. b - 0 = b
        BY <1>1
      <4> QED
        BY <3>3, <4>1
    <3>5. /\ d - 1 \in Nat /\ ~ (d <= d - 1) /\ b - (d - 1) = (b - d) + 1
          /\ b - (d - 1) \in (a + 1)..b /\ b - d \in (a + 1)..(b - 1)
          /\ b - d \in 1..(Len(words) - 1) /\ b - d \in 1..Len(words)
          /\ (b - d) + 1 \in 1..Len(words)
      BY <1>1, <3>3, <3>4
    <3>6. d - 1 \notin Bad
      <4> HIDE DEF Bad
      <4> QED
        BY <3>2, <3>5
    <3>7. words[(b - d) + 1].speaker = words[b].speaker
      BY <3>5, <3>6
    <3>8. ~ SpeakerChanges(words[b - d], words[(b - d) + 1])
      BY <1>1, <1>2, <3>5, BoundaryFacts
    <3>9. words[b - d].speaker # NoSpeaker /\ words[(b - d) + 1].speaker # NoSpeaker
      BY <1>2, <3>5 DEF Labelled
    <3> QED
      BY <3>3, <3>7, <3>8, <3>9 DEF SpeakerChanges
  <2>2. ASSUME NEW i \in (a + 1)..b PROVE words[i].speaker = words[b].speaker
    <3>1. b - i \in Nat /\ b - (b - i) = i
      BY <1>1
    <3>2. b - i \notin Bad
      <4> HIDE DEF Bad
      <4> QED
        BY <2>1
    <3> QED
      BY <3>1, <3>2
  <2> QED
    BY <2>2 DEF OneVoice
<1> QED
  BY <1>1, <1>2 DEF Fine

\* The places at which sentences end.
SentenceEndsAt(ends, sentences, words, cfg) ==
    /\ ends \in [0..Len(sentences) -> 0..Len(words)]
    /\ ends[0] = 0 /\ ends[Len(sentences)] = Len(words)
    /\ \A k \in 1..Len(sentences) :
        /\ IsSentence(words, cfg, ends[k - 1], ends[k])
        /\ sentences[k] = SubSeq(words, ends[k - 1] + 1, ends[k])

\* The sentences are the words, cut after each boundary, none empty.
LEMMA SentencesFollow ==
  ASSUME NEW T, NEW words \in Seq(T), words # <<>>, NEW cfg,
         NEW sentences, sentences = SplitIntoSentences(words, FindBoundaries(words, cfg))
  PROVE  /\ sentences \in Seq(Seq(T))
         /\ \E ends : SentenceEndsAt(ends, sentences, words, cfg)
<1> DEFINE B == FindBoundaries(words, cfg)
           N == Len(words)
           m == Cardinality(B)
           inOrder == InOrder(B)
           ends == [k \in 0..m |-> IF k = 0 THEN 0 ELSE inOrder[k]]
<1>1. N \in Nat /\ DOMAIN words = 1..N /\ B \in SUBSET (1..N) /\ N \in B
  BY BoundaryFacts
<1>2. IsFiniteSet(B) /\ B \in SUBSET Int
  <2>1. IsFiniteSet(1..N) /\ 1..N \subseteq Int
    BY <1>1, FS_Interval
  <2>2. B \in SUBSET (1..N)
    BY <1>1
  <2> HIDE DEF B, N
  <2>3. IsFiniteSet(B)
    BY <2>1, <2>2, FS_Subset
  <2> QED
    BY <2>1, <2>2, <2>3
<1> HIDE DEF B
<1>3. /\ m \in Nat /\ Len(inOrder) = m /\ DOMAIN inOrder = 1..m
      /\ \A k \in 1..m : inOrder[k] \in B
      /\ \A j, k \in 1..m : j < k => inOrder[j] < inOrder[k]
      /\ \A x \in B : \E k \in 1..m : inOrder[k] = x
  <2>1. inOrder \in Seq(B)
    BY <1>2, InOrderFacts
  <2> QED
    BY <1>2, <2>1, InOrderFacts
<1>4. m # 0
  BY <1>1, <1>3
<1> HIDE DEF m, inOrder
<1>5. \A k \in 1..m : ends[k] = inOrder[k] /\ ends[k] \in B /\ ends[k] \in 1..N /\ k \in 0..m
  <2>1. \A k \in 1..m : k # 0 /\ k \in 0..m
    BY <1>3
  <2> QED
    BY <1>1, <1>3, <2>1
<1>6. ends[0] = 0 /\ 0 \in 0..m /\ m \in 0..m
  BY <1>3
<1>7. ends \in [0..m -> 0..N]
  <2>1. \A k \in 0..m : k = 0 \/ k \in 1..m
    BY <1>3
  <2>2. ASSUME NEW k \in 0..m PROVE ends[k] \in 0..N
    <3>1. CASE k = 0
      BY <1>1, <3>1
    <3>2. CASE k \in 1..m
      <4>1. ends[k] \in 1..N
        BY <1>5, <3>2
      <4> QED
        BY <1>1, <4>1
    <3> QED
      BY <2>1, <3>1, <3>2
  <2> QED
    BY <2>2
<1>8. ends[m] = N
  <2>1. PICK k \in 1..m : inOrder[k] = N
    BY <1>1, <1>3
  <2>2. m \in 1..m /\ inOrder[m] \in 1..N
    <3>1. m \in 1..m
      BY <1>3, <1>4
    <3>2. inOrder[m] \in B
      BY <1>3, <3>1
    <3> QED
      BY <1>1, <3>1, <3>2
  <2>3. ~ (k < m)
    <3>1. k < m => inOrder[k] < inOrder[m]
      BY <1>3, <2>2
    <3> QED
      BY <1>1, <2>1, <2>2, <3>1
  <2>4. k = m
    BY <1>3, <2>3
  <2> QED
    BY <1>5, <2>1, <2>2, <2>4
<1>9. sentences = [k \in 1..m |-> SubSeq(words, IF k = 1 THEN 1 ELSE inOrder[k - 1] + 1, inOrder[k])]
  BY <1>3 DEF SplitIntoSentences, inOrder, B
<1> HIDE DEF ends
<1>10. ASSUME NEW k \in 1..m
       PROVE  /\ IsSentence(words, cfg, ends[k - 1], ends[k])
              /\ sentences[k] = SubSeq(words, ends[k - 1] + 1, ends[k])
              /\ SubSeq(words, ends[k - 1] + 1, ends[k]) \in Seq(T)
  <2>1. k - 1 \in 0..m /\ (k = 1 => k - 1 = 0) /\ (k # 1 => k - 1 \in 1..m)
    BY <1>3
  <2>2. sentences[k] = SubSeq(words, ends[k - 1] + 1, ends[k])
    <3>1. (IF k = 1 THEN 1 ELSE inOrder[k - 1] + 1) = ends[k - 1] + 1
      <4>1. CASE k = 1
        BY <1>6, <2>1, <4>1
      <4>2. CASE k # 1
        BY <1>5, <2>1, <4>2
      <4> QED
        BY <4>1, <4>2
    <3> QED
      BY <1>5, <1>9, <3>1
  <2>3. ends[k - 1] \in Nat /\ ends[k - 1] \in 0..N /\ ends[k] \in 1..N /\ ends[k] \in B
    BY <1>1, <1>5, <1>7, <2>1
  <2>4. ends[k - 1] < ends[k]
    <3>1. CASE k = 1
      BY <1>1, <1>6, <2>1, <2>3, <3>1
    <3>2. CASE k # 1
      <4>1. k - 1 < k
        BY <1>3
      <4> QED
        BY <1>3, <1>5, <2>1, <3>2, <4>1
    <3> QED
      BY <3>1, <3>2
  <2>5. ASSUME NEW i \in (ends[k - 1] + 1)..(ends[k] - 1) PROVE i \notin B
    <3> SUFFICES ASSUME i \in B PROVE FALSE
      OBVIOUS
    <3>1. PICK j \in 1..m : inOrder[j] = i
      BY <1>3
    <3>2. ends[k - 1] < i /\ i < ends[k] /\ i \in Int
      BY <1>1, <2>3
    <3>3. j < k
      <4>1. j = k \/ j < k \/ k < j
        BY <1>3
      <4>2. j # k
        BY <1>1, <1>5, <2>3, <3>1, <3>2
      <4>3. ~ (k < j)
        <5>1. k < j => inOrder[k] < inOrder[j]
          BY <1>3
        <5> QED
          BY <1>5, <2>3, <3>1, <3>2, <5>1
      <4> QED
        BY <4>1, <4>2, <4>3
    <3>4. k # 1 /\ (j = k - 1 \/ j < k - 1)
      BY <1>3, <3>3
    <3>5. j # k - 1
      BY <1>5, <2>1, <2>3, <3>1, <3>2, <3>4
    <3>6. inOrder[j] < inOrder[k - 1]
      BY <1>3, <2>1, <3>4, <3>5
    <3> QED
      BY <1>5, <2>1, <2>3, <3>1, <3>2, <3>4, <3>6
  <2>6. SubSeq(words, ends[k - 1] + 1, ends[k]) \in Seq(T)
    <3>1. ends[k - 1] + 1 \in Int /\ ends[k] \in Int
      BY <1>1, <2>3
    <3>2. \A i \in (ends[k - 1] + 1)..ends[k] : words[i] \in T
      BY <1>1, <2>3
    <3> QED
      BY <3>1, <3>2, SubSeqProperties
  <2> QED
    BY <2>2, <2>3, <2>4, <2>5, <2>6 DEF IsSentence, B
<1>11. sentences \in Seq(Seq(T)) /\ Len(sentences) = m
  <2>1. sentences = [k \in 1..m |-> sentences[k]]
    BY <1>9
  <2>2. \A k \in 1..m : sentences[k] \in Seq(T)
    BY <1>10
  <2>3. sentences \in [1..m -> Seq(T)]
    BY <2>1, <2>2
  <2> QED
    BY <1>3, <2>3
<1> QED
  BY <1>6, <1>7, <1>8, <1>10, <1>11 DEF SentenceEndsAt

-----------------------------------------------------------------------------
(* Segments are pieces of the words, cut at the ends of sentences. *)

\* The pieces ps are the words up to n, cut at ends.
Divides(ends, ps, words, n, cfg) ==
    /\ ends \in [0..Len(ps) -> 0..Len(words)]
    /\ ends[0] = 0 /\ ends[Len(ps)] = n
    /\ \A i \in 1..Len(ps) :
        /\ Fine(words, cfg, ends[i - 1], ends[i])
        /\ ps[i] = SubSeq(words, ends[i - 1] + 1, ends[i])

\* A part of the words, its first word and its last.
LEMMA PartFacts ==
  ASSUME NEW T, NEW words \in Seq(T), NEW a \in Nat, NEW b \in 1..Len(words), a < b
  PROVE  /\ SubSeq(words, a + 1, b) \in Seq(T)
         /\ SubSeq(words, a + 1, b) # <<>>
         /\ Len(SubSeq(words, a + 1, b)) = b - a
         /\ \A i \in 1..(b - a) : SubSeq(words, a + 1, b)[i] = words[a + i]
         /\ SubSeq(words, a + 1, b)[1] = words[a + 1]
         /\ Last(SubSeq(words, a + 1, b)) = words[b]
<1> DEFINE p == SubSeq(words, a + 1, b)
<1>1. Len(words) \in Nat /\ DOMAIN words = 1..Len(words) /\ a + 1 \in Int /\ b \in Int
      /\ a + 1 <= b /\ b - (a + 1) + 1 = b - a
  OBVIOUS
<1>2. \A i \in (a + 1)..b : words[i] \in T
  BY <1>1
<1>3. /\ p \in Seq(T) /\ Len(p) = (IF a + 1 <= b THEN b - (a + 1) + 1 ELSE 0)
      /\ \A i \in 1..(b - (a + 1) + 1) : p[i] = words[(a + 1) + i - 1]
  BY <1>1, <1>2, SubSeqProperties
<1> HIDE DEF p
<1>4. Len(p) = b - a
  BY <1>1, <1>3
<1>5. ASSUME NEW i \in 1..(b - a) PROVE p[i] = words[a + i]
  <2>1. (a + 1) + i - 1 = a + i
    OBVIOUS
  <2>2. p[i] = words[(a + 1) + i - 1]
    BY <1>1, <1>3
  <2> QED
    BY <2>1, <2>2
<1>6. 1 \in 1..(b - a) /\ b - a \in 1..(b - a) /\ a + (b - a) = b
  BY <1>1
<1>7. p[1] = words[a + 1] /\ Last(p) = words[b] /\ p # <<>>
  BY <1>3, <1>4, <1>5, <1>6 DEF Last
<1> QED
  BY <1>3, <1>4, <1>5, <1>7 DEF p

\* One more piece at the end.
LEMMA DivideAppend ==
  ASSUME NEW T, NEW words \in Seq(T), NEW cfg, NEW ps \in Seq(Seq(T)), NEW ends, NEW m,
         Divides(ends, ps, words, m, cfg), NEW k, Fine(words, cfg, m, k)
  PROVE  /\ Append(ps, SubSeq(words, m + 1, k)) \in Seq(Seq(T))
         /\ \E e : Divides(e, Append(ps, SubSeq(words, m + 1, k)), words, k, cfg)
<1> DEFINE p == SubSeq(words, m + 1, k)
           n == Len(ps)
           qs == Append(ps, p)
           e == [i \in 0..(n + 1) |-> IF i = n + 1 THEN k ELSE ends[i]]
<1>1. m \in Nat /\ k \in 1..Len(words) /\ m < k /\ Len(words) \in Nat /\ n \in Nat
  BY DEF Fine
<1>2. p \in Seq(T)
  BY <1>1, PartFacts
<1>3. /\ ends \in [0..n -> 0..Len(words)] /\ ends[0] = 0 /\ ends[n] = m
      /\ \A i \in 1..n : Fine(words, cfg, ends[i - 1], ends[i])
                         /\ ps[i] = SubSeq(words, ends[i - 1] + 1, ends[i])
  BY DEF Divides
<1> HIDE DEF p
<1>4. /\ qs \in Seq(Seq(T)) /\ Len(qs) = n + 1
      /\ \A i \in 1..n : qs[i] = ps[i]
      /\ qs[n + 1] = p
  BY <1>2
<1> HIDE DEF n, qs
<1>5. /\ \A i \in 0..n : i \in 0..(n + 1) /\ i # n + 1
      /\ 0 \in 0..n /\ n \in 0..n /\ n + 1 \in 0..(n + 1)
      /\ \A i \in 0..(n + 1) : i = n + 1 \/ i \in 0..n
      /\ \A i \in 1..(n + 1) : i = n + 1 \/ i \in 1..n
      /\ \A i \in 1..n : i - 1 \in 0..n /\ i \in 0..n
      /\ (n + 1) - 1 = n
  BY <1>1
<1>6. (\A i \in 0..n : e[i] = ends[i]) /\ e[n + 1] = k
  BY <1>5
<1>7. e \in [0..(n + 1) -> 0..Len(words)]
  <2>1. \A i \in 0..(n + 1) : e[i] \in 0..Len(words)
    <3>1. k \in 0..Len(words)
      BY <1>1
    <3>2. \A i \in 0..n : ends[i] \in 0..Len(words)
      BY <1>3
    <3> HIDE DEF e
    <3> QED
      BY <1>5, <1>6, <3>1, <3>2
  <2> QED
    BY <2>1
<1> HIDE DEF e
<1>8. ASSUME NEW i \in 1..(n + 1)
      PROVE  Fine(words, cfg, e[i - 1], e[i]) /\ qs[i] = SubSeq(words, e[i - 1] + 1, e[i])
  <2>1. CASE i = n + 1
    BY <1>3, <1>4, <1>5, <1>6, <2>1 DEF p
  <2>2. CASE i \in 1..n
    BY <1>3, <1>4, <1>5, <1>6, <2>2
  <2> QED
    BY <1>5, <2>1, <2>2
<1>9. e[0] = 0 /\ e[n + 1] = k
  BY <1>3, <1>5, <1>6
<1>10. Divides(e, qs, words, k, cfg)
  BY <1>4, <1>7, <1>8, <1>9 DEF Divides
<1> QED
  BY <1>4, <1>10 DEF qs, p

\* The last piece ends where the words divided so far do.
LEMMA DivideLast ==
  ASSUME NEW words, NEW cfg, NEW ps, Len(ps) \in Nat, Len(ps) # 0, NEW ends, NEW m,
         Divides(ends, ps, words, m, cfg)
  PROVE  /\ ends[Len(ps) - 1] \in Nat
         /\ Fine(words, cfg, ends[Len(ps) - 1], m)
         /\ Last(ps) = SubSeq(words, ends[Len(ps) - 1] + 1, m)
<1> DEFINE n == Len(ps)
<1>1. n \in Nat /\ n \in 1..n
  OBVIOUS
<1>2. Fine(words, cfg, ends[n - 1], ends[n]) /\ ps[n] = SubSeq(words, ends[n - 1] + 1, ends[n])
      /\ ends[n] = m
  BY <1>1 DEF Divides
<1>3. ends[n - 1] \in Nat
  BY <1>2 DEF Fine
<1> QED
  BY <1>2, <1>3 DEF Last

\* The last piece, longer.
LEMMA DivideExtend ==
  ASSUME NEW T, NEW words \in Seq(T), NEW cfg, NEW ps \in Seq(Seq(T)), ps # <<>>, NEW ends, NEW m,
         Divides(ends, ps, words, m, cfg), NEW k, Fine(words, cfg, ends[Len(ps) - 1], k)
  PROVE  /\ Append(Front(ps), SubSeq(words, ends[Len(ps) - 1] + 1, k)) \in Seq(Seq(T))
         /\ \E e : Divides(e, Append(Front(ps), SubSeq(words, ends[Len(ps) - 1] + 1, k)),
                           words, k, cfg)
<1> DEFINE n == Len(ps)
           a == ends[n - 1]
           p == SubSeq(words, a + 1, k)
           qs == Append(Front(ps), p)
           e == [ends EXCEPT ![n] = k]
<1>1. a \in Nat /\ k \in 1..Len(words) /\ a < k /\ Len(words) \in Nat /\ n \in Nat \ {0}
      /\ Fine(words, cfg, a, k)
  BY DEF Fine
<1>2. p \in Seq(T)
  <2> HIDE DEF a
  <2> QED
    BY <1>1, PartFacts
<1>3. /\ ends \in [0..n -> 0..Len(words)] /\ ends[0] = 0 /\ ends[n] = m
      /\ \A i \in 1..n : Fine(words, cfg, ends[i - 1], ends[i])
                         /\ ps[i] = SubSeq(words, ends[i - 1] + 1, ends[i])
  BY DEF Divides
<1> HIDE DEF p
<1>4. /\ qs \in Seq(Seq(T)) /\ Len(qs) = n
      /\ \A i \in 1..(n - 1) : qs[i] = ps[i]
      /\ qs[n] = p
  <2> DEFINE U == Seq(T)
  <2>1. ps \in Seq(U) /\ p \in U
    BY <1>2
  <2> HIDE DEF U
  <2>2. /\ Append(Front(ps), p) \in Seq(U)
        /\ Len(Append(Front(ps), p)) = Len(ps)
        /\ \A i \in 1..(Len(ps) - 1) : Append(Front(ps), p)[i] = ps[i]
        /\ Append(Front(ps), p)[Len(ps)] = p
    BY <2>1, ReplaceLast
  <2> QED
    BY <2>2 DEF U
<1> HIDE DEF n, qs
<1>5. /\ 0 \in 0..n /\ n \in 0..n /\ 0 # n
      /\ \A i \in 1..n : i = n \/ i \in 1..(n - 1)
      /\ \A i \in 1..n : i - 1 \in 0..n /\ i \in 0..n /\ i - 1 # n
      /\ \A i \in 1..(n - 1) : i \in 1..n /\ i # n
  BY <1>1
<1>6. (\A i \in 0..n : i # n => e[i] = ends[i]) /\ e[n] = k
  BY <1>3, <1>5
<1>7. e \in [0..n -> 0..Len(words)]
  <2>1. k \in 0..Len(words)
    BY <1>1
  <2> QED
    BY <1>3, <2>1
<1> HIDE DEF e
<1>8. ASSUME NEW i \in 1..n
      PROVE  Fine(words, cfg, e[i - 1], e[i]) /\ qs[i] = SubSeq(words, e[i - 1] + 1, e[i])
  <2>1. CASE i = n
    <3>1. e[i - 1] = a /\ e[i] = k
      BY <1>5, <1>6, <2>1
    <3> QED
      BY <1>1, <1>4, <2>1, <3>1 DEF p
  <2>2. CASE i \in 1..(n - 1)
    BY <1>3, <1>4, <1>5, <1>6, <2>2
  <2> QED
    BY <1>5, <2>1, <2>2
<1>9. e[0] = 0 /\ e[n] = k
  BY <1>3, <1>5, <1>6
<1>10. Divides(e, qs, words, k, cfg)
  BY <1>4, <1>7, <1>8, <1>9 DEF Divides
<1> QED
  BY <1>4, <1>10 DEF qs, p, n

-----------------------------------------------------------------------------
(* Two pieces that meet, and who speaks in them. *)

\* If all words have one speaker, that is the dominant one.
LEMMA DominantOfOne ==
  ASSUME NEW T, NEW ws \in Seq(T), ws # <<>>, NEW who, who # NoSpeaker,
         \A i \in 1..Len(ws) : ws[i].speaker = who
  PROVE  DominantSpeaker(ws) = who
<1> DEFINE D == 1..Len(ws)
           times(i) == Cardinality({j \in D : ws[j].speaker = ws[i].speaker})
           Best(i) == \A j \in D \ {i} : times(i) > times(j) \/ (times(i) = times(j) /\ i < j)
<1>1. DOMAIN ws = D /\ 1 \in D /\ Len(ws) \in Nat
  OBVIOUS
<1>2. {i \in DOMAIN ws : ws[i].speaker # NoSpeaker} = D
  BY <1>1
<1>3. DominantSpeaker(ws) = ws[CHOOSE i \in D : Best(i)].speaker
  <2> DEFINE L == {i \in DOMAIN ws : ws[i].speaker # NoSpeaker}
             timesL(i) == Cardinality({j \in L : ws[j].speaker = ws[i].speaker})
             BestL(i) == \A j \in L \ {i} : timesL(i) > timesL(j) \/ (timesL(i) = timesL(j) /\ i < j)
  <2>1. DominantSpeaker(ws) = IF L = {} THEN NoSpeaker ELSE ws[CHOOSE i \in L : BestL(i)].speaker
    BY DEF DominantSpeaker
  <2>2. L = D /\ D # {}
    BY <1>1, <1>2
  <2> HIDE DEF D, L
  <2> QED
    BY <2>1, <2>2, Zenon
<1>4. Best(1)
  <2>1. \A i \in D : {j \in D : ws[j].speaker = ws[i].speaker} = D
    OBVIOUS
  <2>2. \A i \in D : times(i) = Cardinality(D)
    BY <2>1, Zenon
  <2>3. \A j \in D \ {1} : 1 < j
    BY <1>1
  <2> HIDE DEF D, times
  <2> QED
    BY <1>1, <2>2, <2>3
<1> HIDE DEF Best
<1>5. (CHOOSE i \in D : Best(i)) \in D
  BY <1>1, <1>4
<1> QED
  BY <1>3, <1>5

\* The dominant speaker of words a + 1 to b.
LEMMA DominantOfPart ==
  ASSUME NEW T, NEW words \in Seq(T), NEW a \in Nat, NEW b \in 1..Len(words), a < b,
         Labelled(words), OneVoice(words, a, b)
  PROVE  /\ DominantSpeaker(SubSeq(words, a + 1, b)) = words[b].speaker
         /\ words[b].speaker # NoSpeaker
         /\ words[a + 1].speaker = words[b].speaker
<1> DEFINE p == SubSeq(words, a + 1, b)
<1>1. /\ p \in Seq(T) /\ p # <<>> /\ Len(p) = b - a
      /\ \A i \in 1..(b - a) : p[i] = words[a + i]
  BY PartFacts
<1> HIDE DEF p
<1>2. \A i \in 1..(b - a) : a + i \in (a + 1)..b
  OBVIOUS
<1>3. \A i \in (a + 1)..b : words[i].speaker = words[b].speaker
  BY DEF OneVoice
<1>4. \A i \in 1..Len(p) : p[i].speaker = words[b].speaker
  BY <1>1, <1>2, <1>3
<1>5. words[b].speaker # NoSpeaker
  BY DEF Labelled
<1>6. DominantSpeaker(p) = words[b].speaker
  BY <1>1, <1>4, <1>5, DominantOfOne
<1>7. a + 1 \in (a + 1)..b
  OBVIOUS
<1> QED
  BY <1>3, <1>5, <1>6, <1>7 DEF p

\* Two parts that meet become one.
LEMMA JoinParts ==
  ASSUME NEW T, NEW words \in Seq(T), NEW a \in Nat, NEW m \in Nat, NEW k \in 1..Len(words),
         a <= m, m < k
  PROVE  SubSeq(words, a + 1, m) \o SubSeq(words, m + 1, k) = SubSeq(words, a + 1, k)
<1>1. Len(words) \in Nat
  OBVIOUS
<1>2. /\ a + 1 \in 1..(Len(words) + 1)
      /\ m \in ((a + 1) - 1)..Len(words)
      /\ k \in m..Len(words)
  BY <1>1
<1> QED
  BY <1>2, ConcatAdjacentSubSeq

\* Nobody else speaks in two parts that meet, if the same speaks in both.
LEMMA JoinVoices ==
  ASSUME NEW words, NEW a \in Nat, NEW m \in Nat, NEW k \in Nat, a < m, m < k,
         OneVoice(words, a, m), OneVoice(words, m, k), words[m].speaker = words[k].speaker
  PROVE  OneVoice(words, a, k)
<1> SUFFICES ASSUME NEW i \in (a + 1)..k PROVE words[i].speaker = words[k].speaker
  BY DEF OneVoice
<1>1. i \in (a + 1)..m \/ i \in (m + 1)..k
  OBVIOUS
<1>2. CASE i \in (a + 1)..m
  BY <1>2 DEF OneVoice
<1>3. CASE i \in (m + 1)..k
  BY <1>3 DEF OneVoice
<1> QED
  BY <1>1, <1>2, <1>3

\* Mergeable parts may be one segment.
LEMMA MergeableIsFine ==
  ASSUME NEW T, NEW words \in Seq(T), NEW cfg, NEW a \in Nat, NEW m, NEW k, a < m,
         Fine(words, cfg, m, k), m \in 1..Len(words),
         cfg.split /\ Labelled(words) => OneVoice(words, a, m),
         Mergeable(SubSeq(words, a + 1, m), SubSeq(words, m + 1, k), cfg)
  PROVE  Fine(words, cfg, a, k)
<1> DEFINE p == SubSeq(words, a + 1, m)
           q == SubSeq(words, m + 1, k)
<1>1. /\ m \in Nat /\ k \in 1..Len(words) /\ k \in Nat /\ m < k /\ a < k /\ Len(words) \in Nat
      /\ k \in FindBoundaries(words, cfg)
      /\ cfg.split /\ Labelled(words) => OneVoice(words, m, k)
  <2>1. Len(words) \in Nat /\ m \in Nat
    OBVIOUS
  <2>2. k \in 1..Len(words) /\ m < k
    BY DEF Fine
  <2>3. /\ k \in FindBoundaries(words, cfg)
        /\ cfg.split /\ Labelled(words) => OneVoice(words, m, k)
    BY DEF Fine
  <2>4. k \in Nat /\ a < k
    BY <2>1, <2>2
  <2> QED
    BY <2>1, <2>2, <2>3, <2>4
<1>2. p[1] = words[a + 1] /\ Last(q) = words[k]
  <2>1. p[1] = words[a + 1]
    BY <1>1, PartFacts
  <2>2. Last(q) = words[k]
    BY <1>1, PartFacts
  <2> QED
    BY <2>1, <2>2
<1>3. Last(q).end - p[1].start <= cfg.max /\ SpeakersCompatible(p, q, cfg)
  BY DEF Mergeable
<1>4. ASSUME cfg.split, Labelled(words) PROVE OneVoice(words, a, k)
  <2>1. OneVoice(words, a, m) /\ OneVoice(words, m, k)
    BY <1>1, <1>4
  <2>2. DominantSpeaker(p) = words[m].speaker /\ words[m].speaker # NoSpeaker
    BY <1>4, <2>1, DominantOfPart
  <2>3. DominantSpeaker(q) = words[k].speaker /\ words[k].speaker # NoSpeaker
    BY <1>1, <1>4, <2>1, DominantOfPart
  <2> HIDE DEF p, q
  <2> DEFINE x == words[m].speaker
             y == words[k].speaker
  <2>4. Cardinality({x, y} \ {NoSpeaker}) <= 1
    BY <1>3, <1>4, <2>2, <2>3 DEF SpeakersCompatible
  <2>5. {x, y} \ {NoSpeaker} = {x, y}
    BY <2>2, <2>3
  <2> HIDE DEF x, y
  <2>6. x = y
    <3> SUFFICES ASSUME x # y PROVE FALSE
      OBVIOUS
    <3>1. {x, y} = {x} \union {y} /\ y \notin {x}
      OBVIOUS
    <3>2. IsFiniteSet({x}) /\ Cardinality({x}) = 1
      BY FS_Singleton
    <3>3. Cardinality({x} \union {y}) = Cardinality({x}) + 1
      BY <3>1, <3>2, FS_AddElement
    <3>4. Cardinality({x, y} \ {NoSpeaker}) = 1 + 1
      BY <2>5, <3>1, <3>2, <3>3, Zenon
    <3>5. 1 + 1 <= 1
      BY <2>4, <3>4, Zenon
    <3> QED
      BY <3>5
  <2> QED
    BY <1>1, <2>1, <2>6, JoinVoices DEF x, y
<1> QED
  BY <1>1, <1>2, <1>3, <1>4 DEF Fine

PackedUpTo(state, T, words, cfg, n) ==
    /\ state.packed \in Seq(Seq(T))
    /\ \E ends : Divides(ends, state.packed, words, n, cfg)
    /\ cfg.split /\ Labelled(words) /\ state.packed # <<>> =>
          state.speaker = Last(state.packed)[1].speaker

\* One turn of the loop of _pack_sentences.
LEMMA PackOne ==
  ASSUME NEW T, Timed(T), NEW words \in Seq(T), NEW cfg, cfg.max \in Int,
         NEW state, NEW m, PackedUpTo(state, T, words, cfg, m),
         NEW k, IsSentence(words, cfg, m, k)
  PROVE  PackedUpTo(PackSentence(state, SubSeq(words, m + 1, k), cfg), T, words, cfg, k)
<1> DEFINE sentence == SubSeq(words, m + 1, k)
           ps == state.packed
           speaker == DominantSpeaker(sentence)
           current == Last(ps)
           long == Last(sentence).end - current[1].start > cfg.max
           changed == /\ cfg.split
                      /\ NoSpeaker \notin {state.speaker, speaker}
                      /\ speaker # state.speaker
           next == PackSentence(state, sentence, cfg)
<1>1. /\ m \in Nat /\ k \in 1..Len(words) /\ m < k /\ Len(words) \in Nat /\ k \in Nat
      /\ k \in FindBoundaries(words, cfg) /\ Fine(words, cfg, m, k)
  <2>1. Len(words) \in Nat
    OBVIOUS
  <2> QED
    BY <2>1, SentenceIsFine DEF IsSentence
<1>2. /\ sentence \in Seq(T) /\ sentence[1] = words[m + 1] /\ Last(sentence) = words[k]
  BY <1>1, PartFacts
<1>3. ps \in Seq(Seq(T))
  BY DEF PackedUpTo
<1>4. PICK ends : Divides(ends, ps, words, m, cfg)
  BY DEF PackedUpTo
<1>5. ASSUME cfg.split, Labelled(words)
      PROVE  /\ OneVoice(words, m, k)
             /\ speaker = words[k].speaker /\ speaker # NoSpeaker
             /\ sentence[1].speaker = speaker
  <2>1. OneVoice(words, m, k)
    BY <1>1, <1>5 DEF Fine
  <2> QED
    BY <1>1, <1>2, <1>5, <2>1, DominantOfPart
<1>6. next = IF ps = <<>> \/ long \/ changed
             THEN [packed |-> Append(ps, sentence), speaker |-> speaker]
             ELSE [packed |-> Append(Front(ps), current \o sentence),
                   speaker |-> IF state.speaker = NoSpeaker THEN speaker ELSE state.speaker]
  BY DEF PackSentence
<1> HIDE DEF next, speaker
<1>7. CASE ps = <<>> \/ long \/ changed
  <2>1. next.packed = Append(ps, sentence) /\ next.speaker = speaker
    BY <1>6, <1>7
  <2>2. Append(ps, sentence) \in Seq(Seq(T))
        /\ \E e : Divides(e, Append(ps, sentence), words, k, cfg)
    BY <1>1, <1>3, <1>4, DivideAppend
  <2>3. Last(Append(ps, sentence)) = sentence
    <3> DEFINE U == Seq(T)
    <3>1. ps \in Seq(U) /\ sentence \in U
      BY <1>2, <1>3
    <3> HIDE DEF U, ps, sentence
    <3> QED
      BY <3>1 DEF Last
  <2>4. cfg.split /\ Labelled(words) => next.speaker = Last(next.packed)[1].speaker
    BY <1>5, <2>1, <2>3
  <2> QED
    BY <2>1, <2>2, <2>4 DEF PackedUpTo, next
<1>8. CASE ~ (ps = <<>> \/ long \/ changed)
  <2> DEFINE a == ends[Len(ps) - 1]
  <2>1. /\ next.packed = Append(Front(ps), current \o sentence)
        /\ next.speaker = IF state.speaker = NoSpeaker THEN speaker ELSE state.speaker
        /\ ps # <<>>
    BY <1>6, <1>8
  <2>2. a \in Nat /\ Fine(words, cfg, a, m) /\ current = SubSeq(words, a + 1, m)
    <3>1. Len(ps) \in Nat /\ Len(ps) # 0 /\ Divides(ends, ps, words, m, cfg)
      <4> HIDE DEF ps
      <4> QED
        BY <1>3, <1>4, <2>1
    <3> HIDE DEF ps, a
    <3>3. /\ ends[Len(ps) - 1] \in Nat
          /\ Fine(words, cfg, ends[Len(ps) - 1], m)
          /\ Last(ps) = SubSeq(words, ends[Len(ps) - 1] + 1, m)
      BY <3>1, DivideLast
    <3> QED
      BY <3>3 DEF a
  <2> HIDE DEF a, long, changed
  <2>3. a < m /\ m \in 1..Len(words)
        /\ (cfg.split /\ Labelled(words) => OneVoice(words, a, m))
    BY <2>2 DEF Fine
  <2>4. current[1] = words[a + 1]
    BY <2>2, <2>3, PartFacts
  <2>5. words[k].end - words[a + 1].start <= cfg.max
    <3>1. words[k] \in T /\ words[a + 1] \in T
      BY <1>1, <2>2, <2>3
    <3>2. words[k].end \in Int /\ words[a + 1].start \in Int
      BY <3>1 DEF Timed
    <3>3. ~ (words[k].end - words[a + 1].start > cfg.max)
      BY <1>2, <1>8, <2>4 DEF long
    <3> QED
      BY <3>2, <3>3
  <2>6. ASSUME cfg.split, Labelled(words)
        PROVE  OneVoice(words, a, k) /\ state.speaker = words[a + 1].speaker
               /\ state.speaker # NoSpeaker
    <3>1. OneVoice(words, a, m) /\ words[a + 1].speaker = words[m].speaker
          /\ words[m].speaker # NoSpeaker
      BY <2>2, <2>3, <2>6, DominantOfPart
    <3>2. state.speaker = current[1].speaker
      BY <2>1, <2>6 DEF PackedUpTo
    <3>3. speaker = words[k].speaker /\ speaker # NoSpeaker /\ OneVoice(words, m, k)
      BY <1>5, <2>6
    <3>4. speaker = state.speaker
      BY <1>8, <2>4, <2>6, <3>1, <3>2, <3>3 DEF changed
    <3>5. OneVoice(words, a, k)
      BY <1>1, <2>2, <2>3, <2>4, <3>1, <3>2, <3>3, <3>4, JoinVoices
    <3> QED
      BY <2>4, <3>1, <3>2, <3>5
  <2>7. Fine(words, cfg, a, k)
    BY <1>1, <2>2, <2>3, <2>5, <2>6 DEF Fine
  <2>8. current \o sentence = SubSeq(words, a + 1, k)
    BY <1>1, <2>2, <2>3, JoinParts
  <2>9. next.packed \in Seq(Seq(T)) /\ \E e : Divides(e, next.packed, words, k, cfg)
    BY <1>3, <1>4, <2>1, <2>7, <2>8, DivideExtend DEF a
  <2>10. ASSUME cfg.split, Labelled(words)
         PROVE  next.speaker = Last(next.packed)[1].speaker
    <3>1. next.speaker = words[a + 1].speaker
      BY <2>1, <2>6, <2>10
    <3>2. SubSeq(words, a + 1, k)[1] = words[a + 1] /\ SubSeq(words, a + 1, k) \in Seq(T)
      BY <1>1, <2>2, <2>7, PartFacts DEF Fine
    <3>3. Last(next.packed) = SubSeq(words, a + 1, k)
      <4> DEFINE U == Seq(T)
                 x == SubSeq(words, a + 1, k)
      <4>1. ps \in Seq(U) /\ x \in U /\ ps # <<>> /\ next.packed = Append(Front(ps), x)
        BY <1>3, <2>1, <2>8, <3>2
      <4> HIDE DEF U, x, ps
      <4>2. /\ Append(Front(ps), x) \in Seq(U)
            /\ Len(Append(Front(ps), x)) = Len(ps) /\ Append(Front(ps), x)[Len(ps)] = x
        BY <4>1, ReplaceLast
      <4> QED
        BY <4>1, <4>2 DEF Last, x
    <3> QED
      BY <3>1, <3>2, <3>3
  <2> QED
    BY <2>9, <2>10 DEF PackedUpTo, next
<1> QED
  BY <1>7, <1>8

\* A set with 0 and the successor of each of its members below n has n.
LEMMA Climbs ==
  ASSUME NEW n \in Nat, NEW good, 0 \in good,
         \A k \in 1..n : k - 1 \in good => k \in good
  PROVE  \A k \in 0..n : k \in good
<1> DEFINE Bad == {k \in 0..n : k \notin good}
<1> SUFFICES ASSUME Bad # {} PROVE FALSE
  OBVIOUS
<1>1. Bad \subseteq Nat
  OBVIOUS
<1>2. PICK k \in Bad : \A j \in Bad : k <= j
  <2> HIDE DEF Bad
  <2> QED
    BY <1>1, LeastNatural
<1>3. k \in 0..n /\ k \notin good
  OBVIOUS
<1>4. k # 0
  BY <1>3
<1>5. k \in 1..n /\ k - 1 \in 0..n /\ ~ (k <= k - 1)
  BY <1>3, <1>4
<1>6. k - 1 \notin Bad
  <2> HIDE DEF Bad
  <2> QED
    BY <1>2, <1>5
<1>7. k - 1 \in good
  BY <1>5, <1>6
<1> QED
  BY <1>3, <1>5, <1>7

\* The last segment, with more words.
LEMMA JoinLast ==
  ASSUME NEW T, NEW ps \in Seq(Seq(T)), ps # <<>>, NEW p \in Seq(T)
  PROVE  Append(Front(ps), Last(ps) \o p) \in Seq(Seq(T)) /\ Last(ps) \in Seq(T)
<1> DEFINE U == Seq(T)
<1>1. ps \in Seq(U)
  OBVIOUS
<1>2. Last(ps) \in U
  <2> HIDE DEF U
  <2> QED
    BY <1>1 DEF Last
<1>3. Last(ps) \o p \in U
  BY <1>2
<1> HIDE DEF U
<1>4. Append(Front(ps), Last(ps) \o p) \in Seq(U)
  BY <1>1, <1>3, ReplaceLast
<1> QED
  BY <1>2, <1>4 DEF U

-----------------------------------------------------------------------------
(* Who speaks most, in two parts that meet. *)

\* How many words somebody says.
Times(ws, who) == Cardinality({j \in DOMAIN ws : ws[j].speaker = who})

\* Nobody says more than who speaks at i, or as much and begins before.
Leads(ws, i) ==
    /\ i \in DOMAIN ws /\ ws[i].speaker # NoSpeaker
    /\ \A j \in DOMAIN ws :
          j # i /\ ws[j].speaker # NoSpeaker =>
              \/ Times(ws, ws[i].speaker) > Times(ws, ws[j].speaker)
              \/ Times(ws, ws[i].speaker) = Times(ws, ws[j].speaker) /\ i < j

\* How often somebody speaks.
LEMMA TimesFacts ==
  ASSUME NEW T, NEW ws \in Seq(T), NEW who
  PROVE  /\ Times(ws, who) \in Nat
         /\ (\E j \in DOMAIN ws : ws[j].speaker = who) => Times(ws, who) > 0
         /\ (\A j \in DOMAIN ws : ws[j].speaker # who) => Times(ws, who) = 0
<1> DEFINE S == {j \in DOMAIN ws : ws[j].speaker = who}
<1>1. IsFiniteSet(DOMAIN ws)
  <2>1. DOMAIN ws = 1..Len(ws) /\ Len(ws) \in Nat
    OBVIOUS
  <2> QED
    BY <2>1, FS_Interval
<1>2. IsFiniteSet(S)
  BY <1>1, FS_Subset
<1>3. Times(ws, who) = Cardinality(S)
  BY DEF Times
<1>4. Cardinality(S) \in Nat /\ (Cardinality(S) = 0 <=> S = {})
  <2> HIDE DEF S
  <2> QED
    BY <1>2, FS_CardinalityType, FS_EmptySet
<1>5. (\E j \in DOMAIN ws : ws[j].speaker = who) => S # {}
  OBVIOUS
<1>6. (\A j \in DOMAIN ws : ws[j].speaker # who) => S = {}
  OBVIOUS
<1> HIDE DEF S
<1> QED
  BY <1>3, <1>4, <1>5, <1>6

\* _dominant_speaker, by Leads.
LEMMA DominantIs ==
  ASSUME NEW T, NEW ws \in Seq(T)
  PROVE  DominantSpeaker(ws) =
            IF \A j \in DOMAIN ws : ws[j].speaker = NoSpeaker THEN NoSpeaker
            ELSE ws[CHOOSE i \in {j \in DOMAIN ws : ws[j].speaker # NoSpeaker} : Leads(ws, i)].speaker
<1> DEFINE L == {i \in DOMAIN ws : ws[i].speaker # NoSpeaker}
           timesL(i) == Cardinality({j \in L : ws[j].speaker = ws[i].speaker})
           BestL(i) == \A j \in L \ {i} : timesL(i) > timesL(j) \/ (timesL(i) = timesL(j) /\ i < j)
<1>1. DominantSpeaker(ws) = IF L = {} THEN NoSpeaker ELSE ws[CHOOSE i \in L : BestL(i)].speaker
  BY DEF DominantSpeaker
<1>2. \A i \in L : {j \in L : ws[j].speaker = ws[i].speaker}
                     = {j \in DOMAIN ws : ws[j].speaker = ws[i].speaker}
  OBVIOUS
<1>3. \A i \in L : timesL(i) = Times(ws, ws[i].speaker)
  BY <1>2, Zenon DEF Times
<1> HIDE DEF timesL
<1>4. ASSUME NEW i \in L PROVE BestL(i) <=> Leads(ws, i)
  <2>1. i \in DOMAIN ws /\ ws[i].speaker # NoSpeaker
    OBVIOUS
  <2>2. \A j : j \in L \ {i} <=> j \in DOMAIN ws /\ j # i /\ ws[j].speaker # NoSpeaker
    OBVIOUS
  <2>3. \A j \in L \ {i} : timesL(j) = Times(ws, ws[j].speaker)
    BY <1>3
  <2>4. timesL(i) = Times(ws, ws[i].speaker)
    BY <1>3
  <2> HIDE DEF L
  <2> QED
    BY <2>1, <2>2, <2>3, <2>4 DEF Leads
<1> HIDE DEF BestL
<1>5. (CHOOSE i \in L : BestL(i)) = (CHOOSE i \in L : Leads(ws, i))
  <2> HIDE DEF L
  <2> QED
    BY <1>4
<1>6. L = {} <=> \A j \in DOMAIN ws : ws[j].speaker = NoSpeaker
  OBVIOUS
<1> QED
  BY <1>1, <1>5, <1>6

\* Only one leads.
LEMMA LeaderIsOne ==
  ASSUME NEW T, NEW ws \in Seq(T), NEW i, NEW j, Leads(ws, i), Leads(ws, j)
  PROVE  i = j
<1> SUFFICES ASSUME i # j PROVE FALSE
  OBVIOUS
<1> DEFINE x == Times(ws, ws[i].speaker)
           y == Times(ws, ws[j].speaker)
<1>1. x \in Nat /\ y \in Nat
  BY TimesFacts
<1>2. i \in Nat /\ j \in Nat
  BY DEF Leads
<1>3. (x > y \/ (x = y /\ i < j)) /\ (y > x \/ (y = x /\ j < i))
  BY DEF Leads
<1> HIDE DEF x, y
<1> QED
  BY <1>1, <1>2, <1>3

\* The leading place has the dominant speaker.
LEMMA LeaderIsDominant ==
  ASSUME NEW T, NEW ws \in Seq(T), NEW i, Leads(ws, i)
  PROVE  DominantSpeaker(ws) = ws[i].speaker
<1> DEFINE L == {j \in DOMAIN ws : ws[j].speaker # NoSpeaker}
           c == CHOOSE j \in L : Leads(ws, j)
<1>1. i \in L
  BY DEF Leads
<1>2. c \in L /\ Leads(ws, c)
  <2> HIDE DEF L
  <2> QED
    BY <1>1
<1>3. c = i
  <2> HIDE DEF c
  <2> QED
    BY <1>2, LeaderIsOne
<1>4. ~ \A j \in DOMAIN ws : ws[j].speaker = NoSpeaker
  BY <1>1
<1>5. DominantSpeaker(ws) = ws[c].speaker
  BY <1>4, DominantIs
<1> QED
  BY <1>3, <1>5

\* If anybody speaks, somebody leads.
LEMMA SomebodyLeads ==
  ASSUME NEW T, NEW ws \in Seq(T), \E j \in DOMAIN ws : ws[j].speaker # NoSpeaker
  PROVE  \E i : Leads(ws, i)
<1> DEFINE L == {j \in DOMAIN ws : ws[j].speaker # NoSpeaker}
           better(i, j) == \/ Times(ws, ws[i].speaker) > Times(ws, ws[j].speaker)
                           \/ Times(ws, ws[i].speaker) = Times(ws, ws[j].speaker) /\ i < j
           before == [j \in L |-> {i \in L : better(i, j)}]
<1>1. L # {}
  OBVIOUS
<1>2. IsFiniteSet(L) /\ L \subseteq Nat
  <2>1. DOMAIN ws = 1..Len(ws) /\ Len(ws) \in Nat
    OBVIOUS
  <2>2. IsFiniteSet(DOMAIN ws)
    BY <2>1, FS_Interval
  <2>3. L \subseteq DOMAIN ws
    OBVIOUS
  <2> QED
    BY <2>1, <2>2, <2>3, FS_Subset
<1> DEFINE size == [i \in L |-> Times(ws, ws[i].speaker)]
<1>3. \A i \in L : size[i] \in Nat
  BY TimesFacts
<1>4. \A i, j \in L : better(i, j) <=> size[i] > size[j] \/ (size[i] = size[j] /\ i < j)
  OBVIOUS
<1> HIDE DEF size, better
<1>5. Ordering(L, before)
  <2>1. \A j \in L : before[j] = {i \in L : better(i, j)}
    OBVIOUS
  <2>2. before \in [L -> SUBSET L]
    OBVIOUS
  <2> HIDE DEF before, L
  <2>3. ASSUME NEW i \in L PROVE i \notin before[i]
    <3>1. ~ better(i, i)
      BY <1>2, <1>3, <1>4
    <3> QED
      BY <2>1, <3>1
  <2>4. ASSUME NEW i \in L, NEW j \in L, j \in before[i] PROVE before[j] \subseteq before[i]
    <3>1. better(j, i)
      BY <2>1, <2>4
    <3>2. ASSUME NEW k \in L, better(k, j) PROVE better(k, i)
      BY <1>2, <1>3, <1>4, <3>1, <3>2
    <3> QED
      BY <2>1, <3>2
  <2>5. ASSUME NEW i \in L, NEW j \in L PROVE i = j \/ i \in before[j] \/ j \in before[i]
    <3>1. i = j \/ better(i, j) \/ better(j, i)
      BY <1>2, <1>3, <1>4
    <3> QED
      BY <2>1, <3>1
  <2> QED
    BY <2>2, <2>3, <2>4, <2>5 DEF Ordering
<1>6. Ranked(L, before)
  <2> HIDE DEF before, L
  <2> QED
    BY <1>2, <1>5, Ranks
<1>7. PICK i \in L : Cardinality(before[i]) = 0
  <2>1. Cardinality(L) \in Nat /\ Cardinality(L) # 0
    <3> HIDE DEF L
    <3> QED
      BY <1>1, <1>2, FS_CardinalityType, FS_EmptySet
  <2>2. 1 \in 1..Cardinality(L)
    BY <2>1
  <2> HIDE DEF before, L
  <2>3. \E i \in L : Cardinality(before[i]) = 1 - 1
    BY <1>6, <2>2 DEF Ranked
  <2> QED
    BY <2>3
<1>8. before[i] = {}
  <2>1. before[i] \subseteq L
    OBVIOUS
  <2> HIDE DEF before, L
  <2>2. IsFiniteSet(before[i])
    BY <1>2, <2>1, FS_Subset
  <2> QED
    BY <1>7, <2>2, FS_EmptySet
<1>9. ASSUME NEW j \in L, j # i PROVE better(i, j)
  <2>1. i \in before[j] \/ j \in before[i]
    <3> HIDE DEF before, L
    <3> QED
      BY <1>5, <1>9 DEF Ordering
  <2> QED
    BY <1>8, <2>1
<1> QED
  BY <1>9 DEF Leads, better

\* If nobody is dominant nobody speaks, and otherwise the dominant speaker leads.
LEMMA DominantLeads ==
  ASSUME NEW T, NEW ws \in Seq(T)
  PROVE  /\ DominantSpeaker(ws) = NoSpeaker => \A j \in DOMAIN ws : ws[j].speaker = NoSpeaker
         /\ DominantSpeaker(ws) # NoSpeaker =>
               \E i : Leads(ws, i) /\ ws[i].speaker = DominantSpeaker(ws)
<1>1. CASE \E j \in DOMAIN ws : ws[j].speaker # NoSpeaker
  <2>1. PICK i : Leads(ws, i)
    BY <1>1, SomebodyLeads
  <2>2. DominantSpeaker(ws) = ws[i].speaker
    BY <2>1, LeaderIsDominant
  <2>3. ws[i].speaker # NoSpeaker
    BY <2>1 DEF Leads
  <2> QED
    BY <2>1, <2>2, <2>3
<1>2. CASE \A j \in DOMAIN ws : ws[j].speaker = NoSpeaker
  <2>1. DominantSpeaker(ws) = NoSpeaker
    BY <1>2, DominantIs
  <2> QED
    BY <1>2, <2>1
<1> QED
  BY <1>1, <1>2

\* The places of two sequences in one.
LEMMA JoinPlaces ==
  ASSUME NEW T, NEW p \in Seq(T), NEW q \in Seq(T)
  PROVE  /\ p \o q \in Seq(T) /\ Len(p) \in Nat /\ Len(q) \in Nat
         /\ DOMAIN p = 1..Len(p) /\ DOMAIN q = 1..Len(q) /\ DOMAIN (p \o q) = 1..(Len(p) + Len(q))
         /\ \A i \in 1..Len(p) : (p \o q)[i] = p[i]
         /\ \A i \in 1..Len(q) : (p \o q)[Len(p) + i] = q[i]
         /\ \A i \in 1..(Len(p) + Len(q)) :
               i \in 1..Len(p) \/ (i - Len(p) \in 1..Len(q) /\ i = Len(p) + (i - Len(p)))
<1>1. /\ p \o q \in Seq(T) /\ Len(p) \in Nat /\ Len(q) \in Nat
      /\ DOMAIN p = 1..Len(p) /\ DOMAIN q = 1..Len(q) /\ Len(p \o q) = Len(p) + Len(q)
      /\ DOMAIN (p \o q) = 1..Len(p \o q)
  OBVIOUS
<1>2. \A i \in 1..Len(p) : (p \o q)[i] = p[i]
  OBVIOUS
<1>3. \A i \in 1..Len(q) : (p \o q)[Len(p) + i] = q[i]
  OBVIOUS
<1>4. \A i \in 1..(Len(p) + Len(q)) :
         i \in 1..Len(p) \/ (i - Len(p) \in 1..Len(q) /\ i = Len(p) + (i - Len(p)))
  BY <1>1
<1> QED
  BY <1>1, <1>2, <1>3, <1>4

\* What is counted in two parts adds up.
LEMMA TimesConcat ==
  ASSUME NEW T, NEW p \in Seq(T), NEW q \in Seq(T), NEW who
  PROVE  Times(p \o q, who) = Times(p, who) + Times(q, who)
<1> DEFINE r == p \o q
           m == Len(p)
           n == Len(q)
           A == {j \in 1..m : p[j].speaker = who}
           B == {j \in 1..n : q[j].speaker = who}
           C == {m + j : j \in B}
           R == {j \in 1..(m + n) : r[j].speaker = who}
<1>1. /\ m \in Nat /\ n \in Nat
      /\ DOMAIN p = 1..m /\ DOMAIN q = 1..n /\ DOMAIN r = 1..(m + n)
      /\ \A i \in 1..m : r[i] = p[i]
      /\ \A i \in 1..n : r[m + i] = q[i]
      /\ \A i \in 1..(m + n) : i \in 1..m \/ (i - m \in 1..n /\ i = m + (i - m))
  BY JoinPlaces
<1>2. Times(p, who) = Cardinality(A) /\ Times(q, who) = Cardinality(B) /\ Times(r, who) = Cardinality(R)
  BY <1>1, Zenon DEF Times
<1> HIDE DEF r, m, n
<1>3. R = A \union C
  <2>1. ASSUME NEW i \in R PROVE i \in A \union C
    <3>1. CASE i \in 1..m
      BY <1>1, <3>1
    <3>2. CASE i - m \in 1..n /\ i = m + (i - m)
      <4>1. r[i] = q[i - m]
        BY <1>1, <3>2
      <4>2. i - m \in B
        BY <3>2, <4>1
      <4> QED
        BY <3>2, <4>2
    <3> QED
      BY <1>1, <3>1, <3>2
  <2>2. ASSUME NEW i \in A PROVE i \in R
    BY <1>1
  <2>3. ASSUME NEW i \in B PROVE m + i \in R
    <3>1. m + i \in 1..(m + n) /\ r[m + i] = q[i]
      BY <1>1
    <3> QED
      BY <3>1
  <2> QED
    BY <2>1, <2>2, <2>3
<1>4. A \intersect C = {}
  BY <1>1
<1>5. IsFiniteSet(A) /\ IsFiniteSet(B)
  <2>1. IsFiniteSet(1..m) /\ IsFiniteSet(1..n)
    BY <1>1, FS_Interval
  <2>2. A \subseteq 1..m /\ B \subseteq 1..n
    OBVIOUS
  <2> QED
    BY <2>1, <2>2, FS_Subset
<1>6. IsFiniteSet(C) /\ Cardinality(C) = Cardinality(B)
  <2> DEFINE f == [j \in B |-> m + j]
  <2>1. B \subseteq Nat
    BY <1>1
  <2>2. f \in Bijection(B, C)
    <3>1. f \in [B -> C]
      OBVIOUS
    <3>2. \A i, j \in B : f[i] = f[j] => i = j
      BY <1>1, <2>1
    <3>3. \A c \in C : \E i \in B : f[i] = c
      OBVIOUS
    <3> HIDE DEF f, C, B
    <3> QED
      BY <3>1, <3>2, <3>3, Fun_IsBij
  <2>3. ExistsBijection(B, C)
    BY <2>2 DEF ExistsBijection
  <2> HIDE DEF B, C
  <2> QED
    BY <1>5, <2>3, FS_Bijection
<1>7. Cardinality(R) = Cardinality(A) + Cardinality(B)
  <2> HIDE DEF A, B, C, R
  <2>1. Cardinality(A \union C) = Cardinality(A) + Cardinality(C) - Cardinality(A \intersect C)
    BY <1>5, <1>6, FS_Union
  <2>2. Cardinality(A) \in Nat /\ Cardinality(B) \in Nat
    BY <1>5, FS_CardinalityType
  <2>3. Cardinality(A \intersect C) = 0
    BY <1>4, FS_EmptySet
  <2>4. Cardinality(R) = Cardinality(A) + Cardinality(B) - 0
    BY <1>3, <1>6, <2>1, <2>3, Zenon
  <2> QED
    BY <2>2, <2>4
<1> QED
  BY <1>2, <1>7 DEF r

\* The dominant speaker of two parts, of which one is silent or that agree.
LEMMA DominantOfFirst ==
  ASSUME NEW T, NEW p \in Seq(T), NEW q \in Seq(T), DominantSpeaker(p) # NoSpeaker,
         DominantSpeaker(q) \in {NoSpeaker, DominantSpeaker(p)}
  PROVE  DominantSpeaker(p \o q) = DominantSpeaker(p)
<1> DEFINE r == p \o q
           m == Len(p)
           n == Len(q)
           who == DominantSpeaker(p)
<1>1. PICK i : Leads(p, i) /\ p[i].speaker = who
  BY DominantLeads
<1>3. /\ r \in Seq(T) /\ m \in Nat /\ n \in Nat
      /\ DOMAIN p = 1..m /\ DOMAIN q = 1..n /\ DOMAIN r = 1..(m + n)
      /\ \A k \in 1..m : r[k] = p[k]
      /\ \A k \in 1..n : r[m + k] = q[k]
      /\ \A k \in 1..(m + n) : k \in 1..m \/ (k - m \in 1..n /\ k = m + (k - m))
  BY JoinPlaces
<1>4. \A x : Times(r, x) = Times(p, x) + Times(q, x) /\ Times(p, x) \in Nat /\ Times(q, x) \in Nat
  <2>1. ASSUME NEW x PROVE Times(r, x) = Times(p, x) + Times(q, x)
    BY TimesConcat
  <2>2. ASSUME NEW x PROVE Times(p, x) \in Nat
    BY TimesFacts
  <2>3. ASSUME NEW x PROVE Times(q, x) \in Nat
    BY TimesFacts
  <2> QED
    BY <2>1, <2>2, <2>3
<1>5. ASSUME NEW x, x # NoSpeaker PROVE Times(q, who) >= Times(q, x)
  <2>1. CASE DominantSpeaker(q) = NoSpeaker
    <3>1. \A j \in DOMAIN q : q[j].speaker # x
      BY <1>5, <2>1, DominantLeads
    <3>2. Times(q, x) = 0
      BY <3>1, TimesFacts
    <3> QED
      BY <1>4, <3>2
  <2>2. CASE DominantSpeaker(q) = who
    <3>1. PICK j : Leads(q, j) /\ q[j].speaker = who
      BY <2>2, DominantLeads
    <3>2. CASE \E k \in DOMAIN q : q[k].speaker = x
      <4>1. PICK k \in DOMAIN q : q[k].speaker = x
        BY <3>2
      <4>2. k = j \/ Times(q, who) > Times(q, x) \/ Times(q, who) = Times(q, x)
        BY <1>5, <3>1, <4>1 DEF Leads
      <4>3. k = j => x = who
        BY <3>1, <4>1
      <4> HIDE DEF who
      <4> QED
        BY <1>4, <4>2, <4>3
    <3>3. CASE \A k \in DOMAIN q : q[k].speaker # x
      <4>1. Times(q, x) = 0
        BY <3>3, TimesFacts
      <4> QED
        BY <1>4, <4>1
    <3> QED
      BY <3>2, <3>3
  <2> QED
    BY <2>1, <2>2
<1>6. i \in 1..m /\ i \in 1..(m + n) /\ r[i] = p[i] /\ p[i].speaker = who /\ who # NoSpeaker
  BY <1>1, <1>3 DEF Leads
<1>7. ASSUME NEW j \in 1..(m + n), j # i, r[j].speaker # NoSpeaker
      PROVE  \/ Times(r, who) > Times(r, r[j].speaker)
             \/ Times(r, who) = Times(r, r[j].speaker) /\ i < j
  <2> DEFINE x == r[j].speaker
  <2>1. x # NoSpeaker /\ Times(q, who) >= Times(q, x)
    BY <1>5, <1>7
  <2>2. CASE \E k \in 1..m : p[k].speaker = x
    <3>1. PICK k \in 1..m : p[k].speaker = x /\ (j \in 1..m => k = j)
      <4>1. CASE j \in 1..m
        BY <1>3, <4>1
      <4>2. CASE j \notin 1..m
        BY <2>2, <4>2
      <4> QED
        BY <4>1, <4>2
    <3>2. CASE k = i
      <4>1. x = who /\ j \notin 1..m
        BY <1>6, <1>7, <3>1, <3>2
      <4>2. i < j
        BY <1>3, <1>6, <4>1
      <4> QED
        BY <4>1, <4>2
    <3>3. CASE k # i
      <4>1. Times(p, who) > Times(p, x) \/ (Times(p, who) = Times(p, x) /\ i < k)
        BY <1>1, <1>3, <2>1, <3>1, <3>3 DEF Leads
      <4>2. Times(p, who) > Times(p, x) \/ (Times(p, who) = Times(p, x) /\ i < j)
        <5>1. j \notin 1..m => i < j
          BY <1>3, <1>6
        <5> QED
          BY <3>1, <4>1, <5>1
      <4> HIDE DEF who, x, r
      <4>3. /\ Times(r, who) = Times(p, who) + Times(q, who) /\ Times(r, x) = Times(p, x) + Times(q, x)
            /\ Times(p, who) \in Nat /\ Times(q, who) \in Nat /\ Times(p, x) \in Nat /\ Times(q, x) \in Nat
        BY <1>4
      <4>4. \/ Times(r, who) > Times(r, x)
            \/ Times(r, who) = Times(r, x) /\ i < j
        BY <2>1, <4>2, <4>3
      <4> QED
        BY <4>4 DEF x
    <3> QED
      BY <3>2, <3>3
  <2>3. CASE \A k \in 1..m : p[k].speaker # x
    <3>1. Times(p, x) = 0
      BY <1>3, <2>3, TimesFacts
    <3>2. Times(p, who) > 0
      BY <1>3, <1>6, TimesFacts
    <3> HIDE DEF who, x, r
    <3>3. /\ Times(r, who) = Times(p, who) + Times(q, who) /\ Times(r, x) = Times(p, x) + Times(q, x)
          /\ Times(p, who) \in Nat /\ Times(q, who) \in Nat /\ Times(p, x) \in Nat /\ Times(q, x) \in Nat
      BY <1>4
    <3>4. Times(r, who) > Times(r, x)
      BY <2>1, <3>1, <3>2, <3>3
    <3> QED
      BY <3>4 DEF x
  <2> QED
    BY <2>2, <2>3
<1>8. Leads(r, i)
  <2> HIDE DEF r, who
  <2> QED
    BY <1>3, <1>6, <1>7 DEF Leads
<1>9. DominantSpeaker(r) = r[i].speaker
  <2> HIDE DEF r
  <2> QED
    BY <1>3, <1>8, LeaderIsDominant
<1> QED
  BY <1>6, <1>9

\* A part without speakers does not change who speaks most.
LEMMA DominantOfSecond ==
  ASSUME NEW T, NEW p \in Seq(T), NEW q \in Seq(T), DominantSpeaker(p) = NoSpeaker
  PROVE  DominantSpeaker(p \o q) = DominantSpeaker(q)
<1> DEFINE r == p \o q
           m == Len(p)
           n == Len(q)
<1>1. /\ r \in Seq(T) /\ m \in Nat /\ n \in Nat
      /\ DOMAIN p = 1..m /\ DOMAIN q = 1..n /\ DOMAIN r = 1..(m + n)
      /\ \A k \in 1..m : r[k] = p[k]
      /\ \A k \in 1..n : r[m + k] = q[k]
      /\ \A k \in 1..(m + n) : k \in 1..m \/ (k - m \in 1..n /\ k = m + (k - m))
  BY JoinPlaces
<1>2. \A k \in 1..m : p[k].speaker = NoSpeaker
  BY <1>1, DominantLeads
<1>3. CASE DominantSpeaker(q) = NoSpeaker
  <2>1. \A k \in 1..n : q[k].speaker = NoSpeaker
    BY <1>1, <1>3, DominantLeads
  <2> HIDE DEF r, m, n
  <2>2. ASSUME NEW k \in 1..(m + n) PROVE r[k].speaker = NoSpeaker
    <3>1. CASE k \in 1..m
      BY <1>1, <1>2, <3>1
    <3>2. CASE k - m \in 1..n /\ k = m + (k - m)
      <4>1. r[m + (k - m)] = q[k - m] /\ q[k - m].speaker = NoSpeaker
        BY <1>1, <2>1, <3>2
      <4> QED
        BY <3>2, <4>1
    <3> QED
      BY <1>1, <3>1, <3>2
  <2>3. DominantSpeaker(r) = NoSpeaker
    BY <1>1, <2>2, DominantIs
  <2> QED
    BY <1>3, <2>3 DEF r
<1>4. CASE DominantSpeaker(q) # NoSpeaker
  <2>1. PICK i : Leads(q, i) /\ q[i].speaker = DominantSpeaker(q)
    BY <1>4, DominantLeads
  <2>2. i \in 1..n /\ q[i].speaker # NoSpeaker
    BY <1>1, <2>1 DEF Leads
  <2>3. ASSUME NEW x, x # NoSpeaker PROVE Times(r, x) = Times(q, x)
    <3>1. \A k \in DOMAIN p : p[k].speaker # x
      BY <1>1, <1>2, <2>3
    <3>2. Times(p, x) = 0
      BY <3>1, TimesFacts
    <3>3. Times(q, x) \in Nat
      BY TimesFacts
    <3>4. Times(r, x) = Times(p, x) + Times(q, x)
      BY TimesConcat
    <3> QED
      BY <3>2, <3>3, <3>4
  <2> HIDE DEF r, m, n
  <2>4. m + i \in 1..(m + n) /\ r[m + i] = q[i]
    BY <1>1, <2>2
  <2>5. ASSUME NEW j \in 1..(m + n), j # m + i, r[j].speaker # NoSpeaker
        PROVE  \/ Times(r, q[i].speaker) > Times(r, r[j].speaker)
               \/ Times(r, q[i].speaker) = Times(r, r[j].speaker) /\ m + i < j
    <3>1. j \notin 1..m
      BY <1>1, <1>2, <2>5
    <3>2. j - m \in 1..n /\ j = m + (j - m)
      BY <1>1, <3>1
    <3>3. r[j] = q[j - m] /\ j - m # i
      BY <1>1, <2>5, <3>2
    <3> DEFINE x == q[i].speaker
               y == q[j - m].speaker
    <3>4. Times(q, x) > Times(q, y) \/ (Times(q, x) = Times(q, y) /\ i < j - m)
      BY <1>1, <2>1, <2>5, <3>2, <3>3 DEF Leads
    <3>5. Times(r, x) = Times(q, x) /\ Times(r, y) = Times(q, y)
      BY <2>2, <2>3, <2>5, <3>3
    <3>6. i < j - m => m + i < j
      BY <1>1, <2>2
    <3> QED
      BY <3>3, <3>4, <3>5, <3>6
  <2>6. Leads(r, m + i)
    BY <1>1, <2>2, <2>4, <2>5 DEF Leads
  <2>7. DominantSpeaker(r) = r[m + i].speaker
    BY <1>1, <2>6, LeaderIsDominant
  <2> QED
    BY <2>1, <2>4, <2>7 DEF r
<1> QED
  BY <1>3, <1>4

-----------------------------------------------------------------------------
(* Why two segments are not one. *)

\* Why words a + 1 to b and words b + 1 to c are not one segment: the first
\* sentence of the second would make the first too long, or their speakers differ.
Reason(words, cfg, a, b, c) ==
    \/ \E k \in (b + 1)..c :
          IsSentence(words, cfg, b, k) /\ words[k].end - words[a + 1].start > cfg.max
    \/ /\ cfg.split
       /\ DominantSpeaker(SubSeq(words, a + 1, b)) # NoSpeaker
       /\ DominantSpeaker(SubSeq(words, b + 1, c)) # NoSpeaker
       /\ DominantSpeaker(SubSeq(words, a + 1, b)) # DominantSpeaker(SubSeq(words, b + 1, c))

Apart(ends, n, words, cfg) ==
    \A i \in 1..(n - 1) : Reason(words, cfg, ends[i - 1], ends[i], ends[i + 1])

\* x and y agree from low to high.
Alike(x, y, low, high) == \A i \in low..high : x[i] = y[i]

\* Equal pieces are cut at equal places.
LEMMA DividesAlike ==
  ASSUME NEW T, NEW words \in Seq(T), NEW cfg, NEW e, NEW ps, NEW m, Divides(e, ps, words, m, cfg),
         NEW f, NEW qs, NEW k, Divides(f, qs, words, k, cfg), Len(ps) \in Nat, Len(qs) \in Nat,
         NEW n \in Nat, n <= Len(ps), n <= Len(qs), Alike(ps, qs, 1, n)
  PROVE  Alike(e, f, 0, n)
<1> DEFINE good == {i \in 0..n : e[i] = f[i]}
<1>1. 0 \in good
  <2>1. e[0] = 0 /\ f[0] = 0
    BY DEF Divides
  <2> QED
    BY <2>1
<1>2. ASSUME NEW i \in 1..n, i - 1 \in good PROVE i \in good
  <2>1. i \in 1..Len(ps) /\ i \in 1..Len(qs) /\ e[i - 1] = f[i - 1] /\ i \in 0..n /\ ps[i] = qs[i]
    BY <1>2 DEF Alike
  <2>2. Fine(words, cfg, e[i - 1], e[i]) /\ ps[i] = SubSeq(words, e[i - 1] + 1, e[i])
    BY <2>1 DEF Divides
  <2>3. Fine(words, cfg, f[i - 1], f[i]) /\ qs[i] = SubSeq(words, f[i - 1] + 1, f[i])
    BY <2>1 DEF Divides
  <2> DEFINE a == e[i - 1]
             b == e[i]
             c == f[i]
  <2>4. Fine(words, cfg, a, b) /\ Fine(words, cfg, a, c) /\ SubSeq(words, a + 1, b) = SubSeq(words, a + 1, c)
    BY <2>1, <2>2, <2>3
  <2> HIDE DEF a, b, c
  <2>5. a \in Nat /\ b \in 1..Len(words) /\ c \in 1..Len(words) /\ a < b /\ a < c /\ Len(words) \in Nat
    BY <2>4 DEF Fine
  <2>6. Len(SubSeq(words, a + 1, b)) = b - a
    BY <2>5, PartFacts
  <2>7. Len(SubSeq(words, a + 1, c)) = c - a
    BY <2>5, PartFacts
  <2>8. b = c
    BY <2>4, <2>5, <2>6, <2>7
  <2> QED
    BY <2>1, <2>8 DEF b, c
<1> HIDE DEF good
<1>3. \A i \in 0..n : i \in good
  BY <1>1, <1>2, Climbs
<1> QED
  BY <1>3 DEF good, Alike

\* What _pack_sentences has packed is apart, and it knows who speaks in the
\* segment it is at.
ApartUpTo(state, words, cfg, n) ==
    /\ \A ends : Divides(ends, state.packed, words, n, cfg) =>
                    Apart(ends, Len(state.packed), words, cfg)
    /\ cfg.split /\ state.packed # <<>> => state.speaker = DominantSpeaker(Last(state.packed))

\* A segment with one more sentence is where it was.
LEMMA ReasonStays ==
  ASSUME NEW T, NEW words \in Seq(T), NEW cfg, NEW a \in Nat, NEW b \in Nat, NEW m \in Nat,
         NEW k \in 1..Len(words), a < b, b < m, m < k, Reason(words, cfg, a, b, m),
         LET x == DominantSpeaker(SubSeq(words, b + 1, m))
             y == DominantSpeaker(SubSeq(words, m + 1, k))
         IN  cfg.split => x = NoSpeaker \/ y \in {NoSpeaker, x}
  PROVE  Reason(words, cfg, a, b, k)
<1> DEFINE p == SubSeq(words, b + 1, m)
           q == SubSeq(words, m + 1, k)
<1>1. Len(words) \in Nat /\ k \in Nat /\ m \in 1..Len(words)
  <2>1. Len(words) \in Nat
    OBVIOUS
  <2> QED
    BY <2>1
<1>2. p \in Seq(T) /\ q \in Seq(T)
  <2>1. p \in Seq(T)
    BY <1>1, PartFacts
  <2>2. q \in Seq(T)
    BY PartFacts
  <2> QED
    BY <2>1, <2>2
<1>3. p \o q = SubSeq(words, b + 1, k)
  BY JoinParts
<1>4. CASE \E i \in (b + 1)..m :
             IsSentence(words, cfg, b, i) /\ words[i].end - words[a + 1].start > cfg.max
  <2>1. PICK i \in (b + 1)..m :
             IsSentence(words, cfg, b, i) /\ words[i].end - words[a + 1].start > cfg.max
    BY <1>4
  <2>2. i \in (b + 1)..k
    BY <1>1
  <2> QED
    BY <2>1, <2>2 DEF Reason
<1>5. CASE /\ cfg.split
           /\ DominantSpeaker(SubSeq(words, a + 1, b)) # NoSpeaker
           /\ DominantSpeaker(p) # NoSpeaker
           /\ DominantSpeaker(SubSeq(words, a + 1, b)) # DominantSpeaker(p)
  <2>1. DominantSpeaker(q) \in {NoSpeaker, DominantSpeaker(p)}
    BY <1>5
  <2>2. DominantSpeaker(p \o q) = DominantSpeaker(p)
    <3> HIDE DEF p, q
    <3> QED
      BY <1>2, <1>5, <2>1, DominantOfFirst
  <2>3. DominantSpeaker(SubSeq(words, b + 1, k)) = DominantSpeaker(p)
    BY <1>3, <2>2
  <2> HIDE DEF p
  <2> QED
    BY <1>5, <2>3 DEF Reason
<1> QED
  BY <1>4, <1>5 DEF Reason

\* One more piece, apart from the last.
LEMMA ApartAppend ==
  ASSUME NEW T, NEW words \in Seq(T), NEW cfg, NEW ps \in Seq(Seq(T)), NEW ends, NEW m,
         Divides(ends, ps, words, m, cfg), Apart(ends, Len(ps), words, cfg),
         NEW p \in Seq(T), NEW f, NEW k, Divides(f, Append(ps, p), words, k, cfg),
         ps # <<>> => Reason(words, cfg, ends[Len(ps) - 1], m, k)
  PROVE  /\ Apart(f, Len(ps) + 1, words, cfg)
         /\ f[Len(ps)] = m /\ f[Len(ps) + 1] = k /\ Len(Append(ps, p)) = Len(ps) + 1
<1> DEFINE n == Len(ps)
           qs == Append(ps, p)
<1>1. /\ n \in Nat /\ (ps # <<>> <=> n # 0) /\ Len(qs) = n + 1 /\ \A i \in 1..n : ps[i] = qs[i]
  <2> DEFINE U == Seq(T)
  <2>1. ps \in Seq(U) /\ p \in U
    OBVIOUS
  <2> HIDE DEF U
  <2> QED
    BY <2>1
<1>2. ends[n] = m /\ f[Len(qs)] = k
  BY DEF Divides
<1> HIDE DEF qs
<1>3. \A i \in 0..n : ends[i] = f[i]
  <2> DEFINE l == n
  <2>1. l \in Nat /\ l <= Len(ps) /\ l <= Len(qs) /\ Len(ps) \in Nat /\ Len(qs) \in Nat
    BY <1>1
  <2>2. Alike(ps, qs, 1, l)
    BY <1>1 DEF Alike
  <2>3. Divides(f, qs, words, k, cfg) /\ Divides(ends, ps, words, m, cfg) /\ words \in Seq(T)
    BY DEF qs
  <2> HIDE DEF l
  <2>4. Alike(ends, f, 0, l)
    BY <2>1, <2>2, <2>3, DividesAlike, Zenon
  <2> QED
    BY <2>4 DEF l, Alike
<1>4. f[n] = m /\ f[n + 1] = k
  BY <1>1, <1>2, <1>3
<1>5. ASSUME NEW i \in 1..n PROVE Reason(words, cfg, f[i - 1], f[i], f[i + 1])
  <2> HIDE DEF n
  <2>1. /\ i - 1 \in 0..n /\ i \in 0..n
        /\ i = n \/ (i \in 1..(n - 1) /\ i + 1 \in 0..n)
    BY <1>1
  <2>2. f[i - 1] = ends[i - 1] /\ f[i] = ends[i]
    BY <1>3, <2>1
  <2>3. CASE i \in 1..(n - 1) /\ i + 1 \in 0..n
    <3>1. f[i + 1] = ends[i + 1]
      BY <1>3, <2>3
    <3>2. Reason(words, cfg, ends[i - 1], ends[i], ends[i + 1])
      BY <2>3 DEF Apart, n
    <3> QED
      BY <2>2, <3>1, <3>2
  <2>4. CASE i = n
    <3>1. Reason(words, cfg, ends[n - 1], m, k)
      BY <1>1, <2>1, <2>4 DEF n
    <3> QED
      BY <1>4, <2>2, <2>4, <3>1
  <2> QED
    BY <2>1, <2>3, <2>4
<1>6. (n + 1) - 1 = n
  BY <1>1
<1> QED
  BY <1>1, <1>4, <1>5, <1>6 DEF Apart, qs

\* A longer last piece, apart from the one before.
LEMMA ApartExtend ==
  ASSUME NEW T, NEW words \in Seq(T), NEW cfg, NEW ps \in Seq(Seq(T)), ps # <<>>, NEW ends, NEW m,
         Divides(ends, ps, words, m, cfg), Apart(ends, Len(ps), words, cfg),
         NEW p \in Seq(T), NEW f, NEW k, Divides(f, Append(Front(ps), p), words, k, cfg),
         \A b \in Nat : b < ends[Len(ps) - 1] /\ Reason(words, cfg, b, ends[Len(ps) - 1], m)
                          => Reason(words, cfg, b, ends[Len(ps) - 1], k)
  PROVE  /\ Apart(f, Len(ps), words, cfg)
         /\ f[Len(ps) - 1] = ends[Len(ps) - 1] /\ f[Len(ps)] = k
         /\ Len(Append(Front(ps), p)) = Len(ps)
<1> DEFINE n == Len(ps)
           qs == Append(Front(ps), p)
           a == ends[n - 1]
<1>1. /\ n \in Nat /\ n # 0 /\ Len(qs) = n /\ \A i \in 1..(n - 1) : ps[i] = qs[i]
  <2> DEFINE U == Seq(T)
  <2>1. ps \in Seq(U) /\ p \in U /\ ps # <<>>
    OBVIOUS
  <2> HIDE DEF U
  <2>2. /\ Append(Front(ps), p) \in Seq(U)
        /\ Len(Append(Front(ps), p)) = Len(ps)
        /\ \A i \in 1..(Len(ps) - 1) : Append(Front(ps), p)[i] = ps[i]
    BY <2>1, ReplaceLast
  <2>3. Len(ps) \in Nat /\ Len(ps) # 0
    BY <2>1
  <2> QED
    BY <2>2, <2>3
<1>2. ends[n] = m /\ f[Len(qs)] = k
  BY DEF Divides
<1> HIDE DEF qs
<1>3. \A i \in 0..(n - 1) : ends[i] = f[i]
  <2> DEFINE l == n - 1
  <2>1. l \in Nat /\ l <= Len(ps) /\ l <= Len(qs) /\ Len(ps) \in Nat /\ Len(qs) \in Nat
    BY <1>1
  <2>2. Alike(ps, qs, 1, l)
    BY <1>1 DEF Alike
  <2>3. Divides(f, qs, words, k, cfg) /\ Divides(ends, ps, words, m, cfg) /\ words \in Seq(T)
    BY DEF qs
  <2> HIDE DEF l
  <2>4. Alike(ends, f, 0, l)
    BY <2>1, <2>2, <2>3, DividesAlike, Zenon
  <2> QED
    BY <2>4 DEF l, Alike
<1>4. f[n - 1] = a /\ f[n] = k
  BY <1>1, <1>2, <1>3
<1>5. ASSUME NEW i \in 1..(n - 1) PROVE Reason(words, cfg, f[i - 1], f[i], f[i + 1])
  <2>0. Fine(words, cfg, ends[i - 1], ends[i])
    <3>1. i \in 1..Len(ps)
      BY <1>1
    <3> QED
      BY <3>1 DEF Divides
  <2>00. Reason(words, cfg, ends[i - 1], ends[i], ends[i + 1])
    BY DEF Apart
  <2> HIDE DEF n
  <2>1. /\ i - 1 \in 0..(n - 1) /\ i \in 0..(n - 1)
        /\ (i + 1 = n /\ i = n - 1) \/ i + 1 \in 0..(n - 1)
    BY <1>1
  <2>2. f[i - 1] = ends[i - 1] /\ f[i] = ends[i]
    BY <1>3, <2>1
  <2>3. CASE i + 1 \in 0..(n - 1)
    <3>1. f[i + 1] = ends[i + 1]
      BY <1>3, <2>3
    <3> QED
      BY <2>00, <2>2, <3>1
  <2>4. CASE i + 1 = n /\ i = n - 1
    <3> DEFINE b == ends[i - 1]
    <3>1. ends[i] = a /\ ends[i + 1] = m /\ f[i + 1] = k
      BY <1>2, <1>4, <2>4
    <3>2. b \in Nat /\ b < a /\ Reason(words, cfg, b, a, m)
      BY <2>0, <2>00, <3>1 DEF Fine
    <3>3. Reason(words, cfg, b, a, k)
      <4> HIDE DEF b
      <4> QED
        BY <3>2 DEF n
    <3> QED
      BY <2>2, <3>1, <3>3
  <2> QED
    BY <2>1, <2>3, <2>4
<1> QED
  BY <1>1, <1>4, <1>5 DEF Apart, qs

\* One turn of the loop of _pack_sentences keeps the segments apart.
LEMMA PackApart ==
  ASSUME NEW T, Timed(T), NEW words \in Seq(T), NEW cfg, cfg.max \in Int,
         NEW state, NEW m, PackedUpTo(state, T, words, cfg, m), ApartUpTo(state, words, cfg, m),
         NEW k, IsSentence(words, cfg, m, k)
  PROVE  ApartUpTo(PackSentence(state, SubSeq(words, m + 1, k), cfg), words, cfg, k)
<1> DEFINE sentence == SubSeq(words, m + 1, k)
           ps == state.packed
           n == Len(ps)
           speaker == DominantSpeaker(sentence)
           current == Last(ps)
           long == Last(sentence).end - current[1].start > cfg.max
           changed == /\ cfg.split
                      /\ NoSpeaker \notin {state.speaker, speaker}
                      /\ speaker # state.speaker
           next == PackSentence(state, sentence, cfg)
<1>1. /\ m \in Nat /\ k \in 1..Len(words) /\ m < k /\ Len(words) \in Nat /\ k \in Nat
  <2>1. Len(words) \in Nat
    OBVIOUS
  <2> QED
    BY <2>1 DEF IsSentence
<1>2. /\ sentence \in Seq(T) /\ Last(sentence) = words[k]
  <2>1. sentence \in Seq(T)
    BY <1>1, PartFacts
  <2>2. Last(sentence) = words[k]
    BY <1>1, PartFacts
  <2> QED
    BY <2>1, <2>2
<1>3. ps \in Seq(Seq(T))
  BY DEF PackedUpTo
<1>4. PICK ends : Divides(ends, ps, words, m, cfg)
  BY DEF PackedUpTo
<1>5. Apart(ends, n, words, cfg) /\ (cfg.split /\ ps # <<>> => state.speaker = DominantSpeaker(current))
  BY <1>4 DEF ApartUpTo
<1>6. next = IF ps = <<>> \/ long \/ changed
             THEN [packed |-> Append(ps, sentence), speaker |-> speaker]
             ELSE [packed |-> Append(Front(ps), current \o sentence),
                   speaker |-> IF state.speaker = NoSpeaker THEN speaker ELSE state.speaker]
  BY DEF PackSentence
<1>7. n \in Nat /\ (ps # <<>> <=> n # 0)
  <2> DEFINE U == Seq(T)
  <2>1. ps \in Seq(U)
    BY <1>3
  <2> HIDE DEF U, ps
  <2> QED
    BY <2>1
<1> DEFINE a == ends[n - 1]
<1>8. ASSUME ps # <<>>
      PROVE  /\ a \in Nat /\ Fine(words, cfg, a, m) /\ a < m /\ m \in 1..Len(words)
             /\ current = SubSeq(words, a + 1, m) /\ current \in Seq(T)
             /\ current[1] = words[a + 1]
  <2>1. n \in Nat /\ n # 0
    BY <1>7, <1>8
  <2>2. /\ a \in Nat /\ Fine(words, cfg, a, m) /\ current = SubSeq(words, a + 1, m)
    <3> HIDE DEF ps, a
    <3>1. ends[Len(ps) - 1] \in Nat
      BY <1>4, <2>1, DivideLast
    <3>2. Fine(words, cfg, ends[Len(ps) - 1], m)
      BY <1>4, <2>1, DivideLast
    <3>3. Last(ps) = SubSeq(words, ends[Len(ps) - 1] + 1, m)
      BY <1>4, <2>1, DivideLast
    <3> QED
      BY <3>1, <3>2, <3>3 DEF a
  <2> HIDE DEF a, ps
  <2>3. a < m /\ m \in 1..Len(words)
    BY <2>2 DEF Fine
  <2>4. SubSeq(words, a + 1, m) \in Seq(T)
    BY <2>2, <2>3, PartFacts
  <2>5. SubSeq(words, a + 1, m)[1] = words[a + 1]
    BY <2>2, <2>3, PartFacts
  <2> QED
    BY <2>2, <2>3, <2>4, <2>5
<1> HIDE DEF next, speaker, a
<1>9. CASE ps = <<>> \/ long \/ changed
  <2> DEFINE qs == Append(ps, sentence)
  <2>1. next.packed = qs /\ next.speaker = speaker
    BY <1>6, <1>9
  <2>2. Len(qs) = n + 1 /\ Last(qs) = sentence
    <3> DEFINE U == Seq(T)
    <3>1. ps \in Seq(U) /\ sentence \in U
      BY <1>2, <1>3
    <3> HIDE DEF U, ps, sentence
    <3> QED
      BY <3>1 DEF Last
  <2>2a. ASSUME ps # <<>> PROVE Reason(words, cfg, a, m, k)
    <3>1. current = SubSeq(words, a + 1, m) /\ current[1] = words[a + 1]
      BY <1>8, <2>2a
    <3>2. CASE long
      <4>1. words[k].end - words[a + 1].start > cfg.max
        BY <1>2, <3>1, <3>2
      <4>2. k \in (m + 1)..k
        BY <1>1
      <4> QED
        BY <4>1, <4>2 DEF Reason
    <3>3. CASE changed
      <4>1. cfg.split /\ state.speaker = DominantSpeaker(current)
        BY <1>5, <2>2a, <3>3
      <4>2. /\ DominantSpeaker(SubSeq(words, a + 1, m)) = state.speaker
            /\ DominantSpeaker(SubSeq(words, m + 1, k)) = speaker
        BY <3>1, <4>1 DEF speaker
      <4>3. state.speaker # NoSpeaker /\ speaker # NoSpeaker /\ speaker # state.speaker
        BY <3>3
      <4> QED
        BY <4>1, <4>2, <4>3 DEF Reason
    <3> QED
      BY <1>9, <2>2a, <3>2, <3>3
  <2> HIDE DEF qs, sentence, ps
  <2>3. ASSUME NEW f, Divides(f, qs, words, k, cfg)
        PROVE  Apart(f, Len(qs), words, cfg)
    <3>1. ps # <<>> => Reason(words, cfg, ends[Len(ps) - 1], m, k)
      BY <2>2a DEF a
    <3>2. Apart(f, Len(ps) + 1, words, cfg)
      BY <1>2, <1>3, <1>4, <1>5, <2>3, <3>1, ApartAppend DEF qs
    <3> QED
      BY <2>2, <3>2
  <2>4. next.speaker = DominantSpeaker(Last(next.packed))
    BY <2>1, <2>2 DEF speaker
  <2> QED
    BY <2>1, <2>3, <2>4 DEF ApartUpTo, next, sentence
<1>10. CASE ~ (ps = <<>> \/ long \/ changed)
  <2> DEFINE p == SubSeq(words, a + 1, k)
             qs == Append(Front(ps), p)
  <2>1. ps # <<>> /\ ~ changed
    BY <1>10
  <2>2. /\ a \in Nat /\ a < m /\ m \in 1..Len(words)
        /\ current = SubSeq(words, a + 1, m) /\ current \in Seq(T)
    BY <1>8, <2>1
  <2>3. current \o sentence = p /\ p \in Seq(T)
    <3>1. a <= m /\ a < k
      BY <1>1, <2>2
    <3>2. SubSeq(words, a + 1, m) \o SubSeq(words, m + 1, k) = SubSeq(words, a + 1, k)
      BY <1>1, <2>2, <3>1, JoinParts
    <3>3. SubSeq(words, a + 1, k) \in Seq(T)
      BY <1>1, <2>2, <3>1, PartFacts
    <3> QED
      BY <2>2, <3>2, <3>3
  <2>4. /\ next.packed = qs
        /\ next.speaker = IF state.speaker = NoSpeaker THEN speaker ELSE state.speaker
    BY <1>6, <1>10, <2>3
  <2>5. Len(qs) = n /\ Last(qs) = p
    <3> DEFINE U == Seq(T)
    <3>1. ps \in Seq(U) /\ p \in U /\ ps # <<>>
      BY <1>3, <2>1, <2>3
    <3> HIDE DEF U, ps, p
    <3>2. /\ Append(Front(ps), p) \in Seq(U)
          /\ Len(Append(Front(ps), p)) = Len(ps)
          /\ Append(Front(ps), p)[Len(ps)] = p
      BY <3>1, ReplaceLast
    <3> QED
      BY <3>2 DEF Last
  <2> HIDE DEF qs, p
  <2>6. ASSUME cfg.split
        PROVE  /\ DominantSpeaker(current) = state.speaker
               /\ state.speaker = NoSpeaker \/ speaker \in {NoSpeaker, state.speaker}
    BY <1>5, <2>1, <2>6
  <2>6a. ASSUME NEW b \in Nat, b < a, Reason(words, cfg, b, a, m)
         PROVE  Reason(words, cfg, b, a, k)
    <3>1. DominantSpeaker(SubSeq(words, a + 1, m)) = DominantSpeaker(current)
      BY <2>2
    <3>2. DominantSpeaker(SubSeq(words, m + 1, k)) = speaker
      BY DEF speaker
    <3>3. LET x == DominantSpeaker(SubSeq(words, a + 1, m))
              y == DominantSpeaker(SubSeq(words, m + 1, k))
          IN  cfg.split => x = NoSpeaker \/ y \in {NoSpeaker, x}
      BY <2>6, <3>1, <3>2
    <3> QED
      BY <1>1, <2>2, <2>6a, <3>3, ReasonStays
  <2>7. ASSUME NEW f, Divides(f, qs, words, k, cfg)
        PROVE  Apart(f, Len(qs), words, cfg)
    <3>1. \A b \in Nat : b < ends[Len(ps) - 1] /\ Reason(words, cfg, b, ends[Len(ps) - 1], m)
                            => Reason(words, cfg, b, ends[Len(ps) - 1], k)
      BY <2>6a DEF a
    <3> HIDE DEF ps
    <3>2. Apart(f, Len(ps), words, cfg)
      BY <1>3, <1>4, <1>5, <2>1, <2>3, <2>7, <3>1, ApartExtend DEF qs
    <3> QED
      BY <2>5, <3>2
  <2>8. ASSUME cfg.split PROVE next.speaker = DominantSpeaker(Last(next.packed))
    <3>1. DominantSpeaker(current \o sentence) = next.speaker
      <4>1. CASE state.speaker = NoSpeaker
        <5>1. DominantSpeaker(current) = NoSpeaker
          BY <2>6, <2>8, <4>1
        <5> HIDE DEF current, sentence
        <5>2. DominantSpeaker(current \o sentence) = DominantSpeaker(sentence)
          BY <1>2, <2>2, <5>1, DominantOfSecond
        <5> QED
          BY <2>4, <4>1, <5>2 DEF speaker
      <4>2. CASE state.speaker # NoSpeaker
        <5>1. DominantSpeaker(current) # NoSpeaker /\ speaker \in {NoSpeaker, DominantSpeaker(current)}
          BY <2>6, <2>8, <4>2
        <5>2. DominantSpeaker(sentence) \in {NoSpeaker, DominantSpeaker(current)}
          BY <5>1 DEF speaker
        <5> HIDE DEF current, sentence
        <5>3. DominantSpeaker(current \o sentence) = DominantSpeaker(current)
          BY <1>2, <2>2, <5>1, <5>2, DominantOfFirst
        <5>4. next.speaker = state.speaker
          BY <2>4, <4>2
        <5> QED
          BY <2>6, <2>8, <5>3, <5>4
      <4> QED
        BY <4>1, <4>2
    <3> QED
      BY <2>3, <2>4, <2>5, <3>1
  <2> QED
    BY <2>4, <2>7, <2>8 DEF ApartUpTo, next
<1> QED
  BY <1>9, <1>10

\* The packed segments are made of all the words, and each cut has a reason.
LEMMA PackedFollow ==
  ASSUME NEW T, Timed(T), NEW words \in Seq(T), NEW cfg, cfg.max \in Int,
         NEW sentences \in Seq(Seq(T)), NEW ends, SentenceEndsAt(ends, sentences, words, cfg)
  PROVE  /\ PackSentences(sentences, cfg) \in Seq(Seq(T))
         /\ \E e : /\ Divides(e, PackSentences(sentences, cfg), words, Len(words), cfg)
                   /\ Apart(e, Len(PackSentences(sentences, cfg)), words, cfg)
<1> DEFINE n == Len(sentences)
           Voices == {NoSpeaker} \union {DominantSpeaker(sentences[k]) : k \in 1..n}
           V == [packed : Seq(Seq(T)), speaker : Voices]
           base == [packed |-> <<>>, speaker |-> NoSpeaker]
<1>1. /\ n \in Nat /\ DOMAIN sentences = 1..n
      /\ \A k \in 1..n : sentences[k] \in Seq(T)
  <2> DEFINE U == Seq(T)
  <2>1. sentences \in Seq(U)
    OBVIOUS
  <2> HIDE DEF U
  <2>2. Len(sentences) \in Nat /\ DOMAIN sentences = 1..Len(sentences)
        /\ \A k \in 1..Len(sentences) : sentences[k] \in U
    BY <2>1
  <2> QED
    BY <2>2 DEF U
<1>2. /\ ends[0] = 0 /\ ends[n] = Len(words)
      /\ \A k \in 1..n : /\ IsSentence(words, cfg, ends[k - 1], ends[k])
                         /\ sentences[k] = SubSeq(words, ends[k - 1] + 1, ends[k])
  BY DEF SentenceEndsAt
<1>3. base \in V
  OBVIOUS
<1>4. ASSUME NEW v \in V, NEW k \in 1..n PROVE PackSentence(v, sentences[k], cfg) \in V
  <2> DEFINE p == sentences[k]
             ps == v.packed
             speaker == DominantSpeaker(p)
             next == PackSentence(v, p, cfg)
  <2>1. ps \in Seq(Seq(T)) /\ v.speaker \in Voices /\ p \in Seq(T)
    BY <1>1
  <2>2. speaker \in Voices
    OBVIOUS
  <2>3. \/ next = [packed |-> Append(ps, p), speaker |-> speaker]
        \/ /\ ps # <<>>
           /\ \/ next = [packed |-> Append(Front(ps), Last(ps) \o p), speaker |-> speaker]
              \/ next = [packed |-> Append(Front(ps), Last(ps) \o p), speaker |-> v.speaker]
    <3> HIDE DEF ps, p
    <3> QED
      BY DEF PackSentence, ps
  <2>4. Append(ps, p) \in Seq(Seq(T))
    <3> DEFINE U == Seq(T)
    <3>1. ps \in Seq(U) /\ p \in U
      BY <2>1
    <3> HIDE DEF U, ps, p
    <3>2. Append(ps, p) \in Seq(U)
      BY <3>1
    <3> QED
      BY <3>2 DEF U
  <2>5. ps # <<>> => Append(Front(ps), Last(ps) \o p) \in Seq(Seq(T))
    BY <2>1, JoinLast
  <2> HIDE DEF ps, p, next, speaker, Voices
  <2>6. next \in V
    <3> DEFINE U == Seq(Seq(T))
    <3>1. Append(ps, p) \in U /\ (ps # <<>> => Append(Front(ps), Last(ps) \o p) \in U)
      BY <2>4, <2>5
    <3>2. \A x \in U, y \in Voices : [packed |-> x, speaker |-> y] \in V
      OBVIOUS
    <3> HIDE DEF U, V
    <3> QED
      BY <2>1, <2>2, <2>3, <3>1, <3>2
  <2> QED
    BY <2>6 DEF next, p
<1> HIDE DEF V, n
<1>5. PICK part : PackParts(part, V, n, sentences, cfg)
  <2>1. \A v \in V, k \in 1..n : PackSentence(v, sentences[k], cfg) \in V
    BY <1>4
  <2>2. PackStays(V, n, sentences, cfg)
    BY <1>3, <2>1 DEF PackStays
  <2> QED
    BY <1>1, <2>2, PackPrefixes
<1>5a. /\ part[0] = base
       /\ \A k \in 1..n : part[k] = PackSentence(part[k - 1], sentences[k], cfg)
       /\ part[n].packed = PackSentences(sentences, cfg)
  BY <1>5 DEF PackParts
<1> HIDE DEF base
<1> DEFINE good == {k \in 0..n : /\ PackedUpTo(part[k], T, words, cfg, ends[k])
                                 /\ ApartUpTo(part[k], words, cfg, ends[k])}
<1>6. 0 \in good
  <2>1. base.packed = <<>> /\ Len(base.packed) = 0 /\ base.packed \in Seq(Seq(T))
    BY DEF base
  <2>2. Divides([i \in 0..0 |-> 0], base.packed, words, 0, cfg)
    <3>1. 0 \in 0..Len(words) /\ 1..0 = {} /\ 0 \in 0..0
      OBVIOUS
    <3> HIDE DEF base
    <3> QED
      BY <2>1, <3>1 DEF Divides
  <2>3. PackedUpTo(base, T, words, cfg, 0)
    BY <2>1, <2>2 DEF PackedUpTo
  <2>4. ApartUpTo(base, words, cfg, 0)
    <3>1. \A e : Apart(e, 0, words, cfg)
      BY DEF Apart
    <3> QED
      BY <2>1, <3>1 DEF ApartUpTo
  <2> QED
    BY <1>1, <1>2, <1>5a, <2>3, <2>4
<1>7. ASSUME NEW k \in 1..n, k - 1 \in good PROVE k \in good
  <2>1. k - 1 \in 0..n /\ k \in 0..n
    BY <1>1
  <2>2. PackedUpTo(part[k - 1], T, words, cfg, ends[k - 1])
        /\ ApartUpTo(part[k - 1], words, cfg, ends[k - 1])
    BY <1>7
  <2>3. IsSentence(words, cfg, ends[k - 1], ends[k])
        /\ sentences[k] = SubSeq(words, ends[k - 1] + 1, ends[k])
    BY <1>2
  <2>4. PackedUpTo(PackSentence(part[k - 1], SubSeq(words, ends[k - 1] + 1, ends[k]), cfg),
                   T, words, cfg, ends[k])
    BY <2>2, <2>3, PackOne
  <2>5. ApartUpTo(PackSentence(part[k - 1], SubSeq(words, ends[k - 1] + 1, ends[k]), cfg),
                  words, cfg, ends[k])
    BY <2>2, <2>3, PackApart
  <2> QED
    BY <1>5a, <2>1, <2>3, <2>4, <2>5
<1>8. n \in good
  <2> HIDE DEF good, n
  <2>1. \A k \in 0..n : k \in good
    BY <1>1, <1>6, <1>7, Climbs
  <2> QED
    BY <1>1, <2>1
<1>9. PackedUpTo(part[n], T, words, cfg, ends[n]) /\ ApartUpTo(part[n], words, cfg, ends[n])
  BY <1>8
<1>10. PICK e : Divides(e, part[n].packed, words, ends[n], cfg)
  BY <1>9 DEF PackedUpTo
<1>11. Apart(e, Len(part[n].packed), words, cfg)
  BY <1>9, <1>10 DEF ApartUpTo
<1>12. part[n].packed \in Seq(Seq(T))
  BY <1>9 DEF PackedUpTo
<1> QED
  BY <1>2, <1>5a, <1>10, <1>11, <1>12

\* The words begin in the order in which they come.
StartsInOrder(words) ==
    \A i, j \in 1..Len(words) : i < j => words[i].start <= words[j].start

\* _speakers_compatible.
LEMMA CompatibleSpeakers ==
  ASSUME NEW p, NEW q, NEW cfg, cfg.split, SpeakersCompatible(p, q, cfg)
  PROVE  DominantSpeaker(p) = NoSpeaker \/ DominantSpeaker(q) \in {NoSpeaker, DominantSpeaker(p)}
<1> DEFINE x == DominantSpeaker(p)
           y == DominantSpeaker(q)
<1> SUFFICES ASSUME x # NoSpeaker, y # NoSpeaker, x # y PROVE FALSE
  OBVIOUS
<1>1. Cardinality({x, y} \ {NoSpeaker}) <= 1
  BY DEF SpeakersCompatible
<1>2. {x, y} \ {NoSpeaker} = {x} \union {y} /\ y \notin {x}
  OBVIOUS
<1> HIDE DEF x, y
<1>3. IsFiniteSet({x}) /\ Cardinality({x}) = 1
  BY FS_Singleton
<1>4. Cardinality({x} \union {y}) = Cardinality({x}) + 1
  BY <1>2, <1>3, FS_AddElement
<1>5. Cardinality({x, y} \ {NoSpeaker}) = 1 + 1
  BY <1>2, <1>3, <1>4, Zenon
<1>6. 1 + 1 <= 1
  BY <1>1, <1>5, Zenon
<1> QED
  BY <1>6

\* What the merging of two segments leaves of the cut before and of the cut after.
LEMMA MergeKeepsBefore ==
  ASSUME NEW T, NEW words \in Seq(T), NEW cfg, NEW a \in Nat, NEW b \in Nat, NEW m \in Nat,
         NEW k \in 1..Len(words), a < b, b < m, m < k, Reason(words, cfg, a, b, m),
         Mergeable(SubSeq(words, b + 1, m), SubSeq(words, m + 1, k), cfg)
  PROVE  Reason(words, cfg, a, b, k)
<1> DEFINE x == DominantSpeaker(SubSeq(words, b + 1, m))
           y == DominantSpeaker(SubSeq(words, m + 1, k))
<1>1. SpeakersCompatible(SubSeq(words, b + 1, m), SubSeq(words, m + 1, k), cfg)
  BY DEF Mergeable
<1>2. cfg.split => x = NoSpeaker \/ y \in {NoSpeaker, x}
  BY <1>1, CompatibleSpeakers
<1> QED
  BY <1>2, ReasonStays

\* The longer segment begins earlier.
LEMMA MergeKeepsAfter ==
  ASSUME NEW T, Timed(T), NEW words \in Seq(T), NEW cfg, cfg.max \in Int, StartsInOrder(words),
         NEW a \in Nat, NEW m \in Nat, NEW k \in Nat, NEW c \in 1..Len(words),
         a < m, m < k, k < c, Reason(words, cfg, m, k, c),
         Mergeable(SubSeq(words, a + 1, m), SubSeq(words, m + 1, k), cfg)
  PROVE  Reason(words, cfg, a, k, c)
<1> DEFINE p == SubSeq(words, a + 1, m)
           q == SubSeq(words, m + 1, k)
<1>1. /\ Len(words) \in Nat /\ k \in 1..Len(words) /\ m \in 1..Len(words)
      /\ a + 1 \in 1..Len(words) /\ m + 1 \in 1..Len(words) /\ a + 1 < m + 1 /\ a < k
  <2>1. Len(words) \in Nat
    OBVIOUS
  <2> QED
    BY <2>1
<1>2. p \in Seq(T) /\ q \in Seq(T)
  <2>1. p \in Seq(T)
    BY <1>1, PartFacts
  <2>2. q \in Seq(T)
    BY <1>1, PartFacts
  <2> QED
    BY <2>1, <2>2
<1>3. p \o q = SubSeq(words, a + 1, k)
  <2>1. a <= m
    OBVIOUS
  <2> QED
    BY <1>1, <2>1, JoinParts
<1>4. CASE \E i \in (k + 1)..c :
             IsSentence(words, cfg, k, i) /\ words[i].end - words[m + 1].start > cfg.max
  <2>1. PICK i \in (k + 1)..c :
             IsSentence(words, cfg, k, i) /\ words[i].end - words[m + 1].start > cfg.max
    BY <1>4
  <2>2. i \in 1..Len(words)
    BY <1>1
  <2>3. words[i] \in T /\ words[a + 1] \in T /\ words[m + 1] \in T
    BY <1>1, <2>2
  <2>4. words[i].end \in Int /\ words[a + 1].start \in Int /\ words[m + 1].start \in Int
    BY <2>3 DEF Timed
  <2>5. words[a + 1].start <= words[m + 1].start
    BY <1>1 DEF StartsInOrder
  <2> DEFINE x == words[i].end
             y == words[m + 1].start
             z == words[a + 1].start
  <2>6. x \in Int /\ y \in Int /\ z \in Int /\ z <= y /\ x - y > cfg.max
    BY <2>1, <2>4, <2>5
  <2> HIDE DEF x, y, z
  <2>7. x - z > cfg.max
    BY <2>6
  <2>8. words[i].end - words[a + 1].start > cfg.max
    BY <2>7 DEF x, z
  <2> QED
    BY <2>1, <2>8 DEF Reason
<1>5. CASE /\ cfg.split
           /\ DominantSpeaker(q) # NoSpeaker
           /\ DominantSpeaker(SubSeq(words, k + 1, c)) # NoSpeaker
           /\ DominantSpeaker(q) # DominantSpeaker(SubSeq(words, k + 1, c))
  <2>1. SpeakersCompatible(p, q, cfg)
    BY DEF Mergeable
  <2> HIDE DEF p, q
  <2>2. DominantSpeaker(p) = NoSpeaker \/ DominantSpeaker(q) \in {NoSpeaker, DominantSpeaker(p)}
    BY <1>5, <2>1, CompatibleSpeakers
  <2>3. DominantSpeaker(p \o q) = DominantSpeaker(q)
    <3>1. CASE DominantSpeaker(p) = NoSpeaker
      BY <1>2, <3>1, DominantOfSecond
    <3>2. CASE DominantSpeaker(p) # NoSpeaker
      <4>1. DominantSpeaker(p) = DominantSpeaker(q)
        BY <1>5, <2>2, <3>2
      <4>2. DominantSpeaker(q) \in {NoSpeaker, DominantSpeaker(p)}
        BY <4>1
      <4>3. DominantSpeaker(p \o q) = DominantSpeaker(p)
        BY <1>2, <3>2, <4>2, DominantOfFirst
      <4> QED
        BY <4>1, <4>3
    <3> QED
      BY <3>1, <3>2
  <2>4. DominantSpeaker(SubSeq(words, a + 1, k)) = DominantSpeaker(q)
    BY <1>3, <2>3
  <2> QED
    BY <1>5, <2>4 DEF Reason
<1> QED
  BY <1>4, <1>5 DEF Reason

-----------------------------------------------------------------------------
(* _enforce_min_duration moves whole segments. *)

\* What _enforce_min_duration has made of segments 1 to k, which end at ends[k].
Carries(carry, m, segs, ends, words, cfg, k) ==
    \/ m = ends[k] /\ carry = <<>>
    \/ /\ k < Len(segs) /\ m < ends[k]
       /\ carry = SubSeq(words, m + 1, ends[k])
       /\ Mergeable(carry, segs[k + 1], cfg)
       /\ cfg.split /\ Labelled(words) => OneVoice(words, m, ends[k])

\* What is done is apart, and the last of it is apart from what comes next.
KeepsApart(e, d, m, segs, ends, words, cfg, k) ==
    StartsInOrder(words) /\ Apart(ends, Len(segs), words, cfg) =>
        /\ Apart(e, d, words, cfg)
        /\ d # 0 /\ m # ends[k] => Reason(words, cfg, e[d - 1], m, ends[k])
        /\ d # 0 /\ m = ends[k] /\ k < Len(segs) => Reason(words, cfg, e[d - 1], m, ends[k + 1])

PlacedUpTo(state, T, segs, ends, words, cfg, k) ==
    /\ state.done \in Seq(Seq(T)) /\ state.carry \in Seq(T)
    /\ \E e, m : /\ m \in Nat /\ Divides(e, state.done, words, m, cfg)
                 /\ Carries(state.carry, m, segs, ends, words, cfg, k)
                 /\ KeepsApart(e, Len(state.done), m, segs, ends, words, cfg, k)

\* The segment with what was carried to its front.
LEMMA CarriedIsFine ==
  ASSUME NEW T, NEW words \in Seq(T), NEW cfg, NEW segs \in Seq(Seq(T)), NEW ends, NEW last,
         Divides(ends, segs, words, last, cfg), NEW k \in 1..Len(segs),
         NEW carry, NEW m \in Nat, Carries(carry, m, segs, ends, words, cfg, k - 1)
  PROVE  /\ carry \o segs[k] = SubSeq(words, m + 1, ends[k])
         /\ Fine(words, cfg, m, ends[k])
<1> DEFINE a == ends[k - 1]
           b == ends[k]
<1>1. Fine(words, cfg, a, b) /\ segs[k] = SubSeq(words, a + 1, b)
  BY DEF Divides
<1>2. Len(segs) \in Nat /\ Len(words) \in Nat /\ k \in Nat \ {0} /\ (k - 1) + 1 = k
  <2> DEFINE U == Seq(T)
  <2>1. segs \in Seq(U)
    OBVIOUS
  <2> HIDE DEF U
  <2>2. Len(segs) \in Nat
    BY <2>1
  <2> QED
    BY <2>2
<1> HIDE DEF a, b
<1>3. /\ a \in Nat /\ b \in 1..Len(words) /\ a < b
  BY <1>1 DEF Fine
<1>4. \/ m = a /\ carry = <<>>
      \/ /\ m < a /\ carry = SubSeq(words, m + 1, a)
         /\ Mergeable(carry, segs[k], cfg)
         /\ cfg.split /\ Labelled(words) => OneVoice(words, m, a)
  BY <1>2 DEF Carries, a
<1>5. CASE m = a /\ carry = <<>>
  <2>1. SubSeq(words, a + 1, b) \in Seq(T)
    BY <1>3, PartFacts
  <2>2. \A s \in Seq(T) : <<>> \o s = s
    OBVIOUS
  <2>3. carry \o segs[k] = SubSeq(words, m + 1, b)
    BY <1>1, <1>5, <2>1, <2>2
  <2>4. Fine(words, cfg, m, b)
    BY <1>1, <1>5
  <2> QED
    BY <2>3, <2>4 DEF b
<1>6. CASE /\ m < a /\ carry = SubSeq(words, m + 1, a)
           /\ Mergeable(carry, segs[k], cfg)
           /\ cfg.split /\ Labelled(words) => OneVoice(words, m, a)
  <2>1. a \in 1..Len(words) /\ m <= a
    BY <1>2, <1>3, <1>6
  <2>2. SubSeq(words, m + 1, a) \o SubSeq(words, a + 1, b) = SubSeq(words, m + 1, b)
    BY <1>3, <2>1, JoinParts
  <2>3. Mergeable(SubSeq(words, m + 1, a), SubSeq(words, a + 1, b), cfg)
    BY <1>1, <1>6
  <2>4. Fine(words, cfg, m, b)
    BY <1>1, <1>6, <2>1, <2>3, MergeableIsFine
  <2> QED
    BY <1>1, <1>6, <2>2, <2>4 DEF b
<1> QED
  BY <1>4, <1>5, <1>6

\* The segment with what was carried to its front is apart from the one before
\* and from the one after.
LEMMA CarriedIsApart ==
  ASSUME NEW T, Timed(T), NEW words \in Seq(T), NEW cfg, cfg.max \in Int,
         NEW segs \in Seq(Seq(T)), NEW ends, NEW last,
         Divides(ends, segs, words, last, cfg), NEW k \in 1..Len(segs),
         NEW carry, NEW m \in Nat, Carries(carry, m, segs, ends, words, cfg, k - 1),
         NEW e, NEW d \in Nat, d # 0 => e[d - 1] \in Nat /\ e[d - 1] < m,
         KeepsApart(e, d, m, segs, ends, words, cfg, k - 1),
         StartsInOrder(words), Apart(ends, Len(segs), words, cfg)
  PROVE  /\ Apart(e, d, words, cfg)
         /\ d # 0 => Reason(words, cfg, e[d - 1], m, ends[k])
         /\ k < Len(segs) => Reason(words, cfg, m, ends[k], ends[k + 1])
<1> DEFINE a == ends[k - 1]
           b == ends[k]
           c == ends[k + 1]
           o == e[d - 1]
           n == Len(segs)
<1>1. Fine(words, cfg, a, b) /\ segs[k] = SubSeq(words, a + 1, b)
  BY DEF Divides
<1>2. n \in Nat /\ Len(words) \in Nat /\ k \in Nat \ {0} /\ (k - 1) + 1 = k /\ k - 1 < n
  <2> DEFINE U == Seq(T)
  <2>1. segs \in Seq(U)
    OBVIOUS
  <2> HIDE DEF U
  <2>2. n \in Nat
    BY <2>1
  <2> HIDE DEF n
  <2> QED
    BY <2>2 DEF n
<1>3. /\ Apart(e, d, words, cfg)
      /\ d # 0 /\ m # a => Reason(words, cfg, o, m, a)
      /\ d # 0 /\ m = a => Reason(words, cfg, o, m, b)
  <2>1. ends[(k - 1) + 1] = b
    BY <1>2
  <2> QED
    BY <1>2, <2>1 DEF KeepsApart
<1>4. ASSUME k < n PROVE Reason(words, cfg, a, b, c) /\ Fine(words, cfg, b, c)
  <2> DEFINE l == k + 1
  <2>1. k \in 1..(n - 1) /\ l \in 1..n /\ l - 1 = k
    <3> HIDE DEF n
    <3> QED
      BY <1>2, <1>4
  <2>2. Reason(words, cfg, a, b, c)
    BY <2>1 DEF Apart
  <2> HIDE DEF l
  <2>3. Fine(words, cfg, ends[l - 1], ends[l])
    BY <2>1 DEF Divides
  <2>4. Fine(words, cfg, b, ends[l])
    BY <2>1, <2>3
  <2> QED
    BY <2>2, <2>4 DEF l
<1> HIDE DEF a, b, c, o, n
<1>5. a \in Nat /\ b \in 1..Len(words) /\ b \in Nat /\ a < b
  BY <1>1, <1>2 DEF Fine
<1>5a. k < n => c \in 1..Len(words) /\ b < c
  BY <1>4 DEF Fine
<1>6. \/ m = a
      \/ m < a /\ carry = SubSeq(words, m + 1, a) /\ Mergeable(carry, segs[k], cfg)
  BY <1>2 DEF Carries, a
<1>7. CASE m = a
  <2>1. d # 0 => Reason(words, cfg, o, m, b)
    BY <1>3, <1>7
  <2>2. k < n => Reason(words, cfg, m, b, c)
    BY <1>4, <1>7
  <2> QED
    BY <1>3, <2>1, <2>2 DEF b, c, o, n
<1>8. CASE m < a /\ carry = SubSeq(words, m + 1, a) /\ Mergeable(carry, segs[k], cfg)
  <2>1. m # a /\ m < a
    BY <1>5, <1>8
  <2>2. Mergeable(SubSeq(words, m + 1, a), SubSeq(words, a + 1, b), cfg)
    BY <1>1, <1>8
  <2>3. ASSUME d # 0 PROVE Reason(words, cfg, o, m, b)
    <3>1. o \in Nat /\ o < m
      BY <2>3 DEF o
    <3>2. Reason(words, cfg, o, m, a)
      BY <1>3, <2>1, <2>3
    <3> QED
      BY <1>5, <2>1, <2>2, <3>1, <3>2, MergeKeepsBefore
  <2>4. ASSUME k < n PROVE Reason(words, cfg, m, b, c)
    <3>1. Reason(words, cfg, a, b, c) /\ c \in 1..Len(words) /\ b < c
      BY <1>4, <1>5a, <2>4
    <3> QED
      BY <1>5, <2>1, <2>2, <3>1, MergeKeepsAfter
  <2> QED
    BY <1>3, <2>3, <2>4 DEF b, c, o, n
<1> QED
  BY <1>6, <1>7, <1>8

\* One turn of the loop of _enforce_min_duration.
LEMMA PlaceOne ==
  ASSUME NEW T, Timed(T), NEW words \in Seq(T), NEW cfg, cfg.max \in Int, NEW segs \in Seq(Seq(T)), NEW ends, NEW last,
         Divides(ends, segs, words, last, cfg), NEW k \in 1..Len(segs),
         NEW state, PlacedUpTo(state, T, segs, ends, words, cfg, k - 1)
  PROVE  PlacedUpTo(PlaceSegment(state, k, segs, cfg), T, segs, ends, words, cfg, k)
<1> DEFINE b == ends[k]
           done == state.done
           seg == state.carry \o segs[k]
           next == PlaceSegment(state, k, segs, cfg)
<1>1. done \in Seq(Seq(T)) /\ state.carry \in Seq(T)
  BY DEF PlacedUpTo
<1>2. PICK e, m : /\ m \in Nat /\ Divides(e, done, words, m, cfg)
                  /\ Carries(state.carry, m, segs, ends, words, cfg, k - 1)
                  /\ KeepsApart(e, Len(done), m, segs, ends, words, cfg, k - 1)
  BY DEF PlacedUpTo
<1>3. seg = SubSeq(words, m + 1, b) /\ Fine(words, cfg, m, b)
  BY <1>2, CarriedIsFine
<1>4. \/ next = [done |-> Append(done, seg), carry |-> <<>>]
      \/ /\ done # <<>> /\ Mergeable(Last(done), seg, cfg)
         /\ next = [done |-> Append(Front(done), Last(done) \o seg), carry |-> <<>>]
      \/ /\ k < Len(segs) /\ Mergeable(seg, segs[k + 1], cfg)
         /\ next = [done |-> done, carry |-> seg]
  BY DEF PlaceSegment
<1> HIDE DEF b, seg, next
<1>5. /\ m \in Nat /\ b \in 1..Len(words) /\ b \in Nat /\ m < b
      /\ cfg.split /\ Labelled(words) => OneVoice(words, m, b)
      /\ Len(words) \in Nat /\ <<>> \in Seq(T)
  <2>1. Len(words) \in Nat
    OBVIOUS
  <2> QED
    BY <1>2, <1>3, <2>1 DEF Fine
<1> DEFINE InTurn == StartsInOrder(words) /\ Apart(ends, Len(segs), words, cfg)
           c == ends[k + 1]
<1>5a. Len(done) \in Nat /\ (done # <<>> <=> Len(done) # 0)
  <2> DEFINE U == Seq(T)
  <2>1. done \in Seq(U)
    BY <1>1
  <2> HIDE DEF U, done
  <2> QED
    BY <2>1
<1> DEFINE a == e[Len(done) - 1]
<1>5b. ASSUME Len(done) # 0
       PROVE  a \in Nat /\ Fine(words, cfg, a, m) /\ a < m /\ Last(done) = SubSeq(words, a + 1, m)
  <2> HIDE DEF done, a
  <2>1. Len(done) # 0
    BY <1>5b
  <2>2. Len(done) \in Nat
    BY <1>5a
  <2>3. Divides(e, done, words, m, cfg)
    BY <1>2
  <2>4. e[Len(done) - 1] \in Nat
    BY <2>1, <2>2, <2>3, DivideLast
  <2>5. Fine(words, cfg, e[Len(done) - 1], m)
    BY <2>1, <2>2, <2>3, DivideLast
  <2>6. Last(done) = SubSeq(words, e[Len(done) - 1] + 1, m)
    BY <2>1, <2>2, <2>3, DivideLast
  <2> QED
    BY <2>4, <2>5, <2>6 DEF a, Fine
<1>5c. ASSUME InTurn
       PROVE  /\ Apart(e, Len(done), words, cfg)
              /\ Len(done) # 0 => Reason(words, cfg, a, m, b)
              /\ k < Len(segs) => Reason(words, cfg, m, b, c)
  <2> DEFINE d == Len(done)
  <2>1. d \in Nat /\ (d # 0 => e[d - 1] \in Nat /\ e[d - 1] < m)
    BY <1>5a, <1>5b DEF a
  <2>2. KeepsApart(e, d, m, segs, ends, words, cfg, k - 1)
    BY <1>2
  <2> HIDE DEF d, a, done
  <2>3. /\ Apart(e, d, words, cfg)
        /\ d # 0 => Reason(words, cfg, e[d - 1], m, ends[k])
        /\ k < Len(segs) => Reason(words, cfg, m, ends[k], ends[k + 1])
    BY <1>2, <1>5, <1>5c, <2>1, <2>2, CarriedIsApart
  <2> QED
    BY <2>3 DEF d, a, b
<1>5d. k < Len(segs) => c \in 1..Len(words) /\ b < c
  <2> DEFINE l == k + 1
  <2>1. Len(segs) \in Nat /\ k \in Nat
    <3> DEFINE U == Seq(T)
    <3>1. segs \in Seq(U)
      OBVIOUS
    <3> HIDE DEF U
    <3> QED
      BY <3>1
  <2>2. k < Len(segs) => l \in 1..Len(segs) /\ l - 1 = k
    BY <2>1
  <2> HIDE DEF l, c
  <2>3. k < Len(segs) => Fine(words, cfg, ends[k], ends[l])
    BY <2>2 DEF Divides
  <2> QED
    BY <2>3 DEF Fine, l, b, c
<1> HIDE DEF InTurn, a, c
<1>6. Carries(<<>>, b, segs, ends, words, cfg, k)
  BY DEF Carries, b
<1>7. CASE next = [done |-> Append(done, seg), carry |-> <<>>]
  <2>1. next.done = Append(done, seg) /\ next.carry = <<>>
    BY <1>7
  <2>2. /\ Append(done, seg) \in Seq(Seq(T))
        /\ \E f : Divides(f, Append(done, seg), words, b, cfg)
    <3>1. /\ Append(done, SubSeq(words, m + 1, b)) \in Seq(Seq(T))
          /\ \E f : Divides(f, Append(done, SubSeq(words, m + 1, b)), words, b, cfg)
      BY <1>1, <1>2, <1>3, DivideAppend
    <3> QED
      BY <1>3, <3>1
  <2>3. PICK f : Divides(f, Append(done, seg), words, b, cfg)
    BY <2>2
  <2> DEFINE d == Len(done) + 1
  <2>4. Len(next.done) = d /\ d - 1 = Len(done)
    <3> DEFINE U == Seq(T)
    <3>1. seg \in U /\ done \in Seq(U)
      BY <1>1, <1>3, <1>5, PartFacts
    <3> HIDE DEF U, done
    <3> QED
      BY <2>1, <3>1
  <2>5. ASSUME InTurn PROVE Apart(f, d, words, cfg) /\ f[Len(done)] = m
    <3>1. done # <<>> => Reason(words, cfg, e[Len(done) - 1], m, b)
      BY <1>5a, <1>5c, <2>5 DEF a
    <3>2. seg \in Seq(T) /\ done \in Seq(Seq(T)) /\ Apart(e, Len(done), words, cfg)
      BY <1>1, <1>3, <1>5, <1>5c, <2>5, PartFacts
    <3> HIDE DEF done
    <3>3. Apart(f, Len(done) + 1, words, cfg)
      BY <1>2, <2>3, <3>1, <3>2, ApartAppend
    <3>4. f[Len(done)] = m
      BY <1>2, <2>3, <3>1, <3>2, ApartAppend
    <3> QED
      BY <3>3, <3>4
  <2> HIDE DEF d
  <2>6. KeepsApart(f, d, b, segs, ends, words, cfg, k)
    BY <1>5c, <2>4, <2>5 DEF KeepsApart, InTurn, b, c
  <2>7. Divides(f, next.done, words, b, cfg) /\ Carries(next.carry, b, segs, ends, words, cfg, k)
        /\ KeepsApart(f, Len(next.done), b, segs, ends, words, cfg, k)
    BY <1>6, <2>1, <2>3, <2>4, <2>6
  <2>8. next.done \in Seq(Seq(T)) /\ next.carry \in Seq(T)
    BY <1>5, <2>1, <2>2
  <2> QED
    BY <1>5, <2>7, <2>8 DEF PlacedUpTo, next
<1>8. CASE /\ done # <<>> /\ Mergeable(Last(done), seg, cfg)
           /\ next = [done |-> Append(Front(done), Last(done) \o seg), carry |-> <<>>]
  <2>1. next.done = Append(Front(done), Last(done) \o seg) /\ next.carry = <<>>
    BY <1>8
  <2>2. Len(done) # 0
    BY <1>5a, <1>8
  <2>3. a \in Nat /\ Fine(words, cfg, a, m) /\ a < m /\ Last(done) = SubSeq(words, a + 1, m)
    BY <1>5b, <2>2
  <2>4. m \in 1..Len(words) /\ (cfg.split /\ Labelled(words) => OneVoice(words, a, m))
    BY <2>3 DEF Fine
  <2>5. Mergeable(SubSeq(words, a + 1, m), SubSeq(words, m + 1, b), cfg)
    BY <1>3, <1>8, <2>3
  <2>6. Fine(words, cfg, a, b)
    BY <1>3, <2>3, <2>4, <2>5, MergeableIsFine
  <2>7. SubSeq(words, a + 1, m) \o SubSeq(words, m + 1, b) = SubSeq(words, a + 1, b)
    <3>1. a <= m
      BY <1>5, <2>3, <2>4
    <3> QED
      BY <1>5, <2>3, <3>1, JoinParts
  <2>8. next.done = Append(Front(done), SubSeq(words, a + 1, b))
    BY <1>3, <2>1, <2>3, <2>7
  <2>9. next.done \in Seq(Seq(T)) /\ \E f : Divides(f, next.done, words, b, cfg)
    <3>1. /\ Append(Front(done), SubSeq(words, a + 1, b)) \in Seq(Seq(T))
          /\ \E f : Divides(f, Append(Front(done), SubSeq(words, a + 1, b)), words, b, cfg)
      BY <1>1, <1>2, <1>8, <2>6, DivideExtend DEF a
    <3> QED
      BY <2>8, <3>1
  <2> DEFINE qs == Append(Front(done), SubSeq(words, a + 1, b))
  <2>10. PICK f : Divides(f, qs, words, b, cfg)
    BY <2>8, <2>9
  <2>11. SubSeq(words, a + 1, b) \in Seq(T)
    <3>1. a < b
      BY <1>5, <2>3
    <3> QED
      BY <1>5, <2>3, <3>1, PartFacts
  <2>12. Len(qs) = Len(done)
    <3> DEFINE U == Seq(T)
    <3>1. SubSeq(words, a + 1, b) \in U /\ done \in Seq(U) /\ done # <<>>
      BY <1>1, <1>8, <2>11
    <3> HIDE DEF U, done
    <3> QED
      BY <3>1, ReplaceLast
  <2>13. ASSUME InTurn PROVE Apart(f, Len(done), words, cfg) /\ f[Len(done) - 1] = a
    <3>1. ASSUME NEW o \in Nat, o < a, Reason(words, cfg, o, a, m) PROVE Reason(words, cfg, o, a, b)
      BY <1>5, <2>3, <2>5, <3>1, MergeKeepsBefore
    <3>2. \A o \in Nat : o < e[Len(done) - 1] /\ Reason(words, cfg, o, e[Len(done) - 1], m)
                             => Reason(words, cfg, o, e[Len(done) - 1], b)
      BY <3>1 DEF a
    <3>3. done \in Seq(Seq(T)) /\ done # <<>> /\ Apart(e, Len(done), words, cfg)
      BY <1>1, <1>5c, <1>8, <2>13
    <3> DEFINE p == SubSeq(words, a + 1, b)
    <3>4. p \in Seq(T) /\ Divides(f, Append(Front(done), p), words, b, cfg)
      BY <2>10, <2>11
    <3> HIDE DEF done, qs, p
    <3>5. Apart(f, Len(done), words, cfg)
      BY <1>2, <3>2, <3>3, <3>4, ApartExtend
    <3>6. f[Len(done) - 1] = e[Len(done) - 1]
      BY <1>2, <3>2, <3>3, <3>4, ApartExtend
    <3> QED
      BY <3>5, <3>6 DEF a
  <2>14. ASSUME InTurn, k < Len(segs) PROVE Reason(words, cfg, a, b, c)
    <3>1. Reason(words, cfg, m, b, c)
      BY <1>5c, <2>14
    <3>2. c \in 1..Len(words) /\ b < c
      BY <1>5d, <2>14
    <3>3. StartsInOrder(words)
      BY <2>14 DEF InTurn
    <3> QED
      BY <1>5, <2>3, <2>5, <3>1, <3>2, <3>3, MergeKeepsAfter
  <2>15. KeepsApart(f, Len(done), b, segs, ends, words, cfg, k)
    <3> HIDE DEF done
    <3> QED
      BY <2>13, <2>14 DEF KeepsApart, InTurn, b, c
  <2>16. Divides(f, next.done, words, b, cfg) /\ Carries(next.carry, b, segs, ends, words, cfg, k)
        /\ KeepsApart(f, Len(next.done), b, segs, ends, words, cfg, k)
    BY <1>6, <2>1, <2>8, <2>10, <2>12, <2>15
  <2>17. next.done \in Seq(Seq(T)) /\ next.carry \in Seq(T)
    BY <1>5, <2>1, <2>9
  <2> QED
    BY <1>5, <2>16, <2>17 DEF PlacedUpTo, next
<1>9. CASE /\ k < Len(segs) /\ Mergeable(seg, segs[k + 1], cfg)
           /\ next = [done |-> done, carry |-> seg]
  <2>1. next.done = done /\ next.carry = seg
    BY <1>9
  <2>2. seg \in Seq(T)
    BY <1>3, <1>5, PartFacts
  <2>3. Carries(seg, m, segs, ends, words, cfg, k)
    BY <1>3, <1>5, <1>9 DEF Carries, b
  <2>4. KeepsApart(e, Len(done), m, segs, ends, words, cfg, k)
    <3>1. m # ends[k]
      BY <1>5 DEF b
    <3> HIDE DEF done
    <3> QED
      BY <1>5c, <3>1 DEF KeepsApart, InTurn, a, b
  <2>5. Divides(e, next.done, words, m, cfg) /\ Carries(next.carry, m, segs, ends, words, cfg, k)
        /\ KeepsApart(e, Len(next.done), m, segs, ends, words, cfg, k)
    BY <1>2, <2>1, <2>3, <2>4
  <2>6. next.done \in Seq(Seq(T)) /\ next.carry \in Seq(T)
    BY <1>1, <2>1, <2>2
  <2> QED
    BY <1>5, <2>5, <2>6 DEF PlacedUpTo, next
<1> QED
  BY <1>4, <1>7, <1>8, <1>9

\* Whatever the loop does at a segment, it keeps a sequence of segments.
LEMMA PlaceStays ==
  ASSUME NEW T, NEW cfg, NEW segs \in Seq(Seq(T)),
         NEW k \in 1..Len(segs), NEW v \in [done : Seq(Seq(T)), carry : Seq(T)]
  PROVE  PlaceSegment(v, k, segs, cfg) \in [done : Seq(Seq(T)), carry : Seq(T)]
<1> DEFINE U == Seq(T)
           done == v.done
           seg == v.carry \o segs[k]
           next == PlaceSegment(v, k, segs, cfg)
<1>1. done \in Seq(Seq(T)) /\ v.carry \in Seq(T)
  OBVIOUS
<1>2. segs[k] \in Seq(T)
  <2>1. segs \in Seq(U)
    OBVIOUS
  <2> HIDE DEF U
  <2>2. segs[k] \in U
    BY <2>1
  <2> QED
    BY <2>2 DEF U
<1>3. seg \in Seq(T) /\ <<>> \in Seq(T)
  BY <1>1, <1>2
<1>4. \/ next = [done |-> Append(done, seg), carry |-> <<>>]
      \/ /\ done # <<>>
         /\ next = [done |-> Append(Front(done), Last(done) \o seg), carry |-> <<>>]
      \/ next = [done |-> done, carry |-> seg]
  BY DEF PlaceSegment
<1> HIDE DEF seg, next
<1>5. Append(done, seg) \in Seq(Seq(T))
  <2>1. done \in Seq(U) /\ seg \in U
    BY <1>1, <1>3
  <2> HIDE DEF U, done
  <2>2. Append(done, seg) \in Seq(U)
    BY <2>1
  <2> QED
    BY <2>2 DEF U
<1>6. done # <<>> => Append(Front(done), Last(done) \o seg) \in Seq(Seq(T))
  BY <1>1, <1>3, JoinLast
<1> HIDE DEF done
<1>7. next \in [done : Seq(U), carry : U]
  <2>1. /\ done \in Seq(U) /\ seg \in U /\ <<>> \in U /\ Append(done, seg) \in Seq(U)
        /\ done # <<>> => Append(Front(done), Last(done) \o seg) \in Seq(U)
    BY <1>1, <1>3, <1>5, <1>6
  <2> HIDE DEF U
  <2> DEFINE W == Seq(U)
             V == [done : W, carry : U]
  <2>2. \A x \in W, y \in U : [done |-> x, carry |-> y] \in V
    OBVIOUS
  <2>3. /\ done \in W /\ seg \in U /\ <<>> \in U /\ Append(done, seg) \in W
        /\ done # <<>> => Append(Front(done), Last(done) \o seg) \in W
    BY <2>1
  <2> HIDE DEF V, W
  <2>4. next \in V
    BY <1>4, <2>2, <2>3
  <2> QED
    BY <2>4 DEF V, W
<1> QED
  BY <1>7 DEF next, U

\* So are the segments that _enforce_min_duration leaves.
LEMMA EnforcedFollow ==
  ASSUME NEW T, Timed(T), NEW words \in Seq(T), NEW cfg, cfg.max \in Int,
         NEW segs \in Seq(Seq(T)), NEW ends,
         Divides(ends, segs, words, Len(words), cfg), Apart(ends, Len(segs), words, cfg)
  PROVE  /\ EnforceMinDuration(segs, cfg) \in Seq(Seq(T))
         /\ \E e : /\ Divides(e, EnforceMinDuration(segs, cfg), words, Len(words), cfg)
                   /\ StartsInOrder(words) =>
                         Apart(e, Len(EnforceMinDuration(segs, cfg)), words, cfg)
<1> DEFINE n == Len(segs)
           V == [done : Seq(Seq(T)), carry : Seq(T)]
           base == [done |-> <<>>, carry |-> <<>>]
<1>1. n \in Nat /\ DOMAIN segs = 1..n
  <2> DEFINE U == Seq(T)
  <2>1. segs \in Seq(U)
    OBVIOUS
  <2> HIDE DEF U
  <2> QED
    BY <2>1
<1>2. \A k \in 1..n : [j \in DOMAIN segs |-> j][k] = k
  BY <1>1
<1>3. base \in V
  OBVIOUS
<1>4. \A v \in V, k \in 1..n : PlaceSegment(v, k, segs, cfg) \in V
  BY PlaceStays
<1> HIDE DEF V, n
<1>5. PICK part : EnforceParts(part, V, n, segs, cfg)
  <2>1. \A v \in V, k \in 1..n : PlaceSegment(v, [j \in DOMAIN segs |-> j][k], segs, cfg) \in V
    BY <1>2, <1>4
  <2>2. EnforceStays(V, n, segs, cfg)
    BY <1>3, <2>1 DEF EnforceStays
  <2> QED
    BY <1>1, <2>2, EnforcePrefixes
<1>6. /\ part[0] = base
      /\ \A k \in 1..n : part[k] = PlaceSegment(part[k - 1], k, segs, cfg)
      /\ part[n].done = EnforceMinDuration(segs, cfg)
  <2>1. /\ part[0] = base
        /\ \A k \in 1..n : part[k] = PlaceSegment(part[k - 1], [j \in DOMAIN segs |-> j][k], segs, cfg)
        /\ part[n].done = EnforceMinDuration(segs, cfg)
    BY <1>5 DEF EnforceParts
  <2> HIDE DEF base
  <2> QED
    BY <1>2, <2>1
<1> DEFINE good == {k \in 0..n : PlacedUpTo(part[k], T, segs, ends, words, cfg, k)}
<1>7. ends[0] = 0 /\ ends[n] = Len(words)
  BY DEF Divides, n
<1>8. 0 \in good
  <2>1. base.done = <<>> /\ base.carry = <<>> /\ Len(base.done) = 0
        /\ base.done \in Seq(Seq(T)) /\ base.carry \in Seq(T)
    OBVIOUS
  <2> HIDE DEF base
  <2>2. Divides([i \in 0..0 |-> 0], base.done, words, 0, cfg)
    <3>1. 0 \in 0..Len(words) /\ 1..0 = {} /\ 0 \in 0..0
      OBVIOUS
    <3> QED
      BY <2>1, <3>1 DEF Divides
  <2>3. Carries(base.carry, 0, segs, ends, words, cfg, 0)
    BY <1>7, <2>1 DEF Carries
  <2>4. KeepsApart([i \in 0..0 |-> 0], Len(base.done), 0, segs, ends, words, cfg, 0)
    BY <2>1 DEF KeepsApart, Apart
  <2>4a. 0 \in Nat
    OBVIOUS
  <2>5. PlacedUpTo(base, T, segs, ends, words, cfg, 0)
    BY <2>1, <2>2, <2>3, <2>4, <2>4a, Zenon DEF PlacedUpTo
  <2>6. 0 \in 0..n
    BY <1>1
  <2> QED
    BY <1>6, <2>5, <2>6
<1> HIDE DEF base
<1>9. ASSUME NEW k \in 1..n, k - 1 \in good PROVE k \in good
  <2>1. PlacedUpTo(part[k - 1], T, segs, ends, words, cfg, k - 1) /\ k \in 0..n
    BY <1>1, <1>9
  <2>2. k \in 1..Len(segs)
    BY DEF n
  <2>3. PlacedUpTo(PlaceSegment(part[k - 1], k, segs, cfg), T, segs, ends, words, cfg, k)
    BY <2>1, <2>2, PlaceOne
  <2> QED
    BY <1>6, <2>1, <2>3
<1>10. n \in good
  <2> HIDE DEF good
  <2>1. \A k \in 0..n : k \in good
    BY <1>1, <1>8, <1>9, Climbs
  <2>2. n \in 0..n
    BY <1>1
  <2> QED
    BY <2>1, <2>2
<1>11. PlacedUpTo(part[n], T, segs, ends, words, cfg, n)
  BY <1>10
<1>12. PICK e, m : /\ Divides(e, part[n].done, words, m, cfg)
                   /\ Carries(part[n].carry, m, segs, ends, words, cfg, n)
                   /\ KeepsApart(e, Len(part[n].done), m, segs, ends, words, cfg, n)
  BY <1>11 DEF PlacedUpTo
<1>13. m = Len(words)
  <2>1. ~ (n < n)
    BY <1>1
  <2> QED
    BY <1>7, <1>12, <2>1 DEF Carries, n
<1>14. StartsInOrder(words) => Apart(e, Len(part[n].done), words, cfg)
  BY <1>12 DEF KeepsApart
<1>15. part[n].done \in Seq(Seq(T))
  BY <1>11 DEF PlacedUpTo
<1> QED
  BY <1>6, <1>12, <1>13, <1>14, <1>15

-----------------------------------------------------------------------------
(* merge_superchunk_words keeps only words that super-chunks heard. *)

\* Words of W with the distance to the edge of the super-chunk that heard them.
Edged(W) == {WithEdge(w, e) : w \in W, e \in Int}

\* Words have times.
Spoken(W) == \A w \in W : {"start", "end"} \subseteq DOMAIN w /\ w.start \in Int /\ w.end \in Int

\* Super-chunks with words of W.
Heard(W, chunks) ==
    /\ DOMAIN chunks = 1..Len(chunks) /\ Len(chunks) \in Nat
    /\ \A k \in 1..Len(chunks) :
          chunks[k].words \in Seq(W) /\ chunks[k].start \in Int /\ chunks[k].end \in Int

\* Tagging leaves the times of a word alone.
LEMMA EdgedIsTimed ==
  ASSUME NEW W, Spoken(W)
  PROVE  Timed(Edged(W))
<1> SUFFICES ASSUME NEW x \in Edged(W) PROVE x.start \in Int /\ x.end \in Int
  BY DEF Timed
<1>1. PICK w \in W, e \in Int : x = WithEdge(w, e)
  BY DEF Edged
<1>2. "start" \in DOMAIN w /\ "end" \in DOMAIN w /\ w.start \in Int /\ w.end \in Int
  BY DEF Spoken
<1>3. x = [f \in (DOMAIN w) \union {"edge"} |-> IF f = "edge" THEN e ELSE w[f]]
  BY <1>1 DEF WithEdge
<1>4. "start" # "edge" /\ "end" # "edge"
  OBVIOUS
<1>5. x["start"] = w["start"]
  BY <1>2, <1>3, <1>4
<1>6. x["end"] = w["end"]
  BY <1>2, <1>3, <1>4
<1> QED
  BY <1>2, <1>5, <1>6

\* _tag_words adds the edge to every word and nothing else.
LEMMA TagWordsFacts ==
  ASSUME NEW W, Spoken(W), NEW chunk, chunk.words \in Seq(W), chunk.start \in Int, chunk.end \in Int
  PROVE  TagWords(chunk) \in Seq(Edged(W))
<1> DEFINE N == Len(chunk.words)
           edge(i) == Least(chunk.words[i].start - chunk.start, chunk.end - chunk.words[i].end)
<1>1. N \in Nat /\ DOMAIN chunk.words = 1..N /\ \A i \in 1..N : chunk.words[i] \in W
  OBVIOUS
<1>2. ASSUME NEW i \in 1..N PROVE edge(i) \in Int
  <2>1. chunk.words[i].start \in Int /\ chunk.words[i].end \in Int
    BY <1>1 DEF Spoken
  <2>2. \A x, y \in Int : Least(x, y) \in Int
    BY DEF Least
  <2>3. chunk.words[i].start - chunk.start \in Int /\ chunk.end - chunk.words[i].end \in Int
    BY <2>1
  <2> QED
    BY <2>2, <2>3
<1>3. TagWords(chunk) = [i \in 1..N |-> WithEdge(chunk.words[i], edge(i))]
  BY <1>1 DEF TagWords
<1> HIDE DEF edge, N
<1>4. \A i \in 1..N : WithEdge(chunk.words[i], edge(i)) \in Edged(W)
  BY <1>1, <1>2 DEF Edged
<1>5. TagWords(chunk) \in [1..N -> Edged(W)]
  BY <1>3, <1>4
<1> QED
  BY <1>1, <1>5

\* Sorting keeps the words.
LEMMA SortFacts ==
  ASSUME NEW T, Timed(T), NEW words \in Seq(T)
  PROVE  SortByStart(words) \in Seq(T)
<1> DEFINE N == Len(words)
           D == DOMAIN words
           before == [i \in D |-> {j \in D : \/ words[j].start < words[i].start
                                            \/ (words[j].start = words[i].start /\ j < i)}]
           at(k) == CHOOSE i \in D : Cardinality(before[i]) = k - 1
<1>1. N \in Nat /\ D = 1..N /\ \A i \in D : words[i] \in T /\ words[i].start \in Int
  BY DEF Timed
<1>2. IsFiniteSet(D) /\ Cardinality(D) = N /\ D \subseteq Int
  <2>1. IsFiniteSet(1..N) /\ Cardinality(1..N) = N
    <3>1. 1 \in Int /\ N \in Int /\ (IF 1 > N THEN 0 ELSE N - 1 + 1) = N
      BY <1>1
    <3>2. IsFiniteSet(1..N) /\ Cardinality(1..N) = IF 1 > N THEN 0 ELSE N - 1 + 1
      BY <3>1, FS_Interval
    <3> QED
      BY <3>1, <3>2
  <2> QED
    BY <1>1, <2>1
<1>3. Ordering(D, before)
  <2>1. \A i \in D : before[i] = {j \in D : \/ words[j].start < words[i].start
                                            \/ (words[j].start = words[i].start /\ j < i)}
    OBVIOUS
  <2>2. before \in [D -> SUBSET D]
    OBVIOUS
  <2> HIDE DEF before, D
  <2>3. \A i \in D : i \notin before[i]
    BY <1>1, <1>2, <2>1
  <2>4. ASSUME NEW i \in D, NEW j \in D, j \in before[i] PROVE before[j] \subseteq before[i]
    <3> SUFFICES ASSUME NEW k \in before[j] PROVE k \in before[i]
      OBVIOUS
    <3>1. /\ k \in D /\ k \in Int /\ i \in Int /\ j \in Int
          /\ words[k].start \in Int /\ words[j].start \in Int /\ words[i].start \in Int
      BY <1>1, <1>2, <2>1
    <3>2. words[k].start < words[j].start \/ (words[k].start = words[j].start /\ k < j)
      BY <2>1
    <3>3. words[j].start < words[i].start \/ (words[j].start = words[i].start /\ j < i)
      BY <2>1, <2>4
    <3>4. words[k].start < words[i].start \/ (words[k].start = words[i].start /\ k < i)
      BY <3>1, <3>2, <3>3
    <3> QED
      BY <2>1, <3>1, <3>4
  <2>5. ASSUME NEW i \in D, NEW j \in D PROVE i = j \/ i \in before[j] \/ j \in before[i]
    <3>1. i \in Int /\ j \in Int /\ words[j].start \in Int /\ words[i].start \in Int
      BY <1>1, <1>2
    <3> QED
      BY <2>1, <3>1
  <2> QED
    BY <2>2, <2>3, <2>4, <2>5 DEF Ordering
<1>4. Ranked(D, before)
  <2> HIDE DEF before, D
  <2> QED
    BY <1>2, <1>3, Ranks
<1>5. SortByStart(words) = [k \in D |-> words[at(k)]]
  <2>1. \A i \in D : before[i] = {j \in D : \/ words[j].start < words[i].start
                                            \/ (words[j].start = words[i].start /\ j < i)}
    OBVIOUS
  <2>2. SortByStart(words) = [k \in D |-> words[CHOOSE i \in D :
            Cardinality({j \in D : \/ words[j].start < words[i].start
                                   \/ (words[j].start = words[i].start /\ j < i)}) = k - 1]]
    BY DEF SortByStart
  <2> HIDE DEF before
  <2>3. \A k \in D : (CHOOSE i \in D : Cardinality(before[i]) = k - 1)
            = CHOOSE i \in D :
                Cardinality({j \in D : \/ words[j].start < words[i].start
                                       \/ (words[j].start = words[i].start /\ j < i)}) = k - 1
    BY <2>1
  <2> QED
    BY <2>2, <2>3
<1> HIDE DEF before, D
<1>6. \A k \in D : at(k) \in D
  <2>1. \A k \in 1..Cardinality(D) : \E i \in D : Cardinality(before[i]) = k - 1
    BY <1>4 DEF Ranked
  <2>2. \A k \in D : \E i \in D : Cardinality(before[i]) = k - 1
    BY <1>1, <1>2, <2>1
  <2> QED
    BY <2>2
<1> HIDE DEF at
<1>7. SortByStart(words) \in [1..N -> T]
  BY <1>1, <1>5, <1>6
<1> QED
  BY <1>1, <1>7

\* Each trailing word is matched with a place of the leading words, or 0.
LEMMA MatchesFacts ==
  ASSUME NEW T, NEW trailing \in Seq(T), NEW leading \in Seq(T)
  PROVE  /\ Matches(trailing, leading) \in Seq(0..Len(leading))
         /\ Len(Matches(trailing, leading)) = Len(trailing)
<1> DEFINE n == Len(trailing)
           P == 0..Len(leading)
           V == Seq(P)
<1>1. n \in Nat /\ DOMAIN trailing = 1..n /\ Len(leading) \in Nat /\ DOMAIN leading = 1..Len(leading)
  OBVIOUS
<1>2. ASSUME NEW v \in V, NEW t
      PROVE  Match(v, t, leading) \in V /\ Len(Match(v, t, leading)) = Len(v) + 1
  <2> DEFINE fits == {j \in DOMAIN leading \ ToSet(v) : SameWord(t, leading[j])}
             first == CHOOSE j \in fits : \A k \in fits : j <= k
             p == IF fits = {} THEN 0 ELSE first
  <2>1. Match(v, t, leading) = Append(v, p)
    BY DEF Match
  <2>2. fits \subseteq 1..Len(leading) /\ fits \subseteq Nat
    BY <1>1
  <2> HIDE DEF fits
  <2>3. fits # {} => \E j \in fits : \A k \in fits : j <= k
    BY <2>2, LeastNatural
  <2>4. fits # {} => first \in fits
    BY <2>3
  <2> HIDE DEF first
  <2>5. p \in P
    <3>1. CASE fits = {}
      BY <1>1, <3>1
    <3>2. CASE fits # {}
      <4>1. first \in 1..Len(leading)
        BY <2>2, <2>4, <3>2
      <4> QED
        BY <1>1, <3>2, <4>1
    <3> QED
      BY <3>1, <3>2
  <2> HIDE DEF p, P
  <2>6. Append(v, p) \in Seq(P) /\ Len(Append(v, p)) = Len(v) + 1
    BY <2>5
  <2> QED
    BY <2>1, <2>6
<1>3. <<>> \in V /\ Len(<<>>) = 0
  OBVIOUS
<1> HIDE DEF V, n
<1>4. PICK part : MatchesParts(part, V, n, trailing, leading)
  <2>1. \A v \in V, k \in 1..n : Match(v, trailing[k], leading) \in V
    BY <1>2
  <2>2. MatchesStays(V, n, trailing, leading)
    BY <1>3, <2>1 DEF MatchesStays
  <2> QED
    BY <1>1, <2>2, MatchesPrefixes
<1>5. /\ part \in [0..n -> V]
      /\ part[0] = <<>>
      /\ \A k \in 1..n : part[k] = Match(part[k - 1], trailing[k], leading)
      /\ part[n] = Matches(trailing, leading)
  BY <1>4 DEF MatchesParts
<1> DEFINE good == {k \in 0..n : Len(part[k]) = k}
<1>6. 0 \in good
  <2>1. 0 \in 0..n
    BY <1>1
  <2> QED
    BY <1>3, <1>5, <2>1
<1>7. ASSUME NEW k \in 1..n, k - 1 \in good PROVE k \in good
  <2>1. k - 1 \in 0..n /\ k \in 0..n /\ (k - 1) + 1 = k /\ Len(part[k - 1]) = k - 1
    BY <1>1, <1>7
  <2>2. Len(Match(part[k - 1], trailing[k], leading)) = Len(part[k - 1]) + 1
    BY <1>2, <1>5, <2>1
  <2> QED
    BY <1>5, <2>1, <2>2
<1>8. n \in good
  <2> HIDE DEF good
  <2>1. \A k \in 0..n : k \in good
    BY <1>1, <1>6, <1>7, Climbs
  <2> QED
    BY <1>1, <2>1
<1>9. n \in 0..n
  BY <1>1
<1> QED
  BY <1>5, <1>8, <1>9 DEF V, n

\* Where two super-chunks overlap only their own words are kept.
LEMMA ResolveFacts ==
  ASSUME NEW T, Timed(T), NEW trailing \in Seq(T), NEW leading \in Seq(T)
  PROVE  ResolveOverlap(trailing, leading) \in Seq(T)
<1> DEFINE found == Matches(trailing, leading)
           kept == [i \in DOMAIN trailing |->
                       IF found[i] # 0 /\ trailing[i].edge < leading[found[i]].edge
                       THEN leading[found[i]] ELSE trailing[i]]
           free == At(leading, DOMAIN leading \ ToSet(found))
<1>1. ResolveOverlap(trailing, leading) = SortByStart(kept \o free)
  BY DEF ResolveOverlap
<1>2. /\ Len(trailing) \in Nat /\ DOMAIN trailing = 1..Len(trailing)
      /\ \A i \in 1..Len(trailing) : trailing[i] \in T
      /\ Len(leading) \in Nat
      /\ \A i \in 1..Len(leading) : leading[i] \in T
  OBVIOUS
<1>3. found \in Seq(0..Len(leading)) /\ Len(found) = Len(trailing)
  BY MatchesFacts
<1> HIDE DEF found
<1>4. \A i \in 1..Len(trailing) : found[i] \in 0..Len(leading)
  BY <1>3
<1>5. \A i \in 1..Len(trailing) : found[i] # 0 => leading[found[i]] \in T
  BY <1>2, <1>4
<1>6. kept \in Seq(T)
  <2>1. kept \in [1..Len(trailing) -> T]
    BY <1>2, <1>5
  <2> HIDE DEF kept
  <2> QED
    BY <1>2, <2>1
<1>7. free \in Seq(T)
  <2>1. (DOMAIN leading \ ToSet(found)) \in SUBSET DOMAIN leading
    OBVIOUS
  <2> QED
    BY <2>1, AtFacts
<1> HIDE DEF kept, free
<1>8. kept \o free \in Seq(T)
  BY <1>6, <1>7
<1> QED
  BY <1>1, <1>8, SortFacts

\* One turn of the loop of merge_superchunk_words.
LEMMA JoinFacts ==
  ASSUME NEW W, Spoken(W), NEW merged \in Seq(Edged(W)), NEW prev,
         NEW chunk, chunk.words \in Seq(W), chunk.start \in Int, chunk.end \in Int
  PROVE  JoinSuperchunk(merged, prev, chunk) \in Seq(Edged(W))
<1> DEFINE T == Edged(W)
           tagged == TagWords(chunk)
           outside == At(merged, {i \in DOMAIN merged : merged[i].end <= chunk.start})
           trailing == At(merged, {i \in DOMAIN merged : merged[i].end > chunk.start})
           leading == At(tagged, {i \in DOMAIN tagged : tagged[i].start < prev.end})
           remainder == At(tagged, {i \in DOMAIN tagged : tagged[i].start >= prev.end})
<1>1. JoinSuperchunk(merged, prev, chunk) =
         IF prev.end <= chunk.start THEN merged \o tagged
         ELSE outside \o ResolveOverlap(trailing, leading) \o remainder
  BY DEF JoinSuperchunk
<1>2. tagged \in Seq(T) /\ Timed(T)
  BY TagWordsFacts, EdgedIsTimed
<1> HIDE DEF T, tagged
<1>3. merged \in Seq(T)
  BY DEF T
<1>4. outside \in Seq(T) /\ trailing \in Seq(T)
  <2> DEFINE a == {i \in DOMAIN merged : merged[i].end <= chunk.start}
             b == {i \in DOMAIN merged : merged[i].end > chunk.start}
  <2>1. a \in SUBSET DOMAIN merged /\ b \in SUBSET DOMAIN merged
    OBVIOUS
  <2> HIDE DEF a, b
  <2>2. At(merged, a) \in Seq(T) /\ At(merged, b) \in Seq(T)
    BY <1>3, <2>1, AtFacts
  <2> QED
    BY <2>2 DEF a, b
<1>5. leading \in Seq(T) /\ remainder \in Seq(T)
  <2> DEFINE a == {i \in DOMAIN tagged : tagged[i].start < prev.end}
             b == {i \in DOMAIN tagged : tagged[i].start >= prev.end}
  <2>1. a \in SUBSET DOMAIN tagged /\ b \in SUBSET DOMAIN tagged
    OBVIOUS
  <2> HIDE DEF a, b
  <2>2. At(tagged, a) \in Seq(T) /\ At(tagged, b) \in Seq(T)
    BY <1>2, <2>1, AtFacts
  <2> QED
    BY <2>2 DEF a, b
<1> HIDE DEF outside, trailing, leading, remainder
<1>6. ResolveOverlap(trailing, leading) \in Seq(T)
  BY <1>2, <1>4, <1>5, ResolveFacts
<1>7. merged \o tagged \in Seq(T)
  BY <1>2, <1>3
<1>8. outside \o ResolveOverlap(trailing, leading) \o remainder \in Seq(T)
  <2> DEFINE r == ResolveOverlap(trailing, leading)
  <2>1. r \in Seq(T)
    BY <1>6
  <2> HIDE DEF r
  <2>2. outside \o r \o remainder \in Seq(T)
    BY <1>4, <1>5, <2>1
  <2> QED
    BY <2>2 DEF r
<1> QED
  BY <1>1, <1>7, <1>8 DEF T

\* The merged words are words that super-chunks heard.
LEMMA MergedWords ==
  ASSUME NEW W, Spoken(W), NEW chunks, Heard(W, chunks)
  PROVE  MergeSuperchunkWords(chunks) \in Seq(Edged(W))
<1> DEFINE n == Len(chunks)
           V == Seq(Edged(W))
<1>1. /\ n \in Nat /\ DOMAIN chunks = 1..n
      /\ \A k \in 1..n :
            chunks[k].words \in Seq(W) /\ chunks[k].start \in Int /\ chunks[k].end \in Int
  BY DEF Heard
<1>2. \A k \in 1..n : [j \in DOMAIN chunks |-> j][k] = k
  BY <1>1
<1>3. ASSUME NEW v \in V, NEW k \in 1..n PROVE MergeWith(v, k, chunks) \in V
  <2>1. CASE k = 1
    <3>1. TagWords(chunks[k]) \in V
      BY <1>1, TagWordsFacts
    <3> QED
      BY <2>1, <3>1 DEF MergeWith
  <2>2. CASE k # 1
    <3>1. JoinSuperchunk(v, chunks[k - 1], chunks[k]) \in V
      BY <1>1, JoinFacts
    <3> QED
      BY <2>2, <3>1 DEF MergeWith
  <2> QED
    BY <2>1, <2>2
<1>4. <<>> \in V
  OBVIOUS
<1> HIDE DEF V, n
<1>5. PICK part : MergeWordsParts(part, V, n, chunks)
  <2>1. \A v \in V, k \in 1..n : MergeWith(v, [j \in DOMAIN chunks |-> j][k], chunks) \in V
    BY <1>2, <1>3
  <2>2. MergeWordsStays(V, n, chunks)
    BY <1>4, <2>1 DEF MergeWordsStays
  <2> QED
    BY <1>1, <2>2, MergeWordsPrefixes
<1>6. part \in [0..n -> V] /\ part[n] = MergeSuperchunkWords(chunks) /\ n \in 0..n
  BY <1>1, <1>5 DEF MergeWordsParts
<1> QED
  BY <1>6 DEF V

-----------------------------------------------------------------------------
(* Who talks between two points of the sweep over the turns. *)

\* Turns, of which there may be none, have times.
Turns(spans) ==
    /\ Len(spans) \in Nat /\ DOMAIN spans = 1..Len(spans)
    /\ \A i \in 1..Len(spans) : spans[i].start \in Int /\ spans[i].end \in Int

\* Two speakers talk from t to t + 1.
TwoTalk(spans, t) ==
    \E j, k \in DOMAIN spans :
        /\ spans[j].speaker # spans[k].speaker
        /\ \A turn \in {spans[j], spans[k]} : turn.start <= t /\ t + 1 <= turn.end

\* The points are increasing, and every turn begins and ends at one of them.
PointsOf(points, spans) ==
    /\ Len(points) \in Nat /\ DOMAIN points = 1..Len(points)
    /\ \A k \in 1..Len(points) : points[k] \in Int
    /\ \A j, k \in 1..Len(points) : j < k => points[j] < points[k]
    /\ \A i \in DOMAIN spans : /\ \E k \in 1..Len(points) : points[k] = spans[i].start
                               /\ \E k \in 1..Len(points) : points[k] = spans[i].end

\* The sweep stops at every start and every end of a turn, in order.
LEMMA TurnPointsFacts ==
  ASSUME NEW spans, Turns(spans)
  PROVE  PointsOf(TurnPoints(spans), spans)
<1> DEFINE N == Len(spans)
           starts == {spans[i].start : i \in 1..N}
           finishes == {spans[i].end : i \in 1..N}
           P == UNION {{spans[i].start, spans[i].end} : i \in DOMAIN spans}
<1>1. N \in Nat /\ DOMAIN spans = 1..N /\ \A i \in 1..N : spans[i].start \in Int /\ spans[i].end \in Int
  BY DEF Turns
<1>2. P = starts \union finishes
  <2>1. \A x : x \in P <=> \E i \in 1..N : x = spans[i].start \/ x = spans[i].end
    BY ONLY <1>1
  <2>2. \A x : x \in starts \union finishes <=> \E i \in 1..N : x = spans[i].start \/ x = spans[i].end
    OBVIOUS
  <2> QED
    BY ONLY <2>1, <2>2
<1>3. IsFiniteSet(starts) /\ IsFiniteSet(finishes)
  <2>1. IsFiniteSet(1..N)
    BY <1>1, FS_Interval
  <2> DEFINE f == [i \in 1..N |-> spans[i].start]
             g == [i \in 1..N |-> spans[i].end]
  <2>2. f \in Surjection(1..N, starts)
    BY DEF Surjection
  <2>3. g \in Surjection(1..N, finishes)
    BY DEF Surjection
  <2> HIDE DEF f, g, starts, finishes, N
  <2> QED
    BY <2>1, <2>2, <2>3, FS_Surjection
<1>4. IsFiniteSet(P)
  <2> HIDE DEF P, starts, finishes
  <2> QED
    BY <1>2, <1>3, FS_Union
<1>5. P \in SUBSET Int
  BY <1>1
<1>6. \A i \in DOMAIN spans : spans[i].start \in P /\ spans[i].end \in P
  OBVIOUS
<1>7. TurnPoints(spans) = InOrder(P)
  BY DEF TurnPoints
<1> HIDE DEF P, N
<1> DEFINE n == Cardinality(P)
           points == InOrder(P)
<1>8. /\ n \in Nat /\ points \in Seq(P) /\ Len(points) = n
      /\ \A k \in 1..n : points[k] \in P
      /\ \A j, k \in 1..n : j < k => points[j] < points[k]
      /\ \A x \in P : \E k \in 1..n : points[k] = x
  BY <1>4, <1>5, InOrderFacts
<1> HIDE DEF n, points
<1>9. Len(points) \in Nat /\ DOMAIN points = 1..Len(points) /\ \A k \in 1..n : points[k] \in Int
  <2>1. Len(points) \in Nat /\ DOMAIN points = 1..Len(points)
    BY <1>8
  <2>2. \A x \in P : x \in Int
    BY <1>5
  <2>3. \A k \in 1..n : points[k] \in Int
    BY <1>8, <2>2
  <2> QED
    BY <2>1, <2>3
<1>10. PointsOf(points, spans)
  BY <1>6, <1>8, <1>9 DEF PointsOf
<1> QED
  BY <1>7, <1>10 DEF points

\* The cell that t is in.
LEMMA CellOf ==
  ASSUME NEW spans, NEW points, PointsOf(points, spans), NEW t \in Int,
         NEW i \in 1..Len(points), points[i] <= t, NEW j \in 1..Len(points), t < points[j]
  PROVE  \E c \in 1..(Len(points) - 1) :
            /\ i <= c /\ c < j /\ points[c] <= t /\ t < points[c + 1]
            /\ \A k \in 1..Len(points) : (points[k] <= t => k <= c) /\ (t < points[k] => c + 1 <= k)
<1> DEFINE n == Len(points)
           Later == {k \in 1..n : t < points[k]}
<1>1. /\ n \in Nat /\ \A k \in 1..n : points[k] \in Int
      /\ \A a, b \in 1..n : a < b => points[a] < points[b]
  BY DEF PointsOf
<1>2. Later \subseteq Nat /\ j \in Later
  BY <1>1
<1>3. PICK d \in Later : \A k \in Later : d <= k
  <2> HIDE DEF Later
  <2> QED
    BY <1>2, LeastNatural
<1>4. d \in 1..n /\ t < points[d] /\ d <= j
  BY <1>2, <1>3
<1> HIDE DEF n
<1>5. ASSUME NEW k \in 1..n, points[k] <= t PROVE k < d
  <2> SUFFICES ASSUME d < k \/ d = k PROVE FALSE
    BY <1>1, <1>4
  <2>1. points[d] < points[k] \/ points[d] = points[k]
    BY <1>1, <1>4
  <2> QED
    BY <1>1, <1>4, <1>5, <2>1
<1>6. i < d /\ i \in 1..n /\ j \in 1..n
  BY <1>5 DEF n
<1> DEFINE c == d - 1
<1>7. c \in 1..(n - 1) /\ i <= c /\ c < j /\ c + 1 = d /\ c \in 1..n /\ ~ (d <= c)
  BY <1>1, <1>4, <1>6
<1>8. points[c] <= t
  <2>1. c \notin Later
    <3> HIDE DEF Later, c
    <3> QED
      BY <1>3, <1>7
  <2>2. ~ (t < points[c])
    BY <1>7, <2>1 DEF n
  <2> QED
    BY <1>1, <1>7, <2>2
<1>9. ASSUME NEW k \in 1..n
      PROVE (points[k] <= t => k <= c) /\ (t < points[k] => c + 1 <= k)
  <2>1. points[k] <= t => k <= c
    BY <1>1, <1>4, <1>5
  <2>2. t < points[k] => d <= k
    <3>1. t < points[k] => k \in Later
      BY DEF n
    <3> HIDE DEF Later
    <3> QED
      BY <1>3, <3>1
  <2> QED
    BY <1>7, <2>1, <2>2
<1> HIDE DEF c
<1>10. t < points[c + 1]
  BY <1>4, <1>7
<1> QED
  BY <1>7, <1>8, <1>9, <1>10 DEF n

\* In the cell of t the same people talk as at t.
LEMMA CrowdedCell ==
  ASSUME NEW spans, Turns(spans), NEW points, PointsOf(points, spans), NEW t \in Int,
         NEW c \in 1..(Len(points) - 1), points[c] <= t, t < points[c + 1],
         \A k \in 1..Len(points) : (points[k] <= t => k <= c) /\ (t < points[k] => c + 1 <= k)
  PROVE  Cardinality(ActiveSpeakers(spans, points[c])) >= 2 <=> TwoTalk(spans, t)
<1> DEFINE n == Len(points)
           p == points[c]
           On(i) == spans[i].start <= t /\ t + 1 <= spans[i].end
           S == ActiveSpeakers(spans, p)
<1>1. /\ n \in Nat /\ c \in 1..n /\ c + 1 \in 1..n /\ c \in Int
      /\ \A k \in 1..n : points[k] \in Int
      /\ \A a, b \in 1..n : a < b => points[a] < points[b]
      /\ \A i \in DOMAIN spans : /\ \E k \in 1..n : points[k] = spans[i].start
                                 /\ \E k \in 1..n : points[k] = spans[i].end
  <2>1. n \in Nat
    BY DEF PointsOf
  <2>2. c \in 1..n /\ c + 1 \in 1..n /\ c \in Int
    BY <2>1
  <2> QED
    BY <2>1, <2>2 DEF PointsOf
<1>2. /\ DOMAIN spans = 1..Len(spans) /\ Len(spans) \in Nat
      /\ \A i \in DOMAIN spans : spans[i].start \in Int /\ spans[i].end \in Int
  BY DEF Turns
<1>3. \A k \in 1..n : (points[k] <= t => k <= c) /\ (t < points[k] => c + 1 <= k)
  OBVIOUS
<1> HIDE DEF n
<1>4. \A a, b \in 1..n : a <= b => points[a] <= points[b]
  <2> SUFFICES ASSUME NEW a \in 1..n, NEW b \in 1..n, a <= b PROVE points[a] <= points[b]
    OBVIOUS
  <2>1. a = b \/ a < b
    BY <1>1
  <2>2. points[a] = points[b] \/ points[a] < points[b]
    BY <1>1, <2>1
  <2> QED
    BY <1>1, <2>2
<1>5. ASSUME NEW i \in DOMAIN spans
      PROVE  (spans[i].start <= p /\ p < spans[i].end) <=> On(i)
  <2>1. PICK a \in 1..n : points[a] = spans[i].start
    BY <1>1
  <2>2. PICK b \in 1..n : points[b] = spans[i].end
    BY <1>1
  <2>3. p \in Int /\ p <= t /\ points[a] \in Int /\ points[b] \in Int /\ points[c + 1] \in Int
        /\ t < points[c + 1] /\ a \in Int /\ b \in Int
    BY <1>1
  <2> HIDE DEF p
  <2>4. points[a] <= p <=> points[a] <= t
    <3>1. points[a] <= t => points[a] <= points[c]
      BY <1>1, <1>3, <1>4
    <3> QED
      BY <2>3, <3>1 DEF p
  <2>5. p < points[b] <=> t + 1 <= points[b]
    <3>1. ASSUME p < points[b] PROVE t < points[b]
      <4>1. c < b
        <5> SUFFICES ASSUME b <= c PROVE FALSE
          BY <1>1, <2>3
        <5>1. points[b] <= points[c]
          BY <1>1, <1>4
        <5> QED
          BY <2>3, <3>1, <5>1 DEF p
      <4>2. c + 1 <= b
        BY <1>1, <2>3, <4>1
      <4>3. points[c + 1] <= points[b]
        BY <1>1, <1>4, <4>2
      <4> QED
        BY <2>3, <4>3
    <3> QED
      BY <2>3, <3>1
  <2> QED
    BY <2>1, <2>2, <2>4, <2>5
<1> HIDE DEF p
<1>6. S = {spans[i].speaker : i \in {j \in DOMAIN spans : On(j)}}
  <2>1. {j \in DOMAIN spans : spans[j].start <= p /\ p < spans[j].end} = {j \in DOMAIN spans : On(j)}
    <3> HIDE DEF On
    <3> QED
      BY <1>5
  <2> QED
    BY <2>1 DEF ActiveSpeakers
<1>7. IsFiniteSet(S)
  <2> DEFINE D == {j \in DOMAIN spans : On(j)}
             f == [i \in D |-> spans[i].speaker]
  <2>1. IsFiniteSet(D)
    <3>1. IsFiniteSet(1..Len(spans))
      BY <1>2, FS_Interval
    <3>2. D \subseteq 1..Len(spans)
      BY <1>2
    <3> HIDE DEF D
    <3> QED
      BY <3>1, <3>2, FS_Subset
  <2> HIDE DEF D
  <2>2. S = {spans[i].speaker : i \in D}
    BY <1>6 DEF D
  <2> HIDE DEF S
  <2>3. f \in Surjection(D, S)
    BY <2>2 DEF Surjection
  <2> HIDE DEF f
  <2> QED
    BY <2>1, <2>3, FS_Surjection
<1>8. TwoTalk(spans, t) <=> \E x, y \in S : x # y
  <2>1. TwoTalk(spans, t) <=>
          \E j, k \in DOMAIN spans : spans[j].speaker # spans[k].speaker /\ On(j) /\ On(k)
    BY DEF TwoTalk
  <2> HIDE DEF S, On
  <2> QED
    BY <1>6, <2>1
<1> HIDE DEF S, On
<1>9. Cardinality(S) >= 2 <=> \E x, y \in S : x # y
  <2>1. ASSUME NEW x \in S, NEW y \in S, x # y PROVE Cardinality(S) >= 2
    <3>1. {x, y} = {x} \union {y} /\ y \notin {x} /\ {x, y} \subseteq S
      BY <2>1
    <3>2. IsFiniteSet({x}) /\ Cardinality({x}) = 1
      BY FS_Singleton
    <3>3. Cardinality({x} \union {y}) = Cardinality({x}) + 1
      BY <3>1, <3>2, FS_AddElement
    <3>4. Cardinality({x, y}) <= Cardinality(S) /\ Cardinality(S) \in Nat
      BY <1>7, <3>1, FS_Subset, FS_CardinalityType
    <3>5. Cardinality({x, y}) = 1 + 1
      BY <3>1, <3>2, <3>3, Zenon
    <3> QED
      BY <3>4, <3>5
  <2>2. ASSUME Cardinality(S) >= 2 PROVE \E x, y \in S : x # y
    <3>1. S # {}
      <4>1. S = {} => Cardinality(S) = 0
        BY FS_EmptySet
      <4> QED
        BY <2>2, <4>1
    <3>2. PICK x \in S : TRUE
      BY <3>1
    <3>3. IsFiniteSet({x}) /\ Cardinality({x}) = 1
      BY FS_Singleton
    <3>4. S # {x}
      <4>1. S = {x} => 1 >= 2
        BY <2>2, <3>3
      <4> QED
        BY <4>1
    <3> QED
      BY <3>2, <3>4
  <2> QED
    BY <2>1, <2>2
<1> QED
  BY <1>8, <1>9 DEF S, p

\* An overlap region begins where nobody interrupts before, and lasts as long
\* as two people talk.
Crowded(spans, points) ==
    {k \in 1..Len(points) - 1 : Cardinality(ActiveSpeakers(spans, points[k])) >= 2}

EndOf(spans, points, a) ==
    CHOOSE b \in DOMAIN points :
        a < b /\ b \notin Crowded(spans, points) /\ a..b - 1 \subseteq Crowded(spans, points)

\* _find_overlap_regions, by these names.
LEMMA RegionsAre ==
  ASSUME NEW spans
  PROVE  OverlapRegions(spans) =
           {Span(TurnPoints(spans)[a], TurnPoints(spans)[EndOf(spans, TurnPoints(spans), a)]) :
               a \in {k \in Crowded(spans, TurnPoints(spans)) :
                         k - 1 \notin Crowded(spans, TurnPoints(spans))}}
  BY DEF OverlapRegions, Crowded, EndOf

\* Where an overlap region that begins at points[a] ends.
LEMMA EndFacts ==
  ASSUME NEW spans, NEW points, PointsOf(points, spans), NEW a \in Crowded(spans, points)
  PROVE  /\ a \in 1..(Len(points) - 1) /\ EndOf(spans, points, a) \in 1..Len(points)
         /\ a < EndOf(spans, points, a)
         /\ EndOf(spans, points, a) \notin Crowded(spans, points)
         /\ \A k \in a..(EndOf(spans, points, a) - 1) : k \in Crowded(spans, points)
<1> DEFINE C == Crowded(spans, points)
           n == Len(points)
           Out == {k \in (a + 1)..n : k \notin C}
<1>1. n \in Nat /\ DOMAIN points = 1..n
  BY DEF PointsOf
<1>2. C \subseteq 1..(n - 1)
  BY DEF Crowded
<1> HIDE DEF C, n
<1>3. a \in C /\ a \in 1..(n - 1) /\ a \in Nat
  BY <1>1, <1>2 DEF C
<1>4. n \in Out /\ Out \subseteq Nat
  <2>1. n \notin C /\ n \in (a + 1)..n
    BY <1>1, <1>2, <1>3
  <2> QED
    BY <1>1, <1>3, <2>1
<1>5. PICK b \in Out : \A k \in Out : b <= k
  <2> HIDE DEF Out
  <2> QED
    BY <1>4, LeastNatural
<1>6. b \in (a + 1)..n /\ b \notin C
  OBVIOUS
<1>7. ASSUME NEW k \in a..(b - 1) PROVE k \in C
  <2> SUFFICES ASSUME k \notin C PROVE FALSE
    OBVIOUS
  <2>1. k # a
    BY <1>3
  <2>2. k \in (a + 1)..n /\ ~ (b <= k)
    BY <1>1, <1>3, <1>6, <2>1
  <2>3. k \in Out
    BY <2>2
  <2> HIDE DEF Out
  <2> QED
    BY <1>5, <2>2, <2>3
<1>8. b \in DOMAIN points /\ a < b /\ b \notin C /\ a..b - 1 \subseteq C
  BY <1>1, <1>3, <1>6, <1>7
<1>9. EndOf(spans, points, a) = CHOOSE c \in DOMAIN points : a < c /\ c \notin C /\ a..c - 1 \subseteq C
  BY DEF EndOf, C
<1> DEFINE e == CHOOSE c \in DOMAIN points : a < c /\ c \notin C /\ a..c - 1 \subseteq C
<1>10. e \in DOMAIN points /\ a < e /\ e \notin C /\ a..e - 1 \subseteq C
  BY <1>8
<1> HIDE DEF e
<1> QED
  BY <1>1, <1>3, <1>9, <1>10 DEF C, n, e

\* Two people talk at t if and only if the cell of t is crowded.
LEMMA CrowdedAt ==
  ASSUME NEW spans, Turns(spans), NEW points, PointsOf(points, spans), NEW t \in Int,
         NEW i \in 1..Len(points), points[i] <= t, NEW j \in 1..Len(points), t < points[j]
  PROVE  \E c \in 1..(Len(points) - 1) :
            /\ i <= c /\ c < j /\ points[c] <= t /\ t < points[c + 1]
            /\ c \in Crowded(spans, points) <=> TwoTalk(spans, t)
<1>1. PICK c \in 1..(Len(points) - 1) :
            /\ i <= c /\ c < j /\ points[c] <= t /\ t < points[c + 1]
            /\ \A k \in 1..Len(points) : (points[k] <= t => k <= c) /\ (t < points[k] => c + 1 <= k)
  BY CellOf
<1>2. Cardinality(ActiveSpeakers(spans, points[c])) >= 2 <=> TwoTalk(spans, t)
  BY <1>1, CrowdedCell
<1>3. c \in Crowded(spans, points) <=> TwoTalk(spans, t)
  BY <1>2 DEF Crowded
<1> QED
  BY <1>1, <1>3

\* A word is in an overlap region if and only if two people talk during it.
LEMMA OverlapMeansTwo ==
  ASSUME NEW spans, Turns(spans), NEW span, span.start \in Int, span.end \in Int
  PROVE  WordInOverlap(span, OverlapRegions(spans)) <=>
            \E t \in span.start..span.end - 1 : TwoTalk(spans, t)
<1> DEFINE points == TurnPoints(spans)
           C == Crowded(spans, points)
           n == Len(points)
           end(a) == EndOf(spans, points, a)
<1>1. PointsOf(points, spans)
  BY TurnPointsFacts
<1>2. OverlapRegions(spans) = {Span(points[a], points[end(a)]) : a \in {k \in C : k - 1 \notin C}}
  BY RegionsAre
<1> HIDE DEF points
<1>3. /\ n \in Nat /\ DOMAIN points = 1..n
      /\ \A k \in 1..n : points[k] \in Int
      /\ \A j, k \in 1..n : j < k => points[j] < points[k]
      /\ \A i \in DOMAIN spans : /\ \E k \in 1..n : points[k] = spans[i].start
                                 /\ \E k \in 1..n : points[k] = spans[i].end
  BY <1>1 DEF PointsOf
<1>4. \A a \in C : /\ a \in 1..(n - 1) /\ end(a) \in 1..n /\ a < end(a) /\ end(a) \notin C
                   /\ \A k \in a..(end(a) - 1) : k \in C
  BY <1>1, EndFacts
<1> HIDE DEF C, n, end
<1>5. \A j, k \in 1..n : j <= k => points[j] <= points[k]
  <2> SUFFICES ASSUME NEW j \in 1..n, NEW k \in 1..n, j <= k PROVE points[j] <= points[k]
    OBVIOUS
  <2>1. j = k \/ j < k
    BY <1>3
  <2>2. points[j] = points[k] \/ points[j] < points[k]
    BY <1>3, <2>1
  <2> QED
    BY <1>3, <2>2
<1>6. \A a : /\ Span(points[a], points[end(a)]).start = points[a]
             /\ Span(points[a], points[end(a)]).end = points[end(a)]
  BY DEF Span
<1>7. ASSUME WordInOverlap(span, OverlapRegions(spans))
      PROVE  \E t \in span.start..span.end - 1 : TwoTalk(spans, t)
  <2>1. PICK region \in OverlapRegions(spans) : Shared(span, region) > 0
    BY <1>7 DEF WordInOverlap
  <2>2. PICK a \in C : region = Span(points[a], points[end(a)])
    BY <1>2, <2>1
  <2>3. /\ a \in 1..n /\ end(a) \in 1..n /\ points[a] \in Int /\ points[end(a)] \in Int
        /\ a \in Int /\ end(a) \in Int
        /\ region.start = points[a] /\ region.end = points[end(a)]
    BY <1>3, <1>4, <1>6, <2>2
  <2> DEFINE t == Greatest(span.start, points[a])
  <2>4. /\ t \in Int /\ span.start <= t /\ t <= span.end - 1
        /\ points[a] <= t /\ t < points[end(a)]
    BY <2>1, <2>3 DEF Shared, Greatest, Least
  <2> HIDE DEF t
  <2>5. PICK c \in 1..(Len(points) - 1) :
            /\ a <= c /\ c < end(a)
            /\ c \in C <=> TwoTalk(spans, t)
    BY <1>1, <2>3, <2>4, CrowdedAt DEF C, n
  <2>6. c \in a..(end(a) - 1)
    BY <2>3, <2>5
  <2>7. TwoTalk(spans, t)
    BY <1>4, <2>5, <2>6
  <2> QED
    BY <2>4, <2>7
<1>8. ASSUME NEW t \in span.start..span.end - 1, TwoTalk(spans, t)
      PROVE  WordInOverlap(span, OverlapRegions(spans))
  <2>1. t \in Int /\ span.start <= t /\ t + 1 <= span.end
    BY <1>8
  <2>2. PICK j \in DOMAIN spans : spans[j].start <= t /\ t + 1 <= spans[j].end
    BY <1>8 DEF TwoTalk
  <2>3. PICK x \in 1..n : points[x] = spans[j].start
    BY <1>3
  <2>4. PICK y \in 1..n : points[y] = spans[j].end
    BY <1>3
  <2>5. points[x] <= t /\ t < points[y]
    BY <1>3, <2>1, <2>2, <2>3, <2>4
  <2>6. PICK c \in 1..(Len(points) - 1) :
            /\ points[c] <= t /\ t < points[c + 1]
            /\ c \in C <=> TwoTalk(spans, t)
    BY <1>1, <2>1, <2>5, CrowdedAt DEF C, n
  <2>7. c \in C /\ c \in 1..n /\ c + 1 \in 1..n /\ c \in Nat
    <3>1. c \in 1..(n - 1)
      BY DEF n
    <3> QED
      BY <1>3, <1>8, <2>6, <3>1
  <2> DEFINE Runs == {k \in 1..c : \A i \in k..c : i \in C}
  <2>8. Runs \subseteq Nat /\ c \in Runs
    BY <2>7
  <2>9. PICK a \in Runs : \A k \in Runs : a <= k
    <3> HIDE DEF Runs
    <3> QED
      BY <2>8, LeastNatural
  <2>10. a \in 1..c /\ a \in C /\ \A i \in a..c : i \in C
    BY <2>7, <2>9
  <2>11. a - 1 \notin C
    <3> SUFFICES ASSUME a - 1 \in C PROVE FALSE
      OBVIOUS
    <3>1. a - 1 \in 1..(n - 1) /\ a \in Nat
      BY <1>4, <2>10
    <3>2. a - 1 \in 1..c /\ ~ (a <= a - 1)
      BY <2>7, <2>10, <3>1
    <3>3. \A i \in (a - 1)..c : i = a - 1 \/ i \in a..c
      BY <2>7, <2>10
    <3>4. a - 1 \in Runs
      BY <2>10, <3>2, <3>3
    <3> HIDE DEF Runs
    <3> QED
      BY <2>9, <3>2, <3>4
  <2>12. /\ end(a) \in 1..n /\ a < end(a) /\ end(a) \notin C /\ end(a) \in Int
    BY <1>4, <2>10
  <2>13. c + 1 <= end(a)
    <3>1. end(a) \notin a..c
      BY <2>10, <2>12
    <3> QED
      BY <2>7, <2>10, <2>12, <3>1
  <2>14. points[a] <= t /\ t < points[end(a)] /\ points[a] \in Int /\ points[end(a)] \in Int
    <3>1. a \in 1..n /\ a <= c
      BY <1>3, <2>7, <2>10
    <3>2. points[a] <= points[c] /\ points[c + 1] <= points[end(a)]
      BY <1>5, <2>7, <2>12, <2>13, <3>1
    <3>3. points[a] \in Int /\ points[c] \in Int /\ points[c + 1] \in Int /\ points[end(a)] \in Int
      BY <1>3, <2>7, <2>12, <3>1
    <3>4. points[c] <= t /\ t < points[c + 1] /\ t \in Int
      BY <2>1, <2>6
    <3> DEFINE from == points[a]
               to == points[end(a)]
               low == points[c]
               high == points[c + 1]
    <3>5. /\ from <= low /\ high <= to /\ low <= t /\ t < high
          /\ from \in Int /\ low \in Int /\ high \in Int /\ to \in Int /\ t \in Int
      BY <3>2, <3>3, <3>4
    <3> HIDE DEF from, to, low, high
    <3>6. from <= t /\ t < to /\ from \in Int /\ to \in Int
      BY <3>5
    <3> QED
      BY <3>6 DEF from, to
  <2> DEFINE region == Span(points[a], points[end(a)])
  <2>15. region \in OverlapRegions(spans)
    BY <1>2, <2>10, <2>11
  <2>16. Shared(span, region) > 0
    <3> DEFINE from == points[a]
               to == points[end(a)]
    <3>1. Shared(span, region) = Least(span.end, to) - Greatest(span.start, from)
      BY DEF Shared, Span
    <3>2. /\ from <= t /\ t < to /\ from \in Int /\ to \in Int /\ t \in Int
          /\ span.start <= t /\ t < span.end
      BY <1>6, <2>1, <2>14
    <3> HIDE DEF from, to
    <3>3. Least(span.end, to) > t /\ Least(span.end, to) \in Int
      BY <3>2 DEF Least
    <3>4. Greatest(span.start, from) <= t /\ Greatest(span.start, from) \in Int
      BY <3>2 DEF Greatest
    <3> QED
      BY <3>1, <3>2, <3>3, <3>4
  <2> QED
    BY <2>15, <2>16 DEF WordInOverlap
<1> QED
  BY <1>7, <1>8

-----------------------------------------------------------------------------
(* All of rechunk_video. *)

\* The segments are pieces of the words, in order and without a gap, and each
\* cut has a reason.
Pieced(words, ends, T, segs, cfg) ==
    /\ words \in Seq(T) /\ Len(segs) \in Nat /\ DOMAIN segs = 1..Len(segs)
    /\ ends \in [0..Len(segs) -> 0..Len(words)]
    /\ ends[0] = 0 /\ ends[Len(segs)] = Len(words)
    /\ \A i \in 1..Len(segs) :
          /\ Fine(words, cfg, ends[i - 1], ends[i])
          /\ segs[i] = BuildSegment(SubSeq(words, ends[i - 1] + 1, ends[i]), cfg)
    /\ StartsInOrder(words) => Apart(ends, Len(segs), words, cfg)

\* rechunk_video makes pieces of the merged words.
LEMMA RechunkedFollow ==
  ASSUME NEW W, Spoken(W), NEW chunks, Heard(W, chunks), NEW cfg, cfg.max \in Int
  PROVE  \E ends : Pieced(MergeSuperchunkWords(chunks), ends, Edged(W), RechunkVideo(chunks, cfg), cfg)
<1> DEFINE T == Edged(W)
           words == MergeSuperchunkWords(chunks)
           sentences == SplitIntoSentences(words, FindBoundaries(words, cfg))
           pack == PackSentences(sentences, cfg)
           packed == EnforceMinDuration(pack, cfg)
           segs == RechunkVideo(chunks, cfg)
<1>1. words \in Seq(T) /\ Timed(T)
  BY MergedWords, EdgedIsTimed
<1>2. segs = IF words = <<>> THEN <<>>
             ELSE [i \in DOMAIN packed |-> BuildSegment(packed[i], cfg)]
  BY DEF RechunkVideo
<1> HIDE DEF T, words, segs
<1>3. CASE words = <<>>
  <2>1. Len(words) = 0 /\ segs = <<>> /\ Len(segs) = 0 /\ DOMAIN segs = 1..0 /\ 1..0 = {} /\ 0 \in 0..0
    BY <1>2, <1>3
  <2>1a. \A e : Apart(e, Len(segs), words, cfg)
    BY <2>1 DEF Apart
  <2>2. Pieced(words, [i \in 0..0 |-> 0], T, segs, cfg)
    BY <1>1, <2>1, <2>1a DEF Pieced
  <2> QED
    BY <2>2 DEF T, segs, words
<1>4. CASE words # <<>>
  <2>1. /\ sentences \in Seq(Seq(T))
        /\ \E ends : SentenceEndsAt(ends, sentences, words, cfg)
    BY <1>1, <1>4, SentencesFollow
  <2> HIDE DEF sentences
  <2>2. PICK ends : SentenceEndsAt(ends, sentences, words, cfg)
    BY <2>1
  <2>3. /\ pack \in Seq(Seq(T))
        /\ \E e : Divides(e, pack, words, Len(words), cfg) /\ Apart(e, Len(pack), words, cfg)
    BY <1>1, <2>1, <2>2, PackedFollow
  <2> HIDE DEF pack
  <2>4. PICK e : Divides(e, pack, words, Len(words), cfg) /\ Apart(e, Len(pack), words, cfg)
    BY <2>3
  <2>5. /\ packed \in Seq(Seq(T))
        /\ \E f : /\ Divides(f, packed, words, Len(words), cfg)
                  /\ StartsInOrder(words) => Apart(f, Len(packed), words, cfg)
    BY <1>1, <2>3, <2>4, EnforcedFollow
  <2> HIDE DEF packed
  <2>6. PICK f : /\ Divides(f, packed, words, Len(words), cfg)
                 /\ StartsInOrder(words) => Apart(f, Len(packed), words, cfg)
    BY <2>5
  <2>7. Len(packed) \in Nat /\ DOMAIN packed = 1..Len(packed)
    <3> DEFINE U == Seq(T)
    <3>1. packed \in Seq(U)
      BY <2>5
    <3> HIDE DEF U
    <3> QED
      BY <3>1
  <2>8. segs = [i \in 1..Len(packed) |-> BuildSegment(packed[i], cfg)]
    BY <1>2, <1>4, <2>7
  <2> DEFINE n == Len(packed)
  <2> HIDE DEF n
  <2>9. Len(segs) = n /\ DOMAIN segs = 1..n /\ n \in Nat
        /\ \A i \in 1..n : segs[i] = BuildSegment(packed[i], cfg)
    BY <2>7, <2>8 DEF n
  <2>10. /\ f \in [0..n -> 0..Len(words)] /\ f[0] = 0 /\ f[n] = Len(words)
         /\ \A i \in 1..n : /\ Fine(words, cfg, f[i - 1], f[i])
                            /\ packed[i] = SubSeq(words, f[i - 1] + 1, f[i])
    BY <2>6 DEF Divides, n
  <2>10a. StartsInOrder(words) => Apart(f, n, words, cfg)
    BY <2>6 DEF n
  <2>11. Pieced(words, f, T, segs, cfg)
    BY <1>1, <2>9, <2>10, <2>10a DEF Pieced
  <2> QED
    BY <2>11 DEF T, segs, words
<1> QED
  BY <1>3, <1>4

\* A segment and the words it is made of.
LEMMA PieceFacts ==
  ASSUME NEW T, NEW words, NEW ends, NEW segs, NEW cfg, Pieced(words, ends, T, segs, cfg),
         NEW i \in 1..Len(segs)
  PROVE  /\ segs[i].words = SubSeq(words, ends[i - 1] + 1, ends[i])
         /\ Fine(words, cfg, ends[i - 1], ends[i])
         /\ ends[i - 1] \in Nat /\ ends[i] \in 1..Len(words) /\ ends[i - 1] < ends[i]
         /\ segs[i].words \in Seq(T) /\ Len(segs[i].words) = ends[i] - ends[i - 1]
         /\ \A j \in 1..(ends[i] - ends[i - 1]) : segs[i].words[j] = words[ends[i - 1] + j]
         /\ segs[i].words[1] = words[ends[i - 1] + 1] /\ Last(segs[i].words) = words[ends[i]]
         /\ segs[i].start = words[ends[i - 1] + 1].start /\ segs[i].end = words[ends[i]].end
         /\ segs[i].speaker = DominantSpeaker(segs[i].words)
         /\ segs[i].exceeds = (words[ends[i]].end - words[ends[i - 1] + 1].start > cfg.max)
<1> DEFINE a == ends[i - 1]
           b == ends[i]
           p == SubSeq(words, a + 1, b)
<1>1. Fine(words, cfg, a, b) /\ segs[i] = BuildSegment(p, cfg) /\ words \in Seq(T)
  BY DEF Pieced
<1> HIDE DEF a, b
<1>2. a \in Nat /\ b \in 1..Len(words) /\ a < b
  BY <1>1 DEF Fine
<1>3. /\ p \in Seq(T) /\ Len(p) = b - a
      /\ \A j \in 1..(b - a) : p[j] = words[a + j]
      /\ p[1] = words[a + 1] /\ Last(p) = words[b]
  <2>1. p \in Seq(T) /\ Len(p) = b - a
    BY <1>1, <1>2, PartFacts
  <2>2. \A j \in 1..(b - a) : p[j] = words[a + j]
    BY <1>1, <1>2, PartFacts
  <2>3. p[1] = words[a + 1] /\ Last(p) = words[b]
    BY <1>1, <1>2, PartFacts
  <2> HIDE DEF p
  <2> QED
    BY <2>1, <2>2, <2>3
<1> HIDE DEF p
<1>4. /\ segs[i].words = p /\ segs[i].speaker = DominantSpeaker(p)
      /\ segs[i].start = p[1].start /\ segs[i].end = Last(p).end
      /\ segs[i].exceeds = (Last(p).end - p[1].start > cfg.max)
  BY <1>1 DEF BuildSegment, WordsSpan, Span, Length
<1> QED
  BY <1>1, <1>2, <1>3, <1>4 DEF a, b, p

\* The overlap flag of a segment.
LEMMA PieceOverlap ==
  ASSUME NEW T, NEW words, NEW ends, NEW segs, NEW cfg, Pieced(words, ends, T, segs, cfg),
         NEW i \in 1..Len(segs)
  PROVE  segs[i].overlap <=> \E j \in DOMAIN segs[i].words : segs[i].words[j].overlap
<1> DEFINE p == SubSeq(words, ends[i - 1] + 1, ends[i])
<1>1. segs[i] = BuildSegment(p, cfg)
  BY DEF Pieced
<1> HIDE DEF p
<1>2. segs[i].words = p /\ (segs[i].overlap <=> \E j \in DOMAIN p : p[j].overlap)
  BY <1>1 DEF BuildSegment
<1> QED
  BY <1>2

\* Every word is in a segment.
LEMMA PieceOfWord ==
  ASSUME NEW T, NEW words, NEW ends, NEW segs, NEW cfg, Pieced(words, ends, T, segs, cfg),
         NEW w \in 1..Len(words)
  PROVE  \E i \in 1..Len(segs) : w \in (ends[i - 1] + 1)..ends[i]
<1> DEFINE n == Len(segs)
           Reach == {i \in 0..n : w <= ends[i]}
<1>1. /\ n \in Nat /\ ends \in [0..n -> 0..Len(words)] /\ ends[0] = 0 /\ ends[n] = Len(words)
      /\ words \in Seq(T)
  BY DEF Pieced
<1>2. Len(words) \in Nat /\ w \in Nat /\ 1 <= w /\ w <= Len(words)
  BY <1>1
<1>3. Reach \subseteq Nat /\ n \in Reach
  BY <1>1, <1>2
<1>4. PICK i \in Reach : \A j \in Reach : i <= j
  <2> HIDE DEF Reach
  <2> QED
    BY <1>3, LeastNatural
<1>5. i \in 0..n /\ w <= ends[i]
  OBVIOUS
<1>6. i # 0
  BY <1>1, <1>2, <1>5
<1>7. i \in 1..n /\ i - 1 \in 0..n /\ ~ (i <= i - 1)
  BY <1>1, <1>5, <1>6
<1>8. i - 1 \notin Reach
  <2> HIDE DEF Reach
  <2> QED
    BY <1>4, <1>7
<1>9. ~ (w <= ends[i - 1]) /\ ends[i - 1] \in Nat /\ ends[i] \in Nat
  BY <1>1, <1>2, <1>5, <1>7, <1>8
<1>10. w \in (ends[i - 1] + 1)..ends[i]
  BY <1>2, <1>5, <1>9
<1> QED
  BY <1>7, <1>10

\* Transcript does to the recording what Vad does, or nothing.
THEOREM TranscriptImplementsVad == TranscriptSpec => Spec
<1>1. TranscriptInit => Init
  BY DEF TranscriptInit
<1>2. [TranscriptNext]_transcriptVars => [Next]_vars
  BY DEF TranscriptNext, transcriptVars, Next, vars, Record, Diarize, Speak, RechunkRecording
<1> QED
  BY <1>1, <1>2, PTL DEF TranscriptSpec, Spec

Hearing == {<<>>} \union {<<p>> : p \in [start : Int, end : Int]}

\* A word of the study, with what each super-chunk heard of it.
SpokenWord ==
    [start : Nat, end : Nat, text : STRING, stop : BOOLEAN, heard : [DOMAIN CoarseSegment -> Hearing]]

StudyShape ==
    study # None =>
        /\ study.late \in Nat
        /\ study.words \subseteq [start : Nat, end : Nat, text : STRING, stop : BOOLEAN]
        /\ study.cfg.max \in Nat /\ study.cfg.filter.minDuration \in Nat

Untouched == study = None => spoken = <<>> /\ segments = None

\* Once the video is rechunked nothing changes any more.
RechunkedFrom ==
    segments # None => study # None /\ segments = RechunkVideo(SuperchunkWords, study.cfg)

TurnsShape == turns \in Seq([start : Nat, end : Nat, speaker : STRING])

TranscriptInv ==
    /\ StudyShape
    /\ TurnsShape
    /\ Untouched
    /\ spoken \in Seq(SpokenWord)
    /\ RechunkedFrom

\* What the super-chunks make of the words.
HeardWords == {TaggedWord(n, p) : n \in DOMAIN spoken, p \in [start : Int, end : Int]}

\* What a super-chunk hears of a word has times, or is nothing.
LEMMA HearingsFacts ==
  ASSUME TypeOK, NEW word, word.start \in Nat, word.end \in Nat, study.late \in Nat,
         NEW k \in DOMAIN CoarseSegment
  PROVE  Hearings(word, CoarseSegment[k]) \subseteq Hearing
<1> DEFINE chunk == CoarseSegment[k]
           part(late) == Span(Greatest(word.start + late, chunk.start),
                              Least(word.end + late, chunk.end))
           parts == {part(late) : late \in {0, study.late}}
<1>1. chunk.start \in Int /\ chunk.end \in Int
  <2> DEFINE R == [start : Nat, end : Nat]
  <2>1. CoarseSegment \in Seq(R)
    BY DEF TypeOK
  <2> HIDE DEF R
  <2>2. chunk \in R
    BY <2>1
  <2> QED
    BY <2>2 DEF R
<1> HIDE DEF chunk
<1>2. \A late \in Nat : part(late) \in [start : Int, end : Int]
  BY <1>1 DEF Span, Greatest, Least
<1>3. parts \subseteq [start : Int, end : Int]
  <2> HIDE DEF part
  <2> QED
    BY <1>2
<1> SUFFICES ASSUME NEW h \in Hearings(word, chunk) PROVE h \in Hearing
  BY DEF chunk
<1>4. h = <<>> \/ \E p \in parts : h = <<p>>
  <2>1. Hearings(word, chunk) =
          IF Shared(word, chunk) <= 0 THEN {<<>>}
          ELSE {<<p>> : p \in {q \in parts : Length(q) > 0}}
               \union (IF Shared(word, chunk) = Length(word) THEN {} ELSE {<<>>})
    BY DEF Hearings
  <2> HIDE DEF parts
  <2> QED
    BY <2>1
<1> HIDE DEF parts
<1> QED
  BY <1>3, <1>4 DEF Hearing

\* A word more is a word of that shape.
LEMMA SpeakShape ==
  ASSUME TypeOK, StudyShape, spoken \in Seq(SpokenWord), Speak
  PROVE  spoken' \in Seq(SpokenWord)
<1>1. PICK word \in study.words :
        \E heard \in {h \in [DOMAIN CoarseSegment ->
                                 UNION {Hearings(word, c) : c \in ToSet(CoarseSegment)}] :
                         \A i \in DOMAIN h : h[i] \in Hearings(word, CoarseSegment[i])} :
            spoken' = Append(spoken, [start |-> word.start, end |-> word.end, text |-> word.text,
                                      stop |-> word.stop, heard |-> heard])
  BY DEF Speak
<1> DEFINE H == UNION {Hearings(word, c) : c \in ToSet(CoarseSegment)}
<1>1a. PICK heard \in {h \in [DOMAIN CoarseSegment -> H] :
                         \A i \in DOMAIN h : h[i] \in Hearings(word, CoarseSegment[i])} :
            spoken' = Append(spoken, [start |-> word.start, end |-> word.end, text |-> word.text,
                                      stop |-> word.stop, heard |-> heard])
  BY <1>1
<1> HIDE DEF H
<1>1b. heard \in [DOMAIN CoarseSegment -> H]
       /\ \A i \in DOMAIN CoarseSegment : heard[i] \in Hearings(word, CoarseSegment[i])
  OBVIOUS
<1>2. /\ word \in [start : Nat, end : Nat, text : STRING, stop : BOOLEAN]
      /\ study.late \in Nat
  BY DEF StudyShape, Speak
<1>3. \A i \in DOMAIN CoarseSegment : Hearings(word, CoarseSegment[i]) \subseteq Hearing
  BY <1>2, HearingsFacts
<1>4. heard \in [DOMAIN CoarseSegment -> Hearing]
  BY <1>1b, <1>3
<1>5. [start |-> word.start, end |-> word.end, text |-> word.text,
       stop |-> word.stop, heard |-> heard] \in SpokenWord
  BY <1>2, <1>4 DEF SpokenWord
<1> QED
  BY <1>1a, <1>5

\* Every step keeps the invariant.
LEMMA TranscriptInvInductive ==
  ASSUME TypeOK, TranscriptInv, [TranscriptNext]_transcriptVars
  PROVE  TranscriptInv'
<1> USE DEF TranscriptInv
<1>1. CASE Record
  <2>1. study = None /\ UNCHANGED <<study, turns, spoken, segments>>
    BY <1>1 DEF Record
  <2>2. spoken' = <<>> /\ segments' = None /\ study' = None /\ turns' = turns
    BY <2>1 DEF Untouched
  <2> QED
    BY <2>2 DEF StudyShape, TurnsShape, Untouched, RechunkedFrom
<1>2. CASE Diarize
  <2>1. PICK s \in Studies : /\ study = None
                             /\ \E cfg \in s.configs, ts \in s.turns :
                                  /\ study' = [words |-> s.words, late |-> s.late,
                                               limit |-> s.limit, cfg |-> cfg]
                                  /\ turns' = ts
                             /\ UNCHANGED <<regions, duration, spoken, segments>>
    BY <1>2 DEF Diarize
  <2>2. PICK cfg \in s.configs, ts \in s.turns :
            /\ study' = [words |-> s.words, late |-> s.late, limit |-> s.limit, cfg |-> cfg]
            /\ turns' = ts
    BY <2>1
  <2>3. spoken' = <<>> /\ segments' = None
    BY <2>1 DEF Untouched
  <2>4. /\ study'.late \in Nat /\ study'.cfg.max \in Nat
        /\ study'.cfg.filter.minDuration \in Nat
        /\ turns' \in Seq([start : Nat, end : Nat, speaker : STRING])
        /\ study'.words \subseteq [start : Nat, end : Nat, text : STRING, stop : BOOLEAN]
    BY <2>2, StudiesAssumption
  <2> QED
    BY <2>3, <2>4 DEF StudyShape, TurnsShape, Untouched, RechunkedFrom
<1>3. CASE Speak
  <2>1. /\ study # None /\ segments = None
        /\ UNCHANGED <<regions, duration, study, turns, segments>>
    BY <1>3 DEF Speak
  <2>2. spoken' \in Seq(SpokenWord)
    BY <1>3, SpeakShape
  <2>3. SpokenWord' = SpokenWord
    BY <2>1 DEF SpokenWord, CoarseSegment
  <2>4. spoken' \in Seq(SpokenWord)'
    BY <2>2, <2>3
  <2> QED
    BY <2>1, <2>4 DEF StudyShape, TurnsShape, Untouched, RechunkedFrom
<1>4. CASE RechunkRecording
  <2>1. /\ study # None /\ segments = None
        /\ segments' = RechunkVideo(SuperchunkWords, study.cfg)
        /\ UNCHANGED <<regions, duration, study, turns, spoken>>
    BY <1>4 DEF RechunkRecording
  <2>2. SpokenWord' = SpokenWord /\ SuperchunkWords' = SuperchunkWords
    <3>0. regions' = regions /\ duration' = duration /\ study' = study /\ turns' = turns
          /\ spoken' = spoken
      BY <2>1
    <3>1. CoarseSegment' = CoarseSegment
      BY <3>0 DEF CoarseSegment
    <3>2. SpokenWord' = SpokenWord
      BY <3>1 DEF SpokenWord
    <3>3. SuperchunkWords' = SuperchunkWords
      BY <3>0 DEF SuperchunkWords, TaggedWord, CoarseSegment
    <3> QED
      BY <3>2, <3>3
  <2>3. spoken' \in Seq(SpokenWord)'
    BY <2>1, <2>2
  <2> QED
    BY <2>1, <2>2, <2>3 DEF StudyShape, TurnsShape, Untouched, RechunkedFrom
<1>5. CASE UNCHANGED transcriptVars
  <2>1. UNCHANGED <<regions, duration, study, turns, spoken, segments>>
    BY <1>5 DEF transcriptVars
  <2>2. SpokenWord' = SpokenWord /\ SuperchunkWords' = SuperchunkWords
    BY <2>1 DEF SpokenWord, CoarseSegment, SuperchunkWords, TaggedWord
  <2>3. spoken' \in Seq(SpokenWord)'
    BY <2>1, <2>2
  <2> QED
    BY <2>1, <2>2, <2>3 DEF StudyShape, TurnsShape, Untouched, RechunkedFrom
<1> QED
  BY <1>1, <1>2, <1>3, <1>4, <1>5 DEF TranscriptNext

\* TranscriptInv, with the type of the recording, in every reachable state.
LEMMA TranscriptInvariant == TranscriptSpec => [](TypeOK /\ TranscriptInv)
<1>1. TranscriptInit => TranscriptInv
  <2> SUFFICES ASSUME TranscriptInit PROVE TranscriptInv
    OBVIOUS
  <2>1. spoken = <<>> /\ study = None /\ segments = None /\ turns = <<>>
    BY DEF TranscriptInit
  <2>2. spoken \in Seq(SpokenWord)
    <3> HIDE DEF SpokenWord
    <3> QED
      BY <2>1
  <2> QED
    BY <2>1, <2>2 DEF TranscriptInv, StudyShape, TurnsShape, Untouched, RechunkedFrom
<1>2. TypeOK /\ TranscriptInv /\ [TranscriptNext]_transcriptVars => TranscriptInv'
  BY TranscriptInvInductive
<1>3. TranscriptSpec => []TypeOK
  BY TranscriptImplementsVad, VadTypeOK
<1> QED
  BY <1>1, <1>2, <1>3, PTL DEF TranscriptSpec

\* The heard words have times.
LEMMA HeardWordsAreSpoken == Spoken(HeardWords)
<1> SUFFICES ASSUME NEW w \in HeardWords
    PROVE {"start", "end"} \subseteq DOMAIN w /\ w.start \in Int /\ w.end \in Int
  BY DEF Spoken
<1>1. PICK n \in DOMAIN spoken, p \in [start : Int, end : Int] : w = TaggedWord(n, p)
  BY DEF HeardWords
<1>2. w = [said |-> n, text |-> spoken[n].text, stop |-> spoken[n].stop,
           start |-> p.start, end |-> p.end,
           speaker |-> AssignSpeaker(p, turns, study.cfg.fill),
           overlap |-> turns # <<>> /\ WordInOverlap(p, OverlapRegions(turns))]
  BY <1>1 DEF TaggedWord
<1> QED
  BY <1>2

\* _rechunk_and_finalize reads words of the recording from the rows.
LEMMA SuperchunksHear ==
  ASSUME TypeOK, spoken \in Seq(SpokenWord)
  PROVE  Heard(HeardWords, SuperchunkWords)
<1>1. CoarseSegment \in Seq([start : Nat, end : Nat])
  BY DEF TypeOK
<1>2. Len(CoarseSegment) \in Nat /\ DOMAIN CoarseSegment = 1..Len(CoarseSegment)
      /\ \A k \in DOMAIN CoarseSegment : CoarseSegment[k] \in [start : Nat, end : Nat]
  <2> DEFINE R == [start : Nat, end : Nat]
  <2>1. CoarseSegment \in Seq(R)
    BY <1>1
  <2> HIDE DEF R
  <2>2. Len(CoarseSegment) \in Nat /\ DOMAIN CoarseSegment = 1..Len(CoarseSegment)
        /\ \A k \in DOMAIN CoarseSegment : CoarseSegment[k] \in R
    BY <2>1
  <2> QED
    BY <2>2 DEF R
<1>3. Len(spoken) \in Nat /\ DOMAIN spoken = 1..Len(spoken)
      /\ \A n \in DOMAIN spoken : spoken[n].heard \in [DOMAIN CoarseSegment -> Hearing]
  <2>1. Len(spoken) \in Nat /\ DOMAIN spoken = 1..Len(spoken)
        /\ \A n \in DOMAIN spoken : spoken[n] \in SpokenWord
    OBVIOUS
  <2> QED
    BY <2>1 DEF SpokenWord
<1> DEFINE n == Len(CoarseSegment)
           Set(k) == {m \in DOMAIN spoken : spoken[m].heard[k] # <<>>}
           heard(k) == InOrder(Set(k))
           said(k) == [i \in DOMAIN heard(k) |->
                          TaggedWord(heard(k)[i], spoken[heard(k)[i]].heard[k][1])]
<1>4. SuperchunkWords = [k \in 1..n |-> [start |-> CoarseSegment[k].start,
                                         end |-> CoarseSegment[k].end, words |-> said(k)]]
  BY <1>2 DEF SuperchunkWords
<1>5. ASSUME NEW k \in 1..n PROVE said(k) \in Seq(HeardWords)
  <2>1. Set(k) \in SUBSET Int /\ IsFiniteSet(Set(k)) /\ Set(k) \subseteq DOMAIN spoken
    <3>1. IsFiniteSet(1..Len(spoken)) /\ 1..Len(spoken) \subseteq Int
      BY <1>3, FS_Interval
    <3>2. Set(k) \subseteq 1..Len(spoken)
      BY <1>3
    <3> HIDE DEF Set
    <3> QED
      BY <1>3, <3>1, <3>2, FS_Subset
  <2>2. \A m \in Set(k) : spoken[m].heard[k] # <<>>
    OBVIOUS
  <2> HIDE DEF Set
  <2>3. heard(k) \in Seq(Set(k))
    BY <2>1, InOrderFacts
  <2> HIDE DEF heard
  <2>4. Len(heard(k)) \in Nat /\ DOMAIN heard(k) = 1..Len(heard(k))
        /\ \A i \in 1..Len(heard(k)) : heard(k)[i] \in Set(k)
    BY <2>3
  <2>5. ASSUME NEW i \in 1..Len(heard(k))
        PROVE  TaggedWord(heard(k)[i], spoken[heard(k)[i]].heard[k][1]) \in HeardWords
    <3> DEFINE m == heard(k)[i]
    <3>1. m \in Set(k) /\ m \in DOMAIN spoken
      BY <2>1, <2>4
    <3>2. spoken[m].heard[k] \in Hearing /\ spoken[m].heard[k] # <<>>
      BY <1>2, <1>3, <2>2, <3>1
    <3>3. spoken[m].heard[k][1] \in [start : Int, end : Int]
      BY <3>2 DEF Hearing
    <3> HIDE DEF m
    <3>4. TaggedWord(m, spoken[m].heard[k][1]) \in HeardWords
      BY <3>1, <3>3 DEF HeardWords
    <3> QED
      BY <3>4 DEF m
  <2>6. said(k) \in [1..Len(heard(k)) -> HeardWords]
    <3> HIDE DEF HeardWords
    <3> QED
      BY <2>4, <2>5
  <2> HIDE DEF said
  <2> QED
    BY <2>4, <2>6
<1> HIDE DEF said
<1>6. \A k \in 1..n : /\ SuperchunkWords[k].words \in Seq(HeardWords)
                      /\ SuperchunkWords[k].start \in Int /\ SuperchunkWords[k].end \in Int
  BY <1>2, <1>4, <1>5
<1> HIDE DEF n
<1>7. DOMAIN SuperchunkWords = 1..n /\ Len(SuperchunkWords) = n /\ n \in Nat
  BY <1>2, <1>4 DEF n
<1> QED
  BY <1>6, <1>7 DEF Heard

\* What the segments are made of.
LEMMA SegmentsArePieces ==
  ASSUME TypeOK, TranscriptInv, Rechunked
  PROVE  /\ study.cfg.max \in Nat
         /\ \E ends : Pieced(MergeSuperchunkWords(SuperchunkWords), ends, Edged(HeardWords),
                              segments, study.cfg)
<1>1. /\ study # None /\ segments = RechunkVideo(SuperchunkWords, study.cfg)
      /\ spoken \in Seq(SpokenWord)
  BY DEF TranscriptInv, RechunkedFrom, Rechunked
<1>2. study.cfg.max \in Nat
  BY <1>1 DEF TranscriptInv, StudyShape
<1>3. Heard(HeardWords, SuperchunkWords)
  BY <1>1, SuperchunksHear
<1>4. \E ends : Pieced(MergeSuperchunkWords(SuperchunkWords), ends, Edged(HeardWords),
                              RechunkVideo(SuperchunkWords, study.cfg), study.cfg)
  <2>1. study.cfg.max \in Int
    BY <1>2
  <2> QED
    BY <1>3, <2>1, HeardWordsAreSpoken, RechunkedFollow
<1> QED
  BY <1>1, <1>2, <1>4

-----------------------------------------------------------------------------
(* The theorems. *)

\* The segments are the merged words, cut at ends.
WordsAreDivided ==
    Rechunked =>
    LET words == MergeSuperchunkWords(SuperchunkWords) IN
    \E ends \in [0..Len(segments) -> 0..Len(words)] :
        /\ ends[0] = 0 /\ ends[Len(segments)] = Len(words)
        /\ \A i \in 1..Len(segments) :
              ends[i - 1] < ends[i] /\ segments[i].words = SubSeq(words, ends[i - 1] + 1, ends[i])

\* Pieces are what rechunk_video makes.
LEMMA DividedWords == TypeOK /\ TranscriptInv => WordsAreDivided
<1> SUFFICES ASSUME TypeOK, TranscriptInv, Rechunked PROVE WordsAreDivided
  BY DEF WordsAreDivided
<1> DEFINE words == MergeSuperchunkWords(SuperchunkWords)
<1> DEFINE T == Edged(HeardWords)
<1>1. \E ends : Pieced(words, ends, T, segments, study.cfg)
  BY SegmentsArePieces
<1> HIDE DEF words, T
<1>2. PICK ends : Pieced(words, ends, T, segments, study.cfg)
  BY <1>1
<1>3. ASSUME NEW i \in 1..Len(segments)
      PROVE  ends[i - 1] < ends[i] /\ segments[i].words = SubSeq(words, ends[i - 1] + 1, ends[i])
  BY <1>2, PieceFacts
<1>4. ends \in [0..Len(segments) -> 0..Len(words)] /\ ends[0] = 0 /\ ends[Len(segments)] = Len(words)
  BY <1>2 DEF Pieced
<1>5. \E e \in [0..Len(segments) -> 0..Len(words)] :
        /\ e[0] = 0 /\ e[Len(segments)] = Len(words)
        /\ \A i \in 1..Len(segments) :
              e[i - 1] < e[i] /\ segments[i].words = SubSeq(words, e[i - 1] + 1, e[i])
  BY <1>3, <1>4
<1> QED
  BY <1>5 DEF WordsAreDivided, words

\* The first word after a cut begins a sentence: the cut is at a boundary.
LEMMA WholeSentences == TypeOK /\ TranscriptInv => SentencesStayWhole
<1> SUFFICES ASSUME TypeOK, TranscriptInv, Rechunked, NEW i \in 1..(Len(segments) - 1)
    PROVE SentenceEnds(Last(segments[i].words), segments[i + 1].words[1])
  BY DEF SentencesStayWhole
<1> DEFINE T == Edged(HeardWords)
           n == Len(segments)
<1>1. PICK words, ends : Pieced(words, ends, T, segments, study.cfg)
  BY SegmentsArePieces
<1>2. /\ n \in Nat /\ ends \in [0..n -> 0..Len(words)] /\ words \in Seq(T)
  BY <1>1 DEF Pieced
<1>3. i \in 1..n /\ i + 1 \in 1..n /\ (i + 1) - 1 = i
  <2> HIDE DEF n
  <2> QED
    BY <1>2 DEF n
<1> HIDE DEF T, n
<1>4. /\ Fine(words, study.cfg, ends[i - 1], ends[i])
      /\ ends[i] \in 1..Len(words) /\ Last(segments[i].words) = words[ends[i]]
  BY <1>1, <1>3, PieceFacts DEF n
<1>5. /\ ends[i + 1] \in 1..Len(words) /\ ends[i] < ends[i + 1]
      /\ segments[i + 1].words[1] = words[ends[i] + 1]
  <2> DEFINE k == i + 1
  <2>1. k \in 1..Len(segments) /\ k - 1 = i
    BY <1>3 DEF n
  <2> HIDE DEF k
  <2>2. /\ ends[k] \in 1..Len(words) /\ ends[k - 1] < ends[k]
        /\ segments[k].words[1] = words[ends[k - 1] + 1]
    BY <1>1, <2>1, PieceFacts
  <2>3. /\ ends[k] \in 1..Len(words) /\ ends[i] < ends[k]
        /\ segments[k].words[1] = words[ends[i] + 1]
    BY <2>1, <2>2
  <2> QED
    BY <2>3 DEF k
<1>6. ends[i] \in 1..(Len(words) - 1)
  <2>1. Len(words) \in Nat
    BY <1>2
  <2> QED
    BY <1>4, <1>5, <2>1
<1>7. ends[i] \in FindBoundaries(words, study.cfg)
  BY <1>4 DEF Fine
<1>8. \/ words[ends[i]].stop
      \/ words[ends[i] + 1].start - words[ends[i]].end >= study.cfg.silence
      \/ study.cfg.split /\ SpeakerChanges(words[ends[i]], words[ends[i] + 1])
  BY <1>2, <1>6, <1>7, BoundaryFacts
<1> QED
  BY <1>4, <1>5, <1>8 DEF SentenceEnds, SpeakerChanges

\* A piece that is too long is one sentence: nothing was added to it.
LEMMA LongSegments == TypeOK /\ TranscriptInv => OnlySentencesExceed
<1> SUFFICES ASSUME TypeOK, TranscriptInv, Rechunked, NEW segment \in ToSet(segments)
    PROVE  /\ segment.exceeds <=> Length(segment) > study.cfg.max
           /\ segment.exceeds => OneSentence(segment)
  BY DEF OnlySentencesExceed
<1> DEFINE T == Edged(HeardWords)
<1>1. PICK words, ends : Pieced(words, ends, T, segments, study.cfg)
  BY SegmentsArePieces
<1>2. PICK i \in 1..Len(segments) : segment = segments[i]
  BY <1>1 DEF Pieced, ToSet
<1> DEFINE a == ends[i - 1]
           b == ends[i]
<1>3. /\ Fine(words, study.cfg, a, b) /\ words \in Seq(T)
      /\ a \in Nat /\ b \in 1..Len(words) /\ a < b
      /\ Len(segment.words) = b - a
      /\ \A j \in 1..(b - a) : segment.words[j] = words[a + j]
      /\ segment.start = words[a + 1].start /\ segment.end = words[b].end
      /\ segment.exceeds = (words[b].end - words[a + 1].start > study.cfg.max)
  <2>1. words \in Seq(T)
    BY <1>1 DEF Pieced
  <2> HIDE DEF T
  <2> QED
    BY <1>1, <1>2, <2>1, PieceFacts
<1> HIDE DEF a, b
<1>4. segment.exceeds <=> Length(segment) > study.cfg.max
  BY <1>3 DEF Length
<1>5. ASSUME segment.exceeds, NEW j \in 1..(Len(segment.words) - 1)
      PROVE  ~ SentenceEnds(segment.words[j], segment.words[j + 1])
  <2>1. study.cfg.max \in Nat
    BY SegmentsArePieces
  <2>2. words[b].end \in Int /\ words[a + 1].start \in Int
    <3>1. Timed(T)
      BY HeardWordsAreSpoken, EdgedIsTimed
    <3>2. Len(words) \in Nat /\ a + 1 \in 1..Len(words)
      BY <1>3
    <3>3. words[b] \in T /\ words[a + 1] \in T
      BY <1>3, <3>2
    <3> HIDE DEF T
    <3> QED
      BY <3>1, <3>3 DEF Timed
  <2>3. IsSentence(words, study.cfg, a, b)
    <3>1. ~ (words[b].end - words[a + 1].start <= study.cfg.max)
      <4> DEFINE x == words[b].end
                 y == words[a + 1].start
      <4>1. x \in Int /\ y \in Int /\ (x - y > study.cfg.max)
        BY <1>3, <1>5, <2>2
      <4> HIDE DEF x, y
      <4>2. ~ (x - y <= study.cfg.max)
        BY <2>1, <4>1
      <4> QED
        BY <4>2 DEF x, y
    <3> QED
      BY <1>3, <3>1 DEF Fine
  <2>4. /\ j \in 1..(b - a) /\ j + 1 \in 1..(b - a)
        /\ a + j \in (a + 1)..(b - 1) /\ a + j \in 1..(Len(words) - 1)
        /\ a + (j + 1) = (a + j) + 1
    <3>1. Len(words) \in Nat /\ b \in Nat
      BY <1>3
    <3> QED
      BY <1>3, <3>1
  <2>5. a + j \notin FindBoundaries(words, study.cfg)
    BY <2>3, <2>4 DEF IsSentence
  <2>6. ~ (\/ words[a + j].stop
           \/ words[(a + j) + 1].start - words[a + j].end >= study.cfg.silence
           \/ study.cfg.split /\ SpeakerChanges(words[a + j], words[(a + j) + 1]))
    BY <1>3, <2>4, <2>5, BoundaryFacts
  <2>7. segment.words[j] = words[a + j] /\ segment.words[j + 1] = words[(a + j) + 1]
    <3> DEFINE k == j + 1
    <3>1. \A l \in 1..(b - a) : segment.words[l] = words[a + l]
      BY <1>3
    <3>2. segment.words[j] = words[a + j]
      BY <2>4, <3>1
    <3>3. k \in 1..(b - a) /\ a + k = (a + j) + 1
      BY <2>4
    <3> HIDE DEF k
    <3>4. segment.words[k] = words[(a + j) + 1]
      BY <3>1, <3>3
    <3> QED
      BY <3>2, <3>4 DEF k
  <2> QED
    BY <2>6, <2>7 DEF SentenceEnds, SpeakerChanges
<1> QED
  BY <1>4, <1>5 DEF OneSentence

\* With split a piece has one voice, which is then its dominant speaker.
LEMMA OneSpeaker == TypeOK /\ TranscriptInv => OneSpeakerWhenLabelled
<1> SUFFICES ASSUME TypeOK, TranscriptInv, Rechunked, study.cfg.split,
                    \A segment \in ToSet(segments) :
                       \A w \in ToSet(segment.words) : w.speaker # NoSpeaker,
                    NEW segment \in ToSet(segments), NEW w \in ToSet(segment.words)
    PROVE  w.speaker = segment.speaker
  BY DEF OneSpeakerWhenLabelled
<1> DEFINE T == Edged(HeardWords)
<1>1. PICK words, ends : Pieced(words, ends, T, segments, study.cfg)
  BY SegmentsArePieces
<1> HIDE DEF T
<1>2. Len(segments) \in Nat /\ DOMAIN segments = 1..Len(segments) /\ words \in Seq(T)
  BY <1>1 DEF Pieced
<1>3. \A i \in 1..Len(segments) : segments[i] \in ToSet(segments)
  BY <1>2 DEF ToSet
<1>4. Labelled(words)
  <2> SUFFICES ASSUME NEW k \in 1..Len(words) PROVE words[k].speaker # NoSpeaker
    BY DEF Labelled
  <2>1. PICK i \in 1..Len(segments) : k \in (ends[i - 1] + 1)..ends[i]
    BY <1>1, PieceOfWord
  <2> DEFINE a == ends[i - 1]
             b == ends[i]
             ws == segments[i].words
  <2>2. /\ a \in Nat /\ b \in 1..Len(words) /\ a < b
        /\ ws \in Seq(T) /\ Len(ws) = b - a
        /\ \A j \in 1..(b - a) : ws[j] = words[a + j]
    BY <1>1, PieceFacts
  <2> HIDE DEF a, b, ws
  <2>3. k - a \in 1..(b - a) /\ a + (k - a) = k
    BY <2>1, <2>2 DEF a, b
  <2>4. ws[k - a] = words[k] /\ k - a \in DOMAIN ws
    BY <2>2, <2>3
  <2>5. words[k] \in ToSet(ws)
    BY <2>4 DEF ToSet
  <2> QED
    BY <1>3, <2>5 DEF ws
<1>5. PICK i \in 1..Len(segments) : segment = segments[i]
  BY <1>2 DEF ToSet
<1> DEFINE a == ends[i - 1]
           b == ends[i]
           ws == segment.words
<1>6. /\ a \in Nat /\ b \in 1..Len(words) /\ a < b
      /\ ws \in Seq(T) /\ Len(ws) = b - a
      /\ ws = SubSeq(words, a + 1, b)
      /\ \A j \in 1..(b - a) : ws[j] = words[a + j]
      /\ segment.speaker = DominantSpeaker(ws)
      /\ Fine(words, study.cfg, a, b)
  BY <1>1, <1>5, PieceFacts
<1> HIDE DEF a, b, ws
<1>7. OneVoice(words, a, b)
  BY <1>4, <1>6 DEF Fine
<1>8. segment.speaker = words[b].speaker
  BY <1>2, <1>4, <1>6, <1>7, DominantOfPart
<1>9. PICK j \in 1..(b - a) : w = words[a + j]
  <2>1. PICK j \in DOMAIN ws : w = ws[j]
    BY DEF ToSet, ws
  <2>2. j \in 1..(b - a)
    BY <1>6, <2>1
  <2> QED
    BY <1>6, <2>1, <2>2
<1>10. a + j \in (a + 1)..b
  BY <1>6, <1>9
<1>11. w.speaker = words[b].speaker
  BY <1>7, <1>9, <1>10 DEF OneVoice
<1> QED
  BY <1>8, <1>11

\* rechunk.py 202-282: packing and _enforce_min_duration move whole sentences:
\* the segments are the merged words, in their order, each word in exactly one
\* segment and no segment empty.
THEOREM SegmentsDivideTheWords == TranscriptSpec => []WordsAreDivided
  BY DividedWords, TranscriptInvariant, PTL

\* rechunk.py 1-12: a segment never ends inside a sentence, whatever the words,
\* the super-chunks that heard them, the turns and the configuration are.
THEOREM SegmentsEndAtSentences == TranscriptSpec => []SentencesStayWhole
  BY WholeSentences, TranscriptInvariant, PTL

\* rechunk.py 205-211: a segment above the maximum is a single sentence, and only
\* such a segment is flagged.
THEOREM LongSegmentsAreSentences == TranscriptSpec => []OnlySentencesExceed
  BY LongSegments, TranscriptInvariant, PTL

\* rechunk.py 156-160, 207-210: with split_on_speaker_change every segment has
\* one speaker, provided that every word of the video has one.
THEOREM SegmentsHaveOneSpeaker == TranscriptSpec => []OneSpeakerWhenLabelled
  BY OneSpeaker, TranscriptInvariant, PTL

\* stages/vad.py 3-16: what VadProofs shows of the super-chunks holds of those that
\* the words are read from.
THEOREM SuperchunksOfTranscripts ==
  TranscriptSpec => [](CutsAreCapped /\ SpeechIsCovered /\ WordsAreHeardWhole /\ NothingLeftToMerge)
  BY TranscriptImplementsVad, VadCutsAreCapped, VadSpeechIsCovered, VadWordsAreHeardWhole,
     VadNothingLeftToMerge, PTL

\* A word has the overlap flag if and only if two people talk during it.
LEMMA OverlapFlag ==
  ASSUME TurnsShape, NEW w \in Edged(HeardWords)
  PROVE  w.overlap <=> \E t \in w.start..w.end - 1 : TwoTalk(turns, t)
<1>1. PICK v \in HeardWords, e \in Int : w = WithEdge(v, e)
  BY DEF Edged
<1>2. PICK n \in DOMAIN spoken, p \in [start : Int, end : Int] : v = TaggedWord(n, p)
  BY DEF HeardWords
<1> DEFINE flag == turns # <<>> /\ WordInOverlap(p, OverlapRegions(turns))
           who == AssignSpeaker(p, turns, study.cfg.fill)
<1>3. v = [said |-> n, text |-> spoken[n].text, stop |-> spoken[n].stop,
           start |-> p.start, end |-> p.end, speaker |-> who, overlap |-> flag]
  BY <1>2 DEF TaggedWord
<1> HIDE DEF flag, who
<1>4. v.start = p.start /\ v.end = p.end /\ v.overlap = flag
      /\ {"start", "end", "overlap"} \subseteq DOMAIN v
  BY <1>3
<1>5. w = [f \in (DOMAIN v) \union {"edge"} |-> IF f = "edge" THEN e ELSE v[f]]
  BY <1>1 DEF WithEdge
<1>6. "start" # "edge" /\ "end" # "edge" /\ "overlap" # "edge"
  OBVIOUS
<1>7. w.start = p.start /\ w.end = p.end /\ w.overlap = flag
  BY <1>4, <1>5, <1>6
<1>8. Turns(turns) /\ (turns = <<>> => DOMAIN turns = {})
  <2> DEFINE R == [start : Nat, end : Nat, speaker : STRING]
  <2>1. \A r \in R : r.start \in Int /\ r.end \in Int
    OBVIOUS
  <2>2. turns \in Seq(R)
    BY DEF TurnsShape
  <2> HIDE DEF R
  <2>3. Len(turns) \in Nat /\ DOMAIN turns = 1..Len(turns) /\ \A i \in 1..Len(turns) : turns[i] \in R
    BY <2>2
  <2> QED
    BY <2>1, <2>3 DEF Turns
<1>9. p.start \in Int /\ p.end \in Int
  OBVIOUS
<1>10. WordInOverlap(p, OverlapRegions(turns)) <=>
           \E t \in p.start..p.end - 1 : TwoTalk(turns, t)
  BY <1>8, <1>9, OverlapMeansTwo
<1>11. (\E t \in p.start..p.end - 1 : TwoTalk(turns, t)) => turns # <<>>
  BY <1>8 DEF TwoTalk
<1>12. flag <=> \E t \in p.start..p.end - 1 : TwoTalk(turns, t)
  BY <1>10, <1>11 DEF flag
<1> QED
  BY <1>7, <1>12

\* The flag of a segment is the flag of one of its words.
LEMMA OverlapOut == TypeOK /\ TranscriptInv => OverlapIsRejected
<1> SUFFICES ASSUME TypeOK, TranscriptInv, Rechunked, NEW segment \in ToSet(segments),
                    NEW language \in study.cfg.filter.languages \union {NoLanguage},
                    NEW score \in Scores
    PROVE  LET cfg == study.cfg.filter
               verdict == FilterSegment(segment, cfg, language, score) IN
            /\ verdict = "passed" =>
                 ~ (CrossTalk(segment) /\ cfg.enabled /\ cfg.reject_overlapping_speech)
            /\ ~ CrossTalk(segment) /\ Length(segment) >= cfg.minDuration /\ score = "enough"
                 => verdict = "passed"
  BY DEF OverlapIsRejected
<1> DEFINE T == Edged(HeardWords)
           cfg == study.cfg.filter
           verdict == FilterSegment(segment, cfg, language, score)
<1>1. PICK words, ends : Pieced(words, ends, T, segments, study.cfg)
  BY SegmentsArePieces
<1> HIDE DEF T
<1>2. PICK i \in 1..Len(segments) : segment = segments[i]
  BY <1>1 DEF Pieced, ToSet
<1> DEFINE a == ends[i - 1]
           b == ends[i]
           ws == segment.words
<1>3. /\ words \in Seq(T)
      /\ a \in Nat /\ b \in 1..Len(words) /\ a < b
      /\ ws \in Seq(T)
      /\ segment.start = words[a + 1].start /\ segment.end = words[b].end
      /\ segment.overlap <=> \E j \in DOMAIN ws : ws[j].overlap
  <2>1. words \in Seq(T)
    BY <1>1 DEF Pieced
  <2>2. segment.overlap <=> \E j \in DOMAIN ws : ws[j].overlap
    BY <1>1, <1>2, PieceOverlap
  <2>3. /\ a \in Nat /\ b \in 1..Len(words) /\ a < b
        /\ ws \in Seq(T)
        /\ segment.start = words[a + 1].start /\ segment.end = words[b].end
    BY <1>1, <1>2, PieceFacts
  <2> HIDE DEF a, b, ws
  <2> QED
    BY <2>1, <2>2, <2>3
<1> HIDE DEF a, b
<1>4. segment.overlap <=> CrossTalk(segment)
  <2>1. \A j \in DOMAIN ws : ws[j] \in T
    <3> HIDE DEF ws
    <3> QED
      BY <1>3
  <2>2. \A w \in T : w.overlap <=> \E t \in w.start..w.end - 1 : TwoTalk(turns, t)
    <3>1. TurnsShape
      BY DEF TranscriptInv
    <3> QED
      BY <3>1, OverlapFlag DEF T
  <2>3. CrossTalk(segment) <=>
          \E j \in DOMAIN ws : \E t \in ws[j].start..ws[j].end - 1 : TwoTalk(turns, t)
    BY DEF CrossTalk, TwoTalk
  <2> HIDE DEF ws
  <2> QED
    BY <1>3, <2>1, <2>2, <2>3
<1>5. Length(segment) \in Int /\ cfg.minDuration \in Nat
  <2>1. \A w \in T : w.start \in Int /\ w.end \in Int
    BY HeardWordsAreSpoken, EdgedIsTimed DEF T, Timed
  <2>2. a + 1 \in 1..Len(words)
    <3>1. Len(words) \in Nat
      BY <1>3
    <3> QED
      BY <1>3, <3>1
  <2>3. words[a + 1] \in T /\ words[b] \in T
    BY <1>3, <2>2
  <2>4. segment.start \in Int /\ segment.end \in Int
    BY <1>3, <2>1, <2>3
  <2>5. cfg.minDuration \in Nat
    BY DEF TranscriptInv, StudyShape, RechunkedFrom, Rechunked
  <2> QED
    BY <2>4, <2>5 DEF Length
<1>6. /\ ~ cfg.enabled => verdict = "passed"
      /\ cfg.enabled /\ Gated(segment, cfg, language) => verdict = "rejected"
      /\ cfg.enabled /\ ~ Gated(segment, cfg, language) /\ score = "enough" => verdict = "passed"
  BY DEF FilterSegment
<1> HIDE DEF verdict, cfg
<1>7. ASSUME verdict = "passed", CrossTalk(segment), cfg.enabled, cfg.reject_overlapping_speech
      PROVE  FALSE
  <2>1. Gated(segment, cfg, language)
    BY <1>4, <1>7 DEF Gated
  <2>2. "rejected" # "passed"
    OBVIOUS
  <2> QED
    BY <1>6, <1>7, <2>1, <2>2
<1>8. ASSUME ~ CrossTalk(segment), Length(segment) >= cfg.minDuration, score = "enough"
      PROVE  verdict = "passed"
  <2>1. ~ (Length(segment) < cfg.minDuration)
    BY <1>5, <1>8
  <2>2. language \in cfg.languages \union {NoLanguage}
    BY DEF cfg
  <2>3. ~ Gated(segment, cfg, language)
    BY <1>4, <1>8, <2>1, <2>2 DEF Gated
  <2> QED
    BY <1>6, <1>8, <2>3
<1> QED
  BY <1>7, <1>8 DEF verdict, cfg

\* configs/default.yaml 70-72: a segment with a word during which two speakers
\* talk never passes the filter, and no other segment is held back for it.
THEOREM CrossTalkIsRejected == TranscriptSpec => []OverlapIsRejected
  BY OverlapOut, TranscriptInvariant, PTL

\* The first sentence of these words ends with word k.
EndsFirstSentence(words, k) ==
    /\ k = Len(words) \/ SentenceEnds(words[k], words[k + 1])
    /\ \A j \in 1..k - 1 : ~ SentenceEnds(words[j], words[j + 1])

FirstSentence(words) == SubSeq(words, 1, CHOOSE k \in DOMAIN words : EndsFirstSentence(words, k))

\* A sentence of the video that begins a segment is the first of the segment.
LEMMA SentenceOfPiece ==
  ASSUME NEW T, NEW words \in Seq(T), NEW b \in Nat, NEW c \in 1..Len(words),
         NEW k \in (b + 1)..c, IsSentence(words, study.cfg, b, k)
  PROVE  Last(FirstSentence(SubSeq(words, b + 1, c))) = words[k]
<1> DEFINE ws == SubSeq(words, b + 1, c)
           l == k - b
<1>1. Len(words) \in Nat /\ b < c /\ c \in Nat /\ k \in Nat
  <2>1. Len(words) \in Nat
    OBVIOUS
  <2> QED
    BY <2>1
<1>2. /\ ws \in Seq(T) /\ Len(ws) = c - b /\ \A j \in 1..(c - b) : ws[j] = words[b + j]
  <2>1. ws \in Seq(T) /\ Len(ws) = c - b
    BY <1>1, PartFacts
  <2>2. \A j \in 1..(c - b) : ws[j] = words[b + j]
    BY <1>1, PartFacts
  <2> HIDE DEF ws
  <2> QED
    BY <2>1, <2>2
<1> HIDE DEF ws
<1>3. l \in 1..(c - b) /\ b + l = k /\ DOMAIN ws = 1..(c - b) /\ ws[l] = words[k]
  <2>1. l \in 1..(c - b) /\ b + l = k
    BY <1>1
  <2>2. DOMAIN ws = 1..(c - b)
    BY <1>2
  <2> HIDE DEF l
  <2>3. ws[l] = words[b + l]
    BY <1>2, <2>1
  <2> QED
    BY <2>1, <2>2, <2>3
<1>4. ASSUME NEW j \in 1..(c - b), j # c - b
      PROVE  SentenceEnds(ws[j], ws[j + 1]) <=> b + j \in FindBoundaries(words, study.cfg)
  <2> DEFINE i == j + 1
  <2>1. i \in 1..(c - b) /\ b + i = (b + j) + 1 /\ b + j \in 1..(Len(words) - 1)
    BY <1>1, <1>4
  <2> HIDE DEF i
  <2>2. ws[j] = words[b + j] /\ ws[i] = words[(b + j) + 1]
    BY <1>2, <2>1
  <2>3. b + j \in FindBoundaries(words, study.cfg) <=>
           \/ words[b + j].stop
           \/ words[(b + j) + 1].start - words[b + j].end >= study.cfg.silence
           \/ study.cfg.split /\ SpeakerChanges(words[b + j], words[(b + j) + 1])
    BY <2>1, BoundaryFacts
  <2> QED
    BY <2>2, <2>3 DEF SentenceEnds, SpeakerChanges, i
<1>5. /\ k \in FindBoundaries(words, study.cfg)
      /\ \A i \in (b + 1)..(k - 1) : i \notin FindBoundaries(words, study.cfg)
  BY DEF IsSentence
<1>6. EndsFirstSentence(ws, l)
  <2>1. l = Len(ws) \/ SentenceEnds(ws[l], ws[l + 1])
    <3> HIDE DEF l
    <3> QED
      BY <1>2, <1>3, <1>4, <1>5
  <2>2. ASSUME NEW j \in 1..l - 1 PROVE ~ SentenceEnds(ws[j], ws[j + 1])
    <3>0. j \in Int /\ 1 <= j /\ j <= l - 1 /\ l \in Int /\ b + l = k /\ k <= c
      BY <1>1, <1>3
    <3> HIDE DEF l
    <3>1. j \in 1..(c - b) /\ j # c - b /\ b + j \in (b + 1)..(k - 1)
      BY <1>1, <3>0
    <3> QED
      BY <1>4, <1>5, <3>1
  <2> QED
    BY <2>1, <2>2 DEF EndsFirstSentence
<1>7. ASSUME NEW i \in DOMAIN ws, EndsFirstSentence(ws, i) PROVE i = l
  <2>1. i \in 1..(c - b) /\ i \in Nat /\ l \in Nat /\ c - b \in Nat
    BY <1>1, <1>3
  <2> HIDE DEF l
  <2>2. ~ (i < l)
    <3> SUFFICES ASSUME i < l PROVE FALSE
      OBVIOUS
    <3>1. i \in 1..l - 1 /\ i # Len(ws)
      BY <1>2, <1>3, <2>1
    <3>2. SentenceEnds(ws[i], ws[i + 1])
      BY <1>7, <3>1 DEF EndsFirstSentence
    <3> QED
      BY <1>6, <3>1, <3>2 DEF EndsFirstSentence
  <2>3. ~ (l < i)
    <3> SUFFICES ASSUME l < i PROVE FALSE
      OBVIOUS
    <3>1. l \in 1..i - 1 /\ l # Len(ws)
      BY <1>2, <1>3, <2>1
    <3>2. SentenceEnds(ws[l], ws[l + 1])
      BY <1>6, <3>1 DEF EndsFirstSentence
    <3> QED
      BY <1>7, <3>1, <3>2 DEF EndsFirstSentence
  <2> QED
    BY <2>1, <2>2, <2>3
<1>8. (CHOOSE i \in DOMAIN ws : EndsFirstSentence(ws, i)) = l
  <2>1. l \in DOMAIN ws
    BY <1>3
  <2> HIDE DEF l
  <2> QED
    BY <1>6, <1>7, <2>1
<1>9. FirstSentence(ws) = SubSeq(ws, 1, l)
  BY <1>8 DEF FirstSentence
<1>10. Last(SubSeq(ws, 1, l)) = ws[l]
  <2> DEFINE z == 0
  <2>1. z \in Nat /\ l \in 1..Len(ws) /\ z < l /\ z + 1 = 1
    BY <1>2, <1>3
  <2> HIDE DEF z, l
  <2>1a. ws \in Seq(T)
    BY <1>2
  <2>1b. z \in Nat
    BY <2>1
  <2>1c. l \in 1..Len(ws)
    BY <2>1
  <2>1d. z < l
    BY <2>1
  <2>2. Last(SubSeq(ws, z + 1, l)) = ws[l]
    BY <2>1a, <2>1b, <2>1c, <2>1d, PartFacts
  <2> QED
    BY <2>1, <2>2
<1> QED
  BY <1>3, <1>9, <1>10 DEF ws

\* A reason in words is a reason in seconds and names.
LEMMA CutReasons ==
  TypeOK /\ TranscriptInv => (StartsInOrder(MergeSuperchunkWords(SuperchunkWords)) => CutsHaveAReason)
<1> SUFFICES ASSUME TypeOK, TranscriptInv, Rechunked,
                    StartsInOrder(MergeSuperchunkWords(SuperchunkWords)),
                    NEW i \in 1..Len(segments) - 1
    PROVE  \/ Last(FirstSentence(segments[i + 1].words)).end - segments[i].start > study.cfg.max
           \/ /\ study.cfg.split
              /\ NoSpeaker \notin {segments[i].speaker, segments[i + 1].speaker}
              /\ segments[i].speaker # segments[i + 1].speaker
  BY Zenon DEF CutsHaveAReason, FirstSentence, EndsFirstSentence
<1> DEFINE T == Edged(HeardWords)
           words == MergeSuperchunkWords(SuperchunkWords)
           n == Len(segments)
           l == i + 1
<1>1. \E ends : Pieced(words, ends, T, segments, study.cfg)
  BY SegmentsArePieces
<1>1a. StartsInOrder(words)
  OBVIOUS
<1> HIDE DEF T, words
<1>2. PICK ends : Pieced(words, ends, T, segments, study.cfg)
  BY <1>1
<1>3. n \in Nat /\ words \in Seq(T) /\ Apart(ends, n, words, study.cfg)
  BY <1>1a, <1>2 DEF Pieced
<1>4. i \in 1..n /\ l \in 1..n /\ l - 1 = i /\ i \in 1..(n - 1)
  <2> HIDE DEF n
  <2> QED
    BY <1>3 DEF n
<1> DEFINE a == ends[i - 1]
           b == ends[i]
           c == ends[l]
<1>5. Reason(words, study.cfg, a, b, c)
  BY <1>3, <1>4 DEF Apart
<1> HIDE DEF n, l
<1>6. /\ a \in Nat /\ b \in 1..Len(words) /\ a < b
      /\ segments[i].start = words[a + 1].start
      /\ segments[i].words = SubSeq(words, a + 1, b)
      /\ segments[i].speaker = DominantSpeaker(segments[i].words)
  BY <1>2, <1>4, PieceFacts DEF n
<1>7. /\ c \in 1..Len(words) /\ segments[l].words = SubSeq(words, b + 1, c)
      /\ segments[l].speaker = DominantSpeaker(segments[l].words)
  <2>1. /\ ends[l] \in 1..Len(words) /\ segments[l].words = SubSeq(words, ends[l - 1] + 1, ends[l])
        /\ segments[l].speaker = DominantSpeaker(segments[l].words)
    <3>1. l \in 1..Len(segments)
      BY <1>4 DEF n
    <3>2. ends[l] \in 1..Len(words)
      BY <1>2, <3>1, PieceFacts
    <3>3. segments[l].words = SubSeq(words, ends[l - 1] + 1, ends[l])
      BY <1>2, <3>1, PieceFacts
    <3>4. segments[l].speaker = DominantSpeaker(segments[l].words)
      BY <1>2, <3>1, PieceFacts
    <3> QED
      BY <3>2, <3>3, <3>4
  <2> QED
    BY <1>4, <2>1
<1> HIDE DEF a, b, c
<1>8. CASE \E k \in (b + 1)..c :
             /\ IsSentence(words, study.cfg, b, k)
             /\ words[k].end - words[a + 1].start > study.cfg.max
  <2>1. PICK k \in (b + 1)..c :
             /\ IsSentence(words, study.cfg, b, k)
             /\ words[k].end - words[a + 1].start > study.cfg.max
    BY <1>8
  <2>2. b \in Nat
    BY <1>3, <1>6
  <2>3. Last(FirstSentence(SubSeq(words, b + 1, c))) = words[k]
    BY <1>3, <1>7, <2>1, <2>2, SentenceOfPiece
  <2>4. Last(FirstSentence(segments[l].words)).end - segments[i].start > study.cfg.max
    BY <1>6, <1>7, <2>1, <2>3
  <2> QED
    BY <2>4 DEF l
<1>9. CASE /\ study.cfg.split
           /\ DominantSpeaker(SubSeq(words, a + 1, b)) # NoSpeaker
           /\ DominantSpeaker(SubSeq(words, b + 1, c)) # NoSpeaker
           /\ DominantSpeaker(SubSeq(words, a + 1, b)) # DominantSpeaker(SubSeq(words, b + 1, c))
  BY <1>6, <1>7, <1>9 DEF l
<1> QED
  BY <1>5, <1>8, <1>9 DEF Reason

\* rechunk.py 205-211, 248-254: two segments that follow one another are not one
\* because of the length or of the speakers, and _enforce_min_duration takes no
\* such reason away; for words that begin in the order in which they come.
THEOREM CutsOfOrderedWords ==
  TranscriptSpec => [](StartsInOrder(MergeSuperchunkWords(SuperchunkWords)) => CutsHaveAReason)
  BY CutReasons, TranscriptInvariant, PTL

-----------------------------------------------------------------------------
(* Which words a sequence has, in which order and how often. *)

\* r is s at the places p, which all differ.
Picked(r, s, p) ==
    /\ p \in [1..Len(r) -> 1..Len(s)]
    /\ \A k \in 1..Len(r) : r[k] = s[p[k]]
    /\ \A j, k \in 1..Len(r) : p[j] = p[k] => j = k

\* p takes the places in order and leaves none out.
PicksInOrder(p, m, places) ==
    /\ \A k \in 1..m : p[k] \in places
    /\ \A j, k \in 1..m : j < k => p[j] < p[k]
    /\ \A i \in places : \E k \in 1..m : p[k] = i

\* p leaves no word of s out and puts none before an earlier one.
SortsByStart(p, m, s) ==
    /\ \A j, k \in 1..m : j < k => s[p[j]].start <= s[p[k]].start
    /\ \A i \in 1..Len(s) : \E k \in 1..m : p[k] = i

\* At picks the places in order.
LEMMA AtPicks ==
  ASSUME NEW S, NEW s \in Seq(S), NEW places \in SUBSET DOMAIN s
  PROVE  \E p : Picked(At(s, places), s, p) /\ PicksInOrder(p, Len(At(s, places)), places)
<1>1. Len(s) \in Nat /\ DOMAIN s = 1..Len(s)
  OBVIOUS
<1>2. IsFiniteSet(places) /\ places \in SUBSET Int /\ places \subseteq 1..Len(s)
  <2>1. IsFiniteSet(1..Len(s))
    BY <1>1, FS_Interval
  <2> QED
    BY <1>1, <2>1, FS_Subset
<1> DEFINE n == Cardinality(places)
           p == InOrder(places)
           r == At(s, places)
<1>3. /\ n \in Nat /\ p \in Seq(places) /\ Len(p) = n
      /\ \A k \in 1..n : p[k] \in places
      /\ \A j, k \in 1..n : j < k => p[j] < p[k]
      /\ \A i \in places : \E k \in 1..n : p[k] = i
  BY <1>2, InOrderFacts
<1>4. r = [k \in 1..n |-> s[p[k]]]
  BY DEF At
<1> HIDE DEF n, p, r
<1>5. Len(r) = n /\ \A k \in 1..n : r[k] = s[p[k]]
  BY <1>3, <1>4
<1>6. p \in [1..n -> 1..Len(s)]
  <2>1. p \in [1..n -> places]
    BY <1>3
  <2> QED
    BY <1>2, <2>1
<1>7. ASSUME NEW j \in 1..n, NEW k \in 1..n, p[j] = p[k] PROVE j = k
  <2>1. p[j] \in Int /\ j \in Int /\ k \in Int
    BY <1>2, <1>3
  <2>2. j < k => p[j] < p[k]
    BY <1>3
  <2>3. k < j => p[k] < p[j]
    BY <1>3
  <2> QED
    BY <1>7, <2>1, <2>2, <2>3
<1>8. Picked(r, s, p)
  BY <1>5, <1>6, <1>7 DEF Picked
<1>9. PicksInOrder(p, Len(r), places)
  BY <1>3, <1>5 DEF PicksInOrder
<1> QED
  BY <1>8, <1>9 DEF r

\* What a sequence says.
Says(s, n) == \E i \in 1..Len(s) : s[i].said = n

\* A word is there once at most.
Singly(s, n) == \A i, j \in 1..Len(s) : s[i].said = n /\ s[j].said = n => i = j

\* The words are in the order in which they are said.
SaidInOrder(s) == \A i, j \in 1..Len(s) : i < j => s[i].said <= s[j].said

\* What is picked has no word that is not there, and none twice.
LEMMA PickedSays ==
  ASSUME NEW r, NEW s, NEW p, Picked(r, s, p), NEW n
  PROVE  /\ Says(r, n) => Says(s, n)
         /\ Singly(s, n) => Singly(r, n)
<1>1. ASSUME Says(r, n) PROVE Says(s, n)
  <2>1. PICK k \in 1..Len(r) : r[k].said = n
    BY <1>1 DEF Says
  <2>2. p[k] \in 1..Len(s) /\ s[p[k]].said = n
    BY <2>1 DEF Picked
  <2> QED
    BY <2>2 DEF Says
<1>2. ASSUME Singly(s, n), NEW i \in 1..Len(r), NEW j \in 1..Len(r), r[i].said = n, r[j].said = n
      PROVE  i = j
  <2>1. /\ p[i] \in 1..Len(s) /\ s[p[i]].said = n
        /\ p[j] \in 1..Len(s) /\ s[p[j]].said = n
    BY <1>2 DEF Picked
  <2>2. p[i] = p[j]
    BY <1>2, <2>1 DEF Singly
  <2> QED
    BY <2>2 DEF Picked
<1> QED
  BY <1>1, <1>2 DEF Singly

\* Two parts, one after the other.
LEMMA JoinedSays ==
  ASSUME NEW S, NEW f \in Seq(S), NEW s \in Seq(S), NEW n
  PROVE  /\ Says(f \o s, n) <=> Says(f, n) \/ Says(s, n)
         /\ Singly(f, n) /\ Singly(s, n) /\ ~ (Says(f, n) /\ Says(s, n)) => Singly(f \o s, n)
<1> DEFINE g == f \o s
<1>1. /\ Len(f) \in Nat /\ Len(s) \in Nat
      /\ \A j \in 1..Len(f) : j \in 1..Len(g) /\ g[j] = f[j]
      /\ \A q \in 1..Len(s) : Len(f) + q \in 1..Len(g) /\ g[Len(f) + q] = s[q]
      /\ \A j \in 1..Len(g) : j \in Int /\ (j \in 1..Len(f) \/ j - Len(f) \in 1..Len(s))
  BY ConcatFacts
<1> HIDE DEF g
<1>2. \A j \in 1..Len(g) : j \notin 1..Len(f) =>
         j - Len(f) \in 1..Len(s) /\ g[j] = s[j - Len(f)]
  <2> SUFFICES ASSUME NEW j \in 1..Len(g), j \notin 1..Len(f)
        PROVE j - Len(f) \in 1..Len(s) /\ g[j] = s[j - Len(f)]
    OBVIOUS
  <2>1. j - Len(f) \in 1..Len(s) /\ j \in Int
    BY <1>1
  <2>2. Len(f) + (j - Len(f)) = j
    BY <1>1, <2>1
  <2>3. g[Len(f) + (j - Len(f))] = s[j - Len(f)]
    BY <1>1, <2>1
  <2> QED
    BY <2>1, <2>2, <2>3
<1>3. ASSUME Says(g, n) PROVE Says(f, n) \/ Says(s, n)
  <2>1. PICK j \in 1..Len(g) : g[j].said = n
    BY <1>3 DEF Says
  <2>2. CASE j \in 1..Len(f)
    BY <1>1, <2>1, <2>2 DEF Says
  <2>3. CASE j \notin 1..Len(f)
    <3>1. j - Len(f) \in 1..Len(s) /\ s[j - Len(f)].said = n
      BY <1>2, <2>1, <2>3
    <3> QED
      BY <3>1 DEF Says
  <2> QED
    BY <2>2, <2>3
<1>4. ASSUME Says(f, n) PROVE Says(g, n)
  <2>1. PICK j \in 1..Len(f) : f[j].said = n
    BY <1>4 DEF Says
  <2>2. j \in 1..Len(g) /\ g[j].said = n
    BY <1>1, <2>1
  <2> QED
    BY <2>2 DEF Says
<1>5. ASSUME Says(s, n) PROVE Says(g, n)
  <2>1. PICK q \in 1..Len(s) : s[q].said = n
    BY <1>5 DEF Says
  <2>2. Len(f) + q \in 1..Len(g) /\ g[Len(f) + q].said = n
    BY <1>1, <2>1
  <2> QED
    BY <2>2 DEF Says
<1>6. ASSUME Singly(f, n), Singly(s, n), ~ (Says(f, n) /\ Says(s, n)),
             NEW i \in 1..Len(g), NEW j \in 1..Len(g), g[i].said = n, g[j].said = n
      PROVE  i = j
  <2>1. i \in 1..Len(f) => f[i].said = n /\ Says(f, n)
    BY <1>1, <1>6 DEF Says
  <2>2. j \in 1..Len(f) => f[j].said = n /\ Says(f, n)
    BY <1>1, <1>6 DEF Says
  <2>3. i \notin 1..Len(f) => i - Len(f) \in 1..Len(s) /\ s[i - Len(f)].said = n /\ Says(s, n)
    BY <1>2, <1>6 DEF Says
  <2>4. j \notin 1..Len(f) => j - Len(f) \in 1..Len(s) /\ s[j - Len(f)].said = n /\ Says(s, n)
    BY <1>2, <1>6 DEF Says
  <2>5. CASE i \in 1..Len(f) /\ j \in 1..Len(f)
    BY <1>6, <2>1, <2>2, <2>5 DEF Singly
  <2>6. CASE i \notin 1..Len(f) /\ j \notin 1..Len(f)
    <3>1. i - Len(f) = j - Len(f)
      BY <1>6, <2>3, <2>4, <2>6 DEF Singly
    <3>2. i \in Int /\ j \in Int /\ Len(f) \in Int
      BY <1>1
    <3> QED
      BY <3>1, <3>2
  <2> QED
    BY <1>6, <2>1, <2>2, <2>3, <2>4, <2>5, <2>6
<1> QED
  BY <1>3, <1>4, <1>5, <1>6 DEF g, Singly

\* Something that holds of the words of both parts, and of those of the first with
\* those of the second, holds in the whole.
LEMMA JoinedInOrder ==
  ASSUME NEW S, NEW f \in Seq(S), NEW s \in Seq(S), NEW R,
         \A i, j \in 1..Len(f) : i < j => <<f[i], f[j]>> \in R,
         \A i, j \in 1..Len(s) : i < j => <<s[i], s[j]>> \in R,
         \A i \in 1..Len(f), j \in 1..Len(s) : <<f[i], s[j]>> \in R
  PROVE  \A i, j \in 1..Len(f \o s) : i < j => <<(f \o s)[i], (f \o s)[j]>> \in R
<1> DEFINE g == f \o s
<1>1. /\ Len(f) \in Nat /\ Len(s) \in Nat
      /\ \A j \in 1..Len(f) : j \in 1..Len(g) /\ g[j] = f[j]
      /\ \A q \in 1..Len(s) : Len(f) + q \in 1..Len(g) /\ g[Len(f) + q] = s[q]
      /\ \A j \in 1..Len(g) : j \in Int /\ (j \in 1..Len(f) \/ j - Len(f) \in 1..Len(s))
  BY ConcatFacts
<1> HIDE DEF g
<1>2. ASSUME NEW j \in 1..Len(g), j \notin 1..Len(f)
      PROVE  j - Len(f) \in 1..Len(s) /\ g[j] = s[j - Len(f)] /\ j > Len(f)
  <2>1. j - Len(f) \in 1..Len(s) /\ j \in Int
    BY <1>1, <1>2
  <2>2. Len(f) + (j - Len(f)) = j /\ j > Len(f)
    BY <1>1, <2>1
  <2>3. g[Len(f) + (j - Len(f))] = s[j - Len(f)]
    BY <1>1, <2>1
  <2> QED
    BY <2>1, <2>2, <2>3
<1> SUFFICES ASSUME NEW i \in 1..Len(g), NEW j \in 1..Len(g), i < j
      PROVE <<g[i], g[j]>> \in R
  BY DEF g
<1>3. CASE i \in 1..Len(f) /\ j \in 1..Len(f)
  BY <1>1, <1>3
<1>4. CASE i \in 1..Len(f) /\ j \notin 1..Len(f)
  BY <1>1, <1>2, <1>4
<1>5. CASE i \notin 1..Len(f)
  <2>1. i - Len(f) \in 1..Len(s) /\ g[i] = s[i - Len(f)] /\ i > Len(f)
    BY <1>2, <1>5
  <2>2. j \notin 1..Len(f)
    BY <1>1, <2>1
  <2>3. j - Len(f) \in 1..Len(s) /\ g[j] = s[j - Len(f)]
    BY <1>2, <2>2
  <2>4. i - Len(f) < j - Len(f)
    BY <1>1
  <2>5. <<s[i - Len(f)], s[j - Len(f)]>> \in R
    BY <2>1, <2>3, <2>4
  <2> QED
    BY <2>1, <2>3, <2>5
<1> QED
  BY <1>3, <1>4, <1>5

\* Sorting picks the words in the order of their starts.
LEMMA SortPicks ==
  ASSUME NEW T, Timed(T), NEW words \in Seq(T)
  PROVE  /\ Len(SortByStart(words)) = Len(words)
         /\ \E p : /\ Picked(SortByStart(words), words, p)
                   /\ SortsByStart(p, Len(SortByStart(words)), words)
<1> DEFINE N == Len(words)
           D == DOMAIN words
           Before(i) == {j \in D : \/ words[j].start < words[i].start
                                  \/ (words[j].start = words[i].start /\ j < i)}
           before == [i \in D |-> Before(i)]
           at == [k \in D |-> CHOOSE i \in D : Cardinality(Before(i)) = k - 1]
           r == SortByStart(words)
<1>1. N \in Nat /\ D = 1..N /\ \A i \in D : words[i] \in T /\ words[i].start \in Int
  BY DEF Timed
<1>2. IsFiniteSet(D) /\ Cardinality(D) = N /\ D \subseteq Int
  <2>1. 1 \in Int /\ N \in Int /\ (IF 1 > N THEN 0 ELSE N - 1 + 1) = N
    BY <1>1
  <2>2. IsFiniteSet(1..N) /\ Cardinality(1..N) = IF 1 > N THEN 0 ELSE N - 1 + 1
    BY <2>1, FS_Interval
  <2> QED
    BY <1>1, <2>1, <2>2
<1>3. r = [k \in D |-> words[at[k]]]
  BY DEF SortByStart
<1>4. /\ \A i, j \in D : j \in Before(i) <=> \/ words[j].start < words[i].start
                                             \/ (words[j].start = words[i].start /\ j < i)
      /\ \A i \in D : Before(i) \in SUBSET D
  OBVIOUS
<1>5. before \in [D -> SUBSET D] /\ \A i \in D : before[i] = Before(i)
  OBVIOUS
<1>6. \A k \in D : at[k] = CHOOSE i \in D : Cardinality(Before(i)) = k - 1
  OBVIOUS
<1>7. at = [k \in D |-> CHOOSE i \in D : Cardinality(Before(i)) = k - 1]
  OBVIOUS
<1> HIDE DEF Before, before, at, D, N, r
<1>8. Ordering(D, before)
  <2>1. \A i \in D : i \notin before[i]
    BY <1>1, <1>2, <1>4, <1>5
  <2>2. ASSUME NEW i \in D, NEW j \in D, j \in before[i], NEW k \in before[j] PROVE k \in before[i]
    <3>1. /\ k \in D /\ k \in Int /\ i \in Int /\ j \in Int
          /\ words[k].start \in Int /\ words[j].start \in Int /\ words[i].start \in Int
      BY <1>1, <1>2, <1>5
    <3>2. words[k].start < words[j].start \/ (words[k].start = words[j].start /\ k < j)
      BY <1>4, <1>5, <3>1
    <3>3. words[j].start < words[i].start \/ (words[j].start = words[i].start /\ j < i)
      BY <1>4, <1>5, <2>2
    <3>4. words[k].start < words[i].start \/ (words[k].start = words[i].start /\ k < i)
      BY <3>1, <3>2, <3>3
    <3> QED
      BY <1>4, <1>5, <3>1, <3>4
  <2>3. ASSUME NEW i \in D, NEW j \in D PROVE i = j \/ i \in before[j] \/ j \in before[i]
    <3>1. i \in Int /\ j \in Int /\ words[j].start \in Int /\ words[i].start \in Int
      BY <1>1, <1>2
    <3> QED
      BY <1>4, <1>5, <3>1
  <2>4. \A i, j \in D : j \in before[i] => before[j] \subseteq before[i]
    BY <2>2
  <2> QED
    BY <1>5, <2>1, <2>3, <2>4 DEF Ordering
<1>9. Ranked(D, before)
  BY <1>2, <1>8, Ranks
<1>10. /\ \A i, j \in D : j \in Before(i) => Cardinality(Before(j)) < Cardinality(Before(i))
       /\ \A i, j \in D : Cardinality(Before(i)) = Cardinality(Before(j)) => i = j
       /\ \A i \in D : Cardinality(Before(i)) \in 0..(N - 1)
       /\ \A k \in 1..N : \E i \in D : Cardinality(Before(i)) = k - 1
  BY <1>2, <1>5, <1>9 DEF Ranked
<1>11. ASSUME NEW k \in D PROVE at[k] \in D /\ Cardinality(Before(at[k])) = k - 1
  <2>1. \E i \in D : Cardinality(Before(i)) = k - 1
    BY <1>1, <1>10
  <2> QED
    BY <1>6, <2>1
<1>12. Len(r) = N /\ \A k \in 1..N : r[k] = words[at[k]]
  BY <1>1, <1>3
<1>13. Picked(r, words, at)
  <2>1. at \in [1..N -> 1..N]
    BY <1>1, <1>7, <1>11
  <2>2. ASSUME NEW j \in 1..N, NEW k \in 1..N, at[j] = at[k] PROVE j = k
    <3>1. j - 1 = k - 1 /\ j \in Int /\ k \in Int
      BY <1>1, <1>2, <1>11, <2>2
    <3> QED
      BY <3>1
  <2> QED
    BY <1>12, <2>1, <2>2 DEF Picked, N
<1>14. SortsByStart(at, Len(r), words)
  <2>1. ASSUME NEW j \in 1..N, NEW k \in 1..N, j < k
        PROVE  words[at[j]].start <= words[at[k]].start
    <3>1. /\ at[j] \in D /\ Cardinality(Before(at[j])) = j - 1
          /\ at[k] \in D /\ Cardinality(Before(at[k])) = k - 1
      BY <1>1, <1>11
    <3>2. words[at[j]].start \in Int /\ words[at[k]].start \in Int /\ j \in Int /\ k \in Int
      BY <1>1, <1>2, <3>1
    <3>3. at[k] \notin Before(at[j])
      <4>1. at[k] \in Before(at[j]) => k - 1 < j - 1
        BY <1>10, <3>1
      <4> QED
        BY <2>1, <3>2, <4>1
    <3>4. ~ (words[at[k]].start < words[at[j]].start)
      BY <1>4, <3>1, <3>3
    <3> QED
      BY <3>2, <3>4
  <2>2. ASSUME NEW i \in 1..N PROVE \E k \in 1..N : at[k] = i
    <3>1. i \in D /\ Cardinality(Before(i)) \in 0..(N - 1)
      BY <1>1, <1>10
    <3> DEFINE k == Cardinality(Before(i)) + 1
    <3>2. k \in 1..N /\ k - 1 = Cardinality(Before(i))
      BY <1>1, <3>1
    <3> HIDE DEF k
    <3>3. at[k] \in D /\ Cardinality(Before(at[k])) = Cardinality(Before(i))
      BY <1>1, <1>11, <3>2
    <3>4. at[k] = i
      BY <1>10, <3>1, <3>3
    <3> QED
      BY <3>2, <3>4
  <2> QED
    BY <1>12, <2>1, <2>2 DEF SortsByStart, N
<1>15. Len(r) = Len(words)
  BY <1>12 DEF N
<1> QED
  BY <1>13, <1>14, <1>15 DEF r

\* found are the matches of the first words: one that is matched is the same word,
\* and for one that is not every leading word that is the same was taken.
MatchedUpTo(found, trailing, leading, k) ==
    /\ found \in Seq(0..Len(leading)) /\ Len(found) = k
    /\ \A i \in 1..k : /\ found[i] # 0 => SameWord(trailing[i], leading[found[i]])
                       /\ found[i] = 0 => \A j \in DOMAIN leading :
                             SameWord(trailing[i], leading[j]) => j \in ToSet(found)

\* A trailing word takes a leading word that is the same, unless there is none free.
LEMMA MatchAppends ==
  ASSUME NEW leading, DOMAIN leading = 1..Len(leading), Len(leading) \in Nat, NEW found, NEW t
  PROVE  \E p \in 0..Len(leading) :
            /\ Match(found, t, leading) = Append(found, p)
            /\ p # 0 => SameWord(t, leading[p])
            /\ p = 0 => \A j \in DOMAIN leading : SameWord(t, leading[j]) => j \in ToSet(found)
<1> DEFINE fits == {j \in DOMAIN leading \ ToSet(found) : SameWord(t, leading[j])}
           first == CHOOSE j \in fits : \A l \in fits : j <= l
           p == IF fits = {} THEN 0 ELSE first
<1>1. Match(found, t, leading) = Append(found, p)
  BY DEF Match
<1>2. fits \subseteq 1..Len(leading) /\ fits \subseteq Nat
  OBVIOUS
<1>3. fits # {} => first \in fits
  <2> HIDE DEF fits
  <2>1. fits # {} => \E j \in fits : \A l \in fits : j <= l
    BY <1>2, LeastNatural
  <2> QED
    BY <2>1
<1>4. \A j \in fits : SameWord(t, leading[j])
  OBVIOUS
<1>5. \A j \in DOMAIN leading : SameWord(t, leading[j]) => j \in fits \/ j \in ToSet(found)
  OBVIOUS
<1> HIDE DEF fits, first
<1>6. p \in 0..Len(leading) /\ (p # 0 => SameWord(t, leading[p])) /\ (p = 0 => fits = {})
  <2>1. CASE fits = {}
    BY <2>1
  <2>2. CASE fits # {}
    <3>1. first \in 1..Len(leading) /\ SameWord(t, leading[first])
      BY <1>2, <1>3, <1>4, <2>2
    <3> QED
      BY <2>2, <3>1
  <2> QED
    BY <2>1, <2>2
<1> HIDE DEF p
<1> QED
  BY <1>1, <1>5, <1>6

\* One more trailing word.
LEMMA MatchOne ==
  ASSUME NEW trailing, NEW leading, DOMAIN leading = 1..Len(leading), Len(leading) \in Nat,
         NEW k \in Nat, NEW found, MatchedUpTo(found, trailing, leading, k)
  PROVE  MatchedUpTo(Match(found, trailing[k + 1], leading), trailing, leading, k + 1)
<1> DEFINE P == 0..Len(leading)
           t == trailing[k + 1]
<1>1. PICK p \in P :
          /\ Match(found, t, leading) = Append(found, p)
          /\ p # 0 => SameWord(t, leading[p])
          /\ p = 0 => \A j \in DOMAIN leading : SameWord(t, leading[j]) => j \in ToSet(found)
  BY MatchAppends
<1> DEFINE next == Append(found, p)
<1>2. found \in Seq(P) /\ Len(found) = k
  BY DEF MatchedUpTo
<1>3. Match(found, t, leading) = next
  BY <1>1
<1> HIDE DEF P
<1>8. /\ next \in Seq(P) /\ Len(next) = k + 1
      /\ \A i \in 1..k : next[i] = found[i]
      /\ next[k + 1] = p
  BY <1>2
<1>9. ToSet(found) \subseteq ToSet(next)
  <2>1. DOMAIN found = 1..k /\ DOMAIN next = 1..(k + 1)
    BY <1>2, <1>8
  <2> HIDE DEF next
  <2> SUFFICES ASSUME NEW x \in ToSet(found) PROVE x \in ToSet(next)
    OBVIOUS
  <2>2. PICK i \in 1..k : x = found[i]
    BY <2>1 DEF ToSet
  <2>3. i \in 1..(k + 1) /\ x = next[i]
    BY <1>8, <2>2
  <2> QED
    BY <2>1, <2>3 DEF ToSet
<1> HIDE DEF next
<1>10. ASSUME NEW i \in 1..(k + 1)
       PROVE  /\ next[i] # 0 => SameWord(trailing[i], leading[next[i]])
              /\ next[i] = 0 => \A j \in DOMAIN leading :
                    SameWord(trailing[i], leading[j]) => j \in ToSet(next)
  <2>1. CASE i \in 1..k
    BY <1>8, <1>9, <2>1 DEF MatchedUpTo
  <2>2. CASE i \notin 1..k
    <3>1. i = k + 1 /\ next[i] = p
      BY <1>8, <2>2
    <3> QED
      BY <1>1, <1>9, <3>1
  <2> QED
    BY <2>1, <2>2
<1> QED
  BY <1>3, <1>8, <1>10 DEF MatchedUpTo, P

\* What Matches finds for all of them.
LEMMA MatchesSame ==
  ASSUME NEW T, NEW trailing \in Seq(T), NEW leading \in Seq(T)
  PROVE  MatchedUpTo(Matches(trailing, leading), trailing, leading, Len(trailing))
<1> DEFINE n == Len(trailing)
           V == Seq(0..Len(leading))
<1>1. n \in Nat /\ DOMAIN trailing = 1..n /\ Len(leading) \in Nat /\ DOMAIN leading = 1..Len(leading)
  OBVIOUS
<1>2. ASSUME NEW v \in V, NEW t PROVE Match(v, t, leading) \in V
  <2>1. PICK p \in 0..Len(leading) : Match(v, t, leading) = Append(v, p)
    BY <1>1, MatchAppends
  <2> QED
    BY <2>1
<1>3. <<>> \in V /\ Len(<<>>) = 0 /\ 1..0 = {}
  OBVIOUS
<1> HIDE DEF V, n
<1>4. PICK part : MatchesParts(part, V, n, trailing, leading)
  <2>1. MatchesStays(V, n, trailing, leading)
    BY <1>2, <1>3 DEF MatchesStays
  <2> QED
    BY <1>1, <2>1, MatchesPrefixes
<1>5. /\ part[0] = <<>> /\ part[n] = Matches(trailing, leading)
      /\ \A k \in 1..n : part[k] = Match(part[k - 1], trailing[k], leading)
  BY <1>4 DEF MatchesParts
<1> DEFINE good == {k \in 0..n : MatchedUpTo(part[k], trailing, leading, k)}
<1>6. 0 \in good
  <2>1. 0 \in 0..n
    BY <1>1
  <2> QED
    BY <1>3, <1>5, <2>1 DEF MatchedUpTo, V
<1>7. ASSUME NEW k \in 1..n, k - 1 \in good PROVE k \in good
  <2>1. k - 1 \in Nat /\ k \in 0..n /\ (k - 1) + 1 = k /\ MatchedUpTo(part[k - 1], trailing, leading, k - 1)
    BY <1>1, <1>7
  <2>2. MatchedUpTo(Match(part[k - 1], trailing[(k - 1) + 1], leading), trailing, leading, (k - 1) + 1)
    BY <1>1, <2>1, MatchOne
  <2> QED
    BY <1>5, <2>1, <2>2
<1>8. n \in good
  <2> HIDE DEF good
  <2>1. \A k \in 0..n : k \in good
    BY <1>1, <1>6, <1>7, Climbs
  <2> QED
    BY <1>1, <2>1
<1> QED
  BY <1>5, <1>8 DEF n

\* Every word comes from one of the two parts.
LEMMA JoinedIs ==
  ASSUME NEW S, NEW f \in Seq(S), NEW s \in Seq(S), NEW k \in 1..Len(f \o s)
  PROVE  \/ \E i \in 1..Len(f) : (f \o s)[k] = f[i]
         \/ \E j \in 1..Len(s) : (f \o s)[k] = s[j]
<1> DEFINE g == f \o s
<1>1. /\ Len(f) \in Nat /\ Len(s) \in Nat /\ Len(g) = Len(f) + Len(s)
      /\ k <= Len(f) => g[k] = f[k]
      /\ k > Len(f) => g[k] = s[k - Len(f)]
  OBVIOUS
<1>2. k \in 1..Len(g)
  OBVIOUS
<1> HIDE DEF g
<1>3. k <= Len(f) => k \in 1..Len(f)
  BY <1>1, <1>2
<1>4. k > Len(f) => k - Len(f) \in 1..Len(s)
  BY <1>1, <1>2
<1>5. k <= Len(f) \/ k > Len(f)
  BY <1>1, <1>2
<1>6. (\E i \in 1..Len(f) : g[k] = f[i]) \/ (\E j \in 1..Len(s) : g[k] = s[j])
  BY <1>1, <1>3, <1>4, <1>5
<1> QED
  BY <1>6 DEF g

\* Two parts in the order in which they are said.
LEMMA JoinedSaid ==
  ASSUME NEW S, NEW f \in Seq(S), NEW s \in Seq(S), SaidInOrder(f), SaidInOrder(s),
         \A i \in 1..Len(f), j \in 1..Len(s) : f[i].said <= s[j].said
  PROVE  SaidInOrder(f \o s)
<1> DEFINE R == {q \in S \X S : q[1].said <= q[2].said}
<1>1. (\A i \in 1..Len(f) : f[i] \in S) /\ (\A i \in 1..Len(s) : s[i] \in S)
      /\ (\A i \in 1..Len(f \o s) : (f \o s)[i] \in S)
  <2>1. f \o s \in Seq(S)
    OBVIOUS
  <2> QED
    BY <2>1
<1>2. \A x, y \in S : <<x, y>> \in R <=> x.said <= y.said
  OBVIOUS
<1> HIDE DEF R
<1>3. \A i, j \in 1..Len(f) : i < j => <<f[i], f[j]>> \in R
  BY <1>1, <1>2 DEF SaidInOrder
<1>4. \A i, j \in 1..Len(s) : i < j => <<s[i], s[j]>> \in R
  BY <1>1, <1>2 DEF SaidInOrder
<1>5. \A i \in 1..Len(f), j \in 1..Len(s) : <<f[i], s[j]>> \in R
  BY <1>1, <1>2
<1>6. \A i, j \in 1..Len(f \o s) : i < j => <<(f \o s)[i], (f \o s)[j]>> \in R
  BY <1>3, <1>4, <1>5, JoinedInOrder
<1> QED
  BY <1>1, <1>2, <1>6 DEF SaidInOrder

\* Two parts in the order in which they start.
LEMMA JoinedStarts ==
  ASSUME NEW S, NEW f \in Seq(S), NEW s \in Seq(S), StartsInOrder(f), StartsInOrder(s),
         \A i \in 1..Len(f), j \in 1..Len(s) : f[i].start <= s[j].start
  PROVE  StartsInOrder(f \o s)
<1> DEFINE R == {q \in S \X S : q[1].start <= q[2].start}
<1>1. (\A i \in 1..Len(f) : f[i] \in S) /\ (\A i \in 1..Len(s) : s[i] \in S)
      /\ (\A i \in 1..Len(f \o s) : (f \o s)[i] \in S)
  <2>1. f \o s \in Seq(S)
    OBVIOUS
  <2> QED
    BY <2>1
<1>2. \A x, y \in S : <<x, y>> \in R <=> x.start <= y.start
  OBVIOUS
<1> HIDE DEF R
<1>3. \A i, j \in 1..Len(f) : i < j => <<f[i], f[j]>> \in R
  BY <1>1, <1>2 DEF StartsInOrder
<1>4. \A i, j \in 1..Len(s) : i < j => <<s[i], s[j]>> \in R
  BY <1>1, <1>2 DEF StartsInOrder
<1>5. \A i \in 1..Len(f), j \in 1..Len(s) : <<f[i], s[j]>> \in R
  BY <1>1, <1>2
<1>6. \A i, j \in 1..Len(f \o s) : i < j => <<(f \o s)[i], (f \o s)[j]>> \in R
  BY <1>3, <1>4, <1>5, JoinedInOrder
<1> QED
  BY <1>1, <1>2, <1>6 DEF StartsInOrder

\* What is picked in order stays in order.
LEMMA PickedInOrder ==
  ASSUME NEW r, NEW s, NEW p, NEW places, Picked(r, s, p), PicksInOrder(p, Len(r), places)
  PROVE  /\ SaidInOrder(s) => SaidInOrder(r)
         /\ StartsInOrder(s) => StartsInOrder(r)
<1>1. ASSUME NEW j \in 1..Len(r), NEW k \in 1..Len(r), j < k
      PROVE  /\ p[j] \in 1..Len(s) /\ p[k] \in 1..Len(s) /\ p[j] < p[k]
             /\ r[j] = s[p[j]] /\ r[k] = s[p[k]]
  BY <1>1 DEF Picked, PicksInOrder
<1>2. ASSUME SaidInOrder(s), NEW j \in 1..Len(r), NEW k \in 1..Len(r), j < k
      PROVE  r[j].said <= r[k].said
  BY <1>1, <1>2 DEF SaidInOrder
<1>3. ASSUME StartsInOrder(s), NEW j \in 1..Len(r), NEW k \in 1..Len(r), j < k
      PROVE  r[j].start <= r[k].start
  BY <1>1, <1>3 DEF StartsInOrder
<1> QED
  BY <1>2, <1>3 DEF SaidInOrder, StartsInOrder

\* u and v are the words at some places of s and those at the others.
Split(s, u, v) ==
    /\ \A n : Says(s, n) <=> Says(u, n) \/ Says(v, n)
    /\ \A n : Singly(s, n) => Singly(u, n) /\ Singly(v, n) /\ ~ (Says(u, n) /\ Says(v, n))
    /\ SaidInOrder(s) => SaidInOrder(u) /\ SaidInOrder(v)
    /\ StartsInOrder(s) => StartsInOrder(u) /\ StartsInOrder(v)

\* Every word is in one of the two parts.
LEMMA SplitSays ==
  ASSUME NEW S, NEW s \in Seq(S), NEW P \in SUBSET DOMAIN s, NEW Q \in SUBSET DOMAIN s,
         P \cap Q = {}, P \union Q = DOMAIN s
  PROVE  Split(s, At(s, P), At(s, Q))
<1> DEFINE u == At(s, P)
           v == At(s, Q)
<1>1. PICK p : Picked(u, s, p) /\ PicksInOrder(p, Len(u), P)
  BY AtPicks
<1>2. PICK q : Picked(v, s, q) /\ PicksInOrder(q, Len(v), Q)
  BY AtPicks
<1>3. DOMAIN s = 1..Len(s) /\ Len(s) \in Nat
  OBVIOUS
<1> HIDE DEF u, v
<1>4. /\ \A k \in 1..Len(u) : p[k] \in P /\ p[k] \in 1..Len(s) /\ u[k] = s[p[k]]
      /\ \A j, k \in 1..Len(u) : j < k => p[j] < p[k]
      /\ \A i \in P : \E k \in 1..Len(u) : p[k] = i
  BY <1>1 DEF Picked, PicksInOrder
<1>5. /\ \A k \in 1..Len(v) : q[k] \in Q /\ q[k] \in 1..Len(s) /\ v[k] = s[q[k]]
      /\ \A j, k \in 1..Len(v) : j < k => q[j] < q[k]
      /\ \A i \in Q : \E k \in 1..Len(v) : q[k] = i
  BY <1>2 DEF Picked, PicksInOrder
<1>6. ASSUME NEW n, Says(s, n) PROVE Says(u, n) \/ Says(v, n)
  <2>1. PICK i \in 1..Len(s) : s[i].said = n
    BY <1>6 DEF Says
  <2>2. CASE i \in P
    <3>1. PICK k \in 1..Len(u) : p[k] = i
      BY <1>4, <2>2
    <3>2. u[k].said = n
      BY <1>4, <2>1, <3>1
    <3> QED
      BY <3>2 DEF Says
  <2>3. CASE i \in Q
    <3>1. PICK k \in 1..Len(v) : q[k] = i
      BY <1>5, <2>3
    <3>2. v[k].said = n
      BY <1>5, <2>1, <3>1
    <3> QED
      BY <3>2 DEF Says
  <2> QED
    BY <1>3, <2>2, <2>3
<1>7. ASSUME NEW n, Singly(s, n), Says(u, n), Says(v, n) PROVE FALSE
  <2>1. PICK j \in 1..Len(u) : u[j].said = n
    BY <1>7 DEF Says
  <2>2. PICK k \in 1..Len(v) : v[k].said = n
    BY <1>7 DEF Says
  <2>3. /\ p[j] \in 1..Len(s) /\ s[p[j]].said = n /\ p[j] \in P
        /\ q[k] \in 1..Len(s) /\ s[q[k]].said = n /\ q[k] \in Q
    BY <1>4, <1>5, <2>1, <2>2
  <2>4. p[j] = q[k]
    BY <1>7, <2>3 DEF Singly
  <2> QED
    BY <2>3, <2>4
<1>8. \A n : /\ Says(u, n) => Says(s, n)
             /\ Singly(s, n) => Singly(u, n)
  BY <1>1, PickedSays
<1>9. \A n : /\ Says(v, n) => Says(s, n)
             /\ Singly(s, n) => Singly(v, n)
  BY <1>2, PickedSays
<1>10. (SaidInOrder(s) => SaidInOrder(u)) /\ (StartsInOrder(s) => StartsInOrder(u))
  BY <1>1, PickedInOrder
<1>11. (SaidInOrder(s) => SaidInOrder(v)) /\ (StartsInOrder(s) => StartsInOrder(v))
  BY <1>2, PickedInOrder
<1>12. \A n : Says(s, n) <=> Says(u, n) \/ Says(v, n)
  BY <1>6, <1>8, <1>9
<1>13. \A n : Singly(s, n) => Singly(u, n) /\ Singly(v, n) /\ ~ (Says(u, n) /\ Says(v, n))
  BY <1>7, <1>8, <1>9
<1> QED
  BY <1>10, <1>11, <1>12, <1>13 DEF Split, u, v

\* Words with their number, their text and their times.
Recorded(W) ==
    \A w \in W : /\ {"said", "text", "start", "end"} \subseteq DOMAIN w
                 /\ w.said \in Int /\ w.start \in Int /\ w.end \in Int /\ w.start < w.end

\* What is taken for the same word is the same word.
SameIsSame(W) == \A x, y \in W : SameWord(x, y) => x.said = y.said

\* A word that is said later begins later and does not end earlier.
LaterIsLater(W) == \A x, y \in W : x.said < y.said => x.start < y.start /\ x.end <= y.end

\* All that was heard of a word is taken for the same word.
AllTheSame(W, n) == \A x, y \in W : x.said = n /\ y.said = n => SameWord(x, y)

\* Of two words the one that begins earlier does not end later.
NoneInside(W) == \A x, y \in W : x.start < y.start => x.end <= y.end

\* The distance to the edge changes nothing else.
LEMMA EdgedIsRecorded ==
  ASSUME NEW W, Recorded(W)
  PROVE  /\ Spoken(W) /\ Recorded(Edged(W)) /\ Timed(Edged(W))
         /\ SameIsSame(W) => SameIsSame(Edged(W))
         /\ LaterIsLater(W) => LaterIsLater(Edged(W))
         /\ NoneInside(W) => NoneInside(Edged(W))
         /\ \A n : AllTheSame(W, n) => AllTheSame(Edged(W), n)
<1>1. ASSUME NEW x \in Edged(W)
      PROVE  \E w \in W : /\ {"said", "text", "start", "end"} \subseteq DOMAIN x
                          /\ x.said = w.said /\ x.text = w.text /\ x.start = w.start /\ x.end = w.end
  <2>1. PICK w \in W, e \in Int : x = WithEdge(w, e)
    BY DEF Edged
  <2>2. x = [f \in (DOMAIN w) \union {"edge"} |-> IF f = "edge" THEN e ELSE w[f]]
    BY <2>1 DEF WithEdge
  <2>3. {"said", "text", "start", "end"} \subseteq DOMAIN w
    BY DEF Recorded
  <2>4. "said" # "edge" /\ "text" # "edge" /\ "start" # "edge" /\ "end" # "edge"
    OBVIOUS
  <2>5. \A f \in {"said", "text", "start", "end"} : f \in DOMAIN x /\ x[f] = w[f]
    BY <2>2, <2>3, <2>4
  <2>6. x.said = w.said /\ x.text = w.text /\ x.start = w.start /\ x.end = w.end
    BY <2>5
  <2> QED
    BY <2>5, <2>6
<1>2. \A x, y, v, w : x.text = v.text /\ x.start = v.start /\ x.end = v.end
                      /\ y.text = w.text /\ y.start = w.start /\ y.end = w.end
                        => (SameWord(x, y) <=> SameWord(v, w))
  BY DEF SameWord, Shared
<1>3. Spoken(W)
  BY DEF Spoken, Recorded
<1>4. Recorded(Edged(W))
  BY <1>1 DEF Recorded
<1>5. Timed(Edged(W))
  BY <1>4 DEF Timed, Recorded
<1>6. SameIsSame(W) => SameIsSame(Edged(W))
  BY <1>1, <1>2 DEF SameIsSame
<1>7. LaterIsLater(W) => LaterIsLater(Edged(W))
  BY <1>1 DEF LaterIsLater
<1>8. NoneInside(W) => NoneInside(Edged(W))
  BY <1>1 DEF NoneInside
<1>9. \A n : AllTheSame(W, n) => AllTheSame(Edged(W), n)
  BY <1>1, <1>2 DEF AllTheSame
<1> QED
  BY <1>3, <1>4, <1>5, <1>6, <1>7, <1>8, <1>9

\* The times of two words tell which is said first.
LEMMA TimesTell ==
  ASSUME NEW T, Recorded(T), NEW x \in T, NEW y \in T
  PROVE  /\ LaterIsLater(T) /\ (x.start <= y.start \/ x.end < y.end) => x.said <= y.said
         /\ x.end <= y.start => x.start <= y.start /\ ~ SameWord(x, y) /\ ~ SameWord(y, x)
<1>1. /\ x.said \in Int /\ x.start \in Int /\ x.end \in Int /\ x.start < x.end
      /\ y.said \in Int /\ y.start \in Int /\ y.end \in Int /\ y.start < y.end
  BY DEF Recorded
<1>2. ASSUME LaterIsLater(T), x.start <= y.start \/ x.end < y.end PROVE x.said <= y.said
  <2>1. y.said < x.said => y.start < x.start /\ y.end <= x.end
    BY <1>2 DEF LaterIsLater
  <2> QED
    BY <1>1, <1>2, <2>1
<1>3. ASSUME x.end <= y.start PROVE ~ SameWord(x, y) /\ ~ SameWord(y, x)
  <2> DEFINE a == x.start
             b == x.end
             c == y.start
             d == y.end
  <2>1. a \in Int /\ b \in Int /\ c \in Int /\ d \in Int /\ a < b /\ c < d /\ b <= c
    BY <1>1, <1>3
  <2>2. SameWord(x, y) =>
          5 * Greatest(0, Least(b, d) - Greatest(a, c)) > 2 * (Greatest(b, d) - Least(a, c))
    BY DEF SameWord, Shared
  <2>3. SameWord(y, x) =>
          5 * Greatest(0, Least(d, b) - Greatest(c, a)) > 2 * (Greatest(d, b) - Least(c, a))
    BY DEF SameWord, Shared
  <2> HIDE DEF a, b, c, d
  <2>4. Least(b, d) = b /\ Least(d, b) = b /\ Greatest(a, c) = c /\ Greatest(c, a) = c
        /\ Greatest(b, d) = d /\ Greatest(d, b) = d /\ Least(a, c) = a /\ Least(c, a) = a
        /\ Greatest(0, b - c) = 0
    BY <2>1 DEF Least, Greatest
  <2>5. ~ (5 * 0 > 2 * (d - a))
    BY <2>1
  <2> QED
    BY <2>2, <2>3, <2>4, <2>5
<1> QED
  BY <1>1, <1>2, <1>3

-----------------------------------------------------------------------------
(* What rechunk_video does to the words that are said. *)

\* What the middle of two super-chunks becomes.
Resolved(r, trailing, leading, T) ==
    /\ r \in Seq(T)
    /\ \A k \in 1..Len(r) : \/ \E i \in 1..Len(trailing) : r[k] = trailing[i]
                            \/ \E j \in 1..Len(leading) : r[k] = leading[j]
    /\ StartsInOrder(r)
    /\ SameIsSame(T) =>
         /\ \A n : Says(r, n) <=> Says(trailing, n) \/ Says(leading, n)
         /\ \A n : AllTheSame(T, n) /\ Singly(trailing, n) /\ Singly(leading, n) => Singly(r, n)

\* _resolve_overlap loses no word and keeps one of two that are the same.
LEMMA ResolveSays ==
  ASSUME NEW T, Recorded(T), NEW trailing \in Seq(T), NEW leading \in Seq(T)
  PROVE  Resolved(ResolveOverlap(trailing, leading), trailing, leading, T)
<1> DEFINE found == Matches(trailing, leading)
           kept == [i \in DOMAIN trailing |->
                       IF found[i] # 0 /\ trailing[i].edge < leading[found[i]].edge
                       THEN leading[found[i]] ELSE trailing[i]]
           places == DOMAIN leading \ ToSet(found)
           free == At(leading, places)
           all == kept \o free
           r == ResolveOverlap(trailing, leading)
<1>1. /\ Len(trailing) \in Nat /\ DOMAIN trailing = 1..Len(trailing)
      /\ \A i \in 1..Len(trailing) : trailing[i] \in T
      /\ Len(leading) \in Nat /\ DOMAIN leading = 1..Len(leading)
      /\ \A i \in 1..Len(leading) : leading[i] \in T
  OBVIOUS
<1>2. r = SortByStart(all)
  BY DEF ResolveOverlap
<1>3. MatchedUpTo(found, trailing, leading, Len(trailing))
  BY MatchesSame
<1> HIDE DEF found, r
<1>4. /\ DOMAIN found = 1..Len(trailing)
      /\ \A i \in 1..Len(trailing) :
            /\ found[i] \in 0..Len(leading)
            /\ found[i] # 0 => SameWord(trailing[i], leading[found[i]])
            /\ found[i] = 0 => \A j \in DOMAIN leading :
                                   SameWord(trailing[i], leading[j]) => j \in ToSet(found)
  BY <1>1, <1>3 DEF MatchedUpTo
<1>5. \A i \in 1..Len(trailing) : found[i] # 0 =>
         /\ found[i] \in 1..Len(leading)
         /\ SameIsSame(T) => leading[found[i]].said = trailing[i].said
  BY <1>1, <1>4 DEF SameIsSame
<1>6. \A i \in 1..Len(trailing) :
         /\ kept[i] = trailing[i] \/ (found[i] # 0 /\ kept[i] = leading[found[i]])
         /\ SameIsSame(T) => kept[i].said = trailing[i].said
  BY <1>1, <1>5
<1>7. kept \in Seq(T) /\ Len(kept) = Len(trailing)
  <2>1. kept \in [1..Len(trailing) -> T]
    BY <1>1, <1>5
  <2> HIDE DEF kept
  <2> QED
    BY <1>1, <2>1
<1>8. \A j \in 1..Len(leading) : j \in places <=> j \notin ToSet(found)
  BY <1>1
<1>9. places \in SUBSET DOMAIN leading
  OBVIOUS
<1> HIDE DEF kept, places
<1>10. free \in Seq(T)
  BY <1>9, AtFacts
<1>11. PICK q : Picked(free, leading, q) /\ PicksInOrder(q, Len(free), places)
  BY <1>9, AtPicks
<1> HIDE DEF free
<1>12. /\ \A k \in 1..Len(free) : q[k] \in 1..Len(leading) /\ q[k] \in places /\ free[k] = leading[q[k]]
       /\ \A j \in places : \E k \in 1..Len(free) : q[k] = j
  BY <1>11 DEF Picked, PicksInOrder
<1>13. all \in Seq(T)
  BY <1>7, <1>10
<1>14. Timed(T)
  BY DEF Recorded, Timed
<1>14a. \A k \in 1..Len(all) : \/ \E i \in 1..Len(kept) : all[k] = kept[i]
                              \/ \E j \in 1..Len(free) : all[k] = free[j]
  BY <1>7, <1>10, JoinedIs
<1>15. \A n : /\ Says(all, n) <=> Says(kept, n) \/ Says(free, n)
              /\ Singly(kept, n) /\ Singly(free, n) /\ ~ (Says(kept, n) /\ Says(free, n))
                    => Singly(all, n)
  BY <1>7, <1>10, JoinedSays
<1> HIDE DEF all
<1>16. PICK p : Picked(r, all, p) /\ SortsByStart(p, Len(r), all)
  BY <1>2, <1>13, <1>14, SortPicks
<1>17. r \in Seq(T)
  BY <1>2, <1>13, <1>14, SortFacts
<1>18. /\ \A k \in 1..Len(r) : p[k] \in 1..Len(all) /\ r[k] = all[p[k]]
       /\ \A j, k \in 1..Len(r) : j < k => all[p[j]].start <= all[p[k]].start
       /\ \A i \in 1..Len(all) : \E k \in 1..Len(r) : p[k] = i
  BY <1>16 DEF Picked, SortsByStart
<1>19. StartsInOrder(r)
  BY <1>18 DEF StartsInOrder
<1>20. ASSUME NEW k \in 1..Len(r)
       PROVE  \/ \E i \in 1..Len(trailing) : r[k] = trailing[i]
              \/ \E j \in 1..Len(leading) : r[k] = leading[j]
  <2>1. p[k] \in 1..Len(all) /\ r[k] = all[p[k]]
    BY <1>18
  <2>2. CASE \E i \in 1..Len(kept) : all[p[k]] = kept[i]
    <3>1. PICK i \in 1..Len(trailing) : all[p[k]] = kept[i]
      BY <1>7, <2>2
    <3>2. CASE kept[i] = trailing[i]
      BY <2>1, <3>1, <3>2
    <3>3. CASE found[i] # 0 /\ kept[i] = leading[found[i]]
      <4>1. found[i] \in 1..Len(leading)
        BY <1>5, <3>3
      <4> QED
        BY <2>1, <3>1, <3>3, <4>1
    <3> QED
      BY <1>6, <3>2, <3>3
  <2>3. CASE \E j \in 1..Len(free) : all[p[k]] = free[j]
    BY <1>12, <2>1, <2>3
  <2> QED
    BY <1>14a, <2>1, <2>2, <2>3
<1>21. ASSUME NEW n PROVE Says(r, n) <=> Says(all, n)
  <2>1. Says(r, n) => Says(all, n)
    BY <1>16, PickedSays
  <2>2. ASSUME Says(all, n) PROVE Says(r, n)
    <3>1. PICK i \in 1..Len(all) : all[i].said = n
      BY <2>2 DEF Says
    <3>2. PICK k \in 1..Len(r) : p[k] = i
      BY <1>18
    <3>3. r[k].said = n
      BY <1>18, <3>1, <3>2
    <3> QED
      BY <3>3 DEF Says
  <2> QED
    BY <2>1, <2>2
<1>22. ASSUME SameIsSame(T), NEW n PROVE Says(kept, n) <=> Says(trailing, n)
  BY <1>6, <1>7, <1>22 DEF Says
<1>23. ASSUME NEW n PROVE Says(free, n) => Says(leading, n)
  BY <1>11, PickedSays
<1>24. ASSUME SameIsSame(T), NEW n, Says(leading, n) PROVE Says(free, n) \/ Says(trailing, n)
  <2>1. PICK j \in 1..Len(leading) : leading[j].said = n
    BY <1>24 DEF Says
  <2>2. CASE j \in places
    <3>1. PICK k \in 1..Len(free) : q[k] = j
      BY <1>12, <2>2
    <3>2. free[k].said = n
      BY <1>12, <2>1, <3>1
    <3> QED
      BY <3>2 DEF Says
  <2>3. CASE j \notin places
    <3>1. j \in ToSet(found)
      BY <1>8, <2>3
    <3>2. PICK i \in 1..Len(trailing) : found[i] = j
      BY <1>4, <3>1 DEF ToSet
    <3>3. trailing[i].said = n
      BY <1>5, <1>24, <2>1, <3>2
    <3> QED
      BY <3>3 DEF Says
  <2> QED
    BY <2>2, <2>3
<1>25. ASSUME SameIsSame(T), NEW n, AllTheSame(T, n), Singly(trailing, n), Singly(leading, n) PROVE Singly(r, n)
  <2>1. Singly(kept, n)
    BY <1>6, <1>7, <1>25 DEF Singly
  <2>2. Singly(free, n)
    BY <1>11, <1>25, PickedSays
  <2>3. ASSUME Says(kept, n), Says(free, n) PROVE FALSE
    <3>1. PICK i \in 1..Len(trailing) : trailing[i].said = n
      BY <1>22, <1>25, <2>3 DEF Says
    <3>2. PICK k \in 1..Len(free) : free[k].said = n
      BY <2>3 DEF Says
    <3>3. q[k] \in 1..Len(leading) /\ q[k] \notin ToSet(found) /\ leading[q[k]].said = n
      BY <1>8, <1>12, <3>2
    <3>4. SameWord(trailing[i], leading[q[k]])
      BY <1>1, <1>25, <3>1, <3>3 DEF AllTheSame
    <3>5. found[i] # 0
      BY <1>1, <1>4, <3>3, <3>4
    <3>6. found[i] \in 1..Len(leading) /\ leading[found[i]].said = n
      BY <1>5, <1>25, <3>1, <3>5
    <3>7. found[i] = q[k]
      BY <1>25, <3>3, <3>6 DEF Singly
    <3>8. found[i] \in ToSet(found)
      BY <1>4 DEF ToSet
    <3> QED
      BY <3>3, <3>7, <3>8
  <2>4. Singly(all, n)
    BY <1>15, <2>1, <2>2, <2>3
  <2> QED
    BY <1>16, <2>4, PickedSays
<1>26. SameIsSame(T) => \A n : Says(r, n) <=> Says(trailing, n) \/ Says(leading, n)
  BY <1>15, <1>21, <1>22, <1>23, <1>24
<1> QED
  BY <1>17, <1>19, <1>20, <1>25, <1>26 DEF Resolved, r

\* What a super-chunk contributes: each word once, in order, and within its span.
Attentive(chunk, W) ==
    /\ chunk.words \in Seq(W) /\ chunk.start \in Int /\ chunk.end \in Int
    /\ \A i \in 1..Len(chunk.words) : chunk.words[i].start >= chunk.start
    /\ \A i, j \in 1..Len(chunk.words) : i < j => chunk.words[i].said < chunk.words[j].said

\* r has the words of merged and of the super-chunk.
Gathered(r, merged, chunk, T) ==
    /\ LaterIsLater(T) /\ SaidInOrder(merged) => SaidInOrder(r)
    /\ LaterIsLater(T) /\ NoneInside(T) /\ StartsInOrder(merged) => StartsInOrder(r)
    /\ SameIsSame(T) =>
         /\ \A n : Says(r, n) <=> Says(merged, n) \/ Says(chunk.words, n)
         /\ \A n : AllTheSame(T, n) /\ Singly(merged, n) => Singly(r, n)

\* The tagged words of a super-chunk.
LEMMA TaggedSays ==
  ASSUME NEW W, Recorded(W), NEW chunk, Attentive(chunk, W)
  PROVE  /\ TagWords(chunk) \in Seq(Edged(W))
         /\ \A i \in 1..Len(TagWords(chunk)) : TagWords(chunk)[i].start >= chunk.start
         /\ SaidInOrder(TagWords(chunk))
         /\ LaterIsLater(Edged(W)) => StartsInOrder(TagWords(chunk))
         /\ \A n : Singly(TagWords(chunk), n)
         /\ \A n : Says(TagWords(chunk), n) <=> Says(chunk.words, n)
<1> DEFINE tagged == TagWords(chunk)
           words == chunk.words
           N == Len(words)
           T == Edged(W)
           edge(i) == Least(words[i].start - chunk.start, chunk.end - words[i].end)
<1>1. /\ words \in Seq(W) /\ N \in Nat /\ DOMAIN words = 1..N /\ chunk.start \in Int /\ chunk.end \in Int
      /\ \A i \in 1..N : words[i] \in W /\ words[i].start >= chunk.start
      /\ \A i, j \in 1..N : i < j => words[i].said < words[j].said
  BY DEF Attentive
<1>2. tagged \in Seq(T) /\ Recorded(T)
  <2>1. Spoken(W) /\ Recorded(T)
    BY EdgedIsRecorded
  <2> QED
    BY <1>1, <2>1, TagWordsFacts
<1>3. tagged = [i \in 1..N |-> WithEdge(words[i], edge(i))]
  BY <1>1 DEF TagWords
<1> HIDE DEF tagged, words, edge, N, T
<1>4. Len(tagged) = N /\ \A i \in 1..N : tagged[i] = WithEdge(words[i], edge(i)) /\ tagged[i] \in T
  BY <1>1, <1>2, <1>3
<1>5. ASSUME NEW i \in 1..N PROVE tagged[i].said = words[i].said /\ tagged[i].start = words[i].start
  <2>1. {"said", "start"} \subseteq DOMAIN words[i]
    BY <1>1 DEF Recorded
  <2>2. tagged[i] = [f \in (DOMAIN words[i]) \union {"edge"} |->
                        IF f = "edge" THEN edge(i) ELSE words[i][f]]
    BY <1>4 DEF WithEdge
  <2>3. "said" # "edge" /\ "start" # "edge"
    OBVIOUS
  <2>4. \A f \in {"said", "start"} : tagged[i][f] = words[i][f]
    BY <2>1, <2>2, <2>3
  <2> QED
    BY <2>4
<1>6. \A i \in 1..N : tagged[i].said \in Int
  BY <1>2, <1>4 DEF Recorded
<1>7. ASSUME NEW i \in 1..N, NEW j \in 1..N, i < j PROVE tagged[i].said < tagged[j].said
  BY <1>1, <1>5, <1>7
<1>8. SaidInOrder(tagged)
  BY <1>4, <1>6, <1>7 DEF SaidInOrder
<1>9. ASSUME LaterIsLater(T) PROVE StartsInOrder(tagged)
  <2>1. ASSUME NEW i \in 1..N, NEW j \in 1..N, i < j PROVE tagged[i].start <= tagged[j].start
    <3>1. tagged[i].start < tagged[j].start
      BY <1>4, <1>7, <1>9, <2>1 DEF LaterIsLater
    <3>2. tagged[i].start \in Int /\ tagged[j].start \in Int
      BY <1>2, <1>4 DEF Recorded
    <3> QED
      BY <3>1, <3>2
  <2> QED
    BY <1>4, <2>1 DEF StartsInOrder
<1>10. ASSUME NEW n, NEW i \in 1..N, NEW j \in 1..N, tagged[i].said = n, tagged[j].said = n
       PROVE  i = j
  <2>1. ~ (i < j) /\ ~ (j < i)
    <3>1. ~ (tagged[i].said < tagged[j].said) /\ ~ (tagged[j].said < tagged[i].said)
      BY <1>6, <1>10
    <3> QED
      BY <1>7, <3>1
  <2> QED
    BY <1>1, <2>1
<1>11. \A n : Singly(tagged, n)
  BY <1>4, <1>10 DEF Singly
<1>12. \A n : Says(tagged, n) <=> Says(words, n)
  BY <1>4, <1>5 DEF Says, N
<1>13. \A i \in 1..Len(tagged) : tagged[i].start >= chunk.start
  BY <1>1, <1>4, <1>5
<1> QED
  BY <1>2, <1>8, <1>9, <1>11, <1>12, <1>13 DEF tagged, words, T

\* The super-chunk begins where the one before it ends, or later.
LEMMA JoinApart ==
  ASSUME NEW T, Recorded(T), NEW merged \in Seq(T), NEW tagged \in Seq(T), NEW chunk,
         \A i \in 1..Len(merged), j \in 1..Len(tagged) : merged[i].end <= tagged[j].start,
         SaidInOrder(tagged), LaterIsLater(T) => StartsInOrder(tagged),
         \A n : Singly(tagged, n) /\ (Says(tagged, n) <=> Says(chunk.words, n))
  PROVE  Gathered(merged \o tagged, merged, chunk, T)
<1> DEFINE r == merged \o tagged
<1>1. (\A i \in 1..Len(merged) : merged[i] \in T) /\ (\A i \in 1..Len(tagged) : tagged[i] \in T)
  OBVIOUS
<1>2. ASSUME NEW i \in 1..Len(merged), NEW j \in 1..Len(tagged)
      PROVE  /\ LaterIsLater(T) => merged[i].said <= tagged[j].said
             /\ merged[i].start <= tagged[j].start /\ ~ SameWord(merged[i], tagged[j])
  BY <1>1, TimesTell
<1>3. LaterIsLater(T) /\ SaidInOrder(merged) => SaidInOrder(r)
  BY <1>2, JoinedSaid
<1>4. LaterIsLater(T) /\ StartsInOrder(merged) => StartsInOrder(r)
  BY <1>2, JoinedStarts
<1>5. \A n : /\ Says(r, n) <=> Says(merged, n) \/ Says(tagged, n)
             /\ Singly(merged, n) /\ Singly(tagged, n) /\ ~ (Says(merged, n) /\ Says(tagged, n))
                   => Singly(r, n)
  BY JoinedSays
<1>6. ASSUME NEW n, AllTheSame(T, n), Says(merged, n), Says(tagged, n) PROVE FALSE
  BY <1>1, <1>2, <1>6 DEF Says, AllTheSame
<1> HIDE DEF r
<1>7. \A n : Says(r, n) <=> Says(merged, n) \/ Says(chunk.words, n)
  BY <1>5
<1>8. \A n : AllTheSame(T, n) /\ Singly(merged, n) => Singly(r, n)
  BY <1>5, <1>6
<1> QED
  BY <1>3, <1>4, <1>7, <1>8 DEF Gathered, r

\* The super-chunk begins at c, before the one before it ends at e.
LEMMA JoinMeeting ==
  ASSUME NEW T, Recorded(T), NEW merged \in Seq(T), NEW tagged \in Seq(T), NEW chunk,
         NEW c \in Int, NEW e \in Int,
         \A i \in 1..Len(merged) : merged[i].end <= e,
         \A i \in 1..Len(tagged) : tagged[i].start >= c,
         SaidInOrder(tagged), LaterIsLater(T) => StartsInOrder(tagged),
         \A n : Singly(tagged, n) /\ (Says(tagged, n) <=> Says(chunk.words, n)),
         NEW outside, outside = At(merged, {i \in DOMAIN merged : merged[i].end <= c}),
         NEW trailing, trailing = At(merged, {i \in DOMAIN merged : merged[i].end > c}),
         NEW leading, leading = At(tagged, {i \in DOMAIN tagged : tagged[i].start < e}),
         NEW remainder, remainder = At(tagged, {i \in DOMAIN tagged : tagged[i].start >= e})
  PROVE  Gathered(outside \o ResolveOverlap(trailing, leading) \o remainder, merged, chunk, T)
<1> DEFINE r == ResolveOverlap(trailing, leading)
           first == outside \o r
           all == first \o remainder
           A == {i \in DOMAIN merged : merged[i].end <= c}
           B == {i \in DOMAIN merged : merged[i].end > c}
           C == {i \in DOMAIN tagged : tagged[i].start < e}
           D == {i \in DOMAIN tagged : tagged[i].start >= e}
<1>1. /\ DOMAIN merged = 1..Len(merged) /\ DOMAIN tagged = 1..Len(tagged)
      /\ \A i \in 1..Len(merged) : merged[i] \in T /\ merged[i].end \in Int
      /\ \A i \in 1..Len(tagged) : tagged[i] \in T /\ tagged[i].start \in Int
  BY DEF Recorded
<1>2. /\ A \in SUBSET DOMAIN merged /\ B \in SUBSET DOMAIN merged /\ A \cap B = {} /\ A \union B = DOMAIN merged
      /\ \A i \in A : merged[i] \in T /\ merged[i].end <= c
      /\ \A i \in B : merged[i] \in T /\ merged[i].end > c /\ merged[i].end <= e
  BY <1>1
<1>3. /\ C \in SUBSET DOMAIN tagged /\ D \in SUBSET DOMAIN tagged /\ C \cap D = {} /\ C \union D = DOMAIN tagged
      /\ \A i \in C : tagged[i] \in T /\ tagged[i].start < e /\ tagged[i].start >= c
      /\ \A i \in D : tagged[i] \in T /\ tagged[i].start >= e /\ tagged[i].start >= c
  BY <1>1
<1>4. outside = At(merged, A) /\ trailing = At(merged, B) /\ leading = At(tagged, C) /\ remainder = At(tagged, D)
  OBVIOUS
<1> HIDE DEF A, B, C, D, r
<1>5. outside \in Seq(T) /\ \A k \in 1..Len(outside) : outside[k] \in T /\ outside[k].end <= c
  <2>1. /\ At(merged, A) \in Seq(T)
        /\ \A k \in 1..Len(At(merged, A)) : \E i \in A : At(merged, A)[k] = merged[i]
    BY <1>2, AtFacts
  <2> QED
    BY <1>2, <1>4, <2>1
<1>6. /\ trailing \in Seq(T)
      /\ \A k \in 1..Len(trailing) : trailing[k] \in T /\ trailing[k].end > c /\ trailing[k].end <= e
  <2>1. /\ At(merged, B) \in Seq(T)
        /\ \A k \in 1..Len(At(merged, B)) : \E i \in B : At(merged, B)[k] = merged[i]
    BY <1>2, AtFacts
  <2> QED
    BY <1>2, <1>4, <2>1
<1>7. /\ leading \in Seq(T)
      /\ \A k \in 1..Len(leading) : leading[k] \in T /\ leading[k].start < e /\ leading[k].start >= c
  <2>1. /\ At(tagged, C) \in Seq(T)
        /\ \A k \in 1..Len(At(tagged, C)) : \E i \in C : At(tagged, C)[k] = tagged[i]
    BY <1>3, AtFacts
  <2> QED
    BY <1>3, <1>4, <2>1
<1>8. /\ remainder \in Seq(T)
      /\ \A k \in 1..Len(remainder) : remainder[k] \in T /\ remainder[k].start >= e /\ remainder[k].start >= c
  <2>1. /\ At(tagged, D) \in Seq(T)
        /\ \A k \in 1..Len(At(tagged, D)) : \E i \in D : At(tagged, D)[k] = tagged[i]
    BY <1>3, AtFacts
  <2> QED
    BY <1>3, <1>4, <2>1
<1>9. Split(merged, outside, trailing)
  BY <1>2, <1>4, SplitSays
<1>10. Split(tagged, leading, remainder)
  BY <1>3, <1>4, SplitSays
<1>11. Resolved(r, trailing, leading, T)
  BY <1>6, <1>7, ResolveSays DEF r
<1>12. /\ r \in Seq(T) /\ StartsInOrder(r)
       /\ \A k \in 1..Len(r) : \/ \E i \in 1..Len(trailing) : r[k] = trailing[i]
                               \/ \E j \in 1..Len(leading) : r[k] = leading[j]
       /\ SameIsSame(T) =>
            /\ \A n : Says(r, n) <=> Says(trailing, n) \/ Says(leading, n)
            /\ \A n : AllTheSame(T, n) /\ Singly(trailing, n) /\ Singly(leading, n) => Singly(r, n)
  BY <1>11 DEF Resolved
<1>13. \A k \in 1..Len(r) : r[k] \in T
  BY <1>12
<1>14. LaterIsLater(T) => SaidInOrder(r)
  BY <1>12, <1>13, TimesTell DEF StartsInOrder, SaidInOrder
<1>15. \A x, y \in T : x.end <= c /\ y.start >= c => x.end <= y.start
  BY DEF Recorded
<1>16. \A x, y \in T : x.end <= e /\ y.start >= e => x.end <= y.start
  BY DEF Recorded
<1>17. \A x, y \in T : x.end <= c /\ y.end > c =>
          /\ LaterIsLater(T) => x.said <= y.said
          /\ NoneInside(T) => x.start <= y.start
  <2> SUFFICES ASSUME NEW x \in T, NEW y \in T, x.end <= c, y.end > c
        PROVE /\ LaterIsLater(T) => x.said <= y.said
              /\ NoneInside(T) => x.start <= y.start
    OBVIOUS
  <2>1. x.end < y.end /\ x.end \in Int /\ y.end \in Int /\ x.start \in Int /\ y.start \in Int
    BY DEF Recorded
  <2>2. LaterIsLater(T) => x.said <= y.said
    BY <2>1, TimesTell
  <2>3. NoneInside(T) /\ y.start < x.start => y.end <= x.end
    BY DEF NoneInside
  <2> QED
    BY <2>1, <2>2, <2>3
<1>18. \A x, y \in T : x.start < e /\ y.start >= e =>
          /\ LaterIsLater(T) => x.said <= y.said
          /\ x.start <= y.start
  <2> SUFFICES ASSUME NEW x \in T, NEW y \in T, x.start < e, y.start >= e
        PROVE /\ LaterIsLater(T) => x.said <= y.said
              /\ x.start <= y.start
    OBVIOUS
  <2>1. x.start <= y.start
    BY DEF Recorded
  <2> QED
    BY <2>1, TimesTell
\* outside, then r
<1>19. ASSUME NEW i \in 1..Len(outside), NEW k \in 1..Len(r)
       PROVE  /\ LaterIsLater(T) => outside[i].said <= r[k].said
              /\ NoneInside(T) => outside[i].start <= r[k].start
  <2>1. CASE \E j \in 1..Len(trailing) : r[k] = trailing[j]
    BY <1>5, <1>6, <1>17, <2>1
  <2>2. CASE \E j \in 1..Len(leading) : r[k] = leading[j]
    <3>1. outside[i] \in T /\ r[k] \in T /\ outside[i].end <= r[k].start
      BY <1>5, <1>7, <1>15, <2>2
    <3> QED
      BY <3>1, TimesTell
  <2> QED
    BY <1>12, <2>1, <2>2
<1>20. first \in Seq(T)
  BY <1>5, <1>12
<1>21. LaterIsLater(T) /\ SaidInOrder(merged) => SaidInOrder(first)
  BY <1>5, <1>9, <1>12, <1>14, <1>19, JoinedSaid DEF Split
<1>22. NoneInside(T) /\ StartsInOrder(merged) => StartsInOrder(first)
  BY <1>5, <1>9, <1>12, <1>19, JoinedStarts DEF Split
<1>23. \A n : /\ Says(first, n) <=> Says(outside, n) \/ Says(r, n)
              /\ Singly(outside, n) /\ Singly(r, n) /\ ~ (Says(outside, n) /\ Says(r, n))
                     => Singly(first, n)
  BY <1>5, <1>12, JoinedSays
<1>24. \A k \in 1..Len(first) : \/ \E i \in 1..Len(outside) : first[k] = outside[i]
                                \/ \E j \in 1..Len(r) : first[k] = r[j]
  <2>1. outside \in Seq(T) /\ r \in Seq(T)
    BY <1>5, <1>12
  <2>2. \A k \in 1..Len(outside \o r) : \/ \E i \in 1..Len(outside) : (outside \o r)[k] = outside[i]
                                        \/ \E j \in 1..Len(r) : (outside \o r)[k] = r[j]
    BY ONLY <2>1, JoinedIs
  <2> QED
    BY <2>2
<1> HIDE DEF first
\* and then remainder
<1>25. ASSUME NEW k \in 1..Len(first), NEW j \in 1..Len(remainder)
       PROVE  /\ LaterIsLater(T) => first[k].said <= remainder[j].said
              /\ first[k].start <= remainder[j].start
  <2>a. \/ \E i \in 1..Len(outside) : first[k] = outside[i]
        \/ \E i \in 1..Len(r) : first[k] = r[i]
    BY <1>24
  <2>b. \/ \E i \in 1..Len(outside) : first[k] = outside[i]
        \/ \E i \in 1..Len(trailing) : first[k] = trailing[i]
        \/ \E i \in 1..Len(leading) : first[k] = leading[i]
    <3>1. CASE \E i \in 1..Len(r) : first[k] = r[i]
      <4>1. PICK i \in 1..Len(r) : first[k] = r[i]
        BY <3>1
      <4>2. \/ \E h \in 1..Len(trailing) : r[i] = trailing[h]
            \/ \E h \in 1..Len(leading) : r[i] = leading[h]
        BY <1>12
      <4> QED
        BY <4>1, <4>2
    <3> QED
      BY <2>a, <3>1
  <2>0. remainder[j] \in T /\ remainder[j].start >= e /\ remainder[j].start >= c
    BY <1>8
  <2>1. CASE \E i \in 1..Len(outside) : first[k] = outside[i]
    <3>1. first[k] \in T /\ first[k].end <= remainder[j].start
      BY <1>5, <1>15, <2>0, <2>1
    <3> QED
      BY <2>0, <3>1, TimesTell
  <2>2. CASE \E i \in 1..Len(trailing) : first[k] = trailing[i]
    <3>1. first[k] \in T /\ first[k].end <= remainder[j].start
      BY <1>6, <1>16, <2>0, <2>2
    <3> QED
      BY <2>0, <3>1, TimesTell
  <2>3. CASE \E i \in 1..Len(leading) : first[k] = leading[i]
    BY <1>7, <1>18, <2>0, <2>3
  <2> QED
    BY <2>b, <2>1, <2>2, <2>3
<1>26. LaterIsLater(T) /\ SaidInOrder(merged) => SaidInOrder(all)
  BY <1>8, <1>10, <1>20, <1>21, <1>25, JoinedSaid DEF Split
<1>27. LaterIsLater(T) /\ NoneInside(T) /\ StartsInOrder(merged) => StartsInOrder(all)
  BY <1>8, <1>10, <1>20, <1>22, <1>25, JoinedStarts DEF Split
<1>28. \A n : /\ Says(all, n) <=> Says(first, n) \/ Says(remainder, n)
              /\ Singly(first, n) /\ Singly(remainder, n) /\ ~ (Says(first, n) /\ Says(remainder, n))
                     => Singly(all, n)
  BY <1>8, <1>20, JoinedSays
<1>29. SameIsSame(T) => \A n : Says(all, n) <=> Says(merged, n) \/ Says(chunk.words, n)
  BY <1>9, <1>10, <1>12, <1>23, <1>28 DEF Split
<1>30. ASSUME SameIsSame(T), NEW n, AllTheSame(T, n), Singly(merged, n) PROVE Singly(all, n)
  <2>1. ASSUME Says(outside, n), Says(leading, n) \/ Says(remainder, n) PROVE FALSE
    <3>1. PICK i \in 1..Len(outside) : outside[i].said = n
      BY <2>1 DEF Says
    <3>2. PICK y \in T : y.said = n /\ y.start >= c
      BY <1>7, <1>8, <2>1 DEF Says
    <3>3. outside[i] \in T /\ outside[i].end <= y.start
      BY <1>5, <1>15, <3>2
    <3>4. ~ SameWord(outside[i], y)
      BY <3>3, TimesTell
    <3> QED
      BY <1>30, <3>1, <3>2, <3>3, <3>4 DEF AllTheSame
  <2>2. ASSUME Says(trailing, n), Says(remainder, n) PROVE FALSE
    <3>1. PICK i \in 1..Len(trailing) : trailing[i].said = n
      BY <2>2 DEF Says
    <3>2. PICK j \in 1..Len(remainder) : remainder[j].said = n
      BY <2>2 DEF Says
    <3>3. trailing[i] \in T /\ remainder[j] \in T /\ trailing[i].end <= remainder[j].start
      BY <1>6, <1>8, <1>16
    <3>4. ~ SameWord(trailing[i], remainder[j])
      BY <3>3, TimesTell
    <3> QED
      BY <1>30, <3>1, <3>2, <3>3, <3>4 DEF AllTheSame
  <2>3. /\ Singly(outside, n) /\ Singly(trailing, n) /\ ~ (Says(outside, n) /\ Says(trailing, n))
        /\ Singly(leading, n) /\ Singly(remainder, n) /\ ~ (Says(leading, n) /\ Says(remainder, n))
    BY <1>9, <1>10, <1>30 DEF Split
  <2>4. Singly(r, n)
    BY <1>12, <1>30, <2>3
  <2>5. Singly(first, n)
    BY <1>12, <1>23, <1>30, <2>1, <2>3, <2>4
  <2>6. ~ (Says(first, n) /\ Says(remainder, n))
    BY <1>12, <1>23, <1>30, <2>1, <2>2, <2>3
  <2> QED
    BY <1>28, <2>3, <2>5, <2>6
<1> HIDE DEF all
<1>31. Gathered(all, merged, chunk, T)
  BY <1>26, <1>27, <1>29, <1>30 DEF Gathered
<1> QED
  BY <1>31 DEF all, first, r

\* One turn of the loop of merge_superchunk_words loses no word, and keeps them in
\* order and each once.
LEMMA JoinSays ==
  ASSUME NEW W, Recorded(W), NEW merged \in Seq(Edged(W)), NEW prev, prev.end \in Int,
         \A i \in 1..Len(merged) : merged[i].end <= prev.end, NEW chunk, Attentive(chunk, W)
  PROVE  Gathered(JoinSuperchunk(merged, prev, chunk), merged, chunk, Edged(W))
<1> DEFINE T == Edged(W)
           tagged == TagWords(chunk)
           outside == At(merged, {i \in DOMAIN merged : merged[i].end <= chunk.start})
           trailing == At(merged, {i \in DOMAIN merged : merged[i].end > chunk.start})
           leading == At(tagged, {i \in DOMAIN tagged : tagged[i].start < prev.end})
           remainder == At(tagged, {i \in DOMAIN tagged : tagged[i].start >= prev.end})
           c == chunk.start
           e == prev.end
<1>1. JoinSuperchunk(merged, prev, chunk) =
         IF e <= c THEN merged \o tagged
         ELSE outside \o ResolveOverlap(trailing, leading) \o remainder
  BY DEF JoinSuperchunk
<1>2. Recorded(T)
  BY EdgedIsRecorded
<1>3. /\ tagged \in Seq(T)
      /\ \A i \in 1..Len(tagged) : tagged[i].start >= c
      /\ SaidInOrder(tagged)
      /\ LaterIsLater(T) => StartsInOrder(tagged)
      /\ \A n : Singly(tagged, n)
      /\ \A n : Says(tagged, n) <=> Says(chunk.words, n)
  BY TaggedSays
<1>4. c \in Int /\ e \in Int
  BY DEF Attentive
<1>5. merged \in Seq(T) /\ \A i \in 1..Len(merged) : merged[i].end <= e
  OBVIOUS
<1>6. CASE e <= c
  <2>1. ASSUME NEW i \in 1..Len(merged), NEW j \in 1..Len(tagged)
        PROVE  merged[i].end <= tagged[j].start
    <3>1. merged[i] \in T /\ tagged[j] \in T
      BY <1>3, <1>5
    <3>2. merged[i].end \in Int /\ tagged[j].start \in Int
      BY <1>2, <3>1 DEF Recorded
    <3>3. merged[i].end <= e /\ tagged[j].start >= c
      BY <1>3, <1>5
    <3> QED
      BY <1>4, <1>6, <3>2, <3>3
  <2> HIDE DEF T, tagged
  <2>2. Gathered(merged \o tagged, merged, chunk, T)
    BY <1>2, <1>3, <1>5, <2>1, JoinApart
  <2> QED
    BY <1>1, <1>6, <2>2 DEF T
<1>7. CASE ~ (e <= c)
  <2>1. /\ outside = At(merged, {i \in DOMAIN merged : merged[i].end <= c})
        /\ trailing = At(merged, {i \in DOMAIN merged : merged[i].end > c})
        /\ leading = At(tagged, {i \in DOMAIN tagged : tagged[i].start < e})
        /\ remainder = At(tagged, {i \in DOMAIN tagged : tagged[i].start >= e})
    OBVIOUS
  <2> HIDE DEF T, tagged, outside, trailing, leading, remainder, c, e
  <2>2. Gathered(outside \o ResolveOverlap(trailing, leading) \o remainder, merged, chunk, T)
    BY <1>2, <1>3, <1>4, <1>5, <2>1, JoinMeeting
  <2> QED
    BY <1>1, <1>7, <2>2 DEF T
<1> QED
  BY <1>6, <1>7

\* Words that end until t.
LEMMA EdgedUntil ==
  ASSUME NEW W, Recorded(W), NEW t \in Int
  PROVE  /\ Edged({w \in W : w.end <= t}) \subseteq {x \in Edged(W) : x.end <= t}
         /\ {x \in Edged(W) : x.end <= t} \subseteq Edged({w \in W : w.end <= t})
<1>1. ASSUME NEW w \in W, NEW e \in Int PROVE WithEdge(w, e).end = w.end
  <2>1. WithEdge(w, e) = [f \in (DOMAIN w) \union {"edge"} |-> IF f = "edge" THEN e ELSE w[f]]
    BY DEF WithEdge
  <2>2. "end" \in DOMAIN w /\ "end" # "edge"
    BY DEF Recorded
  <2>3. WithEdge(w, e)["end"] = w["end"]
    BY <2>1, <2>2
  <2> QED
    BY <2>3
<1> QED
  BY <1>1 DEF Edged

\* Super-chunks of which none ends before the one in front of it; the last one may.
Chained(W, chunks) ==
    /\ Len(chunks) \in Nat /\ DOMAIN chunks = 1..Len(chunks)
    /\ \A k \in 1..Len(chunks) :
          /\ Attentive(chunks[k], W)
          /\ \A i \in 1..Len(chunks[k].words) : chunks[k].words[i].end <= chunks[k].end
    /\ \A k \in 2..(Len(chunks) - 1) : chunks[k - 1].end <= chunks[k].end

\* ws is what is merged of super-chunks 1 to k.
Collected(ws, k, W, chunks) ==
    /\ ws \in Seq(Edged(W))
    /\ k \in 1..(Len(chunks) - 1) => \A i \in 1..Len(ws) : ws[i].end <= chunks[k].end
    /\ LaterIsLater(Edged(W)) => SaidInOrder(ws)
    /\ LaterIsLater(Edged(W)) /\ NoneInside(Edged(W)) => StartsInOrder(ws)
    /\ SameIsSame(Edged(W)) =>
         /\ \A n : Says(ws, n) <=> \E j \in 1..k : Says(chunks[j].words, n)
         /\ \A n : AllTheSame(Edged(W), n) => Singly(ws, n)

\* What a super-chunk other than the last adds ends with it.
LEMMA CollectedEnd ==
  ASSUME NEW W, Recorded(W), NEW chunks, Chained(W, chunks), NEW k \in 1..(Len(chunks) - 1),
         NEW ws \in Seq(Edged(W)), k # 1 => \A i \in 1..Len(ws) : ws[i].end <= chunks[k - 1].end
  PROVE  \A i \in 1..Len(MergeWith(ws, k, chunks)) : MergeWith(ws, k, chunks)[i].end <= chunks[k].end
<1> DEFINE chunk == chunks[k]
           t == chunk.end
           E == {w \in W : w.end <= t}
<1>1. Len(chunks) \in Nat /\ k \in 1..Len(chunks) /\ k \in Int
  BY DEF Chained
<1>2. /\ chunk.words \in Seq(W) /\ chunk.start \in Int /\ chunk.end \in Int /\ t \in Int
      /\ \A i \in 1..Len(chunk.words) : chunk.words[i].end <= t
  BY <1>1 DEF Chained, Attentive
<1>3. k # 1 => chunks[k - 1].end \in Int /\ chunks[k - 1].end <= t
  <2> SUFFICES ASSUME k # 1 PROVE chunks[k - 1].end \in Int /\ chunks[k - 1].end <= t
    OBVIOUS
  <2>1. k \in 2..(Len(chunks) - 1) /\ k - 1 \in 1..Len(chunks)
    BY <1>1
  <2> QED
    BY <2>1 DEF Chained, Attentive
<1> HIDE DEF chunk, t
<1>4. Spoken(E) /\ Recorded(E)
  BY DEF Spoken, Recorded
<1>5. chunk.words \in Seq(E)
  <2>1. Len(chunk.words) \in Nat /\ DOMAIN chunk.words = 1..Len(chunk.words)
        /\ \A i \in 1..Len(chunk.words) : chunk.words[i] \in W
    BY <1>2
  <2>2. \A i \in 1..Len(chunk.words) : chunk.words[i] \in E
    BY <1>2, <2>1
  <2>3. chunk.words = [i \in 1..Len(chunk.words) |-> chunk.words[i]]
    BY <1>2
  <2>4. chunk.words \in [1..Len(chunk.words) -> E]
    BY <2>2, <2>3
  <2> QED
    BY <2>1, <2>4
<1>6. \A x \in Edged(E) : x.end <= t
  BY <1>2, EdgedUntil
<1>7. k # 1 => ws \in Seq(Edged(E))
  <2> SUFFICES ASSUME k # 1 PROVE ws \in Seq(Edged(E))
    OBVIOUS
  <2>1. Len(ws) \in Nat /\ ws = [i \in 1..Len(ws) |-> ws[i]] /\ \A i \in 1..Len(ws) : ws[i] \in Edged(W)
    OBVIOUS
  <2>2. ASSUME NEW i \in 1..Len(ws) PROVE ws[i] \in Edged(E)
    <3>1. Recorded(Edged(W))
      BY EdgedIsRecorded
    <3>2. ws[i] \in Edged(W) /\ ws[i].end \in Int
      BY <2>1, <3>1 DEF Recorded
    <3>3. ws[i].end <= t
      BY <1>2, <1>3, <3>2
    <3> QED
      BY <1>2, <3>2, <3>3, EdgedUntil
  <2>3. ws \in [1..Len(ws) -> Edged(E)]
    BY <2>1, <2>2
  <2> QED
    BY <2>1, <2>3
<1>8. MergeWith(ws, k, chunks) \in Seq(Edged(E))
  <2> HIDE DEF E
  <2>1. CASE k = 1
    <3>1. TagWords(chunk) \in Seq(Edged(E))
      BY <1>2, <1>4, <1>5, TagWordsFacts
    <3> QED
      BY <2>1, <3>1 DEF MergeWith, chunk
  <2>2. CASE k # 1
    <3>1. JoinSuperchunk(ws, chunks[k - 1], chunk) \in Seq(Edged(E))
      BY <1>2, <1>4, <1>5, <1>7, <2>2, JoinFacts
    <3> QED
      BY <2>2, <3>1 DEF MergeWith, chunk
  <2> QED
    BY <2>1, <2>2
<1> HIDE DEF E
<1>9. \A i \in 1..Len(MergeWith(ws, k, chunks)) : MergeWith(ws, k, chunks)[i] \in Edged(E)
  BY <1>8
<1> QED
  BY <1>6, <1>9 DEF t, chunk

\* One more super-chunk.
LEMMA CollectOne ==
  ASSUME NEW W, Recorded(W), NEW chunks, Chained(W, chunks), NEW k \in 1..Len(chunks),
         NEW ws, Collected(ws, k - 1, W, chunks), k = 1 => ws = <<>>
  PROVE  Collected(MergeWith(ws, k, chunks), k, W, chunks)
<1> DEFINE T == Edged(W)
           chunk == chunks[k]
           r == MergeWith(ws, k, chunks)
<1>1. Len(chunks) \in Nat /\ k \in Int /\ k \in 1..Len(chunks)
  BY DEF Chained
<1>2. Attentive(chunk, W)
  BY DEF Chained
<1>3. ws \in Seq(T)
  BY DEF Collected
<1>4. Recorded(T) /\ Spoken(W)
  BY EdgedIsRecorded
<1>5. k # 1 => /\ k - 1 \in 1..(Len(chunks) - 1) /\ k - 1 \in 1..Len(chunks)
               /\ \A i \in 1..Len(ws) : ws[i].end <= chunks[k - 1].end
  <2> SUFFICES ASSUME k # 1
        PROVE  /\ k - 1 \in 1..(Len(chunks) - 1) /\ k - 1 \in 1..Len(chunks)
               /\ \A i \in 1..Len(ws) : ws[i].end <= chunks[k - 1].end
    OBVIOUS
  <2>1. k - 1 \in 1..(Len(chunks) - 1) /\ k - 1 \in 1..Len(chunks)
    BY <1>1
  <2> QED
    BY <2>1 DEF Collected
<1>6. /\ LaterIsLater(T) => SaidInOrder(ws)
      /\ LaterIsLater(T) /\ NoneInside(T) => StartsInOrder(ws)
      /\ SameIsSame(T) =>
           /\ \A n : Says(ws, n) <=> \E j \in 1..(k - 1) : Says(chunks[j].words, n)
           /\ \A n : AllTheSame(T, n) => Singly(ws, n)
  BY DEF Collected
<1>7. k \in 1..(Len(chunks) - 1) => \A i \in 1..Len(r) : r[i].end <= chunk.end
  <2> SUFFICES ASSUME k \in 1..(Len(chunks) - 1) PROVE \A i \in 1..Len(r) : r[i].end <= chunk.end
    OBVIOUS
  <2>1. ws \in Seq(Edged(W)) /\ (k # 1 => \A i \in 1..Len(ws) : ws[i].end <= chunks[k - 1].end)
    BY <1>3, <1>5
  <2> QED
    BY <2>1, CollectedEnd
<1>8. r \in Seq(T) /\ Gathered(r, ws, chunk, T)
  <2>1. CASE k = 1
    <3>1. ws = <<>> /\ r = TagWords(chunk)
      BY <2>1 DEF MergeWith
    <3>2. /\ TagWords(chunk) \in Seq(T)
          /\ SaidInOrder(TagWords(chunk))
          /\ LaterIsLater(T) => StartsInOrder(TagWords(chunk))
          /\ \A n : Singly(TagWords(chunk), n)
          /\ \A n : Says(TagWords(chunk), n) <=> Says(chunk.words, n)
      BY <1>2, TaggedSays
    <3>3. \A n : ~ Says(ws, n)
      BY <3>1 DEF Says
    <3> HIDE DEF T, chunk, r
    <3> QED
      BY <3>1, <3>2, <3>3 DEF Gathered
  <2>2. CASE k # 1
    <3> DEFINE prev == chunks[k - 1]
    <3>1. r = JoinSuperchunk(ws, prev, chunk)
      BY <2>2 DEF MergeWith
    <3>2. prev.end \in Int /\ \A i \in 1..Len(ws) : ws[i].end <= prev.end
      BY <1>5, <2>2 DEF Chained, Attentive
    <3>3. chunk.words \in Seq(W) /\ chunk.start \in Int /\ chunk.end \in Int
      BY <1>2 DEF Attentive
    <3> HIDE DEF prev, chunk, r
    <3>4. Gathered(JoinSuperchunk(ws, prev, chunk), ws, chunk, Edged(W))
      BY <1>2, <1>3, <3>2, JoinSays
    <3>5. JoinSuperchunk(ws, prev, chunk) \in Seq(Edged(W))
      BY <1>3, <1>4, <3>3, JoinFacts
    <3> QED
      BY <3>1, <3>4, <3>5
  <2> QED
    BY <2>1, <2>2
<1>9. /\ LaterIsLater(T) /\ SaidInOrder(ws) => SaidInOrder(r)
      /\ LaterIsLater(T) /\ NoneInside(T) /\ StartsInOrder(ws) => StartsInOrder(r)
      /\ SameIsSame(T) =>
           /\ \A n : Says(r, n) <=> Says(ws, n) \/ Says(chunk.words, n)
           /\ \A n : AllTheSame(T, n) /\ Singly(ws, n) => Singly(r, n)
  BY <1>8 DEF Gathered
<1> HIDE DEF T, r
<1>10. ASSUME SameIsSame(T), NEW n PROVE Says(r, n) <=> \E j \in 1..k : Says(chunks[j].words, n)
  <2>1. \A j : j \in 1..k <=> j \in 1..(k - 1) \/ j = k
    BY <1>1
  <2> QED
    BY <1>6, <1>9, <1>10, <2>1
<1> QED
  BY <1>6, <1>7, <1>8, <1>9, <1>10 DEF Collected, T, r

\* merge_superchunk_words, all of it.
LEMMA MergedSays ==
  ASSUME NEW W, Recorded(W), NEW chunks, Chained(W, chunks)
  PROVE  Collected(MergeSuperchunkWords(chunks), Len(chunks), W, chunks)
<1> DEFINE n == Len(chunks)
           V == Seq(Edged(W))
<1>1. n \in Nat /\ DOMAIN chunks = 1..n /\ \A k \in 1..n : Attentive(chunks[k], W)
  BY DEF Chained
<1>2. \A k \in 1..n : [j \in DOMAIN chunks |-> j][k] = k
  BY <1>1
<1>3. \A k \in 1..n : chunks[k].words \in Seq(W) /\ chunks[k].start \in Int /\ chunks[k].end \in Int
  BY <1>1 DEF Attentive
<1>4. Spoken(W)
  BY EdgedIsRecorded
<1>5. ASSUME NEW v \in V, NEW k \in 1..n PROVE MergeWith(v, k, chunks) \in V
  <2>1. CASE k = 1
    <3>1. TagWords(chunks[k]) \in V
      BY <1>3, <1>4, TagWordsFacts
    <3> QED
      BY <2>1, <3>1 DEF MergeWith
  <2>2. CASE k # 1
    <3>1. JoinSuperchunk(v, chunks[k - 1], chunks[k]) \in V
      BY <1>3, <1>4, JoinFacts
    <3> QED
      BY <2>2, <3>1 DEF MergeWith
  <2> QED
    BY <2>1, <2>2
<1>6. <<>> \in V /\ Len(<<>>) = 0 /\ 1..0 = {}
  OBVIOUS
<1> HIDE DEF V, n
<1>7. PICK part : MergeWordsParts(part, V, n, chunks)
  <2>1. \A v \in V, k \in 1..n : MergeWith(v, [j \in DOMAIN chunks |-> j][k], chunks) \in V
    BY <1>2, <1>5
  <2>2. MergeWordsStays(V, n, chunks)
    BY <1>6, <2>1 DEF MergeWordsStays
  <2> QED
    BY <1>1, <2>2, MergeWordsPrefixes
<1>8. /\ part[0] = <<>> /\ part[n] = MergeSuperchunkWords(chunks)
      /\ \A k \in 1..n : part[k] = MergeWith(part[k - 1], k, chunks)
  BY <1>2, <1>7 DEF MergeWordsParts
<1> DEFINE good == {k \in 0..n : Collected(part[k], k, W, chunks)}
<1>9. 0 \in good
  <2>1. 0 \in 0..n /\ 0 \notin 1..(Len(chunks) - 1)
    BY <1>1
  <2>2. /\ SaidInOrder(<<>>) /\ StartsInOrder(<<>>)
        /\ \A w : Singly(<<>>, w) /\ ~ Says(<<>>, w)
    BY <1>6 DEF SaidInOrder, StartsInOrder, Singly, Says
  <2>3. Collected(<<>>, 0, W, chunks)
    BY <1>6, <2>1, <2>2 DEF Collected, V
  <2> QED
    BY <1>8, <2>1, <2>3
<1>10. ASSUME NEW k \in 1..n, k - 1 \in good PROVE k \in good
  <2>1. k \in 0..n /\ Collected(part[k - 1], k - 1, W, chunks)
    BY <1>1, <1>10
  <2>2. k = 1 => part[k - 1] = <<>>
    BY <1>8
  <2>3. k \in 1..Len(chunks)
    BY DEF n
  <2>4. Collected(MergeWith(part[k - 1], k, chunks), k, W, chunks)
    BY <2>1, <2>2, <2>3, CollectOne
  <2> QED
    BY <1>8, <2>1, <2>4
<1>11. n \in good
  <2> HIDE DEF good
  <2>1. \A k \in 0..n : k \in good
    BY <1>1, <1>9, <1>10, Climbs
  <2> QED
    BY <1>1, <2>1
<1> QED
  BY <1>8, <1>11 DEF n

-----------------------------------------------------------------------------
(* What the super-chunks heard, word by word. *)

\* The segments together have the merged words.
LEMMA SegmentWordsAreMerged ==
  ASSUME TypeOK, TranscriptInv, Rechunked
  PROVE  SegmentWords = MergeSuperchunkWords(SuperchunkWords)
<1> DEFINE words == MergeSuperchunkWords(SuperchunkWords)
           T == Edged(HeardWords)
           n == Len(segments)
           seqs == [i \in DOMAIN segments |-> segments[i].words]
<1>1. \E ends : Pieced(words, ends, T, segments, study.cfg)
  BY SegmentsArePieces
<1>2. SegmentWords = FlattenSeq(seqs)
  BY DEF SegmentWords
<1> HIDE DEF words, T
<1>3. PICK ends : Pieced(words, ends, T, segments, study.cfg)
  BY <1>1
<1>4. /\ words \in Seq(T) /\ n \in Nat /\ DOMAIN segments = 1..n
      /\ ends \in [0..n -> 0..Len(words)] /\ ends[0] = 0 /\ ends[n] = Len(words)
  BY <1>3 DEF Pieced
<1>5. ASSUME NEW i \in 1..n
      PROVE  /\ segments[i].words = SubSeq(words, ends[i - 1] + 1, ends[i]) /\ segments[i].words \in Seq(T)
             /\ ends[i - 1] \in Nat /\ ends[i] \in 1..Len(words) /\ ends[i - 1] < ends[i]
  <2>1. i \in 1..Len(segments)
    OBVIOUS
  <2>2. segments[i].words = SubSeq(words, ends[i - 1] + 1, ends[i])
    BY <1>3, <2>1, PieceFacts
  <2>3. segments[i].words \in Seq(T)
    BY <1>3, <2>1, PieceFacts
  <2>4. ends[i - 1] \in Nat /\ ends[i] \in 1..Len(words) /\ ends[i - 1] < ends[i]
    BY <1>3, <2>1, PieceFacts
  <2> QED
    BY <2>2, <2>3, <2>4
<1>6. seqs \in Seq(Seq(T)) /\ Len(seqs) = n /\ \A i \in 1..n : seqs[i] = segments[i].words
  <2> DEFINE V == Seq(T)
  <2>1. \A i \in 1..n : segments[i].words \in V
    BY <1>5
  <2> HIDE DEF V, n
  <2>2. seqs \in [1..n -> V]
    BY <1>4, <2>1
  <2>3. seqs \in Seq(V) /\ Len(seqs) = n
    BY <1>4, <2>2
  <2> QED
    BY <1>4, <2>3 DEF V
<1> HIDE DEF seqs, n
<1>7. PICK part \in [0..Len(seqs) -> Seq(T)] :
            /\ part[0] = <<>>
            /\ \A k \in 1..Len(seqs) : part[k] = part[k - 1] \o seqs[k]
            /\ part[Len(seqs)] = FlattenSeq(seqs)
  BY <1>6, FlattenPrefixes
<1> DEFINE good == {k \in 0..n : part[k] = SubSeq(words, 1, ends[k])}
<1>8. 0 \in good
  <2>1. 0 \in 0..n /\ SubSeq(words, 1, 0) = <<>>
    BY <1>4
  <2> QED
    BY <1>4, <1>7, <2>1
<1>9. ASSUME NEW k \in 1..n, k - 1 \in good PROVE k \in good
  <2>1. k \in 0..n /\ part[k - 1] = SubSeq(words, 1, ends[k - 1])
    BY <1>4, <1>9
  <2>2. part[k] = SubSeq(words, 1, ends[k - 1]) \o SubSeq(words, ends[k - 1] + 1, ends[k])
    BY <1>5, <1>6, <1>7, <2>1
  <2>3. 0 \in Nat /\ ends[k - 1] \in Nat /\ ends[k] \in 1..Len(words) /\ 0 <= ends[k - 1] /\ ends[k - 1] < ends[k]
    BY <1>5
  <2>4. SubSeq(words, 0 + 1, ends[k - 1]) \o SubSeq(words, ends[k - 1] + 1, ends[k])
          = SubSeq(words, 0 + 1, ends[k])
    BY <1>4, <2>3, JoinParts
  <2>5. 0 + 1 = 1
    OBVIOUS
  <2>6. part[k] = SubSeq(words, 1, ends[k])
    BY <2>2, <2>4, <2>5
  <2> QED
    BY <2>1, <2>6
<1>10. n \in good
  <2> HIDE DEF good
  <2>1. \A k \in 0..n : k \in good
    BY <1>4, <1>8, <1>9, Climbs
  <2> QED
    BY <1>4, <2>1
<1>11. part[n] = SubSeq(words, 1, Len(words))
  BY <1>4, <1>10
<1>12. SubSeq(words, 1, Len(words)) = words
  BY <1>4
<1> QED
  BY <1>2, <1>6, <1>7, <1>11, <1>12 DEF words

\* Every super-chunk heard what it may hear.
HeardInChunks ==
    \A n \in DOMAIN spoken, k \in DOMAIN CoarseSegment :
        spoken[n].heard[k] \in Hearings(spoken[n], CoarseSegment[k])

\* Speaking adds a word that is heard so; nothing else changes what was heard.
LEMMA HeardInChunksInductive ==
  ASSUME TypeOK, TranscriptInv, HeardInChunks, [TranscriptNext]_transcriptVars
  PROVE  HeardInChunks'
<1> USE DEF TranscriptInv
<1>1. CASE Speak
  <2>1. /\ UNCHANGED <<regions, duration, study, turns, segments>>
        /\ \E word \in study.words :
            \E heard \in {h \in [DOMAIN CoarseSegment ->
                                    UNION {Hearings(word, c) : c \in ToSet(CoarseSegment)}] :
                            \A i \in DOMAIN h : h[i] \in Hearings(word, CoarseSegment[i])} :
            spoken' = Append(spoken, [start |-> word.start, end |-> word.end, text |-> word.text,
                                      stop |-> word.stop, heard |-> heard])
    BY <1>1 DEF Speak
  <2>2. PICK word \in study.words :
            \E heard \in {h \in [DOMAIN CoarseSegment ->
                                    UNION {Hearings(word, c) : c \in ToSet(CoarseSegment)}] :
                            \A i \in DOMAIN h : h[i] \in Hearings(word, CoarseSegment[i])} :
            spoken' = Append(spoken, [start |-> word.start, end |-> word.end, text |-> word.text,
                                      stop |-> word.stop, heard |-> heard])
    BY <2>1
  <2> DEFINE H == UNION {Hearings(word, c) : c \in ToSet(CoarseSegment)}
  <2>3. PICK heard \in {h \in [DOMAIN CoarseSegment -> H] :
                            \A i \in DOMAIN h : h[i] \in Hearings(word, CoarseSegment[i])} :
            spoken' = Append(spoken, [start |-> word.start, end |-> word.end, text |-> word.text,
                                      stop |-> word.stop, heard |-> heard])
    BY <2>2
  <2> HIDE DEF H
  <2>4. \A k \in DOMAIN CoarseSegment : heard[k] \in Hearings(word, CoarseSegment[k])
    OBVIOUS
  <2> DEFINE w == [start |-> word.start, end |-> word.end, text |-> word.text,
                   stop |-> word.stop, heard |-> heard]
  <2>5. w.start = word.start /\ w.end = word.end /\ w.heard = heard /\ spoken' = Append(spoken, w)
    BY <2>3
  <2> HIDE DEF w
  <2>6. CoarseSegment' = CoarseSegment /\ study' = study
    BY <2>1 DEF CoarseSegment
  <2>7. /\ Len(spoken) \in Nat /\ DOMAIN spoken = 1..Len(spoken)
        /\ DOMAIN spoken' = 1..(Len(spoken) + 1)
        /\ \A n \in 1..Len(spoken) : spoken'[n] = spoken[n]
        /\ spoken'[Len(spoken) + 1] = w
    <3>1. spoken \in Seq(SpokenWord)
      OBVIOUS
    <3> HIDE DEF TranscriptInv
    <3> QED
      BY <2>5, <3>1
  <2>8. \A v, c : Hearings(v, c)' = Hearings(v, c)
    BY <2>6 DEF Hearings
  <2>9. \A c : Hearings(w, c) = Hearings(word, c)
    BY <2>5 DEF Hearings, Shared, Length
  <2>10. ASSUME NEW n \in 1..(Len(spoken) + 1), NEW k \in DOMAIN CoarseSegment
         PROVE  spoken'[n].heard[k] \in Hearings(spoken'[n], CoarseSegment[k])
    <3>1. CASE n \in 1..Len(spoken)
      BY <2>7, <3>1 DEF HeardInChunks
    <3>2. CASE n \notin 1..Len(spoken)
      <4>1. n = Len(spoken) + 1
        BY <2>7, <3>2
      <4>2. spoken'[n] = w
        BY <2>7, <4>1
      <4>3. w.heard[k] \in Hearings(w, CoarseSegment[k])
        BY <2>4, <2>5, <2>9
      <4> QED
        BY <4>2, <4>3
    <3> QED
      BY <3>1, <3>2
  <2> QED
    BY <2>6, <2>7, <2>8, <2>10 DEF HeardInChunks
<1>2. CASE Record \/ Diarize
  <2>1. spoken' = <<>>
    BY <1>2 DEF Record, Diarize, Untouched
  <2>2. DOMAIN spoken' = {}
    BY <2>1
  <2> QED
    BY <2>2 DEF HeardInChunks
<1>3. CASE RechunkRecording \/ UNCHANGED transcriptVars
  <2>1. regions' = regions /\ duration' = duration /\ study' = study /\ spoken' = spoken
    BY <1>3 DEF RechunkRecording, transcriptVars
  <2>2. CoarseSegment' = CoarseSegment
    BY <2>1 DEF CoarseSegment
  <2>3. \A v, c : Hearings(v, c)' = Hearings(v, c)
    BY <2>1 DEF Hearings
  <2> QED
    BY <2>1, <2>2, <2>3 DEF HeardInChunks
<1> QED
  BY <1>1, <1>2, <1>3 DEF TranscriptNext

\* All of it, in every reachable state.
LEMMA HearingInvariant == TranscriptSpec => [](Detected /\ TypeOK /\ TranscriptInv /\ HeardInChunks)
<1>1. TranscriptInit => HeardInChunks
  <2> SUFFICES ASSUME TranscriptInit PROVE HeardInChunks
    OBVIOUS
  <2>1. DOMAIN spoken = {}
    BY DEF TranscriptInit
  <2> QED
    BY <2>1 DEF HeardInChunks
<1>2. TypeOK /\ TranscriptInv /\ HeardInChunks /\ [TranscriptNext]_transcriptVars => HeardInChunks'
  BY HeardInChunksInductive
<1>3. TranscriptSpec => []Detected
  BY TranscriptImplementsVad, DetectedAlways
<1> QED
  BY <1>1, <1>2, <1>3, TranscriptInvariant, PTL DEF TranscriptSpec

\* Everything the super-chunks heard.
HeardNow == UNION {{TaggedWord(n, a) : a \in HeardSpans(n)} : n \in DOMAIN spoken}

\* The super-chunks and the words, with their types.
LEMMA Shapes ==
  ASSUME TypeOK, TranscriptInv
  PROVE  /\ Len(CoarseSegment) \in Nat /\ DOMAIN CoarseSegment = 1..Len(CoarseSegment)
         /\ \A k \in DOMAIN CoarseSegment : CoarseSegment[k].start \in Nat /\ CoarseSegment[k].end \in Nat
         /\ Len(spoken) \in Nat /\ DOMAIN spoken = 1..Len(spoken)
         /\ \A n \in DOMAIN spoken : /\ spoken[n].start \in Nat /\ spoken[n].end \in Nat
                                     /\ spoken[n].heard \in [DOMAIN CoarseSegment -> Hearing]
                                     /\ study # None /\ study.late \in Nat
<1>1. /\ Len(CoarseSegment) \in Nat /\ DOMAIN CoarseSegment = 1..Len(CoarseSegment)
      /\ \A k \in DOMAIN CoarseSegment : CoarseSegment[k].start \in Nat /\ CoarseSegment[k].end \in Nat
  <2> DEFINE R == [start : Nat, end : Nat]
  <2>1. CoarseSegment \in Seq(R)
    BY DEF TypeOK
  <2> HIDE DEF R
  <2>2. Len(CoarseSegment) \in Nat /\ DOMAIN CoarseSegment = 1..Len(CoarseSegment)
        /\ \A k \in DOMAIN CoarseSegment : CoarseSegment[k] \in R
    BY <2>1
  <2> QED
    BY <2>2 DEF R
<1>2. /\ Len(spoken) \in Nat /\ DOMAIN spoken = 1..Len(spoken)
      /\ \A n \in DOMAIN spoken : spoken[n] \in SpokenWord
  <2>1. spoken \in Seq(SpokenWord)
    BY DEF TranscriptInv
  <2> QED
    BY <2>1
<1>3. ASSUME NEW n \in DOMAIN spoken PROVE study # None /\ study.late \in Nat
  <2>1. spoken # <<>>
    BY <1>2
  <2> QED
    BY <2>1 DEF TranscriptInv, Untouched, StudyShape
<1>4. \A n \in DOMAIN spoken : /\ spoken[n].start \in Nat /\ spoken[n].end \in Nat
                               /\ spoken[n].heard \in [DOMAIN CoarseSegment -> Hearing]
  BY <1>2 DEF SpokenWord
<1> QED
  BY <1>1, <1>2, <1>3, <1>4

\* p is what super-chunk k heard of word n.
HeardAs(p, n, k) ==
    /\ n \in DOMAIN spoken /\ k \in DOMAIN CoarseSegment
    /\ p.start \in Int /\ p.end \in Int /\ p.start < p.end
    /\ CoarseSegment[k].start <= p.start /\ p.end <= CoarseSegment[k].end
    /\ spoken[n].start <= p.start /\ p.end <= spoken[n].end + study.late
    /\ \E late \in {0, study.late} :
          /\ p.start = Greatest(spoken[n].start + late, CoarseSegment[k].start)
          /\ p.end = Least(spoken[n].end + late, CoarseSegment[k].end)

\* A word is heard within the super-chunk, in time or late.
LEMMA SpanFacts ==
  ASSUME TypeOK, TranscriptInv, HeardInChunks, NEW n \in DOMAIN spoken, NEW k \in DOMAIN CoarseSegment,
         spoken[n].heard[k] # <<>>
  PROVE  HeardAs(spoken[n].heard[k][1], n, k)
<1> DEFINE w == spoken[n]
           c == CoarseSegment[k]
           p == spoken[n].heard[k][1]
           part(late) == Span(Greatest(w.start + late, c.start), Least(w.end + late, c.end))
           parts == {part(late) : late \in {0, study.late}}
<1>1. /\ w.start \in Int /\ w.end \in Int /\ c.start \in Int /\ c.end \in Int /\ study.late \in Nat
  BY Shapes
<1>2. \A q \in parts : \E late \in {0, study.late} : q = part(late)
  OBVIOUS
<1>3. spoken[n].heard[k] \in Hearings(w, c)
  BY DEF HeardInChunks
<1>4. Hearings(w, c) = IF Shared(w, c) <= 0 THEN {<<>>}
                       ELSE {<<q>> : q \in {x \in parts : Length(x) > 0}}
                            \union (IF Shared(w, c) = Length(w) THEN {} ELSE {<<>>})
  BY DEF Hearings
<1> HIDE DEF parts
<1>5. PICK q \in parts : spoken[n].heard[k] = <<q>> /\ Length(q) > 0
  <2> HIDE DEF w, c
  <2> QED
    BY <1>3, <1>4
<1>6. PICK late \in {0, study.late} : p = part(late) /\ Length(p) > 0
  BY <1>2, <1>5
<1>7. late \in Nat /\ 0 <= late /\ late <= study.late
  BY <1>1
<1>8. /\ p.start = Greatest(w.start + late, c.start) /\ p.end = Least(w.end + late, c.end)
      /\ p.end - p.start > 0
  BY <1>6 DEF Span, Length
<1> DEFINE x == p.start
           y == p.end
           a == w.start
           b == w.end
           s == c.start
           t == c.end
<1>9. /\ a \in Int /\ b \in Int /\ s \in Int /\ t \in Int /\ x = Greatest(a + late, s) /\ y = Least(b + late, t)
      /\ y - x > 0
  BY <1>1, <1>8
<1> HIDE DEF x, y, a, b, s, t
<1>10. x \in Int /\ y \in Int /\ x < y /\ s <= x /\ y <= t /\ a <= x /\ y <= b + study.late
  BY <1>1, <1>7, <1>9 DEF Greatest, Least
<1>11. n \in DOMAIN spoken /\ k \in DOMAIN CoarseSegment
  OBVIOUS
<1> HIDE DEF part
<1> QED
  BY <1>8, <1>10, <1>11 DEF HeardAs, x, y, a, b, s, t

\* Every span at which a word was heard is what some super-chunk heard of it.
LEMMA SpansAre ==
  ASSUME TypeOK, TranscriptInv, HeardInChunks, NEW n \in DOMAIN spoken, NEW a \in HeardSpans(n)
  PROVE  \E k \in DOMAIN CoarseSegment : spoken[n].heard[k] # <<>> /\ a = spoken[n].heard[k][1] /\ HeardAs(a, n, k)
<1>1. DOMAIN spoken[n].heard = DOMAIN CoarseSegment
  BY Shapes
<1>2. PICK k \in DOMAIN CoarseSegment : spoken[n].heard[k] # <<>> /\ a = spoken[n].heard[k][1]
  BY <1>1 DEF HeardSpans
<1>3. HeardAs(a, n, k)
  BY <1>2, SpanFacts
<1> QED
  BY <1>2, <1>3

\* What the program makes of it has that number and those times.
LEMMA TaggedIs ==
  ASSUME NEW n, NEW p
  PROVE  /\ {"said", "text", "start", "end"} \subseteq DOMAIN TaggedWord(n, p)
         /\ TaggedWord(n, p).said = n /\ TaggedWord(n, p).text = spoken[n].text
         /\ TaggedWord(n, p).start = p.start /\ TaggedWord(n, p).end = p.end
<1> DEFINE who == AssignSpeaker(p, turns, study.cfg.fill)
           flag == turns # <<>> /\ WordInOverlap(p, OverlapRegions(turns))
<1>1. TaggedWord(n, p) = [said |-> n, text |-> spoken[n].text, stop |-> spoken[n].stop,
           start |-> p.start, end |-> p.end, speaker |-> who, overlap |-> flag]
  BY DEF TaggedWord
<1> HIDE DEF who, flag
<1> QED
  BY <1>1

\* The heard words, one by one.
LEMMA HeardNowIs ==
  ASSUME NEW x \in HeardNow
  PROVE  \E n \in DOMAIN spoken : \E a \in HeardSpans(n) :
            x.said = n /\ x.text = spoken[n].text /\ x.start = a.start /\ x.end = a.end
<1>1. PICK n \in DOMAIN spoken : \E a \in HeardSpans(n) : x = TaggedWord(n, a)
  BY DEF HeardNow
<1>2. PICK a \in HeardSpans(n) : x = TaggedWord(n, a)
  BY <1>1
<1> QED
  BY <1>2, TaggedIs

\* They have their number, their text and their times.
LEMMA HeardNowIsRecorded ==
  ASSUME TypeOK, TranscriptInv, HeardInChunks
  PROVE  Recorded(HeardNow)
<1> SUFFICES ASSUME NEW x \in HeardNow
      PROVE  /\ {"said", "text", "start", "end"} \subseteq DOMAIN x
             /\ x.said \in Int /\ x.start \in Int /\ x.end \in Int /\ x.start < x.end
  BY DEF Recorded
<1>1. PICK n \in DOMAIN spoken : \E a \in HeardSpans(n) : x = TaggedWord(n, a)
  BY DEF HeardNow
<1>2. PICK a \in HeardSpans(n) : x = TaggedWord(n, a)
  BY <1>1
<1>3. a.start \in Int /\ a.end \in Int /\ a.start < a.end
  BY SpansAre DEF HeardAs
<1>4. n \in Int
  BY Shapes
<1> QED
  BY <1>2, <1>3, <1>4, TaggedIs

\* words is what super-chunk k heard: each word that it heard, in order.
HearsWords(words, k) ==
    /\ words \in Seq(HeardNow)
    /\ \A i \in 1..Len(words) : /\ words[i].start >= CoarseSegment[k].start
                                /\ words[i].end <= CoarseSegment[k].end
    /\ \A i, j \in 1..Len(words) : i < j => words[i].said < words[j].said
    /\ \A n : Says(words, n) <=> n \in DOMAIN spoken /\ spoken[n].heard[k] # <<>>

\* The words of a row of the superchunks table.
LEMMA ChunkHears ==
  ASSUME TypeOK, TranscriptInv, HeardInChunks, NEW k \in DOMAIN CoarseSegment
  PROVE  /\ SuperchunkWords[k].start = CoarseSegment[k].start
         /\ SuperchunkWords[k].end = CoarseSegment[k].end
         /\ HearsWords(SuperchunkWords[k].words, k)
<1> DEFINE those == {n \in DOMAIN spoken : spoken[n].heard[k] # <<>>}
           heard == InOrder(those)
           span(n) == spoken[n].heard[k][1]
           words == [i \in DOMAIN heard |-> TaggedWord(heard[i], span(heard[i]))]
<1>1. SuperchunkWords[k] = [start |-> CoarseSegment[k].start, end |-> CoarseSegment[k].end, words |-> words]
  BY DEF SuperchunkWords
<1>2. those \in SUBSET Int /\ IsFiniteSet(those)
  <2>1. IsFiniteSet(1..Len(spoken)) /\ 1..Len(spoken) \subseteq Int /\ DOMAIN spoken = 1..Len(spoken)
    BY Shapes, FS_Interval
  <2>2. those \subseteq 1..Len(spoken)
    BY <2>1
  <2> QED
    BY <2>1, <2>2, FS_Subset
<1>3. \A n \in those : n \in DOMAIN spoken /\ n \in Int /\ HeardAs(span(n), n, k) /\ span(n) \in HeardSpans(n)
  <2> SUFFICES ASSUME NEW n \in those
        PROVE n \in DOMAIN spoken /\ n \in Int /\ HeardAs(span(n), n, k) /\ span(n) \in HeardSpans(n)
    OBVIOUS
  <2>1. n \in DOMAIN spoken /\ spoken[n].heard[k] # <<>>
    OBVIOUS
  <2>2. HeardAs(span(n), n, k)
    BY <2>1, SpanFacts
  <2>3. k \in DOMAIN spoken[n].heard
    BY <2>1, Shapes
  <2>4. span(n) \in HeardSpans(n)
    BY <2>1, <2>3 DEF HeardSpans
  <2>5. n \in Int
    BY <1>2
  <2> QED
    BY <2>1, <2>2, <2>4, <2>5
<1>4. \A n : n \in those <=> n \in DOMAIN spoken /\ spoken[n].heard[k] # <<>>
  OBVIOUS
<1> HIDE DEF those
<1>5. /\ heard \in Seq(those) /\ Len(heard) = Cardinality(those) /\ Cardinality(those) \in Nat
      /\ \A i \in 1..Cardinality(those) : heard[i] \in those
      /\ \A i, j \in 1..Cardinality(those) : i < j => heard[i] < heard[j]
      /\ \A n \in those : \E i \in 1..Cardinality(those) : heard[i] = n
  BY <1>2, InOrderFacts
<1> DEFINE N == Cardinality(those)
<1> HIDE DEF heard, span
<1>6. DOMAIN heard = 1..N /\ N \in Nat
  BY <1>5 DEF N
<1>7. \A i \in 1..N : TaggedWord(heard[i], span(heard[i])) \in HeardNow
  BY <1>3, <1>5 DEF HeardNow, N
<1>8. words \in Seq(HeardNow) /\ Len(words) = N
      /\ \A i \in 1..N : words[i] = TaggedWord(heard[i], span(heard[i]))
  <2> DEFINE U == HeardNow
  <2> HIDE DEF U, N
  <2>1. words \in [1..N -> U]
    BY <1>6, <1>7 DEF U
  <2>2. words \in Seq(U) /\ Len(words) = N
    BY <1>6, <2>1
  <2> QED
    BY <1>6, <2>2 DEF U
<1> HIDE DEF words
<1>9. ASSUME NEW i \in 1..N
      PROVE  /\ words[i].said = heard[i] /\ heard[i] \in those
             /\ words[i].start >= CoarseSegment[k].start /\ words[i].end <= CoarseSegment[k].end
  <2>1. heard[i] \in those
    BY <1>5 DEF N
  <2>2. HeardAs(span(heard[i]), heard[i], k)
    BY <1>3, <2>1
  <2>3. /\ words[i].said = heard[i] /\ words[i].start = span(heard[i]).start
        /\ words[i].end = span(heard[i]).end
    BY <1>8, TaggedIs
  <2>4. span(heard[i]).start \in Int /\ CoarseSegment[k].start \in Int
        /\ CoarseSegment[k].start <= span(heard[i]).start /\ span(heard[i]).end <= CoarseSegment[k].end
    BY <2>2, Shapes DEF HeardAs
  <2> QED
    BY <2>1, <2>3, <2>4
<1>10. ASSUME NEW i \in 1..N, NEW j \in 1..N, i < j PROVE words[i].said < words[j].said
  BY <1>5, <1>9, <1>10 DEF N
<1>11. ASSUME NEW n PROVE Says(words, n) <=> n \in those
  <2>1. Says(words, n) => n \in those
    BY <1>8, <1>9 DEF Says
  <2>2. ASSUME n \in those PROVE Says(words, n)
    <3>1. PICK i \in 1..N : heard[i] = n
      BY <1>5, <2>2 DEF N
    <3> QED
      BY <1>8, <1>9, <3>1 DEF Says
  <2> QED
    BY <2>1, <2>2
<1> HIDE DEF N
<1>12. HearsWords(words, k)
  BY <1>4, <1>8, <1>9, <1>10, <1>11 DEF HearsWords
<1> QED
  BY <1>1, <1>12

\* No super-chunk but the last ends before the one in front of it.
LEMMA ChunksEndInOrder ==
  ASSUME Detected, NEW k \in 2..(Len(CoarseSegment) - 1)
  PROVE  CoarseSegment[k - 1].end <= CoarseSegment[k].end
<1> DEFINE cuts == CutPoints(regions)
           chunks == CoarseSegment
           n == Len(cuts)
           j == k - 1
<1>1. cuts \in Seq(Piece) /\ (\A i \in 1..n : cuts[i].start < cuts[i].end) /\ Ordered(cuts)
  BY CutFacts DEF Detected
<1> HIDE DEF cuts
<1>2. /\ Len(chunks) = n
      /\ \A i \in 1..n : chunks[i].end = Least(duration, IF i < n THEN cuts[i].end + Overlap
                                                         ELSE cuts[i].end)
  BY <1>1, OverlapFacts DEF Detected, CoarseSegment, cuts
<1>3. n \in Nat /\ \A i \in 1..n : cuts[i].start \in Nat /\ cuts[i].end \in Nat
  <2>1. n \in Nat /\ \A i \in 1..n : cuts[i] \in Piece
    BY <1>1
  <2> QED
    BY <2>1 DEF Piece
<1>4. Overlap \in Nat /\ duration \in Nat
  BY VadAssumption DEF VadAssumption, Detected
<1> HIDE DEF chunks
<1>5. j \in 1..n /\ k \in 1..n /\ j < n /\ k < n /\ j \in 1..(n - 1) /\ j + 1 = k
  BY <1>2, <1>3 DEF chunks
<1>6. cuts[j].end <= cuts[k].start
  BY <1>1, <1>5 DEF Ordered, n
<1>7. cuts[j].end <= cuts[k].end
  BY <1>1, <1>3, <1>5, <1>6
<1>8. chunks[j].end = Least(duration, cuts[j].end + Overlap) /\ chunks[k].end = Least(duration, cuts[k].end + Overlap)
  BY <1>2, <1>5
<1> DEFINE a == cuts[j].end
           b == cuts[k].end
<1>9. a \in Int /\ b \in Int /\ a <= b
  BY <1>3, <1>5, <1>7
<1> HIDE DEF a, b
<1>10. Least(duration, a + Overlap) <= Least(duration, b + Overlap)
  BY <1>4, <1>9 DEF Least
<1> QED
  BY <1>8, <1>10 DEF a, b, chunks

\* The rows of the superchunks table.
LEMMA ChunksAreChained ==
  ASSUME Detected, TypeOK, TranscriptInv, HeardInChunks
  PROVE  Chained(HeardNow, SuperchunkWords)
<1> DEFINE n == Len(CoarseSegment)
<1>1. /\ n \in Nat /\ DOMAIN CoarseSegment = 1..n
      /\ \A k \in DOMAIN CoarseSegment : CoarseSegment[k].start \in Nat /\ CoarseSegment[k].end \in Nat
  BY Shapes
<1>2. DOMAIN SuperchunkWords = 1..n /\ Len(SuperchunkWords) = n
  <2>1. spoken \in Seq(SpokenWord)
    BY DEF TranscriptInv
  <2>2. Heard(HeardWords, SuperchunkWords)
    BY <2>1, SuperchunksHear
  <2>3. DOMAIN SuperchunkWords = 1..Len(SuperchunkWords) /\ Len(SuperchunkWords) \in Nat
    BY <2>2 DEF Heard
  <2>4. DOMAIN SuperchunkWords = DOMAIN CoarseSegment
    BY DEF SuperchunkWords
  <2>5. \A a, b \in Nat : 1..a = 1..b => a = b
    <3> SUFFICES ASSUME NEW a \in Nat, NEW b \in Nat, 1..a = 1..b PROVE a = b
      OBVIOUS
    <3>1. (a >= 1 => a \in 1..b) /\ (b >= 1 => b \in 1..a)
      BY SMT
    <3> QED
      BY <3>1
  <2> QED
    BY <1>1, <2>3, <2>4, <2>5
<1>3. ASSUME NEW k \in 1..n
      PROVE  /\ SuperchunkWords[k].start = CoarseSegment[k].start
             /\ SuperchunkWords[k].end = CoarseSegment[k].end
             /\ HearsWords(SuperchunkWords[k].words, k)
  BY <1>1, ChunkHears
<1>4. ASSUME NEW k \in 1..n
      PROVE  /\ Attentive(SuperchunkWords[k], HeardNow)
             /\ \A i \in 1..Len(SuperchunkWords[k].words) :
                   SuperchunkWords[k].words[i].end <= SuperchunkWords[k].end
  BY <1>1, <1>3 DEF Attentive, HearsWords
<1>5. ASSUME NEW k \in 2..(n - 1) PROVE SuperchunkWords[k - 1].end <= SuperchunkWords[k].end
  <2>1. k \in 1..n /\ k - 1 \in 1..n /\ k \in 2..(Len(CoarseSegment) - 1)
    BY <1>1
  <2>2. CoarseSegment[k - 1].end <= CoarseSegment[k].end
    BY <2>1, ChunksEndInOrder
  <2> QED
    BY <1>3, <2>1, <2>2
<1> HIDE DEF n
<1> QED
  BY <1>1, <1>2, <1>4, <1>5 DEF Chained

-----------------------------------------------------------------------------
(* Hearings that leave no doubt. *)

\* No super-chunk heard a word inside the span at which another one heard it.
HeardInStep ==
    \A n \in DOMAIN spoken : \A a, b \in HeardSpans(n) : a.start < b.start => a.end <= b.end

\* Alignment is never late, and no word is longer than the overlap.
Exact ==
    study # None => study.late = 0 /\ \A n \in DOMAIN spoken : Length(spoken[n]) <= Overlap

\* What two spans have in common, and the span of both, are numbers.
LEMMA SpansMeasure ==
  ASSUME TypeOK, TranscriptInv, HeardInChunks, NEW n \in DOMAIN spoken, NEW m \in DOMAIN spoken,
         NEW a \in HeardSpans(n), NEW b \in HeardSpans(m)
  PROVE  /\ Shared(a, b) \in Int /\ Greatest(0, Shared(a, b)) \in Int
         /\ Greatest(0, Shared(a, b)) >= Shared(a, b)
         /\ Greatest(a.end, b.end) - Least(a.start, b.start) \in Int
<1>1. a.start \in Int /\ a.end \in Int /\ b.start \in Int /\ b.end \in Int
  BY SpansAre DEF HeardAs
<1>2. \A x, y \in Int : Least(x, y) \in Int /\ Greatest(x, y) \in Int /\ Greatest(x, y) >= y
  BY DEF Least, Greatest
<1>3. Least(a.end, b.end) \in Int /\ Greatest(a.start, b.start) \in Int
      /\ Greatest(a.end, b.end) \in Int /\ Least(a.start, b.start) \in Int
  BY <1>1, <1>2
<1>4. Shared(a, b) \in Int
  BY <1>3 DEF Shared
<1>5. Greatest(0, Shared(a, b)) \in Int /\ Greatest(0, Shared(a, b)) >= Shared(a, b)
  <2> DEFINE u == Shared(a, b)
  <2>1. u \in Int /\ 0 \in Int
    BY <1>4
  <2> HIDE DEF u
  <2>2. Greatest(0, u) \in Int /\ Greatest(0, u) >= u
    BY <2>1 DEF Greatest
  <2> QED
    BY <2>2 DEF u
<1>6. Greatest(a.end, b.end) - Least(a.start, b.start) \in Int
  BY <1>3
<1> QED
  BY <1>4, <1>5, <1>6

\* What the words are like, told from what was heard.
LEMMA HeardNowIsDistinct ==
  ASSUME TypeOK, TranscriptInv, HeardInChunks
  PROVE  /\ ToldApart => SameIsSame(HeardNow)
         /\ HeardInOrder => LaterIsLater(HeardNow)
         /\ HeardInOrder /\ HeardInStep => NoneInside(HeardNow)
         /\ \A n \in DOMAIN spoken : HeardAlike(n) => AllTheSame(HeardNow, n)
<1>1. ASSUME ToldApart, NEW x \in HeardNow, NEW y \in HeardNow, SameWord(x, y)
      PROVE  x.said = y.said
  <2>1. PICK n \in DOMAIN spoken : \E a \in HeardSpans(n) :
            x.said = n /\ x.text = spoken[n].text /\ x.start = a.start /\ x.end = a.end
    BY HeardNowIs
  <2>2. PICK a \in HeardSpans(n) :
            x.said = n /\ x.text = spoken[n].text /\ x.start = a.start /\ x.end = a.end
    BY <2>1
  <2>3. PICK m \in DOMAIN spoken : \E b \in HeardSpans(m) :
            y.said = m /\ y.text = spoken[m].text /\ y.start = b.start /\ y.end = b.end
    BY HeardNowIs
  <2>4. PICK b \in HeardSpans(m) :
            y.said = m /\ y.text = spoken[m].text /\ y.start = b.start /\ y.end = b.end
    BY <2>3
  <2>5. /\ spoken[n].text = spoken[m].text
        /\ 5 * Greatest(0, Shared(a, b)) > 2 * (Greatest(a.end, b.end) - Least(a.start, b.start))
    BY <1>1, <2>2, <2>4 DEF SameWord, Shared
  <2>6. ASSUME n # m PROVE FALSE
    <3> DEFINE u == 5 * Greatest(0, Shared(a, b))
               v == 2 * (Greatest(a.end, b.end) - Least(a.start, b.start))
    <3>1. u <= v
      BY <1>1, <2>5, <2>6 DEF ToldApart
    <3>2. u > v
      BY <2>5
    <3>3. u \in Int /\ v \in Int
      BY SpansMeasure
    <3> HIDE DEF u, v
    <3> QED
      BY <3>1, <3>2, <3>3
  <2> QED
    BY <2>2, <2>4, <2>6
<1>2. ASSUME HeardInOrder, NEW x \in HeardNow, NEW y \in HeardNow, x.said < y.said
      PROVE  x.start < y.start /\ x.end <= y.end
  <2>1. PICK n \in DOMAIN spoken : \E a \in HeardSpans(n) :
            x.said = n /\ x.text = spoken[n].text /\ x.start = a.start /\ x.end = a.end
    BY HeardNowIs
  <2>2. PICK m \in DOMAIN spoken : \E b \in HeardSpans(m) :
            y.said = m /\ y.text = spoken[m].text /\ y.start = b.start /\ y.end = b.end
    BY HeardNowIs
  <2>3. n < m
    BY <1>2, <2>1, <2>2
  <2> QED
    BY <1>2, <2>1, <2>2, <2>3 DEF HeardInOrder
<1>3. ASSUME NEW n \in DOMAIN spoken, HeardAlike(n),
             NEW x \in HeardNow, NEW y \in HeardNow, x.said = n, y.said = n
      PROVE  SameWord(x, y)
  <2>1. PICK a \in HeardSpans(n) :
            x.said = n /\ x.text = spoken[n].text /\ x.start = a.start /\ x.end = a.end
    BY <1>3, HeardNowIs
  <2>2. PICK b \in HeardSpans(n) :
            y.said = n /\ y.text = spoken[n].text /\ y.start = b.start /\ y.end = b.end
    BY <1>3, HeardNowIs
  <2>3. 5 * Shared(a, b) > 2 * (Greatest(a.end, b.end) - Least(a.start, b.start))
    BY <1>3 DEF HeardAlike
  <2> DEFINE u == Shared(a, b)
             v == Greatest(a.end, b.end) - Least(a.start, b.start)
  <2>4. u \in Int /\ Greatest(0, u) \in Int /\ Greatest(0, u) >= u /\ v \in Int
    BY SpansMeasure
  <2>5. SameWord(x, y) <=> 5 * Greatest(0, u) > 2 * v
    BY <2>1, <2>2 DEF SameWord, Shared
  <2> HIDE DEF u, v
  <2>6. 5 * u > 2 * v
    BY <2>3 DEF u, v
  <2>7. 5 * Greatest(0, u) > 2 * v
    BY <2>4, <2>6
  <2> QED
    BY <2>5, <2>7
<1>4. ASSUME HeardInOrder, HeardInStep, NEW x \in HeardNow, NEW y \in HeardNow, x.start < y.start
      PROVE  x.end <= y.end
  <2>1. PICK n \in DOMAIN spoken : \E a \in HeardSpans(n) :
            x.said = n /\ x.text = spoken[n].text /\ x.start = a.start /\ x.end = a.end
    BY HeardNowIs
  <2>2. PICK m \in DOMAIN spoken : \E b \in HeardSpans(m) :
            y.said = m /\ y.text = spoken[m].text /\ y.start = b.start /\ y.end = b.end
    BY HeardNowIs
  <2>3. n \in Int /\ m \in Int
    BY Shapes
  <2>4. CASE n = m
    BY <1>4, <2>1, <2>2, <2>4 DEF HeardInStep
  <2>5. CASE n < m
    BY <1>4, <2>1, <2>2, <2>5 DEF HeardInOrder
  <2>6. CASE m < n
    <3>1. y.start < x.start
      BY <1>4, <2>1, <2>2, <2>6 DEF HeardInOrder
    <3>2. x.start \in Int /\ y.start \in Int
      BY HeardNowIsRecorded DEF Recorded
    <3> QED
      BY <1>4, <3>1, <3>2
  <2> QED
    BY <2>3, <2>4, <2>5, <2>6
<1> QED
  BY <1>1, <1>2, <1>3, <1>4 DEF SameIsSame, LaterIsLater, AllTheSame, NoneInside

\* What is merged of the rows of the superchunks table.
MergedNow == MergeSuperchunkWords(SuperchunkWords)

\* The merged words are the words that were heard: in order, and each once.
LEMMA MergedNowSays ==
  ASSUME Detected, TypeOK, TranscriptInv, HeardInChunks, HeardInOrder
  PROVE  /\ Len(MergedNow) \in Nat /\ DOMAIN MergedNow = 1..Len(MergedNow)
         /\ SaidInOrder(MergedNow)
         /\ HeardInStep => StartsInOrder(MergedNow)
         /\ ToldApart => \A n \in DOMAIN spoken : /\ Says(MergedNow, n) <=> HeardSpans(n) # {}
                                                  /\ HeardAlike(n) => Singly(MergedNow, n)
<1> DEFINE T == Edged(HeardNow)
<1>1. Recorded(HeardNow) /\ (ToldApart => SameIsSame(HeardNow)) /\ LaterIsLater(HeardNow)
      /\ (HeardInStep => NoneInside(HeardNow))
      /\ \A n \in DOMAIN spoken : HeardAlike(n) => AllTheSame(HeardNow, n)
  BY HeardNowIsRecorded, HeardNowIsDistinct
<1>2. /\ LaterIsLater(T)
      /\ SameIsSame(HeardNow) => SameIsSame(T)
      /\ NoneInside(HeardNow) => NoneInside(T)
      /\ \A n : AllTheSame(HeardNow, n) => AllTheSame(T, n)
  BY <1>1, EdgedIsRecorded
<1>3. Chained(HeardNow, SuperchunkWords)
  BY ChunksAreChained
<1>4. Collected(MergedNow, Len(SuperchunkWords), HeardNow, SuperchunkWords)
  BY <1>1, <1>3, MergedSays DEF MergedNow
<1>5. /\ MergedNow \in Seq(T)
      /\ SaidInOrder(MergedNow)
      /\ NoneInside(T) => StartsInOrder(MergedNow)
      /\ SameIsSame(T) =>
           /\ \A n : Says(MergedNow, n) <=> \E k \in 1..Len(SuperchunkWords) : Says(SuperchunkWords[k].words, n)
           /\ \A n : AllTheSame(T, n) => Singly(MergedNow, n)
  BY <1>2, <1>4 DEF Collected
<1>6. DOMAIN CoarseSegment = 1..Len(SuperchunkWords)
  <2>1. DOMAIN SuperchunkWords = DOMAIN CoarseSegment
    BY DEF SuperchunkWords
  <2> QED
    BY <1>3, <2>1 DEF Chained
<1>7. ASSUME ToldApart, NEW n \in DOMAIN spoken PROVE Says(MergedNow, n) <=> HeardSpans(n) # {}
  <2>1. \A k \in DOMAIN CoarseSegment : Says(SuperchunkWords[k].words, n) <=> spoken[n].heard[k] # <<>>
    BY ChunkHears DEF HearsWords
  <2>2. DOMAIN spoken[n].heard = DOMAIN CoarseSegment
    BY Shapes
  <2>3. HeardSpans(n) # {} <=> \E k \in DOMAIN CoarseSegment : spoken[n].heard[k] # <<>>
    BY <2>2 DEF HeardSpans
  <2> QED
    BY <1>1, <1>2, <1>5, <1>6, <1>7, <2>1, <2>3
<1> HIDE DEF T
<1>8. Len(MergedNow) \in Nat /\ DOMAIN MergedNow = 1..Len(MergedNow)
  BY <1>5
<1> QED
  BY <1>1, <1>2, <1>5, <1>7, <1>8

\* How often a word is among words is a number, and what it tells.
LEMMA CountSaid ==
  ASSUME NEW words, Len(words) \in Nat, DOMAIN words = 1..Len(words), NEW n,
         NEW places, places = {i \in 1..Len(words) : words[i].said = n}
  PROVE  /\ Cardinality(places) > 0 <=> Says(words, n)
         /\ Singly(words, n) => Cardinality(places) <= 1
<1>1. IsFiniteSet(places)
  <2>1. IsFiniteSet(1..Len(words)) /\ places \subseteq 1..Len(words)
    BY FS_Interval
  <2> QED
    BY <2>1, FS_Subset
<1>2. Cardinality(places) \in Nat /\ (Cardinality(places) = 0 <=> places = {})
  BY <1>1, FS_CardinalityType, FS_EmptySet
<1>3. places # {} <=> Says(words, n)
  BY DEF Says
<1>4. ASSUME Singly(words, n), places # {} PROVE Cardinality(places) <= 1
  <2>1. PICK i \in places : TRUE
    BY <1>4
  <2>2. places = {i}
    BY <1>4, <2>1 DEF Singly
  <2>3. Cardinality(places) = 1
    BY <2>2, FS_Singleton
  <2> QED
    BY <2>3
<1> QED
  BY <1>2, <1>3, <1>4

\* If the hearing leaves no doubt, rechunk_video has none.
LEMMA WordsOnce ==
  ASSUME Detected, TypeOK, TranscriptInv, HeardInChunks
  PROVE  EveryWordOnce
<1> SUFFICES ASSUME Rechunked, ToldApart, HeardInOrder PROVE EveryWordOnce
  BY DEF EveryWordOnce
<1> DEFINE words == SegmentWords
           said == [i \in DOMAIN words |-> words[i].said]
           times(n) == Cardinality({i \in DOMAIN said : said[i] = n})
<1>1. words = MergedNow
  BY SegmentWordsAreMerged DEF MergedNow
<1>2. /\ Len(words) \in Nat /\ DOMAIN words = 1..Len(words)
      /\ SaidInOrder(words)
      /\ \A n \in DOMAIN spoken : Says(words, n) <=> HeardSpans(n) # {}
      /\ \A n \in DOMAIN spoken : HeardAlike(n) => Singly(words, n)
  BY <1>1, MergedNowSays
<1> HIDE DEF words
<1>3. DOMAIN said = 1..Len(words) /\ \A i \in 1..Len(words) : said[i] = words[i].said
  BY <1>2
<1>4. EveryWordOnce <=>
         /\ \A i, j \in DOMAIN said : i < j => said[i] <= said[j]
         /\ \A n \in DOMAIN spoken : /\ times(n) > 0 <=> HeardSpans(n) # {}
                                     /\ HeardAlike(n) => times(n) <= 1
  BY DEF EveryWordOnce, words
<1> HIDE DEF said
<1>5. \A i, j \in DOMAIN said : i < j => said[i] <= said[j]
  BY <1>2, <1>3 DEF SaidInOrder
<1>6. ASSUME NEW n \in DOMAIN spoken
      PROVE  (times(n) > 0 <=> HeardSpans(n) # {}) /\ (HeardAlike(n) => times(n) <= 1)
  <2> DEFINE places == {i \in DOMAIN said : said[i] = n}
  <2>1. places = {i \in 1..Len(words) : words[i].said = n}
    BY <1>3
  <2>2. times(n) = Cardinality(places)
    OBVIOUS
  <2> HIDE DEF places, times
  <2>3. /\ Cardinality(places) > 0 <=> Says(words, n)
        /\ Singly(words, n) => Cardinality(places) <= 1
    BY <1>2, <2>1, CountSaid
  <2> QED
    BY <1>2, <2>2, <2>3
<1> QED
  BY <1>4, <1>5, <1>6

\* rechunk.py 80-89, 113-141: whatever the super-chunks heard is in the segments,
\* in the order in which it was said and each word once, if no two words with the
\* same text were heard at one time and none was heard before an earlier one.
THEOREM HeardWordsOnce == TranscriptSpec => []EveryWordOnce
  BY WordsOnce, HearingInvariant, PTL

\* A super-chunk that ends before another one is longer than the overlap.
LEMMA ChunksAreLong ==
  ASSUME Detected, NEW j \in DOMAIN CoarseSegment, NEW k \in DOMAIN CoarseSegment, j # k,
         CoarseSegment[k].end < CoarseSegment[j].end, CoarseSegment[k].start > 0
  PROVE  CoarseSegment[k].end - CoarseSegment[k].start > Overlap
<1> DEFINE cuts == CutPoints(regions)
           chunks == CoarseSegment
           n == Len(cuts)
<1>1. cuts \in Seq(Piece) /\ (\A i \in 1..n : cuts[i].start < cuts[i].end)
  BY CutFacts DEF Detected
<1> HIDE DEF cuts
<1>2. /\ DOMAIN chunks = 1..n
      /\ \A i \in 1..n :
           /\ chunks[i].start = IF i > 1 THEN Greatest(0, cuts[i].start - Overlap) ELSE cuts[i].start
           /\ chunks[i].end = Least(duration, IF i < n THEN cuts[i].end + Overlap ELSE cuts[i].end)
  BY <1>1, OverlapFacts DEF Detected, CoarseSegment, cuts
<1>3. n \in Nat /\ \A i \in 1..n : cuts[i].start \in Nat /\ cuts[i].end \in Nat
  <2>1. n \in Nat /\ \A i \in 1..n : cuts[i] \in Piece
    BY <1>1
  <2> QED
    BY <2>1 DEF Piece
<1>4. Overlap \in Nat /\ duration \in Nat
  BY VadAssumption DEF VadAssumption, Detected
<1> DEFINE s == chunks[k].start
           e == chunks[k].end
           f == chunks[j].end
           c == cuts[k].start
           d == cuts[k].end
           g == IF j < n THEN cuts[j].end + Overlap ELSE cuts[j].end
<1>5. s > 0 /\ e < f
  OBVIOUS
<1> HIDE DEF chunks
<1>6. j \in 1..n /\ k \in 1..n /\ k \in Int /\ j \in Int
  BY <1>2, <1>3 DEF chunks
<1>7. /\ s = IF k > 1 THEN Greatest(0, c - Overlap) ELSE c
      /\ e = Least(duration, IF k < n THEN d + Overlap ELSE d)
      /\ f = Least(duration, g)
  BY <1>2, <1>6
<1>8. c \in Int /\ d \in Int /\ c < d /\ g \in Int
  BY <1>1, <1>3, <1>4, <1>6
<1> HIDE DEF s, e, f, c, d, g, n
<1>9. f <= duration
  BY <1>4, <1>7, <1>8 DEF Least
<1>10. e = IF k < n THEN d + Overlap ELSE d
  BY <1>4, <1>5, <1>7, <1>8, <1>9 DEF Least
<1>11. e - s > Overlap
  <2>1. CASE k > 1
    <3>1. s = c - Overlap
      BY <1>4, <1>5, <1>7, <1>8, <2>1 DEF Greatest
    <3> QED
      BY <1>4, <1>8, <1>10, <3>1
  <2>2. CASE ~ (k > 1)
    <3>1. s = c /\ k < n
      BY <1>3, <1>6, <1>7, <2>2 DEF n
    <3> QED
      BY <1>4, <1>8, <1>10, <3>1
  <2> QED
    BY <2>1, <2>2
<1> QED
  BY <1>11 DEF s, e, chunks

\* If alignment is exact and words are short, no hearing of a word lies within another.
LEMMA ExactInStep ==
  ASSUME Detected, TypeOK, TranscriptInv, HeardInChunks, Exact
  PROVE  HeardInStep
<1> SUFFICES ASSUME NEW n \in DOMAIN spoken, NEW a \in HeardSpans(n), NEW b \in HeardSpans(n),
                    a.start < b.start, ~ (a.end <= b.end)
    PROVE  FALSE
  BY DEF HeardInStep
<1>1. PICK j \in DOMAIN CoarseSegment : a = spoken[n].heard[j][1] /\ HeardAs(a, n, j)
  BY SpansAre
<1>2. PICK k \in DOMAIN CoarseSegment : b = spoken[n].heard[k][1] /\ HeardAs(b, n, k)
  BY SpansAre
<1>3. j # k
  <2>1. a.start \in Int
    BY <1>1 DEF HeardAs
  <2> QED
    BY <1>1, <1>2, <2>1
<1>4. study.late = 0 /\ Length(spoken[n]) <= Overlap
  BY Shapes DEF Exact
<1> DEFINE x == spoken[n].start
           y == spoken[n].end
           s == CoarseSegment[k].start
           e == CoarseSegment[k].end
           f == CoarseSegment[j].end
           u == CoarseSegment[j].start
           p == a.start
           q == a.end
           r == b.start
           t == b.end
<1>5. /\ x \in Nat /\ y \in Nat /\ s \in Nat /\ e \in Nat /\ f \in Nat /\ u \in Nat
      /\ p \in Int /\ q \in Int /\ r \in Int /\ t \in Int
  BY <1>1, <1>2, Shapes DEF HeardAs
<1>6. x <= p /\ q <= f /\ p < r /\ ~ (q <= t)
  BY <1>1 DEF HeardAs
<1>7. q <= y
  BY <1>1, <1>4, <1>5 DEF HeardAs
<1>8. r = Greatest(x, s) /\ t = Least(y, e)
  <2>1. PICK late \in {0, study.late} : r = Greatest(x + late, s) /\ t = Least(y + late, e)
    BY <1>2 DEF HeardAs
  <2>2. late = 0 /\ x + 0 = x /\ y + 0 = y
    BY <1>4, <1>5
  <2> QED
    BY <2>1, <2>2
<1>9. y - x <= Overlap
  BY <1>4 DEF Length
<1> HIDE DEF x, y, p, q, r, t
<1>10. x < s /\ e < f /\ e < y
  <2> HIDE DEF s, e, f, u
  <2>0. /\ x \in Int /\ y \in Int /\ f \in Int /\ p \in Int /\ q \in Int /\ r \in Int /\ t \in Int
        /\ x <= p /\ p < r /\ q <= f /\ q <= y /\ ~ (q <= t)
    BY <1>5, <1>6, <1>7
  <2>1. r > x /\ t < y /\ t < f
    BY ONLY <2>0
  <2>2. r = s
    BY <1>5, <1>8, <2>1 DEF Greatest
  <2>3. t = e
    BY <1>5, <1>8, <2>1 DEF Least
  <2> QED
    BY <2>1, <2>2, <2>3
<1>11. CoarseSegment[k].start > 0
  BY <1>5, <1>10
<1>12. e - s > Overlap
  BY <1>3, <1>10, <1>11, ChunksAreLong
<1>13. Overlap \in Int
  BY VadAssumption DEF VadAssumption
<1> HIDE DEF s, e, f
<1> QED
  BY <1>5, <1>9, <1>10, <1>12, <1>13

\* Heard in order and in step is merged in the order of the beginnings.
LEMMA CutsInStep ==
  ASSUME Detected, TypeOK, TranscriptInv, HeardInChunks, HeardInOrder, HeardInStep
  PROVE  CutsHaveAReason
<1>1. StartsInOrder(MergedNow)
  BY MergedNowSays
<1> QED
  BY <1>1, CutReasons DEF MergedNow

\* rechunk.py 205-211, 248-254: every cut has its reason if every word was heard
\* in the order of speech and none inside another hearing of it.
THEOREM CutsOfWordsInStep ==
  TranscriptSpec => [](HeardInOrder /\ HeardInStep => CutsHaveAReason)
  BY CutsInStep, HearingInvariant, PTL

\* rechunk.py 205-211, 248-254: so it is if every word was heard in the order of
\* speech, alignment is exact and no word is longer than the overlap of two
\* super-chunks.
THEOREM CutsOfExactWords == TranscriptSpec => [](HeardInOrder /\ Exact => CutsHaveAReason)
  BY ExactInStep, CutsInStep, HearingInvariant, PTL

=============================================================================
