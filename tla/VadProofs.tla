----------------------------- MODULE VadProofs -----------------------------
(***************************************************************************)
(* Theorems about Vad, for every recording, cap and overlap: what super-   *)
(* chunks there are, where they begin and end, and that all detected       *)
(* speech is in them. The loop over the regions is followed by the partial *)
(* results of its fold (FoldProofs); the pieces of all chunks are put      *)
(* together in the same way.                                               *)
(***************************************************************************)
EXTENDS Vad, FoldProofs, SequenceTheorems

-----------------------------------------------------------------------------
(* The loop over the regions, and the pieces of the chunks it makes, in order. *)

\* FoldLeft, as the library's nested definitions unfold.
LEMMA MergedIsFold ==
  ASSUME NEW rs
  PROVE  Merged(rs) = (CHOOSE iter : iter = [s \in SUBSET DOMAIN rs |->
            IF s = {} THEN <<>> ELSE MergeRegion(iter[s \ {Max(s)}], rs[Max(s)])])[DOMAIN rs]
  BY DEF Merged, FoldLeft, MapThenFoldSet

\* The partial results of the loop over rs.
LEMMA MergedPrefixes ==
  ASSUME NEW S, NEW rs \in Seq(S), NEW V, <<>> \in V,
         \A chunks \in V, r \in S : MergeRegion(chunks, r) \in V
  PROVE  \E part \in [0..Len(rs) -> V] :
            /\ part[0] = <<>>
            /\ \A k \in 1..Len(rs) : part[k] = MergeRegion(part[k - 1], rs[k])
            /\ part[Len(rs)] = Merged(rs)
<1> DEFINE n == Len(rs)
           none == <<>>
           step == [k \in 1..n |-> [chunks \in V |-> MergeRegion(chunks, rs[k])]]
           Equation(g) == g = [s \in SUBSET DOMAIN rs |->
                IF s = {} THEN <<>> ELSE MergeRegion(g[s \ {Max(s)}], rs[Max(s)])]
           iter == CHOOSE g : Equation(g)
<1>1. n \in Nat /\ DOMAIN rs = 1..n /\ \A k \in 1..n : rs[k] \in S
  OBVIOUS
<1>2. \A k \in 1..n, chunks \in V :
         step[k][chunks] = MergeRegion(chunks, rs[k]) /\ step[k][chunks] \in V
  BY <1>1
<1>3. \A s \in SUBSET (1..n) : s # {} => Max(s) \in 1..n /\ s \ {Max(s)} \in SUBSET (1..n)
  BY <1>1, MaxIsGreatest
<1>s. StepsIn(step, n, V)
  <2> HIDE DEF n, step
  <2> QED
    BY <1>2 DEF StepsIn
<1>4. PICK h \in [SUBSET (1..n) -> V] : FoldsBy(h, n, V, none, step)
  <2>1. n \in Nat /\ none \in V
    BY <1>1
  <2> HIDE DEF n, step, none
  <2> QED
    BY <1>s, <2>1, FoldExists
<1>5. Equation(h)
  <2>1. \A s \in SUBSET (1..n) :
            h[s] = IF s = {} THEN <<>> ELSE MergeRegion(h[s \ {Max(s)}], rs[Max(s)])
    <3> HIDE DEF n, step
    <3>1. \A s \in SUBSET (1..n) : s # {} => h[s \ {Max(s)}] \in V
      BY <1>3
    <3> QED
      BY <1>2, <1>3, <1>4, <3>1 DEF FoldsBy
  <2> QED
    BY <1>1, <1>4, <2>1
<1>6. Equation(iter)
  <2> HIDE DEF Equation
  <2> QED
    BY <1>5
<1>7. \A s \in SUBSET (1..n) :
          iter[s] = IF s = {} THEN <<>> ELSE MergeRegion(iter[s \ {Max(s)}], rs[Max(s)])
  <2> HIDE DEF iter
  <2> QED
    BY <1>1, <1>6
<1>8. iter[1..n] = Merged(rs)
  BY <1>1, MergedIsFold
<1> HIDE DEF Equation, iter
<1>9. FoldsBy(iter, n, V, none, step)
  <2> HIDE DEF n, step
  <2> QED
    BY <1>2, <1>3, <1>7 DEF FoldsBy
<1>10. PICK part \in [0..n -> V] :
          /\ part[0] = none
          /\ \A k \in 1..n : part[k] = step[k][part[k - 1]]
          /\ part[n] = iter[1..n]
  <2>1. n \in Nat /\ none \in V
    BY <1>1
  <2>2. ComesOf(iter[1..n], n, V, none, step)
    <3> HIDE DEF n, step, none
    <3> QED
      BY <1>s, <1>9, <2>1, FoldPrefixes
  <2> HIDE DEF n, step, none
  <2> QED
    BY <2>2 DEF ComesOf
<1>11. \A k \in 1..n : part[k] = MergeRegion(part[k - 1], rs[k])
  <2>1. \A k \in 1..n : k - 1 \in 0..n
    BY <1>1
  <2> HIDE DEF n, step
  <2> QED
    BY <1>2, <1>10, <2>1
<1> QED
  BY <1>8, <1>10, <1>11

\* A sequence of sequences put together, as its prefixes.
LEMMA FlattenPrefixes ==
  ASSUME NEW S, NEW seqs \in Seq(Seq(S))
  PROVE  \E part \in [0..Len(seqs) -> Seq(S)] :
            /\ part[0] = <<>>
            /\ \A k \in 1..Len(seqs) : part[k] = part[k - 1] \o seqs[k]
            /\ part[Len(seqs)] = FlattenSeq(seqs)
<1> DEFINE n == Len(seqs)
           V == Seq(S)
           none == <<>>
           step == [k \in 1..n |-> [s \in Seq(S) |-> s \o seqs[k]]]
<1>1. n \in Nat /\ DOMAIN seqs = 1..n /\ \A k \in 1..n : seqs[k] \in Seq(S)
  OBVIOUS
<1>2. \A k \in 1..n, s \in Seq(S) : step[k][s] = s \o seqs[k] /\ step[k][s] \in Seq(S)
  BY <1>1
<1>3. none \in V
  OBVIOUS
<1>s. StepsIn(step, n, V)
  <2> HIDE DEF n, step
  <2> QED
    BY <1>2 DEF StepsIn
<1>4. PICK part \in [0..n -> V] :
          /\ part[0] = none
          /\ \A k \in 1..n : part[k] = step[k][part[k - 1]]
  <2> HIDE DEF n, step, V, none
  <2>1. n \in Nat
    BY <1>1
  <2>2. PICK h \in [SUBSET (1..n) -> V] : FoldsBy(h, n, V, none, step)
    BY <2>1, <1>3, <1>s, FoldExists
  <2>3. FoldsBy(h, n, V, none, step)
    BY <2>2
  <2>4. ComesOf(h[1..n], n, V, none, step)
    BY <2>1, <1>3, <2>3, <1>s, FoldPrefixes
  <2> QED
    BY <2>4 DEF ComesOf
<1>5. part[0] = <<>> /\ part \in [0..n -> Seq(S)]
  BY <1>4
<1>6. \A k \in 1..n : part[k] = part[k - 1] \o seqs[k]
  <2>1. \A k \in 1..n : k - 1 \in 0..n
    BY <1>1
  <2> HIDE DEF n, step
  <2> QED
    BY <1>2, <1>4, <1>5, <2>1
<1>7. part[n] = FlattenSeq(seqs)
  <2>1. CASE n = 0
    <3>1. seqs = <<>>
      BY <1>1, <2>1
    <3> QED
      BY <1>5, <2>1, <3>1 DEF FlattenSeq
  <2>2. CASE n # 0
    <3> DEFINE Equation(g) == g = [i \in 1..n |->
                    IF i = 1 THEN seqs[i] ELSE g[i - 1] \o seqs[i]]
               flat == CHOOSE g : Equation(g)
    <3>1. FlattenSeq(seqs) = flat[n]
      BY <1>1, <2>2 DEF FlattenSeq
    <3> DEFINE whole == [i \in 1..n |-> part[i]]
    <3>2. Equation(whole)
      <4>1. ASSUME NEW i \in 1..n
            PROVE  whole[i] = IF i = 1 THEN seqs[i] ELSE whole[i - 1] \o seqs[i]
        <5>1. CASE i = 1
          <6>1. part[1] = <<>> \o seqs[1]
            <7>1. part[1] = part[0] \o seqs[1]
              BY <1>1, <1>6, <5>1
            <7> QED
              BY <1>5, <7>1
          <6> QED
            BY <1>1, <5>1, <6>1
        <5>2. CASE i # 1
          <6>1. i - 1 \in 1..n
            BY <1>1, <5>2
          <6> HIDE DEF n
          <6> QED
            BY <1>6, <5>2, <6>1
        <5> QED
          BY <5>1, <5>2
      <4> HIDE DEF n
      <4> QED
        BY <4>1
    <3>3. Equation(flat)
      <4> HIDE DEF Equation
      <4> QED
        BY <3>2
    <3>4. \A i \in 1..n : flat[i] = IF i = 1 THEN seqs[i] ELSE flat[i - 1] \o seqs[i]
      <4> HIDE DEF flat
      <4> QED
        BY <3>3
    <3> HIDE DEF flat, Equation, whole
    <3> DEFINE Bad == {i \in 1..n : flat[i] # part[i]}
    <3>5. Bad = {}
      <4> SUFFICES ASSUME Bad # {} PROVE FALSE
        OBVIOUS
      <4>1. PICK i \in Bad : \A m \in Bad : i <= m
        <5>1. Bad \subseteq Nat
          OBVIOUS
        <5> HIDE DEF Bad
        <5> QED
          BY <5>1, LeastNatural
      <4>2. i \in 1..n /\ flat[i] # part[i]
        OBVIOUS
      <4>3. CASE i = 1
        <5>1. part[1] = part[0] \o seqs[1]
          <6>1. 1 \in 1..n /\ 1 - 1 = 0
            BY ONLY <4>2, <4>3
          <6> QED
            BY ONLY <1>6, <6>1
        <5>2. part[1] = seqs[1] /\ flat[1] = seqs[1]
          BY <1>1, <1>5, <3>4, <4>2, <4>3, <5>1
        <5> QED
          BY <4>2, <4>3, <5>2
      <4>4. CASE i # 1
        <5>1. i - 1 \in 1..n /\ ~ (i <= i - 1)
          BY <1>1, <4>2, <4>4
        <5>2. i - 1 \notin Bad
          <6> HIDE DEF Bad
          <6> QED
            BY <4>1, <5>1
        <5>3. flat[i - 1] = part[i - 1]
          BY <5>1, <5>2
        <5> QED
          BY <1>6, <3>4, <4>2, <4>4, <5>3
      <4> QED
        BY <4>3, <4>4
    <3>6. n \in 1..n
      BY <1>1, <2>2
    <3>7. flat[n] = part[n]
      BY <3>5, <3>6
    <3> QED
      BY <3>1, <3>7
  <2> QED
    BY <2>1, <2>2
<1> QED
  BY <1>5, <1>6, <1>7

\* a and b are neighbours in the first k of the sequences put together.
Adjacent(a, b, seqs, k) ==
    \/ \E i \in 1..k : \E p \in 1..(Len(seqs[i]) - 1) : a = seqs[i][p] /\ b = seqs[i][p + 1]
    \/ \E i \in 1..(k - 1) : a = seqs[i][Len(seqs[i])] /\ b = seqs[i + 1][1]

\* f is what the first k of the sequences are together.
Together(f, seqs, k) ==
    /\ k # 0 => f # <<>> /\ f[1] = seqs[1][1] /\ f[Len(f)] = seqs[k][Len(seqs[k])]
    /\ \A j \in 1..Len(f) : \E i \in 1..k : \E p \in 1..Len(seqs[i]) : f[j] = seqs[i][p]
    /\ \A i \in 1..k : \A p \in 1..Len(seqs[i]) : \E j \in 1..Len(f) : f[j] = seqs[i][p]
    /\ \A j \in 1..(Len(f) - 1) : Adjacent(f[j], f[j + 1], seqs, k)

LEMMA ConcatFacts ==
  ASSUME NEW S, NEW f \in Seq(S), NEW s \in Seq(S)
  PROVE  /\ f \o s \in Seq(S) /\ Len(f \o s) = Len(f) + Len(s)
         /\ Len(f) \in Nat /\ Len(s) \in Nat
         /\ \A j \in 1..Len(f) : j \in 1..Len(f \o s) /\ (f \o s)[j] = f[j]
         /\ \A p \in 1..Len(s) : /\ Len(f) + p \in 1..Len(f \o s)
                                 /\ (f \o s)[Len(f) + p] = s[p]
         /\ \A j \in 1..Len(f \o s) : j \in 1..Len(f) \/ j - Len(f) \in 1..Len(s)
  OBVIOUS

LEMMA TogetherStep ==
  ASSUME NEW S, NEW seqs \in Seq(Seq(S)), \A i \in 1..Len(seqs) : seqs[i] # <<>>,
         NEW k \in 1..Len(seqs), NEW f \in Seq(S), Together(f, seqs, k - 1), k = 1 => f = <<>>
  PROVE  Together(f \o seqs[k], seqs, k)
<1> DEFINE s == seqs[k]
           g == f \o s
           n == Len(f)
           m == Len(s)
<1>1. s \in Seq(S) /\ s # <<>> /\ k \in Nat /\ k # 0 /\ k - 1 \in Nat
  OBVIOUS
<1>2. /\ g \in Seq(S) /\ Len(g) = n + m /\ n \in Nat /\ m \in Nat /\ m # 0
      /\ \A j \in 1..n : j \in 1..Len(g) /\ g[j] = f[j]
      /\ \A p \in 1..m : n + p \in 1..Len(g) /\ g[n + p] = s[p]
      /\ \A j \in 1..Len(g) : j \in 1..n \/ (j - n \in 1..m /\ j = n + (j - n))
  <2>1. /\ g \in Seq(S) /\ Len(g) = n + m /\ n \in Nat /\ m \in Nat
        /\ \A j \in 1..n : j \in 1..Len(g) /\ g[j] = f[j]
        /\ \A p \in 1..m : n + p \in 1..Len(g) /\ g[n + p] = s[p]
        /\ \A j \in 1..Len(g) : j \in 1..n \/ j - n \in 1..m
    <3> HIDE DEF s
    <3> QED
      BY <1>1, ConcatFacts
  <2>2. m # 0
    BY <1>1
  <2>3. \A j \in 1..Len(g) : j = n + (j - n)
    BY <2>1
  <2> HIDE DEF s, g, n, m
  <2> QED
    BY <2>1, <2>2, <2>3
<1>3. /\ k - 1 # 0 => f # <<>> /\ f[1] = seqs[1][1] /\ f[n] = seqs[k - 1][Len(seqs[k - 1])]
      /\ \A j \in 1..n : \E i \in 1..(k - 1) : \E p \in 1..Len(seqs[i]) : f[j] = seqs[i][p]
      /\ \A i \in 1..(k - 1) : \A p \in 1..Len(seqs[i]) : \E j \in 1..n : f[j] = seqs[i][p]
      /\ \A j \in 1..(n - 1) : Adjacent(f[j], f[j + 1], seqs, k - 1)
  BY DEF Together
<1>4. (n = 0) <=> (k = 1)
  <2>1. CASE k = 1
    BY <2>1
  <2>2. CASE k # 1
    <3>1. f # <<>>
      BY <1>1, <1>3, <2>2
    <3> QED
      BY <2>2, <3>1
  <2> QED
    BY <2>1, <2>2
<1>5. seqs[k] = s /\ Len(seqs[k]) = m /\ k \in 1..k /\ \A i \in 1..(k - 1) : i \in 1..k
  BY <1>1
<1> HIDE DEF s, g, n, m
<1>6. g # <<>> /\ g[1] = seqs[1][1] /\ g[Len(g)] = s[m]
  <2>1. g # <<>>
    BY <1>2
  <2>2. m \in 1..m /\ 1 \in 1..m
    BY <1>2
  <2>3. g[n + m] = s[m] /\ g[n + 1] = s[1]
    BY <1>2, <2>2
  <2>4. g[1] = seqs[1][1]
    <3>1. CASE k = 1
      <4>1. n + 1 = 1
        BY <1>4, <3>1
      <4> QED
        BY <1>5, <2>3, <3>1, <4>1
    <3>2. CASE k # 1
      <4>1. 1 \in 1..n
        BY <1>2, <1>4, <3>2
      <4>2. k - 1 # 0
        BY <1>1, <3>2
      <4> QED
        BY <1>2, <1>3, <4>1, <4>2
    <3> QED
      BY <3>1, <3>2
  <2> QED
    BY <1>2, <2>1, <2>3, <2>4
<1>7. \A j \in 1..Len(g) : \E i \in 1..k : \E p \in 1..Len(seqs[i]) : g[j] = seqs[i][p]
  <2> SUFFICES ASSUME NEW j \in 1..Len(g)
               PROVE  \E i \in 1..k : \E p \in 1..Len(seqs[i]) : g[j] = seqs[i][p]
    OBVIOUS
  <2>1. CASE j \in 1..n
    <3>1. PICK i \in 1..(k - 1) : \E p \in 1..Len(seqs[i]) : f[j] = seqs[i][p]
      BY <1>3, <2>1
    <3>2. g[j] = f[j] /\ i \in 1..k
      BY <1>2, <1>5, <2>1
    <3> QED
      BY <3>1, <3>2
  <2>2. CASE j - n \in 1..m
    <3>1. g[j] = s[j - n]
      BY <1>2, <2>2
    <3> QED
      BY <1>5, <2>2, <3>1
  <2>3. j \in 1..n \/ j - n \in 1..m
    BY <1>2
  <2> QED
    BY <2>1, <2>2, <2>3
<1>8. \A i \in 1..k : \A p \in 1..Len(seqs[i]) : \E j \in 1..Len(g) : g[j] = seqs[i][p]
  <2> SUFFICES ASSUME NEW i \in 1..k, NEW p \in 1..Len(seqs[i])
               PROVE  \E j \in 1..Len(g) : g[j] = seqs[i][p]
    OBVIOUS
  <2>1. CASE i = k
    BY <1>2, <1>5, <2>1
  <2>2. CASE i # k
    <3>1. i \in 1..(k - 1)
      BY <1>1, <2>2
    <3>2. PICK j \in 1..n : f[j] = seqs[i][p]
      BY <1>3, <3>1
    <3> QED
      BY <1>2, <3>2
  <2> QED
    BY <2>1, <2>2
<1>9. \A j \in 1..(Len(g) - 1) : Adjacent(g[j], g[j + 1], seqs, k)
  <2> SUFFICES ASSUME NEW j \in 1..(Len(g) - 1) PROVE Adjacent(g[j], g[j + 1], seqs, k)
    OBVIOUS
  <2>0. j \in 1..Len(g) /\ j + 1 \in 1..Len(g) /\ j \in Nat
    <3>1. Len(g) \in Nat
      BY <1>2
    <3> QED
      BY ONLY <3>1, j \in 1..(Len(g) - 1)
  <2>1. CASE j + 1 \in 1..n
    <3>1. j \in 1..(n - 1) /\ j \in 1..n
      BY <1>2, <2>0, <2>1
    <3>2. Adjacent(f[j], f[j + 1], seqs, k - 1)
      BY <1>3, <3>1
    <3>3. \A i \in 1..(k - 1 - 1) : i \in 1..(k - 1)
      BY <1>1
    <3>4. Adjacent(f[j], f[j + 1], seqs, k)
      BY <1>5, <3>2, <3>3 DEF Adjacent
    <3> QED
      BY <1>2, <2>1, <3>1, <3>4
  <2>2. CASE j + 1 \notin 1..n
    <3>1. CASE j \in 1..n
      <4>1. j = n /\ k # 1 /\ k - 1 # 0 /\ k - 1 \in 1..(k - 1) /\ (k - 1) + 1 = k
        BY <1>1, <1>2, <1>4, <2>2, <3>1
      <4>2. 1 \in 1..m
        BY <1>2
      <4>3. g[j] = seqs[k - 1][Len(seqs[k - 1])] /\ g[j + 1] = seqs[k][1]
        BY <1>2, <1>3, <1>5, <3>1, <4>1, <4>2
      <4> QED
        BY <4>1, <4>3 DEF Adjacent
    <3>2. CASE j \notin 1..n
      <4> DEFINE p == j - n
      <4>1. p \in 1..(m - 1) /\ p \in 1..m /\ p + 1 \in 1..m /\ n + p = j /\ n + (p + 1) = j + 1
        BY <1>2, <2>0, <3>2
      <4> HIDE DEF p
      <4>2. g[j] = seqs[k][p] /\ g[j + 1] = seqs[k][p + 1]
        BY <1>2, <1>5, <4>1
      <4> QED
        BY <1>5, <4>1, <4>2 DEF Adjacent
    <3> QED
      BY <3>1, <3>2
  <2> QED
    BY <2>1, <2>2
<1>10. Together(g, seqs, k)
  BY <1>1, <1>5, <1>6, <1>7, <1>8, <1>9 DEF Together
<1> QED
  BY <1>10 DEF g, s

LEMMA FlattenFacts ==
  ASSUME NEW S, NEW seqs \in Seq(Seq(S)), \A i \in 1..Len(seqs) : seqs[i] # <<>>
  PROVE  FlattenSeq(seqs) \in Seq(S) /\ Together(FlattenSeq(seqs), seqs, Len(seqs))
<1> DEFINE n == Len(seqs)
<1>0. n \in Nat
  OBVIOUS
<1>1. PICK part \in [0..n -> Seq(S)] :
          /\ part[0] = <<>>
          /\ \A k \in 1..n : part[k] = part[k - 1] \o seqs[k]
          /\ part[n] = FlattenSeq(seqs)
  BY FlattenPrefixes
<1> HIDE DEF n
<1> DEFINE Bad == {k \in 0..n : ~ Together(part[k], seqs, k)}
<1>2. ASSUME Bad # {} PROVE FALSE
  <2>1. PICK k \in Bad : \A j \in Bad : k <= j
    <3>1. Bad \subseteq Nat
      BY <1>0
    <3> HIDE DEF Bad
    <3> QED
      BY <1>2, <3>1, LeastNatural
  <2>2. k \in 0..n /\ ~ Together(part[k], seqs, k)
    OBVIOUS
  <2>3. CASE k = 0
    BY <1>1, <2>2, <2>3 DEF Together, Adjacent
  <2>4. CASE k # 0
    <3>1. k \in 1..n /\ k - 1 \in 0..n /\ ~ (k <= k - 1)
      BY <1>0, <2>2, <2>4
    <3>2. Together(part[k - 1], seqs, k - 1)
      <4>1. k - 1 \notin Bad
        <5> HIDE DEF Bad
        <5> QED
          BY <2>1, <3>1
      <4> QED
        BY <3>1, <4>1
    <3>3. part[k - 1] \in Seq(S) /\ (k = 1 => part[k - 1] = <<>>)
      <4>1. k = 1 => k - 1 = 0
        OBVIOUS
      <4> QED
        BY <1>1, <3>1, <4>1
    <3>4. Together(part[k - 1] \o seqs[k], seqs, k)
      BY <3>1, <3>2, <3>3, TogetherStep DEF n
    <3>5. part[k] = part[k - 1] \o seqs[k]
      BY <1>1, <3>1
    <3> QED
      BY <2>2, <3>4, <3>5
  <2> QED
    BY <2>3, <2>4
<1>3. n \in 0..n
  BY <1>0
<1>4. Together(part[n], seqs, n) /\ part[n] \in Seq(S)
  BY <1>1, <1>2, <1>3
<1> QED
  BY <1>1, <1>4 DEF n

-----------------------------------------------------------------------------
(* Super-chunks *)

Piece == [start : Nat, end : Nat]
Region == {r \in [start : Point, end : Point] : r.start < r.end}

LEMMA PointsAreNatural == Point \subseteq Nat
<1>1. \A g, k \in Nat : g * k \in Nat
  OBVIOUS
<1> QED
  BY <1>1, VadAssumption DEF Point, VadAssumption

LEMMA ReplaceLast ==
  ASSUME NEW S, NEW s \in Seq(S), s # <<>>, NEW x \in S
  PROVE  /\ Append(Front(s), x) \in Seq(S)
         /\ Len(Append(Front(s), x)) = Len(s) /\ Len(s) \in Nat \ {0}
         /\ \A i \in 1..(Len(s) - 1) : Append(Front(s), x)[i] = s[i]
         /\ Append(Front(s), x)[Len(s)] = x
<1> DEFINE f == SubSeq(s, 1, Len(s) - 1)
<1>1. Len(s) \in Nat \ {0}
  OBVIOUS
<1>2. f \in Seq(S) /\ Len(f) = Len(s) - 1 /\ \A i \in 1..(Len(s) - 1) : f[i] = s[i]
  <2>1. 1 \in Int /\ Len(s) - 1 \in Int /\ \A i \in 1..(Len(s) - 1) : s[i] \in S
    BY <1>1
  <2>2. /\ f \in Seq(S)
        /\ Len(f) = IF 1 <= Len(s) - 1 THEN (Len(s) - 1) - 1 + 1 ELSE 0
        /\ \A i \in 1..((Len(s) - 1) - 1 + 1) : f[i] = s[1 + i - 1]
    BY <2>1, SubSeqProperties
  <2> HIDE DEF f
  <2>3. Len(f) = Len(s) - 1
    <3>1. \A m \in Nat \ {0} : (IF 1 <= m - 1 THEN (m - 1) - 1 + 1 ELSE 0) = m - 1
      OBVIOUS
    <3> QED
      BY <1>1, <2>2, <3>1
  <2>4. ASSUME NEW i \in 1..(Len(s) - 1) PROVE f[i] = s[i]
    <3>1. i \in 1..((Len(s) - 1) - 1 + 1) /\ 1 + i - 1 = i
      BY <1>1
    <3>2. f[i] = s[1 + i - 1]
      BY <2>2, <3>1
    <3> QED
      BY <3>1, <3>2
  <2> QED
    BY <2>2, <2>3, <2>4
<1> HIDE DEF f
<1>3. /\ Append(f, x) \in Seq(S) /\ Len(Append(f, x)) = Len(s)
      /\ \A i \in 1..(Len(s) - 1) : Append(f, x)[i] = s[i]
      /\ Append(f, x)[Len(s)] = x
  BY <1>1, <1>2
<1> QED
  BY <1>1, <1>3 DEF f, Front

\* What the detector has reported: regions in their order, which may touch.
Ordered(rs) == \A i \in 1..(Len(rs) - 1) : rs[i].end <= rs[i + 1].start

\* chunks is what the loop has made of the first k regions.
MergedUpTo(chunks, rs, k) ==
    /\ chunks \in Seq(Region)
    /\ k # 0 => chunks # <<>> /\ Last(chunks).end = rs[k].end
    /\ Ordered(chunks)
    /\ \A j \in 1..k : \E i \in 1..Len(chunks) :
          chunks[i].start <= rs[j].start /\ rs[j].end <= chunks[i].end
    /\ \A i \in 1..(Len(chunks) - 1) : \E j \in 1..k :
          rs[j].start = chunks[i + 1].start /\ rs[j].end - chunks[i].start > MaxSuperchunk

LEMMA MergedStep ==
  ASSUME NEW rs \in Seq(Region), Ordered(rs), NEW k \in 1..Len(rs),
         NEW chunks, MergedUpTo(chunks, rs, k - 1), k = 1 => chunks = <<>>
  PROVE  MergedUpTo(MergeRegion(chunks, rs[k]), rs, k)
<1> DEFINE r == rs[k]
           n == Len(chunks)
<1>1. /\ r \in Region /\ k \in Nat /\ k - 1 \in Nat /\ k # 0 /\ k \in 1..k
      /\ \A j \in 1..(k - 1) : j \in 1..k /\ rs[j] \in Region
      /\ \A j \in 1..k : j # k => j \in 1..(k - 1)
  OBVIOUS
<1>2. \A c \in Region : c.start \in Nat /\ c.end \in Nat /\ c.start < c.end
                        /\ c.start \in Point /\ c.end \in Point
  BY PointsAreNatural DEF Region
<1>3. /\ chunks \in Seq(Region) /\ n \in Nat
      /\ \A i \in 1..n : chunks[i] \in Region
      /\ \A i \in 1..(n - 1) : i \in 1..n /\ i + 1 \in 1..n
  BY DEF MergedUpTo
<1>4. /\ \A i \in 1..(n - 1) : chunks[i].end <= chunks[i + 1].start
      /\ \A j \in 1..(k - 1) : \E i \in 1..n :
            chunks[i].start <= rs[j].start /\ rs[j].end <= chunks[i].end
      /\ \A i \in 1..(n - 1) : \E j \in 1..(k - 1) :
            rs[j].start = chunks[i + 1].start /\ rs[j].end - chunks[i].start > MaxSuperchunk
  BY DEF MergedUpTo, Ordered
<1>5. chunks # <<>> => n # 0 /\ n \in 1..n /\ Last(chunks) = chunks[n] /\ chunks[n].end <= r.start
  <2> SUFFICES ASSUME chunks # <<>>
               PROVE  n # 0 /\ n \in 1..n /\ Last(chunks) = chunks[n] /\ chunks[n].end <= r.start
    OBVIOUS
  <2>1. n # 0 /\ n \in 1..n /\ Last(chunks) = chunks[n]
    BY <1>3 DEF Last
  <2>2. k - 1 # 0 /\ k - 1 \in 1..(Len(rs) - 1) /\ (k - 1) + 1 = k
    BY <1>1
  <2>3. chunks[n].end = rs[k - 1].end
    BY <2>1, <2>2 DEF MergedUpTo
  <2>4. rs[k - 1].end <= r.start
    BY <2>2 DEF Ordered
  <2> QED
    BY <2>1, <2>3, <2>4
<1> HIDE DEF r, n
<1>6. CASE chunks # <<>> /\ r.end - Last(chunks).start <= MaxSuperchunk
  <2> DEFINE x == Span(Last(chunks).start, r.end)
             new == Append(Front(chunks), x)
  <2>1. MergeRegion(chunks, r) = new
    BY <1>6 DEF MergeRegion
  <2>2. x \in Region /\ x.start = chunks[n].start /\ x.end = r.end
    <3>1. chunks[n] \in Region /\ Last(chunks) = chunks[n] /\ chunks[n].end <= r.start
      BY <1>3, <1>5, <1>6
    <3>2. /\ chunks[n].start \in Nat /\ chunks[n].end \in Nat /\ chunks[n].start < chunks[n].end
          /\ r.start \in Nat /\ r.end \in Nat /\ r.start < r.end
          /\ chunks[n].start \in Point /\ r.end \in Point
      BY <1>1, <1>2, <3>1
    <3>3. chunks[n].start < r.end
      BY <3>1, <3>2
    <3> QED
      BY <3>1, <3>2, <3>3 DEF Region, Span
  <2> HIDE DEF x
  <2>3. /\ new \in Seq(Region) /\ Len(new) = n
        /\ \A i \in 1..(n - 1) : new[i] = chunks[i]
        /\ new[n] = x
    BY <1>3, <1>6, <2>2, ReplaceLast DEF n
  <2> HIDE DEF new
  <2>4. \A i \in 1..n : new[i].start = chunks[i].start
    BY <1>3, <2>2, <2>3
  <2>5. Ordered(new)
    <3> SUFFICES ASSUME NEW i \in 1..(n - 1) PROVE new[i].end <= new[i + 1].start
      BY <2>3 DEF Ordered
    <3> QED
      BY <1>3, <1>4, <2>3, <2>4
  <2>6. ASSUME NEW j \in 1..k
        PROVE  \E i \in 1..n : new[i].start <= rs[j].start /\ rs[j].end <= new[i].end
    <3>1. CASE j = k
      <4>1. chunks[n] \in Region /\ n \in 1..n /\ chunks[n].end <= r.start
        BY <1>3, <1>5, <1>6
      <4>2. chunks[n].start <= r.start /\ r.end <= r.end
        BY <1>1, <1>2, <4>1
      <4>3. new[n].start <= rs[j].start /\ rs[j].end <= new[n].end
        BY <2>2, <2>3, <3>1, <4>2 DEF r
      <4> QED
        BY <4>1, <4>3
    <3>2. CASE j # k
      <4>1. PICK i \in 1..n : chunks[i].start <= rs[j].start /\ rs[j].end <= chunks[i].end
        BY <1>1, <1>4, <3>2
      <4>2. rs[j].end <= new[i].end
        <5>1. CASE i = n
          <6>1. rs[j].end <= chunks[n].end /\ chunks[n].end <= r.start /\ r.start < r.end
                /\ new[n].end = r.end
            BY <1>1, <1>2, <1>5, <1>6, <2>2, <2>3, <4>1, <5>1
          <6>2. rs[j].end \in Nat /\ chunks[n].end \in Nat /\ r.start \in Nat /\ r.end \in Nat
            BY <1>1, <1>2, <1>3, <1>5, <1>6, <3>2
          <6> QED
            BY ONLY <5>1, <6>1, <6>2
        <5>2. CASE i # n
          <6>1. i \in 1..(n - 1)
            BY <1>3, <5>2
          <6> QED
            BY <2>3, <4>1, <6>1
        <5> QED
          BY <5>1, <5>2
      <4> QED
        BY <2>4, <4>1, <4>2
    <3> QED
      BY <3>1, <3>2
  <2>7. ASSUME NEW i \in 1..(n - 1)
        PROVE  \E j \in 1..k : rs[j].start = new[i + 1].start
                               /\ rs[j].end - new[i].start > MaxSuperchunk
    <3>1. PICK j \in 1..(k - 1) :
             rs[j].start = chunks[i + 1].start /\ rs[j].end - chunks[i].start > MaxSuperchunk
      BY <1>4
    <3>2. new[i + 1].start = chunks[i + 1].start /\ new[i].start = chunks[i].start /\ j \in 1..k
      BY <1>1, <1>3, <2>4
    <3> QED
      BY <3>1, <3>2
  <2>8. new # <<>> /\ Last(new).end = rs[k].end
    <3>1. new # <<>>
      BY <1>3, <1>5, <1>6, <2>3
    <3> QED
      BY <2>2, <2>3, <3>1 DEF Last, r
  <2>9. MergedUpTo(new, rs, k)
    BY <2>3, <2>5, <2>6, <2>7, <2>8 DEF MergedUpTo
  <2> QED
    BY <2>1, <2>9 DEF r
<1>7. CASE ~ (chunks # <<>> /\ r.end - Last(chunks).start <= MaxSuperchunk)
  <2> DEFINE x == Span(r.start, r.end)
             new == Append(chunks, x)
  <2>1. MergeRegion(chunks, r) = new
    BY <1>7 DEF MergeRegion
  <2>2. x \in Region /\ x.start = r.start /\ x.end = r.end
    BY <1>1, <1>2 DEF Region, Span
  <2> HIDE DEF x
  <2>3. /\ new \in Seq(Region) /\ Len(new) = n + 1
        /\ \A i \in 1..n : new[i] = chunks[i] /\ i \in 1..(n + 1)
        /\ new[n + 1] = x /\ n + 1 \in 1..(n + 1)
        /\ \A i \in 1..((n + 1) - 1) : i \in 1..n
        /\ \A i \in 1..n : i = n \/ i \in 1..(n - 1)
    <3>1. /\ new \in Seq(Region) /\ Len(new) = n + 1
          /\ \A i \in 1..n : new[i] = chunks[i]
          /\ new[n + 1] = x
      BY <1>3, <2>2 DEF n
    <3> QED
      BY <1>3, <3>1
  <2>n. \A i \in 1..n : n # 0 /\ chunks # <<>>
    BY <1>3 DEF n
  <2> HIDE DEF new
  <2>5. Ordered(new)
    <3> SUFFICES ASSUME NEW i \in 1..n PROVE new[i].end <= new[i + 1].start
      BY <2>3 DEF Ordered
    <3>1. CASE i = n
      BY <1>5, <2>2, <2>3, <2>n, <3>1
    <3>2. CASE i # n
      <4>1. i \in 1..(n - 1) /\ i + 1 \in 1..n
        BY <1>3, <3>2
      <4> QED
        BY <1>4, <2>3, <4>1
    <3> QED
      BY <3>1, <3>2
  <2>6. ASSUME NEW j \in 1..k
        PROVE  \E i \in 1..(n + 1) : new[i].start <= rs[j].start /\ rs[j].end <= new[i].end
    <3>1. CASE j = k
      <4>1. new[n + 1].start <= rs[j].start /\ rs[j].end <= new[n + 1].end
        BY <1>1, <1>2, <2>2, <2>3, <3>1 DEF r
      <4> QED
        BY <2>3, <4>1
    <3>2. CASE j # k
      <4>1. PICK i \in 1..n : chunks[i].start <= rs[j].start /\ rs[j].end <= chunks[i].end
        BY <1>1, <1>4, <3>2
      <4> QED
        BY <2>3, <4>1
    <3> QED
      BY <3>1, <3>2
  <2>7. ASSUME NEW i \in 1..n
        PROVE  \E j \in 1..k : rs[j].start = new[i + 1].start
                               /\ rs[j].end - new[i].start > MaxSuperchunk
    <3>1. CASE i = n
      <4>1. r.end - chunks[n].start > MaxSuperchunk
        <5>1. ~ (r.end - chunks[n].start <= MaxSuperchunk)
          BY <1>5, <1>7, <2>n
        <5>2. r.end \in Nat /\ chunks[n].start \in Nat /\ MaxSuperchunk \in Nat
          BY <1>1, <1>2, <1>3, <1>5, <2>n, VadAssumption DEF VadAssumption
        <5> QED
          BY <5>1, <5>2
      <4>2. new[i + 1].start = rs[k].start /\ new[i].start = chunks[n].start
        BY <2>2, <2>3, <3>1 DEF r
      <4> QED
        BY <1>1, <4>1, <4>2 DEF r
    <3>2. CASE i # n
      <4>1. i \in 1..(n - 1) /\ i + 1 \in 1..n
        BY <1>3, <3>2
      <4>2. PICK j \in 1..(k - 1) :
               rs[j].start = chunks[i + 1].start /\ rs[j].end - chunks[i].start > MaxSuperchunk
        BY <1>4, <4>1
      <4>3. new[i + 1] = chunks[i + 1] /\ new[i] = chunks[i] /\ j \in 1..k
        BY <1>1, <2>3, <4>1
      <4> QED
        BY <4>2, <4>3
    <3> QED
      BY <3>1, <3>2
  <2>8. new # <<>> /\ Last(new).end = rs[k].end
    <3>1. new # <<>>
      BY <1>3, <2>3
    <3> QED
      BY <2>2, <2>3, <3>1 DEF Last, r
  <2>9. MergedUpTo(new, rs, k)
    BY <2>3, <2>5, <2>6, <2>7, <2>8 DEF MergedUpTo
  <2> QED
    BY <2>1, <2>9 DEF r
<1> QED
  BY <1>6, <1>7

LEMMA MergedFacts ==
  ASSUME NEW rs \in Seq(Region), Ordered(rs)
  PROVE  MergedUpTo(Merged(rs), rs, Len(rs))
<1> DEFINE Any2 == [start : Nat, end : Nat]
           n == Len(rs)
<1>0. n \in Nat
  OBVIOUS
<1>1. <<>> \in Seq(Any2)
  OBVIOUS
<1>2. \A chunks \in Seq(Any2), r \in Region : MergeRegion(chunks, r) \in Seq(Any2)
  <2> SUFFICES ASSUME NEW chunks \in Seq(Any2), NEW r \in Region
               PROVE  MergeRegion(chunks, r) \in Seq(Any2)
    OBVIOUS
  <2>1. r.start \in Nat /\ r.end \in Nat
    BY PointsAreNatural DEF Region
  <2>2. CASE chunks # <<>> /\ r.end - Last(chunks).start <= MaxSuperchunk
    <3>1. Last(chunks) \in Any2
      <4>1. Len(chunks) \in 1..Len(chunks)
        BY <2>2
      <4>2. chunks[Len(chunks)] \in Any2
        <5> HIDE DEF Any2
        <5> QED
          BY <4>1
      <4> QED
        BY <4>2 DEF Last
    <3> DEFINE x == Span(Last(chunks).start, r.end)
    <3>2. x \in Any2
      BY <2>1, <3>1 DEF Span
    <3>3. MergeRegion(chunks, r) = Append(Front(chunks), x)
      BY <2>2 DEF MergeRegion
    <3> HIDE DEF x, Any2
    <3> QED
      BY <2>2, <3>2, <3>3, ReplaceLast
  <2>3. CASE ~ (chunks # <<>> /\ r.end - Last(chunks).start <= MaxSuperchunk)
    <3> DEFINE x == Span(r.start, r.end)
    <3>1. x \in Any2
      BY <2>1 DEF Span
    <3>2. MergeRegion(chunks, r) = Append(chunks, x)
      BY <2>3 DEF MergeRegion
    <3> HIDE DEF x, Any2
    <3> QED
      BY <3>1, <3>2
  <2> QED
    BY <2>2, <2>3
<1>3. PICK part \in [0..n -> Seq(Any2)] :
          /\ part[0] = <<>>
          /\ \A k \in 1..n : part[k] = MergeRegion(part[k - 1], rs[k])
          /\ part[n] = Merged(rs)
  <2> DEFINE V == Seq(Any2)
  <2>1. <<>> \in V /\ \A chunks \in V, r \in Region : MergeRegion(chunks, r) \in V
    BY <1>1, <1>2
  <2> HIDE DEF V
  <2>2. \E part \in [0..n -> V] :
          /\ part[0] = <<>>
          /\ \A k \in 1..n : part[k] = MergeRegion(part[k - 1], rs[k])
          /\ part[n] = Merged(rs)
    BY <2>1, MergedPrefixes
  <2> QED
    BY <2>2 DEF V
<1> HIDE DEF n
<1> DEFINE Bad == {k \in 0..n : ~ MergedUpTo(part[k], rs, k)}
<1>4. ASSUME Bad # {} PROVE FALSE
  <2>1. PICK k \in Bad : \A j \in Bad : k <= j
    <3>1. Bad \subseteq Nat
      BY <1>0
    <3> HIDE DEF Bad
    <3> QED
      BY <1>4, <3>1, LeastNatural
  <2>2. k \in 0..n /\ ~ MergedUpTo(part[k], rs, k)
    OBVIOUS
  <2>3. CASE k = 0
    <3>1. 1..0 = {} /\ 1..(Len(<<>>) - 1) = {} /\ <<>> \in Seq(Region)
      OBVIOUS
    <3>2. MergedUpTo(<<>>, rs, 0)
      BY <3>1 DEF MergedUpTo, Ordered
    <3> QED
      BY <1>3, <2>2, <2>3, <3>2
  <2>4. CASE k # 0
    <3>1. k \in 1..n /\ k - 1 \in 0..n /\ ~ (k <= k - 1)
      BY <1>0, <2>2, <2>4
    <3>2. MergedUpTo(part[k - 1], rs, k - 1)
      <4>1. k - 1 \notin Bad
        <5> HIDE DEF Bad
        <5> QED
          BY <2>1, <3>1
      <4> QED
        BY <3>1, <4>1
    <3>3. k = 1 => part[k - 1] = <<>>
      <4>1. k = 1 => k - 1 = 0
        OBVIOUS
      <4> QED
        BY <1>3, <4>1
    <3>4. MergedUpTo(MergeRegion(part[k - 1], rs[k]), rs, k)
      BY <3>1, <3>2, <3>3, MergedStep DEF n
    <3>5. part[k] = MergeRegion(part[k - 1], rs[k])
      BY <1>3, <3>1
    <3> QED
      BY <2>2, <3>4, <3>5
  <2> QED
    BY <2>3, <2>4
<1>5. n \in 0..n
  BY <1>0
<1>6. MergedUpTo(part[n], rs, n)
  BY <1>4, <1>5
<1> QED
  BY <1>3, <1>6 DEF n

LEMMA Division ==
  ASSUME NEW a \in Nat, NEW b \in Nat \ {0}
  PROVE  a \div b \in Nat /\ a = b * (a \div b) + (a % b) /\ a % b \in 0..(b - 1)
<1>1. a \div b \in Int /\ a % b \in 0..(b - 1)
  OBVIOUS
<1>2. a = b * (a \div b) + (a % b)
  OBVIOUS
<1>3. a \div b >= 0
  BY <1>1, <1>2
<1> QED
  BY <1>1, <1>2, <1>3

LEMMA Nonlinear ==
  /\ \A n, q, M \in Nat : n # 0 /\ n * q <= n * M => q <= M
  /\ \A n, q \in Nat : n * q > 0 => q > 0
  /\ \A i, q \in Nat : (i + 1) * q = i * q + q
  /\ \A i, q \in Nat : i * q \in Nat
<1>1. ASSUME NEW n \in Nat, NEW q \in Nat, NEW M \in Nat, n # 0, n * q <= n * M
      PROVE q <= M
  <2>1. SUFFICES ASSUME q >= M + 1 PROVE FALSE
    OBVIOUS
  <2>2. n * q >= n * (M + 1)
    BY <2>1
  <2>3. n * (M + 1) = n * M + n
    OBVIOUS
  <2> QED
    BY <1>1, <2>2, <2>3
<1>2. ASSUME NEW n \in Nat, NEW q \in Nat, n * q > 0 PROVE q > 0
  BY <1>2
<1> QED
  BY <1>1, <1>2

\* A span above the cap falls into equal parts that are not above it.
LEMMA EqualParts ==
  ASSUME NEW L \in Nat, NEW M \in Nat \ {0}, L > M, NEW n, n = (L + M - 1) \div M, L % n = 0
  PROVE  n \in Nat /\ n > 1 /\ L \div n \in Nat /\ n * (L \div n) = L
         /\ L \div n > 0 /\ L \div n <= M
<1>1. L + M - 1 \in Nat
  OBVIOUS
<1>2. /\ n \in Nat /\ L + M - 1 = M * n + ((L + M - 1) % M)
      /\ (L + M - 1) % M \in 0..(M - 1)
  BY <1>1, Division
<1>3. M * n >= L
  <2>1. M * n \in Nat
    BY <1>2, Nonlinear
  <2> QED
    BY <1>2, <2>1
<1>4. n > 1
  <2>1. CASE n = 0
    BY <1>3, <2>1
  <2>2. CASE n = 1
    BY <1>3, <2>2
  <2> QED
    BY <1>2, <2>1, <2>2
<1> DEFINE q == L \div n
<1>5. q \in Nat /\ L = n * q + (L % n)
  <2>1. n \in Nat \ {0}
    BY <1>2, <1>4
  <2> QED
    BY <2>1, Division
<1> HIDE DEF q
<1>6. n * q = L
  <2>1. n * q \in Nat
    BY <1>2, <1>5, Nonlinear
  <2> QED
    BY <1>5, <2>1
<1>7. n * q > 0 /\ n * M = M * n
  BY <1>2, <1>6
<1>8. q > 0
  BY <1>2, <1>5, <1>7, Nonlinear
<1>9. q <= M
  <2>1. n * q <= n * M /\ n # 0
    BY <1>3, <1>4, <1>6, <1>7
  <2> QED
    BY <1>2, <1>5, <2>1, Nonlinear
<1> QED
  BY <1>2, <1>4, <1>5, <1>6, <1>8, <1>9 DEF q

\* The pieces of a chunk fill it from end to end, and are within the cap if
\* there is one.
Fill(pieces, span) ==
    /\ pieces \in Seq(Piece) /\ pieces # <<>>
    /\ pieces[1].start = span.start /\ pieces[Len(pieces)].end = span.end
    /\ \A p \in 1..Len(pieces) :
          /\ pieces[p].start < pieces[p].end
          /\ MaxSuperchunk > 0 => pieces[p].end - pieces[p].start <= MaxSuperchunk
    /\ \A p \in 1..(Len(pieces) - 1) : pieces[p].end = pieces[p + 1].start
    /\ \A t \in span.start..(span.end - 1) : \E p \in 1..Len(pieces) :
          pieces[p].start <= t /\ t + 1 <= pieces[p].end

LEMMA SplitSpanFills ==
  ASSUME NEW span \in Region
  PROVE  Fill(SplitSpan(span), span)
<1> DEFINE L == span.end - span.start
           n == (L + MaxSuperchunk - 1) \div MaxSuperchunk
           q == L \div n
<1>1. /\ span.start \in Nat /\ span.end \in Nat /\ span.start < span.end
      /\ MaxSuperchunk \in Nat /\ span \in Piece
      /\ L \in Nat /\ L > 0 /\ Length(span) = L /\ Pieces(span) = n
  <2>1. span.start \in Nat /\ span.end \in Nat /\ span.start < span.end /\ span \in Piece
    BY PointsAreNatural DEF Region, Piece
  <2>2. L \in Nat /\ L > 0
    BY <2>1
  <2> QED
    BY <2>1, <2>2, VadAssumption DEF VadAssumption, Length, Pieces
<1>2. CASE L <= MaxSuperchunk \/ MaxSuperchunk <= 0
  <2>1. SplitSpan(span) = <<span>>
    BY <1>1, <1>2 DEF SplitSpan
  <2> HIDE DEF L, n, q
  <2>2. /\ <<span>> \in Seq(Piece) /\ <<span>> # <<>> /\ Len(<<span>>) = 1 /\ <<span>>[1] = span
        /\ 1..(1 - 1) = {} /\ \A p \in 1..1 : p = 1
    BY <1>1
  <2>3. \A t \in span.start..(span.end - 1) : span.start <= t /\ t + 1 <= span.end
    BY <1>1
  <2>4. MaxSuperchunk > 0 => span.end - span.start <= MaxSuperchunk
    BY <1>1, <1>2 DEF L
  <2> QED
    BY <1>1, <2>1, <2>2, <2>3, <2>4 DEF Fill
<1>3. CASE ~ (L <= MaxSuperchunk \/ MaxSuperchunk <= 0)
  <2>1. L > MaxSuperchunk /\ MaxSuperchunk \in Nat \ {0} /\ MaxSuperchunk > 0
    BY <1>1, <1>3
  <2>2. L % n = 0
    <3>1. PICK a \in 0..Horizon : span.start = Grid * a
      BY DEF Region, Point
    <3>2. PICK b \in 0..Horizon : span.end = Grid * b
      BY DEF Region, Point
    <3>3. Grid \in Nat \ {0} /\ Horizon \in Nat
      BY VadAssumption DEF VadAssumption
    <3>4. L = Grid * (b - a)
      BY <3>1, <3>2, <3>3
    <3>5. b - a \in 1..Horizon
      <4>1. b > a
        <5>1. SUFFICES ASSUME b <= a PROVE FALSE
          BY <3>3
        <5>2. Grid * b <= Grid * a
          BY <3>3, <5>1
        <5> QED
          BY <1>1, <3>1, <3>2, <5>2
      <4> QED
        BY <3>3, <4>1
    <3>6. (Grid * (b - a)) % Pieces(Span(0, Grid * (b - a))) = 0
      BY <2>1, <3>5, UnitAssumption DEF UnitAssumption
    <3>7. Pieces(Span(0, L)) = n
      <4>1. L - 0 = L
        BY <1>1
      <4> QED
        BY <4>1 DEF Pieces, Span, Length
    <3> HIDE DEF L, n
    <3> QED
      BY <3>4, <3>6, <3>7
  <2>3. /\ n \in Nat /\ n > 1 /\ q \in Nat /\ n * q = L /\ q > 0 /\ q <= MaxSuperchunk
    BY <1>1, <2>1, <2>2, EqualParts
  <2> DEFINE pieces == [i \in 1..n |-> Span(span.start + (i - 1) * q,
                                           IF i = n THEN span.end ELSE span.start + i * q)]
  <2>4. SplitSpan(span) = pieces
    BY <1>1, <1>3 DEF SplitSpan
  <2> HIDE DEF q, n
  <2>5. \A i \in 1..n : /\ (i - 1) * q \in Nat /\ i * q = (i - 1) * q + q /\ i * q \in Nat
                        /\ (i - 1) * q + q <= L
    <3> SUFFICES ASSUME NEW i \in 1..n
                 PROVE  /\ (i - 1) * q \in Nat /\ i * q = (i - 1) * q + q /\ i * q \in Nat
                        /\ i * q <= L
      OBVIOUS
    <3>1. i - 1 \in Nat /\ i \in Nat /\ n - i \in Nat /\ i = (i - 1) + 1
      BY <2>3
    <3>2. (i - 1) * q \in Nat /\ i * q \in Nat
      BY <2>3, <3>1, Nonlinear
    <3>3. ((i - 1) + 1) * q = (i - 1) * q + q
      BY <2>3, <3>1, Nonlinear
    <3>4. i * q <= n * q
      <4>1. n * q = i * q + (n - i) * q /\ (n - i) * q \in Nat
        BY <2>3, <3>1, Nonlinear
      <4> QED
        BY <3>2, <4>1
    <3> QED
      BY <2>3, <3>1, <3>2, <3>3, <3>4
  <2>6. span.start + L = span.end
    BY <1>1
  <2> HIDE DEF L
  <2>7. ASSUME NEW i \in 1..n
        PROVE  /\ pieces[i].start = span.start + (i - 1) * q
               /\ pieces[i].end = span.start + i * q
    <3>1. pieces[i] = Span(span.start + (i - 1) * q,
                           IF i = n THEN span.end ELSE span.start + i * q)
      OBVIOUS
    <3>2. i = n => span.end = span.start + i * q
      BY <2>3, <2>6
    <3> HIDE DEF pieces
    <3> QED
      BY <3>1, <3>2 DEF Span
  <2>8. \A i \in 1..n : pieces[i] \in Piece
    <3> SUFFICES ASSUME NEW i \in 1..n PROVE pieces[i] \in Piece
      OBVIOUS
    <3>1. span.start + (i - 1) * q \in Nat /\ span.start + i * q \in Nat
      BY <1>1, <2>5
    <3> QED
      BY <1>1, <3>1 DEF Span, Piece
  <2>9. pieces \in Seq(Piece) /\ Len(pieces) = n /\ pieces # <<>>
    <3>1. pieces \in [1..n -> Piece]
      BY <2>8
    <3>2. pieces \in Seq(Piece) /\ Len(pieces) = n
      <4> HIDE DEF pieces
      <4> QED
        BY <2>3, <3>1
    <3> QED
      BY <2>3, <3>2
  <2> HIDE DEF pieces
  <2>10. pieces[1].start = span.start /\ pieces[n].end = span.end
    <3>1. 1 \in 1..n /\ n \in 1..n /\ (1 - 1) * q = 0
      BY <2>3
    <3> QED
      BY <1>1, <2>3, <2>6, <2>7, <3>1
  <2>11. ASSUME NEW i \in 1..n
         PROVE  pieces[i].start < pieces[i].end
                /\ pieces[i].end - pieces[i].start <= MaxSuperchunk
    <3>1. (i - 1) * q \in Nat /\ i * q = (i - 1) * q + q
      BY <2>5
    <3> QED
      BY <1>1, <2>3, <2>7, <3>1
  <2>12. ASSUME NEW i \in 1..(n - 1) PROVE pieces[i].end = pieces[i + 1].start
    <3>1. i \in 1..n /\ i + 1 \in 1..n /\ (i + 1) - 1 = i
      BY <2>3
    <3> QED
      BY <2>7, <3>1
  <2>13. ASSUME NEW t \in span.start..(span.end - 1)
         PROVE  \E p \in 1..n : pieces[p].start <= t /\ t + 1 <= pieces[p].end
    <3> DEFINE a == t - span.start
               k == a \div q
    <3>1. a \in Nat /\ a < L /\ t = span.start + a
      BY <1>1, <2>6 DEF L
    <3>2. k \in Nat /\ a = q * k + (a % q) /\ a % q \in 0..(q - 1)
      <4>1. q \in Nat \ {0}
        BY <2>3
      <4> HIDE DEF a
      <4> QED
        BY <3>1, <4>1, Division
    <3> HIDE DEF a, k
    <3>3. q * k = k * q /\ k * q \in Nat /\ (k + 1) * q = k * q + q
      BY <2>3, <3>2, Nonlinear
    <3>4. k < n
      <4>1. SUFFICES ASSUME k >= n PROVE FALSE
        BY <2>3, <3>2
      <4>2. k * q = n * q + (k - n) * q /\ (k - n) * q \in Nat
        <5>1. k - n \in Nat
          BY <2>3, <3>2, <4>1
        <5> QED
          BY <2>3, <3>2, <5>1, Nonlinear
      <4> QED
        BY <2>3, <3>1, <3>2, <3>3, <4>2
    <3>5. k + 1 \in 1..n /\ (k + 1) - 1 = k
      BY <2>3, <3>2, <3>4
    <3>6. pieces[k + 1].start = span.start + k * q
          /\ pieces[k + 1].end = span.start + (k * q + q)
      BY <2>7, <3>3, <3>5
    <3>7. pieces[k + 1].start <= t /\ t + 1 <= pieces[k + 1].end
      BY <1>1, <2>3, <3>1, <3>2, <3>3, <3>6
    <3> QED
      BY <3>5, <3>7
  <2> QED
    BY <2>4, <2>9, <2>10, <2>11, <2>12, <2>13 DEF Fill
<1> QED
  BY <1>2, <1>3

LEMMA CutFacts ==
  ASSUME NEW rs \in Seq(Region), Ordered(rs)
  PROVE  /\ CutPoints(rs) \in Seq(Piece)
         /\ \A i \in 1..Len(CutPoints(rs)) :
              /\ CutPoints(rs)[i].start < CutPoints(rs)[i].end
              /\ MaxSuperchunk > 0 =>
                    CutPoints(rs)[i].end - CutPoints(rs)[i].start <= MaxSuperchunk
         /\ Ordered(CutPoints(rs))
         /\ \A i \in 1..Len(rs) : \A t \in rs[i].start..(rs[i].end - 1) :
              \E j \in 1..Len(CutPoints(rs)) :
                 CutPoints(rs)[j].start <= t /\ t + 1 <= CutPoints(rs)[j].end
<1> DEFINE merged == Merged(rs)
           seqs == [i \in DOMAIN merged |-> SplitSpan(merged[i])]
           cuts == FlattenSeq(seqs)
           m == Len(merged)
<1>1. CutPoints(rs) = cuts
  BY DEF CutPoints
<1>2. MergedUpTo(merged, rs, Len(rs))
  BY MergedFacts
<1> HIDE DEF merged
<1>3. /\ merged \in Seq(Region) /\ m \in Nat /\ DOMAIN merged = 1..m
      /\ \A i \in 1..m : merged[i] \in Region
      /\ \A i \in 1..(m - 1) : merged[i].end <= merged[i + 1].start
      /\ \A j \in 1..Len(rs) : \E i \in 1..m :
            merged[i].start <= rs[j].start /\ rs[j].end <= merged[i].end
  BY <1>2 DEF MergedUpTo, Ordered
<1>4. /\ seqs \in Seq(Seq(Piece)) /\ Len(seqs) = m
      /\ \A i \in 1..m : Fill(seqs[i], merged[i]) /\ seqs[i] \in Seq(Piece) /\ seqs[i] # <<>>
  <2>1. ASSUME NEW i \in 1..m
        PROVE  Fill(seqs[i], merged[i]) /\ seqs[i] \in Seq(Piece) /\ seqs[i] # <<>>
    <3>1. seqs[i] = SplitSpan(merged[i]) /\ merged[i] \in Region
      BY <1>3
    <3> HIDE DEF seqs
    <3>2. Fill(seqs[i], merged[i])
      BY <3>1, SplitSpanFills
    <3> QED
      BY <3>2 DEF Fill
  <2>2. DOMAIN seqs = 1..m /\ seqs = [i \in 1..m |-> seqs[i]]
    BY <1>3
  <2> HIDE DEF seqs, m
  <2>3. seqs \in [1..m -> Seq(Piece)]
    BY <2>1, <2>2
  <2>4. seqs \in Seq(Seq(Piece)) /\ Len(seqs) = m
    <3> DEFINE V == Seq(Piece)
    <3>1. seqs \in [1..m -> V] /\ m \in Nat
      BY <1>3, <2>3
    <3> HIDE DEF V
    <3>2. seqs \in Seq(V) /\ Len(seqs) = m
      BY <3>1
    <3> QED
      BY <3>2 DEF V
  <2> QED
    BY <2>1, <2>4
<1>5. cuts \in Seq(Piece) /\ Together(cuts, seqs, m)
  <2> HIDE DEF seqs, m
  <2> QED
    BY <1>4, FlattenFacts
<1> HIDE DEF seqs, cuts, m
<1>6. /\ \A j \in 1..Len(cuts) : \E i \in 1..m : \E p \in 1..Len(seqs[i]) : cuts[j] = seqs[i][p]
      /\ \A i \in 1..m : \A p \in 1..Len(seqs[i]) : \E j \in 1..Len(cuts) : cuts[j] = seqs[i][p]
      /\ \A j \in 1..(Len(cuts) - 1) : Adjacent(cuts[j], cuts[j + 1], seqs, m)
  BY <1>5 DEF Together
<1>7. ASSUME NEW j \in 1..Len(cuts)
      PROVE  /\ cuts[j].start < cuts[j].end
             /\ MaxSuperchunk > 0 => cuts[j].end - cuts[j].start <= MaxSuperchunk
  <2>1. PICK i \in 1..m : \E p \in 1..Len(seqs[i]) : cuts[j] = seqs[i][p]
    BY <1>6
  <2>2. PICK p \in 1..Len(seqs[i]) : cuts[j] = seqs[i][p]
    BY <2>1
  <2>3. /\ seqs[i][p].start < seqs[i][p].end
        /\ MaxSuperchunk > 0 => seqs[i][p].end - seqs[i][p].start <= MaxSuperchunk
    BY <1>4 DEF Fill
  <2> QED
    BY <2>2, <2>3
<1>8. Ordered(cuts)
  <2> SUFFICES ASSUME NEW j \in 1..(Len(cuts) - 1) PROVE cuts[j].end <= cuts[j + 1].start
    BY DEF Ordered
  <2>0. cuts[j + 1].start \in Nat
    <3>1. j + 1 \in 1..Len(cuts)
      BY <1>5
    <3>2. cuts[j + 1] \in Piece
      BY <1>5, <3>1
    <3> QED
      BY <3>2 DEF Piece
  <2>1. CASE \E i \in 1..m : \E p \in 1..(Len(seqs[i]) - 1) :
                cuts[j] = seqs[i][p] /\ cuts[j + 1] = seqs[i][p + 1]
    <3>1. PICK i \in 1..m : \E p \in 1..(Len(seqs[i]) - 1) :
                cuts[j] = seqs[i][p] /\ cuts[j + 1] = seqs[i][p + 1]
      BY <2>1
    <3>2. PICK p \in 1..(Len(seqs[i]) - 1) :
                cuts[j] = seqs[i][p] /\ cuts[j + 1] = seqs[i][p + 1]
      BY <3>1
    <3>3. seqs[i][p].end = seqs[i][p + 1].start
      BY <1>4 DEF Fill
    <3> QED
      BY <2>0, <3>2, <3>3
  <2>2. CASE \E i \in 1..(m - 1) : cuts[j] = seqs[i][Len(seqs[i])] /\ cuts[j + 1] = seqs[i + 1][1]
    <3>1. PICK i \in 1..(m - 1) : cuts[j] = seqs[i][Len(seqs[i])] /\ cuts[j + 1] = seqs[i + 1][1]
      BY <2>2
    <3>2. i \in 1..m /\ i + 1 \in 1..m
      BY <1>3
    <3>3. seqs[i][Len(seqs[i])].end = merged[i].end /\ seqs[i + 1][1].start = merged[i + 1].start
      BY <1>4, <3>2 DEF Fill
    <3>4. merged[i].end <= merged[i + 1].start
      BY <1>3
    <3> QED
      BY <3>1, <3>3, <3>4
  <2> QED
    BY <1>6, <2>1, <2>2 DEF Adjacent
<1>9. ASSUME NEW i \in 1..Len(rs), NEW t \in rs[i].start..(rs[i].end - 1)
      PROVE  \E j \in 1..Len(cuts) : cuts[j].start <= t /\ t + 1 <= cuts[j].end
  <2>1. PICK k \in 1..m : merged[k].start <= rs[i].start /\ rs[i].end <= merged[k].end
    BY <1>3
  <2>2. /\ rs[i].start \in Nat /\ rs[i].end \in Nat
        /\ merged[k].start \in Nat /\ merged[k].end \in Nat
    <3>1. rs[i] \in Region /\ merged[k] \in Region
      BY <1>3
    <3> QED
      BY <3>1, PointsAreNatural DEF Region
  <2>3. t \in merged[k].start..(merged[k].end - 1)
    <3>1. t \in Int /\ rs[i].start <= t /\ t <= rs[i].end - 1
      BY <1>9, <2>2
    <3>2. ASSUME NEW a \in Nat, NEW b \in Nat, NEW c \in Nat, NEW d \in Nat,
                 a <= b, c <= d, b <= t, t <= c - 1
          PROVE  t \in a..(d - 1)
      BY <3>1, <3>2
    <3>3. merged[k].start <= rs[i].start /\ rs[i].end <= merged[k].end
      BY <2>1
    <3> HIDE DEF merged
    <3> QED
      BY <2>2, <3>1, <3>2, <3>3
  <2>4. PICK p \in 1..Len(seqs[k]) : seqs[k][p].start <= t /\ t + 1 <= seqs[k][p].end
    BY <1>4, <2>3 DEF Fill
  <2>5. PICK j \in 1..Len(cuts) : cuts[j] = seqs[k][p]
    BY <1>6
  <2> QED
    BY <2>4, <2>5
<1> QED
  BY <1>1, <1>5, <1>7, <1>8, <1>9

LEMMA OverlapFacts ==
  ASSUME NEW cuts \in Seq(Piece), NEW total \in Nat
  PROVE  /\ ApplyOverlap(cuts, total) \in Seq(Piece)
         /\ Len(ApplyOverlap(cuts, total)) = Len(cuts)
         /\ DOMAIN ApplyOverlap(cuts, total) = 1..Len(cuts)
         /\ \A i \in 1..Len(cuts) :
              /\ ApplyOverlap(cuts, total)[i].start =
                    IF i > 1 THEN Greatest(0, cuts[i].start - Overlap) ELSE cuts[i].start
              /\ ApplyOverlap(cuts, total)[i].end =
                    Least(total, IF i < Len(cuts) THEN cuts[i].end + Overlap ELSE cuts[i].end)
<1> DEFINE chunks == ApplyOverlap(cuts, total)
<1>1. Overlap \in Nat /\ Len(cuts) \in Nat /\ DOMAIN cuts = 1..Len(cuts)
  BY VadAssumption DEF VadAssumption
<1>2. ASSUME NEW i \in 1..Len(cuts)
      PROVE  /\ chunks[i].start =
                    IF i > 1 THEN Greatest(0, cuts[i].start - Overlap) ELSE cuts[i].start
             /\ chunks[i].end =
                    Least(total, IF i < Len(cuts) THEN cuts[i].end + Overlap ELSE cuts[i].end)
             /\ chunks[i] \in Piece
  <2> DEFINE a == IF i > 1 THEN Greatest(0, cuts[i].start - Overlap) ELSE cuts[i].start
             b == Least(total, IF i < Len(cuts) THEN cuts[i].end + Overlap ELSE cuts[i].end)
  <2>1. chunks[i] = Span(a, b)
    BY <1>1 DEF ApplyOverlap
  <2>2. cuts[i].start \in Nat /\ cuts[i].end \in Nat
    <3>1. cuts[i] \in Piece
      BY <1>1
    <3> QED
      BY <3>1 DEF Piece
  <2>3. a \in Nat
    BY <1>1, <2>2 DEF Greatest
  <2>4. b \in Nat
    BY <1>1, <2>2 DEF Least
  <2> HIDE DEF a, b, chunks
  <2>5. chunks[i].start = a /\ chunks[i].end = b /\ chunks[i] \in Piece
    BY <2>1, <2>3, <2>4 DEF Span, Piece
  <2> QED
    BY <2>5 DEF a, b
<1>3. DOMAIN chunks = 1..Len(cuts) /\ chunks = [i \in 1..Len(cuts) |-> chunks[i]]
  BY <1>1 DEF ApplyOverlap
<1> HIDE DEF chunks
<1>4. chunks \in [1..Len(cuts) -> Piece]
  BY <1>2, <1>3
<1>5. chunks \in Seq(Piece) /\ Len(chunks) = Len(cuts)
  BY <1>1, <1>4
<1> QED
  BY <1>2, <1>3, <1>5 DEF chunks

-----------------------------------------------------------------------------
(* The detector, and what follows for the super-chunks *)

Detected ==
    /\ regions \in Seq(Region) /\ Ordered(regions)
    /\ duration \in Nat

LEMMA DetectedInit == Init => Detected
<1> SUFFICES ASSUME Init PROVE Detected
  OBVIOUS
<1>1. regions = <<>> /\ duration = 0
  BY DEF Init
<1>2. <<>> \in Seq(Region) /\ Len(<<>>) = 0 /\ 1..0 = {} /\ 1..(0 - 1) = {}
  OBVIOUS
<1> QED
  BY <1>1, <1>2 DEF Detected, Ordered

LEMMA DetectedNext == Detected /\ [Next]_vars => Detected'
<1> SUFFICES ASSUME Detected, [Next]_vars PROVE Detected'
  OBVIOUS
<1>1. CASE UNCHANGED vars
  BY <1>1 DEF vars, Detected
<1>2. CASE Detect
  <2>1. PICK from \in Point, to \in Point, total \in Point :
            /\ from < to
            /\ regions # <<>> => from >= SpeechEnd
            /\ regions' = Append(regions, Span(from, to))
            /\ duration' = total
    BY <1>2 DEF Detect
  <2> DEFINE n == Len(regions)
             r == Span(from, to)
  <2>2. r \in Region /\ r.start = from /\ r.end = to /\ from \in Nat /\ to \in Nat /\ total \in Nat
    BY <2>1, PointsAreNatural DEF Region, Span
  <2> HIDE DEF r
  <2>3. /\ n \in Nat /\ regions \in Seq(Region) /\ \A i \in 1..n : regions[i] \in Region
        /\ regions' \in Seq(Region) /\ Len(regions') = n + 1
        /\ \A i \in 1..n : regions'[i] = regions[i]
        /\ regions'[n + 1] = r
    BY <2>1, <2>2 DEF Detected, r
  <2>4. \A i \in 1..n : regions[i].end \in Nat /\ regions[i].start \in Nat
                        /\ regions[i].start < regions[i].end
    BY <2>3, PointsAreNatural DEF Region
  <2>5. n # 0 => n \in 1..n /\ regions[n].end <= from
    <3> SUFFICES ASSUME n # 0 PROVE n \in 1..n /\ regions[n].end <= from
      OBVIOUS
    <3>1. n \in 1..n /\ regions # <<>>
      BY <2>3
    <3>2. from >= regions[n].end
      BY <2>1, <3>1 DEF SpeechEnd, Last
    <3> QED
      BY <2>2, <2>4, <3>1, <3>2
  <2> HIDE DEF n
  <2>6. Ordered(regions')
    <3> SUFFICES ASSUME NEW i \in 1..n PROVE regions'[i].end <= regions'[i + 1].start
      BY <2>3 DEF Ordered
    <3>1. CASE i = n
      BY <2>2, <2>3, <2>5, <3>1
    <3>2. CASE i # n
      <4>1. i \in 1..(n - 1) /\ i + 1 \in 1..n
        BY <2>3, <3>2
      <4>2. regions[i].end <= regions[i + 1].start
        BY <4>1 DEF Detected, Ordered, n
      <4> QED
        BY <2>3, <4>1, <4>2
    <3> QED
      BY <3>1, <3>2
  <2> QED
    BY <2>1, <2>2, <2>3, <2>6 DEF Detected
<1> QED
  BY <1>1, <1>2 DEF Next

\* The detector reports whole regions on the grid, in order; the duration of
\* the file is any.
THEOREM DetectedAlways == Spec => []Detected
  BY DetectedInit, DetectedNext, PTL DEF Spec

LEMMA DetectedMeansTyped == Detected => TypeOK
<1> SUFFICES ASSUME Detected PROVE TypeOK
  OBVIOUS
<1>1. CutPoints(regions) \in Seq(Piece) /\ duration \in Nat
  BY CutFacts DEF Detected
<1>2. CoarseSegment \in Seq(Piece)
  BY <1>1, OverlapFacts DEF CoarseSegment
<1>3. regions \in Seq(Piece)
  <2>1. Region \subseteq Piece
    BY PointsAreNatural DEF Region, Piece
  <2> QED
    BY <2>1 DEF Detected
<1> QED
  BY <1>1, <1>2, <1>3 DEF TypeOK, Piece

LEMMA DetectedMeansCapped == Detected => CutsAreCapped
<1> SUFFICES ASSUME Detected PROVE CutsAreCapped
  OBVIOUS
<1> DEFINE cuts == CutPoints(regions)
           chunks == CoarseSegment
           n == Len(cuts)
<1>1. /\ cuts \in Seq(Piece)
      /\ \A i \in 1..n : /\ cuts[i].start < cuts[i].end
                         /\ MaxSuperchunk > 0 => cuts[i].end - cuts[i].start <= MaxSuperchunk
      /\ Ordered(cuts)
  BY CutFacts DEF Detected
<1> HIDE DEF cuts
<1>2. /\ Len(chunks) = n /\ DOMAIN chunks = 1..n
      /\ \A i \in 1..n :
            /\ chunks[i].start = IF i > 1 THEN Greatest(0, cuts[i].start - Overlap)
                                 ELSE cuts[i].start
            /\ chunks[i].end = Least(duration, IF i < n THEN cuts[i].end + Overlap
                                               ELSE cuts[i].end)
  BY <1>1, OverlapFacts DEF Detected, CoarseSegment, cuts
<1> HIDE DEF chunks
<1>3. n \in Nat /\ DOMAIN cuts = 1..n
      /\ \A i \in 1..n : cuts[i].start \in Nat /\ cuts[i].end \in Nat
  <2>1. n \in Nat /\ DOMAIN cuts = 1..n /\ \A i \in 1..n : cuts[i] \in Piece
    BY <1>1
  <2> QED
    BY <2>1 DEF Piece
<1>4. Overlap \in Nat /\ MaxSuperchunk \in Nat /\ duration \in Nat
  BY VadAssumption DEF VadAssumption, Detected
<1> HIDE DEF n
<1>5. ASSUME MaxSuperchunk > 0, NEW i \in DOMAIN chunks
      PROVE  Length(chunks[i]) <= MaxSuperchunk + (IF i = 1 THEN 0 ELSE Overlap)
                                    + (IF i = Len(chunks) THEN 0 ELSE Overlap)
  <2>1. /\ i \in 1..n /\ cuts[i].start \in Nat /\ cuts[i].end \in Nat
        /\ cuts[i].end - cuts[i].start <= MaxSuperchunk
    BY <1>1, <1>2, <1>3, <1>5 DEF n
  <2>2. chunks[i].end <= cuts[i].end + (IF i = n THEN 0 ELSE Overlap) /\ chunks[i].end \in Int
    <3>1. chunks[i].end = Least(duration, IF i < n THEN cuts[i].end + Overlap ELSE cuts[i].end)
      BY ONLY <1>2, <2>1
    <3>2. i < n <=> i # n
      BY ONLY <1>3, <2>1
    <3>3. \A d, e, o \in Nat :
            /\ Least(d, e) <= e /\ Least(d, e) <= e + o /\ Least(d, e) \in Int
            /\ Least(d, e + o) <= e + o /\ Least(d, e + o) \in Int
      BY ONLY DEF Least
    <3>4. /\ Least(duration, cuts[i].end) <= cuts[i].end + 0
          /\ Least(duration, cuts[i].end) \in Int
          /\ Least(duration, cuts[i].end + Overlap) <= cuts[i].end + Overlap
          /\ Least(duration, cuts[i].end + Overlap) \in Int
      BY ONLY <1>4, <2>1, <3>3
    <3>5. QED
      BY ONLY <3>1, <3>2, <3>4
  <2>3. chunks[i].start >= cuts[i].start - (IF i = 1 THEN 0 ELSE Overlap)
        /\ chunks[i].start \in Int
    <3>1. chunks[i].start = IF i > 1 THEN Greatest(0, cuts[i].start - Overlap) ELSE cuts[i].start
      BY ONLY <1>2, <2>1
    <3>2. i > 1 <=> i # 1
      BY ONLY <1>3, <2>1
    <3>3. \A s, o \in Nat :
            /\ s >= s - 0
            /\ Greatest(0, s - o) >= s - o /\ Greatest(0, s - o) \in Int
      BY ONLY DEF Greatest
    <3>4. /\ cuts[i].start >= cuts[i].start - 0
          /\ Greatest(0, cuts[i].start - Overlap) >= cuts[i].start - Overlap
          /\ Greatest(0, cuts[i].start - Overlap) \in Int
      BY ONLY <1>4, <2>1, <3>3
    <3>5. QED
      BY ONLY <2>1, <3>1, <3>2, <3>4
  <2>4. \A a, b, s, e, u, v, m \in Int :
           e <= b + v /\ s >= a - u /\ b - a <= m => e - s <= m + u + v
    OBVIOUS
  <2>5. (IF i = n THEN 0 ELSE Overlap) \in Int /\ (IF i = 1 THEN 0 ELSE Overlap) \in Int
    BY <1>4
  <2>6. chunks[i].end - chunks[i].start
           <= MaxSuperchunk + (IF i = 1 THEN 0 ELSE Overlap) + (IF i = n THEN 0 ELSE Overlap)
    BY <1>4, <2>1, <2>2, <2>3, <2>4, <2>5
  <2> QED
    BY <1>2, <2>6 DEF Length
<1>6. ASSUME NEW i \in DOMAIN cuts
      PROVE  0 < Length(cuts[i]) /\ (MaxSuperchunk > 0 => Length(cuts[i]) <= MaxSuperchunk)
  BY <1>1, <1>3 DEF Length, n
<1>7. \A i \in 1..(Len(cuts) - 1) : cuts[i].end <= cuts[i + 1].start
  BY <1>1 DEF Ordered
<1> QED
  BY <1>5, <1>6, <1>7 DEF CutsAreCapped, cuts, chunks

LEMMA DetectedMeansCovered == Detected => SpeechIsCovered
<1> SUFFICES ASSUME Detected, NEW i \in DOMAIN regions,
                    NEW t \in regions[i].start..(Least(regions[i].end, duration) - 1)
             PROVE  \E c \in ToSet(CoarseSegment) : c.start <= t /\ t + 1 <= c.end
  BY DEF SpeechIsCovered
<1> DEFINE cuts == CutPoints(regions)
           chunks == CoarseSegment
           n == Len(cuts)
<1>0. /\ regions \in Seq(Region) /\ Ordered(regions) /\ duration \in Nat
      /\ i \in 1..Len(regions) /\ regions[i] \in Region
  BY DEF Detected
<1>t. /\ regions[i].start \in Nat /\ regions[i].end \in Nat /\ t \in Nat
      /\ t + 1 <= regions[i].end /\ t + 1 <= duration
      /\ t \in regions[i].start..(regions[i].end - 1)
  <2>1. regions[i].start \in Nat /\ regions[i].end \in Nat
    BY <1>0, PointsAreNatural DEF Region
  <2> QED
    BY <1>0, <2>1 DEF Least
<1>1. cuts \in Seq(Piece) /\ \E j \in 1..n : cuts[j].start <= t /\ t + 1 <= cuts[j].end
  BY <1>0, <1>t, CutFacts
<1> HIDE DEF cuts
<1>2. PICK j \in 1..n : cuts[j].start <= t /\ t + 1 <= cuts[j].end
  BY <1>1
<1>3. /\ Len(chunks) = n /\ DOMAIN chunks = 1..n
      /\ chunks[j].start = IF j > 1 THEN Greatest(0, cuts[j].start - Overlap) ELSE cuts[j].start
      /\ chunks[j].end = Least(duration, IF j < n THEN cuts[j].end + Overlap ELSE cuts[j].end)
  BY <1>0, <1>1, OverlapFacts DEF CoarseSegment, cuts
<1> HIDE DEF chunks
<1>4. cuts[j].start \in Nat /\ cuts[j].end \in Nat /\ Overlap \in Nat
  <2>1. cuts[j] \in Piece
    BY <1>1
  <2> QED
    BY <2>1, VadAssumption DEF VadAssumption, Piece
<1>6. chunks[j].start <= t
  BY <1>2, <1>3, <1>4, <1>t DEF Greatest
<1>7. t + 1 <= chunks[j].end
  <2>1. t + 1 <= duration
    BY <1>t
  <2> QED
    <3>2. t + 1 <= IF j < n THEN cuts[j].end + Overlap ELSE cuts[j].end
      <4>1. t + 1 <= cuts[j].end + Overlap /\ t + 1 <= cuts[j].end
        BY <1>2, <1>4, <1>t
      <4> QED
        BY ONLY <4>1
    <3> QED
      BY ONLY <1>3, <2>1, <3>2 DEF Least
<1>8. chunks[j] \in ToSet(chunks)
  BY <1>3 DEF ToSet
<1> QED
  BY <1>6, <1>7, <1>8 DEF chunks

\* Of ordered spans that are not empty, the earlier ends before the later begins.
LEMMA OrderedFar ==
  ASSUME NEW rs \in Seq(Piece), Ordered(rs), \A i \in 1..Len(rs) : rs[i].start < rs[i].end,
         NEW i \in 1..Len(rs), NEW k \in 1..Len(rs), i < k
  PROVE  rs[i].end <= rs[k].start
<1> DEFINE n == Len(rs)
           Bad == {d \in Nat : i + d + 1 \in 1..n /\ ~ (rs[i].end <= rs[i + d + 1].start)}
<1>1. n \in Nat /\ \A j \in 1..n : rs[j].start \in Nat /\ rs[j].end \in Nat
  <2>1. n \in Nat /\ \A j \in 1..n : rs[j] \in Piece
    OBVIOUS
  <2> QED
    BY <2>1 DEF Piece
<1>2. \A j \in 1..(n - 1) : rs[j].end <= rs[j + 1].start
  BY DEF Ordered
<1> HIDE DEF n
<1>3. ASSUME Bad # {} PROVE FALSE
  <2>1. PICK d \in Bad : \A e \in Bad : d <= e
    <3>1. Bad \subseteq Nat
      OBVIOUS
    <3> HIDE DEF Bad
    <3> QED
      BY <1>3, <3>1, LeastNatural
  <2>2. d \in Nat /\ i + d + 1 \in 1..n /\ ~ (rs[i].end <= rs[i + d + 1].start)
    OBVIOUS
  <2>3. i \in 1..n /\ i \in Nat
    BY <1>1 DEF n
  <2>4. d # 0
    <3>1. i + 0 + 1 = i + 1 /\ (d = 0 => i \in 1..(n - 1))
      BY <1>1, <2>2, <2>3
    <3> QED
      BY <1>2, <2>2, <3>1
  <2>5. /\ d - 1 \in Nat /\ ~ (d <= d - 1) /\ i + (d - 1) + 1 = i + d
        /\ i + d \in 1..(n - 1) /\ i + d \in 1..n
    BY <1>1, <2>2, <2>3, <2>4
  <2>6. d - 1 \notin Bad
    <3> HIDE DEF Bad
    <3> QED
      BY <2>1, <2>5
  <2>7. rs[i].end <= rs[i + d].start
    BY <2>5, <2>6
  <2>8. rs[i + d].end <= rs[i + d + 1].start
    BY <1>2, <2>5
  <2>9. rs[i + d].start < rs[i + d].end
    BY <2>5 DEF n
  <2>10. /\ rs[i].end \in Nat /\ rs[i + d].start \in Nat /\ rs[i + d].end \in Nat
         /\ rs[i + d + 1].start \in Nat
    BY <1>1, <2>2, <2>3, <2>5
  <2> DEFINE s == rs[i + d + 1].start
             a == rs[i + d].start
             b == rs[i + d].end
  <2>11. ~ (rs[i].end <= s) /\ rs[i].end <= a /\ b <= s /\ a < b
    BY ONLY <2>2, <2>7, <2>8, <2>9
  <2>12. rs[i].end \in Nat /\ a \in Nat /\ b \in Nat /\ s \in Nat
    BY ONLY <2>10
  <2> HIDE DEF s, a, b
  <2> QED
    BY ONLY <2>11, <2>12
<1>4. k - i - 1 \in Nat /\ i + (k - i - 1) + 1 = k /\ k \in 1..n
  BY <1>1 DEF n
<1> QED
  BY <1>3, <1>4

\* Take the last cut j that does not begin after the middle of the longest
\* stretch.  It reaches back over the beginning; it must reach beyond the end,
\* for otherwise the moment at which it ends would be speech in no cut.
LEMMA DetectedMeansHeardWhole == Detected => WordsAreHeardWhole
<1> DEFINE to(i, from) == Least(Least(from + 2 * Overlap, regions[i].end), duration)
<1> SUFFICES ASSUME Detected, NEW i \in DOMAIN regions,
                    NEW from \in regions[i].start..(regions[i].end - 1),
                    from < to(i, from)
             PROVE  \E c \in ToSet(CoarseSegment) : c.start <= from /\ to(i, from) <= c.end
  BY DEF WordsAreHeardWhole
<1> DEFINE cuts == CutPoints(regions)
           chunks == CoarseSegment
           n == Len(cuts)
           end == to(i, from)
<1>0. /\ regions \in Seq(Region) /\ Ordered(regions) /\ duration \in Nat
      /\ i \in 1..Len(regions) /\ regions[i] \in Region /\ Overlap \in Nat
  BY VadAssumption DEF VadAssumption, Detected
<1>1. /\ from \in Nat /\ end \in Nat /\ from < end
      /\ end <= from + 2 * Overlap /\ end <= duration
      /\ \A t \in from..(end - 1) : t \in regions[i].start..(regions[i].end - 1)
  <2>1. regions[i].start \in Nat /\ regions[i].end \in Nat
    BY <1>0, PointsAreNatural DEF Region
  <2>2. /\ from \in Nat /\ end \in Nat /\ from < end /\ end <= regions[i].end
        /\ end <= from + 2 * Overlap /\ end <= duration /\ regions[i].start <= from
    BY <1>0, <2>1 DEF Least
  <2> HIDE DEF end
  <2> QED
    BY <2>1, <2>2
<1>2. /\ cuts \in Seq(Piece) /\ Ordered(cuts)
      /\ \A j \in 1..n : cuts[j].start < cuts[j].end
      /\ \A t \in from..(end - 1) :
            \E j \in 1..n : cuts[j].start <= t /\ t + 1 <= cuts[j].end
  <2> HIDE DEF end
  <2> QED
    BY <1>0, <1>1, CutFacts
<1> HIDE DEF cuts, end
<1>3. /\ Len(chunks) = n /\ DOMAIN chunks = 1..n
      /\ \A j \in 1..n :
            /\ chunks[j].start = IF j > 1 THEN Greatest(0, cuts[j].start - Overlap)
                                 ELSE cuts[j].start
            /\ chunks[j].end = Least(duration, IF j < n THEN cuts[j].end + Overlap
                                               ELSE cuts[j].end)
  BY <1>0, <1>2, OverlapFacts DEF CoarseSegment, cuts
<1> HIDE DEF chunks
<1>4. n \in Nat /\ \A j \in 1..n : cuts[j].start \in Nat /\ cuts[j].end \in Nat
  <2>1. n \in Nat /\ \A j \in 1..n : cuts[j] \in Piece
    BY <1>2
  <2> QED
    BY <2>1 DEF Piece
<1>5. \A j, k \in 1..n : j < k => cuts[j].end <= cuts[k].start
  BY <1>2, OrderedFar DEF n
<1> HIDE DEF n
<1>6. PICK first \in 1..n : cuts[first].start <= from /\ from + 1 <= cuts[first].end
  <2>1. from \in from..(end - 1)
    BY <1>1
  <2> QED
    BY <1>2, <2>1 DEF n
<1> DEFINE Early == {j \in 1..n : cuts[j].start <= from + Overlap}
           Late == {d \in 0..n : n - d \in Early}
<1>7. PICK j \in Early : \A k \in Early : k <= j
  <2>1. first \in Early
    BY <1>0, <1>1, <1>4, <1>6
  <2>2. n - first \in Late /\ Late \subseteq Nat
    <3>1. n - first \in 0..n /\ n - (n - first) = first
      BY <1>4, <1>6
    <3> HIDE DEF Early
    <3> QED
      BY <1>4, <2>1, <3>1
  <2>3. PICK d \in Late : \A e \in Late : d <= e
    <3>1. Late # {}
      BY <2>2
    <3> HIDE DEF Late
    <3> QED
      BY <2>2, <3>1, LeastNatural
  <2>4. n - d \in Early /\ d \in 0..n
    BY <2>3
  <2>5. ASSUME NEW k \in Early PROVE k <= n - d
    <3>1. k \in 1..n
      OBVIOUS
    <3>2. n - k \in 0..n /\ n - (n - k) = k
      BY <1>4, <3>1
    <3>3. n - k \in Late
      <4> HIDE DEF Early
      <4> QED
        BY <2>5, <3>2
    <3>4. d <= n - k
      <4> HIDE DEF Late
      <4> QED
        BY <2>3, <3>3
    <3> QED
      BY <1>4, <2>4, <3>1, <3>4
  <2> HIDE DEF Early, Late
  <2> QED
    BY <2>4, <2>5
<1>8. /\ j \in 1..n /\ cuts[j].start \in Nat /\ cuts[j].end \in Nat
      /\ cuts[j].start < cuts[j].end /\ cuts[j].start <= from + Overlap
  <2>1. j \in 1..n /\ cuts[j].start <= from + Overlap
    BY <1>7
  <2> QED
    BY <1>2, <1>4, <2>1 DEF n
<1>9. ASSUME NEW k \in 1..n, cuts[k].start <= from + Overlap PROVE k <= j
  BY <1>7, <1>9
<1>10. first <= j /\ cuts[first].end <= cuts[j].end
  <2>1. first <= j
    BY <1>0, <1>1, <1>4, <1>6, <1>9
  <2> QED
    BY <1>4, <1>5, <1>6, <1>8, <2>1
<1>11. chunks[j].start <= from
  <2>1. CASE j > 1
    <3>1. chunks[j].start = Greatest(0, cuts[j].start - Overlap)
      BY <1>3, <1>8, <2>1
    <3> QED
      BY ONLY <1>0, <1>1, <1>8, <3>1 DEF Greatest
  <2>2. CASE ~ (j > 1)
    <3>1. j = first
      BY <1>4, <1>6, <1>8, <1>10, <2>2
    <3>2. chunks[j].start = cuts[j].start
      BY <1>3, <1>8, <2>2
    <3> QED
      BY <1>6, <3>1, <3>2
  <2> QED
    BY <2>1, <2>2
\* A moment of the stretch that no cut up to j reaches is in a later one.
<1>12. ASSUME cuts[j].end < end
       PROVE  j < n /\ from + Overlap < cuts[j].end
  <2>1. from < cuts[j].end
    BY <1>1, <1>4, <1>6, <1>8, <1>10
  <2>2. cuts[j].end \in from..(end - 1)
    BY <1>1, <1>8, <1>12, <2>1
  <2>3. PICK k \in 1..n : cuts[k].start <= cuts[j].end /\ cuts[j].end + 1 <= cuts[k].end
    BY <1>2, <2>2 DEF n
  <2>4. k > j
    <3>1. SUFFICES ASSUME k < j PROVE FALSE
      BY <1>4, <1>8, <2>3
    <3>2. cuts[k].end <= cuts[j].start
      BY <1>5, <1>8, <3>1
    <3> QED
      BY <1>4, <1>8, <2>3, <3>2
  <2>5. ~ (cuts[k].start <= from + Overlap)
    BY <1>4, <1>8, <1>9, <2>4
  <2>6. n \in Nat /\ cuts[k].start \in Nat /\ Overlap \in Nat /\ from \in Nat
    BY ONLY <1>0, <1>1, <1>4, <2>3
  <2> QED
    BY ONLY <1>8, <2>3, <2>4, <2>5, <2>6
<1>13. end <= chunks[j].end
  <2> DEFINE reach == IF j < n THEN cuts[j].end + Overlap ELSE cuts[j].end
  <2>1. chunks[j].end = Least(duration, reach)
    BY <1>3, <1>8
  <2> DEFINE last == cuts[j].end
  <2>2. last \in Nat /\ (j < n => reach = last + Overlap) /\ (~ (j < n) => reach = last)
    BY <1>8
  <2>3. last < end => j < n /\ from + Overlap < last
    BY <1>12
  <2> HIDE DEF last, reach
  <2>4. reach \in Nat
    BY ONLY <1>0, <2>2
  <2>5. end <= reach
    BY ONLY <1>0, <1>1, <2>2, <2>3
  <2> HIDE DEF reach
  <2> QED
    BY ONLY <1>0, <1>1, <2>1, <2>4, <2>5 DEF Least
<1>14. chunks[j] \in ToSet(chunks)
  BY <1>3, <1>8 DEF ToSet
<1> QED
  BY <1>11, <1>13, <1>14 DEF chunks, end

LEMMA DetectedMeansMerged == Detected => NothingLeftToMerge
<1> SUFFICES ASSUME Detected PROVE NothingLeftToMerge
  OBVIOUS
<1>1. MergedUpTo(Merged(regions), regions, Len(regions)) /\ DOMAIN regions = 1..Len(regions)
  BY MergedFacts DEF Detected
<1> QED
  BY <1>1 DEF MergedUpTo, NothingLeftToMerge

\* stages/vad.py 88-99: no super-chunk begins or ends before the recording
\* does, whatever the padding.
THEOREM VadTypeOK == Spec => []TypeOK
  BY DetectedAlways, DetectedMeansTyped, PTL

\* stages/vad.py 54-99: for every recording and every setting, cut points are
\* in order and no longer than the cap, if there is one, and padding adds no
\* more than overlap_s on an inner side.
THEOREM VadCutsAreCapped == Spec => []CutsAreCapped
  BY DetectedAlways, DetectedMeansCapped, PTL

\* stages/vad.py 54-113: merging, splitting and padding lose no moment of
\* detected speech before the duration, however short that was measured and
\* whether or not chunks are split.
THEOREM VadSpeechIsCovered == Spec => []SpeechIsCovered
  BY DetectedAlways, DetectedMeansCovered, PTL

\* stages/vad.py 6-10: a word within a region and no longer than the overlap
\* of two super-chunks is in one of them whole, for every cap and overlap.
THEOREM VadWordsAreHeardWhole == Spec => []WordsAreHeardWhole
  BY DetectedAlways, DetectedMeansHeardWhole, PTL

\* stages/vad.py 62-73: the greedy loop leaves no two neighbours that it
\* could have joined up to the next region.
THEOREM VadNothingLeftToMerge == Spec => []NothingLeftToMerge
  BY DetectedAlways, DetectedMeansMerged, PTL

=============================================================================
