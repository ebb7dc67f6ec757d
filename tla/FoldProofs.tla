---------------------------- MODULE FoldProofs ----------------------------
(***************************************************************************)
(* What the library's folds compute, for every finite set and every        *)
(* sequence. MapThenFoldSet chooses a function by its equations on all     *)
(* subsets of a set: that such a function exists, that its values are      *)
(* determined and that it can be followed one element at a time is proved  *)
(* by taking a least subset, or a least prefix, that has no such value.    *)
(***************************************************************************)
EXTENDS Integers, FiniteSets, FiniteSetsExt, Functions, FiniteSetTheorems, WellFoundedInduction,
        TLAPS

-----------------------------------------------------------------------------
(* Induction by least counterexamples. *)

\* A set of numbers that is not empty has a least one.
LEMMA LeastNatural ==
    ASSUME NEW T, T \subseteq Nat, T # {}
    PROVE  \E n \in T : \A m \in T : n <= m
<1>1. IsWellFoundedOn(OpToRel(<, Nat), Nat)  BY NatLessThanWellFounded
<1>2. PICK n \in T : \A m \in T : ~ (<<m, n>> \in OpToRel(<, Nat))  BY <1>1, WFMin, Zenon
<1>3. \A m \in T : ~ (m < n)  BY <1>2 DEF OpToRel
<1> QED  BY <1>3

\* A set of subsets of a finite set has one with no proper subset in it.
LEMMA LeastSubset ==
    ASSUME NEW D, IsFiniteSet(D), NEW B, B \subseteq SUBSET D, B # {}
    PROVE  \E s \in B : \A t \in SUBSET s : t # s => t \notin B
<1>1. FiniteSubsetsOf(D) = SUBSET D  BY FS_FiniteSubsetsOfFinite
<1>2. IsWellFoundedOn(StrictSubsetOrdering(D), SUBSET D)
    BY <1>1, FS_StrictSubsetOrderingWellFounded
<1>3. PICK s \in B : \A t \in B : ~ (<<t, s>> \in StrictSubsetOrdering(D))
    BY <1>2, WFMin, Zenon
<1>4. ASSUME NEW t \in SUBSET s, t # s, t \in B  PROVE FALSE
    <2>1. t \in SUBSET D /\ s \in SUBSET D  OBVIOUS
    <2>2. <<t, s>> \in (SUBSET D) \X (SUBSET D)  BY <2>1
    <2> QED  BY <1>3, <1>4, <2>2 DEF StrictSubsetOrdering
<1> QED  BY <1>4

\* h solves the recursion on the subsets of t that starts from base and takes
\* one element out of a set at a time.
Solves(h, t, V, base, pick, step) ==
    /\ h \in [SUBSET t -> V]
    /\ \A s \in SUBSET t : h[s] = IF s = {} THEN base ELSE step[s][h[s \ {pick[s]}]]

\* Two solutions agree where both are defined.
LEMMA SolutionsAgree ==
    ASSUME NEW D, IsFiniteSet(D), NEW V, NEW base,
           NEW pick, \A s \in SUBSET D : s # {} => pick[s] \in s, NEW step,
           NEW t \in SUBSET D, NEW u \in SUBSET D, NEW h, NEW g,
           Solves(h, t, V, base, pick, step), Solves(g, u, V, base, pick, step)
    PROVE  \A s \in SUBSET (t \cap u) : h[s] = g[s]
<1> DEFINE B == {s \in SUBSET (t \cap u) : h[s] # g[s]}
<1>1. SUFFICES ASSUME B # {} PROVE FALSE  OBVIOUS
<1>2. B \subseteq SUBSET D  OBVIOUS
<1>3. PICK s \in B : \A r \in SUBSET s : r # s => r \notin B
    <2> HIDE DEF B
    <2> QED  BY <1>1, <1>2, LeastSubset
<1>4. CASE s = {}  BY <1>4 DEF Solves
<1>5. CASE s # {}
    <2>1. pick[s] \in s  BY <1>5
    <2>2. s \ {pick[s]} \in SUBSET s /\ s \ {pick[s]} # s  BY <2>1
    <2>3. h[s \ {pick[s]}] = g[s \ {pick[s]}]  BY <1>3, <2>2
    <2> QED  BY <1>5, <2>3 DEF Solves
<1> QED  BY <1>4, <1>5

\* The recursion has a solution, whatever it takes out of a set.
LEMMA SetRecursion ==
    ASSUME NEW D, IsFiniteSet(D), NEW V, NEW base \in V,
           NEW pick, \A s \in SUBSET D : s # {} => pick[s] \in s,
           NEW step, \A s \in SUBSET D, v \in V : step[s][v] \in V
    PROVE  \E h : Solves(h, D, V, base, pick, step)
<1> DEFINE Sol(h, t) == Solves(h, t, V, base, pick, step)
           B == {t \in SUBSET D : ~ \E h : Sol(h, t)}
<1>1. SUFFICES ASSUME B # {} PROVE FALSE  OBVIOUS
<1>2. PICK t \in B : \A r \in SUBSET t : r # t => r \notin B
    <2>1. B \subseteq SUBSET D  OBVIOUS
    <2> HIDE DEF B
    <2> QED  BY <1>1, <2>1, LeastSubset
<1>3. /\ t \in SUBSET D
      /\ ~ \E h : Sol(h, t)
      /\ \A r \in SUBSET t : r # t => \E h : Sol(h, r)
    <2> HIDE DEF Sol
    <2> QED  BY <1>2
<1> HIDE DEF B
<1> DEFINE part[r \in SUBSET t] == CHOOSE h : Sol(h, r)
           whole == [r \in SUBSET t |-> IF r # t THEN part[r][r]
                                        ELSE IF t = {} THEN base
                                        ELSE step[t][part[t \ {pick[t]}][t \ {pick[t]}]]]
<1>4. ASSUME NEW r \in SUBSET t, r # t  PROVE Sol(part[r], r) /\ part[r][r] \in V
    <2>2. Sol(part[r], r)
        <3> HIDE DEF Sol
        <3>1. \E h : Sol(h, r)  BY <1>3, <1>4
        <3>2. part[r] = CHOOSE h : Sol(h, r)  OBVIOUS
        <3> HIDE DEF part
        <3> QED  BY <3>1, <3>2
    <2>3. r \in SUBSET r  OBVIOUS
    <2> QED  BY <2>2, <2>3 DEF Solves
<1> HIDE DEF part
<1>5. t # {} => pick[t] \in t /\ t \ {pick[t]} \in SUBSET t /\ t \ {pick[t]} # t  BY <1>3
<1>6. whole \in [SUBSET t -> V]
    <2>1. ASSUME NEW r \in SUBSET t  PROVE whole[r] \in V
        <3>1. CASE r # t  BY <1>4, <3>1
        <3>2. CASE r = t /\ t = {}  BY <3>2
        <3>3. CASE r = t /\ t # {}
            <4>1. part[t \ {pick[t]}][t \ {pick[t]}] \in V  BY <1>4, <1>5, <3>3
            <4> QED  BY <1>3, <3>3, <4>1
        <3> QED  BY <3>1, <3>2, <3>3
    <2> QED  BY <2>1
<1>7. ASSUME NEW s \in SUBSET t
      PROVE  whole[s] = IF s = {} THEN base ELSE step[s][whole[s \ {pick[s]}]]
    <2>1. CASE s = t
        <3>1. CASE t = {}  BY <2>1, <3>1
        <3>2. CASE t # {}
            <4>1. whole[t \ {pick[t]}] = part[t \ {pick[t]}][t \ {pick[t]}]  BY <1>5, <3>2
            <4> QED  BY <2>1, <3>2, <4>1
        <3> QED  BY <3>1, <3>2
    <2>2. CASE s # t
        <3>1. whole[s] = part[s][s] /\ Sol(part[s], s)  BY <1>4, <2>2
        <3>2. CASE s = {}  BY <3>1, <3>2 DEF Solves
        <3>3. CASE s # {}
            <4> DEFINE r == s \ {pick[s]}
            <4>1. s \in SUBSET D /\ pick[s] \in s  BY <1>3, <3>3
            <4>2. r \in SUBSET t /\ r # t /\ r \in SUBSET D /\ r \in SUBSET s  BY <4>1, <1>3
            <4>3. Sol(part[r], r)  BY <1>4, <4>2
            <4>4. part[s][r] = part[r][r]
                <5> HIDE DEF r, whole
                <5>1. r \in SUBSET (s \cap r)  BY <4>2
                <5>2. \A x \in SUBSET (s \cap r) : part[s][x] = part[r][x]
                    <6> DEFINE p == part[s]
                               q == part[r]
                    <6>1. /\ Solves(p, s, V, base, pick, step)
                          /\ Solves(q, r, V, base, pick, step)
                        BY <3>1, <4>3
                    <6> HIDE DEF p, q
                    <6>2. s \in SUBSET D  BY <4>1
                    <6>3. r \in SUBSET D  BY <4>2
                    <6>4. \A x \in SUBSET (s \cap r) : p[x] = q[x]
                        BY ONLY <6>1, <6>2, <6>3, SolutionsAgree, IsFiniteSet(D),
                                \A z \in SUBSET D : z # {} => pick[z] \in z
                    <6> QED  BY <6>4 DEF p, q
                <5> QED  BY <5>1, <5>2
            <4>5. whole[r] = part[r][r]  BY <4>2
            <4>6. part[s][s] = step[s][part[s][r]]  BY <3>1, <3>3 DEF Solves
            <4> QED  BY <3>1, <3>3, <4>4, <4>5, <4>6
        <3> QED  BY <3>2, <3>3
    <2> QED  BY <2>1, <2>2
<1>8. Sol(whole, t)  BY <1>6, <1>7 DEF Solves
<1> HIDE DEF Sol, whole
<1> QED  BY <1>3, <1>8

\* g satisfies the equations of that recursion on the subsets of S, as far as
\* its values are known to be in V.
Follows(g, S, V, base, pick, step) ==
    /\ g[{}] = base
    /\ \A s \in SUBSET S : s # {} /\ g[s \ {pick[s]}] \in V => g[s] = step[s][g[s \ {pick[s]}]]

\* Whatever satisfies its equations is that solution.
LEMMA SolutionIsUnique ==
    ASSUME NEW D, IsFiniteSet(D), NEW V, NEW base \in V,
           NEW pick, \A s \in SUBSET D : s # {} => pick[s] \in s, NEW step,
           NEW h, Solves(h, D, V, base, pick, step), NEW S \in SUBSET D,
           NEW g, Follows(g, S, V, base, pick, step)
    PROVE  \A s \in SUBSET S : g[s] = h[s]
<1> DEFINE B == {s \in SUBSET S : g[s] # h[s]}
<1>1. SUFFICES ASSUME B # {} PROVE FALSE  OBVIOUS
<1>2. B \subseteq SUBSET D  OBVIOUS
<1>3. PICK s \in B : \A r \in SUBSET s : r # s => r \notin B
    <2> HIDE DEF B
    <2> QED  BY <1>1, <1>2, LeastSubset
<1>4. CASE s = {}  BY <1>4 DEF Solves, Follows
<1>5. CASE s # {}
    <2>1. pick[s] \in s  BY <1>5
    <2>2. s \ {pick[s]} \in SUBSET s /\ s \ {pick[s]} # s  BY <2>1
    <2>3. g[s \ {pick[s]}] = h[s \ {pick[s]}]  BY <1>3, <2>2
    <2>4. s \in SUBSET D /\ s \ {pick[s]} \in SUBSET D  BY <2>2
    <2>5. h[s \ {pick[s]}] \in V  BY <2>4 DEF Solves
    <2>6. g[s] = step[s][g[s \ {pick[s]}]]  BY <1>5, <2>3, <2>5 DEF Follows
    <2>7. h[s] = step[s][h[s \ {pick[s]}]]  BY <1>5, <2>4 DEF Solves
    <2> QED  BY <2>3, <2>6, <2>7
<1> QED  BY <1>4, <1>5

-----------------------------------------------------------------------------
(* Sums *)

OneOf(s) == CHOOSE x \in s : TRUE

\* What a sum takes out of a set is a member of it.
LEMMA OneOfIsMember == \A s : s # {} => OneOf(s) \in s
BY DEF OneOf

\* SumFunctionOnSet, as the library's nested definitions unfold.
LEMMA SumIsIter ==
    ASSUME NEW f, NEW S
    PROVE  SumFunctionOnSet(f, S) =
             (CHOOSE iter : iter = [s \in SUBSET S |->
                 IF s = {} THEN 0 ELSE f[OneOf(s)] + iter[s \ {OneOf(s)}]])[S]
BY DEF SumFunctionOnSet, FoldFunctionOnSet, MapThenFoldSet, OneOf

\* A sum of integers is an integer and satisfies the equations that its
\* definition chooses a function by.
LEMMA SumSolves ==
    ASSUME NEW D, IsFiniteSet(D), NEW f, \A x \in D : f[x] \in Int
    PROVE  /\ \A s \in SUBSET D : SumFunctionOnSet(f, s) \in Int
           /\ SumFunctionOnSet(f, {}) = 0
           /\ \A s \in SUBSET D : s # {} =>
                 SumFunctionOnSet(f, s) = f[OneOf(s)] + SumFunctionOnSet(f, s \ {OneOf(s)})
<1> DEFINE pick == [s \in SUBSET D |-> OneOf(s)]
<1>1. \A s \in SUBSET D : s # {} => pick[s] \in s /\ pick[s] = OneOf(s)  BY OneOfIsMember
<1>2. \A s \in SUBSET D, v \in Int : s # {} => f[OneOf(s)] \in Int  BY OneOfIsMember
<1> DEFINE total == [s \in SUBSET D |-> [v \in Int |-> IF s = {} THEN 0 ELSE f[OneOf(s)] + v]]
<1>3. \A s \in SUBSET D, v \in Int : total[s][v] \in Int  BY <1>2
<1>4. PICK h : Solves(h, D, Int, 0, pick, total)
    <2>1. \A s \in SUBSET D : s # {} => pick[s] \in s  BY <1>1
    <2>2. 0 \in Int  OBVIOUS
    <2> HIDE DEF pick, total
    <2> QED  BY ONLY <1>3, <2>1, <2>2, SetRecursion, IsFiniteSet(D)
<1>5. /\ h \in [SUBSET D -> Int]
      /\ h[{}] = 0
      /\ \A s \in SUBSET D : s # {} => h[s] = f[OneOf(s)] + h[s \ {OneOf(s)}]
    <2>1. h \in [SUBSET D -> Int]  BY <1>4 DEF Solves
    <2>2. h[{}] = 0  BY <1>4 DEF Solves
    <2>3. ASSUME NEW s \in SUBSET D, s # {}  PROVE h[s] = f[OneOf(s)] + h[s \ {OneOf(s)}]
        <3>1. h[s] = total[s][h[s \ {OneOf(s)}]]  BY <1>1, <1>4, <2>3 DEF Solves
        <3>2. h[s \ {OneOf(s)}] \in Int  BY <2>1
        <3> QED  BY <2>3, <3>1, <3>2
    <2> QED  BY <2>1, <2>2, <2>3
<1>6. ASSUME NEW S \in SUBSET D  PROVE SumFunctionOnSet(f, S) = h[S]
    <2> DEFINE Equation(g) == g = [s \in SUBSET S |->
                    IF s = {} THEN 0 ELSE f[OneOf(s)] + g[s \ {OneOf(s)}]]
               iter == CHOOSE g : Equation(g)
    <2>1. Equation([s \in SUBSET S |-> h[s]])
        <3>1. \A s \in SUBSET S : s \in SUBSET D /\ s \ {OneOf(s)} \in SUBSET S  OBVIOUS
        <3>2. \A s \in SUBSET S : h[s] = IF s = {} THEN 0 ELSE f[OneOf(s)] + h[s \ {OneOf(s)}]
            BY <1>5, <3>1
        <3> QED  BY <3>1, <3>2
    <2>2. Equation(iter)
        <3>1. \E g : Equation(g)  BY <2>1
        <3> HIDE DEF Equation
        <3> QED  BY <3>1
    <2>3. \A s \in SUBSET S : iter[s] = IF s = {} THEN 0 ELSE f[OneOf(s)] + iter[s \ {OneOf(s)}]
        <3> HIDE DEF iter
        <3> QED  BY <2>2
    <2>4. iter[S] = SumFunctionOnSet(f, S)  BY SumIsIter
    <2> HIDE DEF iter
    <2>5. \A s \in SUBSET S : s # {} /\ iter[s \ {pick[s]}] \in Int =>
                                iter[s] = total[s][iter[s \ {pick[s]}]]
        BY <1>1, <2>3
    <2>8. iter[{}] = 0  BY <2>3
    <2>6. \A s \in SUBSET D : s # {} => pick[s] \in s  BY <1>1
    <2>7. \A s \in SUBSET S : iter[s] = h[s]
        <3>1. Follows(iter, S, Int, 0, pick, total)  BY <2>5, <2>8 DEF Follows
        <3>2. 0 \in Int  OBVIOUS
        <3> HIDE DEF pick, total, Equation
        <3> QED  BY <1>4, <2>6, <3>1, <3>2, SolutionIsUnique
    <2> QED  BY <2>4, <2>7
<1> QED  BY <1>5, <1>6

\* The sum is the value at any member and the sum of the rest.
LEMMA SumTakesOut ==
    ASSUME NEW D, IsFiniteSet(D), NEW f, \A x \in D : f[x] \in Int, NEW x \in D
    PROVE  SumFunctionOnSet(f, D) = f[x] + SumFunctionOnSet(f, D \ {x})
<1> DEFINE Sum(s) == SumFunctionOnSet(f, s)
           B == {s \in SUBSET D : \E y \in s : Sum(s) # f[y] + Sum(s \ {y})}
<1>1. SUFFICES ASSUME B # {} PROVE FALSE
    <2>1. D \in SUBSET D  OBVIOUS
    <2> QED  BY <2>1
<1>2. PICK s \in B : \A r \in SUBSET s : r # s => r \notin B
    <2>1. B \subseteq SUBSET D  OBVIOUS
    <2> HIDE DEF B
    <2> QED  BY <1>1, <2>1, LeastSubset
<1>3. /\ \A r \in SUBSET D : Sum(r) \in Int
      /\ \A r \in SUBSET D : r # {} => Sum(r) = f[OneOf(r)] + Sum(r \ {OneOf(r)})
    BY SumSolves
<1>4. PICK y \in s : Sum(s) # f[y] + Sum(s \ {y})  OBVIOUS
<1>5. s \in SUBSET D /\ y \in D  OBVIOUS
<1>6. \A r \in SUBSET s : r # s => \A z \in r : Sum(r) = f[z] + Sum(r \ {z})
    <2> HIDE DEF Sum
    <2> QED  BY <1>2, <1>5
<1> HIDE DEF B, Sum
<1> DEFINE c == OneOf(s)
<1>7. c \in s /\ c \in D /\ f[c] \in Int /\ f[y] \in Int  BY <1>5, OneOfIsMember
<1>8. Sum(s) = f[c] + Sum(s \ {c})  BY <1>3, <1>4, <1>5
<1> HIDE DEF c
<1>9. y # c  BY <1>4, <1>8
<1> DEFINE r == s \ {c}
           q == s \ {y}
           p == (s \ {c}) \ {y}
<1>10. /\ r \in SUBSET s /\ r # s /\ y \in r /\ r \ {y} = p
       /\ q \in SUBSET s /\ q # s /\ c \in q /\ q \ {c} = p
       /\ p \in SUBSET D
    BY <1>5, <1>7, <1>9
<1> HIDE DEF p, q, r
<1>11. Sum(r) = f[y] + Sum(p)  BY <1>6, <1>10
<1>12. Sum(q) = f[c] + Sum(p)  BY <1>6, <1>10
<1>13. Sum(p) \in Int  BY <1>3, <1>10
<1>14. Sum(s) = f[c] + Sum(r) /\ Sum(s) # f[y] + Sum(q)  BY <1>4, <1>8 DEF r, q
<1> QED  BY <1>7, <1>11, <1>12, <1>13, <1>14

\* Sums over the same set compare as the values do.
LEMMA SumIsMonotone ==
    ASSUME NEW D, IsFiniteSet(D), NEW f, \A x \in D : f[x] \in Int,
           NEW g, \A x \in D : g[x] \in Int, \A x \in D : f[x] <= g[x]
    PROVE  SumFunctionOnSet(f, D) <= SumFunctionOnSet(g, D)
<1> DEFINE F(s) == SumFunctionOnSet(f, s)
           G(s) == SumFunctionOnSet(g, s)
           B == {s \in SUBSET D : ~ (F(s) <= G(s))}
<1>1. SUFFICES ASSUME B # {} PROVE FALSE
    <2>1. D \in SUBSET D  OBVIOUS
    <2> QED  BY <2>1
<1>2. PICK s \in B : \A r \in SUBSET s : r # s => r \notin B
    <2>1. B \subseteq SUBSET D  OBVIOUS
    <2> HIDE DEF B
    <2> QED  BY <1>1, <2>1, LeastSubset
<1>3. /\ \A r \in SUBSET D : F(r) \in Int /\ G(r) \in Int
      /\ F({}) = 0 /\ G({}) = 0
      /\ \A r \in SUBSET D : r # {} => /\ F(r) = f[OneOf(r)] + F(r \ {OneOf(r)})
                                      /\ G(r) = g[OneOf(r)] + G(r \ {OneOf(r)})
    BY SumSolves
<1>4. s \in SUBSET D /\ ~ (F(s) <= G(s))  OBVIOUS
<1>5. \A r \in SUBSET s : r # s => F(r) <= G(r)
    <2> HIDE DEF F, G
    <2> QED  BY <1>2, <1>4
<1> HIDE DEF B, F, G
<1>6. s # {}  BY <1>3, <1>4
<1> DEFINE c == OneOf(s)
           r == s \ {c}
<1>7. c \in s /\ c \in D  BY <1>4, <1>6, OneOfIsMember
<1>8. r \in SUBSET s /\ r # s /\ r \in SUBSET D  BY <1>4, <1>7
<1>9. F(s) = f[c] + F(r) /\ G(s) = g[c] + G(r)  BY <1>3, <1>4, <1>6
<1> HIDE DEF c, r
<1>10. F(r) <= G(r) /\ F(r) \in Int /\ G(r) \in Int  BY <1>3, <1>5, <1>8
<1>11. f[c] \in Int /\ g[c] \in Int /\ f[c] <= g[c]  BY <1>7
<1> QED  BY <1>4, <1>9, <1>10, <1>11

\* A sum depends on the values over its set only.
LEMMA SumOfTheSame ==
    ASSUME NEW D, IsFiniteSet(D), NEW f, \A x \in D : f[x] \in Int,
           NEW g, \A x \in D : g[x] = f[x]
    PROVE  SumFunctionOnSet(g, D) = SumFunctionOnSet(f, D)
<1>1. \A x \in D : g[x] \in Int /\ f[x] <= g[x] /\ g[x] <= f[x]  OBVIOUS
<1>2. SumFunctionOnSet(f, D) <= SumFunctionOnSet(g, D)  BY <1>1, SumIsMonotone
<1>3. SumFunctionOnSet(g, D) <= SumFunctionOnSet(f, D)  BY <1>1, SumIsMonotone
<1>4. SumFunctionOnSet(f, D) \in Int /\ SumFunctionOnSet(g, D) \in Int
    <2>1. D \in SUBSET D  OBVIOUS
    <2> QED  BY <1>1, <2>1, SumSolves
<1> QED  BY <1>2, <1>3, <1>4

\* A sum of zeros is zero.
LEMMA SumOfZeros ==
    ASSUME NEW D, IsFiniteSet(D), NEW f, \A x \in D : f[x] = 0
    PROVE  SumFunctionOnSet(f, D) = 0
<1> DEFINE B == {s \in SUBSET D : SumFunctionOnSet(f, s) # 0}
<1>1. SUFFICES ASSUME B # {} PROVE FALSE
    <2>1. D \in SUBSET D  OBVIOUS
    <2> QED  BY <2>1
<1>2. PICK s \in B : \A r \in SUBSET s : r # s => r \notin B
    <2>1. B \subseteq SUBSET D  OBVIOUS
    <2> HIDE DEF B
    <2> QED  BY <1>1, <2>1, LeastSubset
<1>3. /\ SumFunctionOnSet(f, {}) = 0
      /\ \A r \in SUBSET D : r # {} =>
            SumFunctionOnSet(f, r) = f[OneOf(r)] + SumFunctionOnSet(f, r \ {OneOf(r)})
    BY SumSolves
<1>4. s # {} /\ s \in SUBSET D  BY <1>3
<1>5. OneOf(s) \in s  BY <1>4, OneOfIsMember
<1>6. s \ {OneOf(s)} \in SUBSET s /\ s \ {OneOf(s)} # s  BY <1>5
<1>7. s \ {OneOf(s)} \in SUBSET D /\ s \ {OneOf(s)} \notin B  BY <1>2, <1>4, <1>6
<1>8. SumFunctionOnSet(f, s \ {OneOf(s)}) = 0  BY <1>7
<1>9. f[OneOf(s)] = 0  BY <1>4, <1>5
<1>10. SumFunctionOnSet(f, s) = 0 + 0  BY <1>3, <1>4, <1>8, <1>9
<1> QED  BY <1>10

\* Members at which the function is zero do not count.
LEMMA SumOverSupport ==
    ASSUME NEW D, IsFiniteSet(D), NEW f, \A x \in D : f[x] \in Int,
           NEW T \in SUBSET D, \A x \in D \ T : f[x] = 0
    PROVE  SumFunctionOnSet(f, D) = SumFunctionOnSet(f, T)
<1> DEFINE Sum(s) == SumFunctionOnSet(f, s)
           B == {s \in SUBSET (D \ T) : Sum(T \union s) # Sum(T)}
<1>1. SUFFICES ASSUME B # {} PROVE FALSE
    <2>1. D \ T \in SUBSET (D \ T) /\ T \union (D \ T) = D  OBVIOUS
    <2> HIDE DEF Sum
    <2>2. Sum(T \union (D \ T)) = Sum(T)  BY <2>1
    <2>3. Sum(D) = Sum(T)  BY <2>1, <2>2
    <2> QED  BY <2>3 DEF Sum
<1>2. PICK s \in B : \A r \in SUBSET s : r # s => r \notin B
    <2>1. B \subseteq SUBSET D  OBVIOUS
    <2> HIDE DEF B
    <2> QED  BY <1>1, <2>1, LeastSubset
<1>3. s \in SUBSET (D \ T) /\ Sum(T \union s) # Sum(T)  OBVIOUS
<1>4. s # {}
    <2>1. T \union {} = T  OBVIOUS
    <2> HIDE DEF Sum
    <2> QED  BY <1>3, <2>1
<1> DEFINE c == OneOf(s)
           r == s \ {c}
<1>5. c \in s /\ c \in D /\ f[c] = 0 /\ c \notin T  BY <1>3, <1>4, OneOfIsMember
<1>6. r \in SUBSET s /\ r # s /\ r \in SUBSET (D \ T)  BY <1>3, <1>5
<1>7. Sum(T \union r) = Sum(T)
    <2>1. r \notin B  BY <1>2, <1>6
    <2> HIDE DEF Sum, r
    <2> QED  BY <1>6, <2>1
<1>8. Sum(T \union s) = f[c] + Sum((T \union s) \ {c})
    <2>1. IsFiniteSet(T \union s) /\ c \in T \union s /\ \A x \in T \union s : f[x] \in Int
        BY <1>3, <1>5, FS_Subset
    <2> HIDE DEF c
    <2> QED  BY <2>1, SumTakesOut
<1>9. (T \union s) \ {c} = T \union r  BY <1>5
<1>10. Sum(T) \in Int  BY SumSolves
<1>11. Sum(T \union s) = Sum(T)
    <2> HIDE DEF Sum, c, r
    <2>1. Sum((T \union s) \ {c}) = Sum(T)  BY <1>7, <1>9
    <2> QED  BY <1>5, <1>8, <1>10, <2>1
<1> QED  BY <1>3, <1>11

\* A sum of natural numbers is one.
LEMMA SumIsNatural ==
    ASSUME NEW D, IsFiniteSet(D), NEW f, \A x \in D : f[x] \in Nat
    PROVE  SumFunctionOnSet(f, D) \in Nat
<1> DEFINE zero == [x \in D |-> 0]
<1>1. \A x \in D : zero[x] = 0 /\ zero[x] \in Int /\ f[x] \in Int /\ zero[x] <= f[x]  OBVIOUS
<1> HIDE DEF zero
<1>2. SumFunctionOnSet(zero, D) <= SumFunctionOnSet(f, D)  BY <1>1, SumIsMonotone
<1>3. SumFunctionOnSet(zero, D) = 0  BY <1>1, SumOfZeros
<1>4. SumFunctionOnSet(f, D) \in Int
    <2>1. D \in SUBSET D  OBVIOUS
    <2> QED  BY <1>1, <2>1, SumSolves
<1> QED  BY <1>2, <1>3, <1>4

-----------------------------------------------------------------------------
(* Folds of sequences *)

\* Max of a set of places is the last of them.
LEMMA MaxIsGreatest ==
    ASSUME NEW n \in Nat, NEW s \in SUBSET (1..n), s # {}
    PROVE  Max(s) \in s /\ \A x \in s : Max(s) >= x
<1> DEFINE T == {k \in Nat : \E x \in s : k = n - x}
<1>1. T \subseteq Nat  OBVIOUS
<1>2. T # {}
    <2>1. PICK x \in s : TRUE  OBVIOUS
    <2>2. n - x \in Nat  OBVIOUS
    <2> QED  BY <2>1, <2>2
<1>3. PICK k \in T : \A m \in T : k <= m
    <2> HIDE DEF T
    <2> QED  BY <1>1, <1>2, LeastNatural
<1>4. PICK x \in s : k = n - x  OBVIOUS
<1>5. ASSUME NEW y \in s  PROVE x >= y
    <2>1. n - y \in T  OBVIOUS
    <2>2. k <= n - y  BY <1>3, <2>1
    <2>3. x \in Int /\ y \in Int  OBVIOUS
    <2> HIDE DEF T
    <2> QED  BY <1>4, <2>2, <2>3
<1> QED  BY <1>4, <1>5 DEF Max

\* A fold that takes the last place out of 1..n leaves 1..(n - 1).
LEMMA PrefixAsSet ==
    ASSUME NEW n \in Nat \ {0}
    PROVE  Max(1..n) = n /\ (1..n) \ {n} = 1..(n - 1) /\ 1..n # {}
<1>1. 1..n \in SUBSET (1..n) /\ n \in 1..n  OBVIOUS
<1>2. Max(1..n) \in 1..n /\ Max(1..n) >= n
    <2>1. n \in Nat  OBVIOUS
    <2> QED  BY <1>1, <2>1, MaxIsGreatest
<1>3. Max(1..n) = n  BY <1>2
<1>4. (1..n) \ {n} = 1..(n - 1)  OBVIOUS
<1>5. 1..n # {}  BY <1>1
<1> QED  BY ONLY <1>3, <1>4, <1>5

\* step says what a fold over the places 1 to n does at each of them.
StepsIn(step, n, V) == \A k \in 1..n, v \in V : step[k][v] \in V

\* g satisfies the equations of the fold, as far as its values are in V.
FoldsBy(g, n, V, base, step) ==
    /\ g[{}] = base
    /\ \A s \in SUBSET (1..n) :
          s # {} /\ g[s \ {Max(s)}] \in V => g[s] = step[Max(s)][g[s \ {Max(s)}]]

\* There is a function that satisfies the equations of a fold.
LEMMA FoldExists ==
    ASSUME NEW n \in Nat, NEW V, NEW base \in V, NEW step, StepsIn(step, n, V)
    PROVE  \E h \in [SUBSET (1..n) -> V] : FoldsBy(h, n, V, base, step)
<1>0. \A k \in 1..n, v \in V : step[k][v] \in V  BY DEF StepsIn
<1> DEFINE D == 1..n
           pick == [s \in SUBSET D |-> Max(s)]
           by == [s \in SUBSET D |-> IF s = {} THEN [v \in V |-> v] ELSE step[Max(s)]]
<1>1. \A s \in SUBSET D : s # {} => Max(s) \in s  BY MaxIsGreatest
<1>2. \A s \in SUBSET D : s # {} => pick[s] \in s  BY <1>1
<1>3. \A s \in SUBSET D, v \in V : by[s][v] \in V
    <2> SUFFICES ASSUME NEW s \in SUBSET D, NEW v \in V  PROVE by[s][v] \in V
        OBVIOUS
    <2>1. CASE s = {}  BY <2>1
    <2>2. CASE s # {}
        <3>1. Max(s) \in D /\ by[s] = step[Max(s)]  BY <1>1, <2>2
        <3> QED  BY <1>0, <3>1
    <2> QED  BY <2>1, <2>2
<1>4. IsFiniteSet(D)  BY FS_Interval
<1>5. PICK h : Solves(h, D, V, base, pick, by)
    <2> HIDE DEF D, pick, by
    <2> QED  BY <1>2, <1>3, <1>4, SetRecursion
<1>6. ASSUME NEW s \in SUBSET D, s # {}
      PROVE  h[s] = step[Max(s)][h[s \ {Max(s)}]]
    <2>1. pick[s] = Max(s) /\ by[s] = step[Max(s)]  BY <1>6
    <2> HIDE DEF D, pick, by
    <2> QED  BY <1>5, <1>6, <2>1 DEF Solves
<1>7. h \in [SUBSET D -> V] /\ h[{}] = base
    <2> HIDE DEF D, pick, by
    <2> QED  BY <1>5 DEF Solves
<1> QED  BY <1>6, <1>7 DEF FoldsBy

\* result comes out of n steps from base, with all partial results in V.
ComesOf(result, n, V, base, step) ==
    \E part \in [0..n -> V] :
        /\ part[0] = base
        /\ \A k \in 1..n : part[k] = step[k][part[k - 1]]
        /\ part[n] = result

\* Whatever satisfies the equations of a fold has a sequence of partial
\* results, each of them a step from the one before.
LEMMA FoldPrefixes ==
    ASSUME NEW n \in Nat, NEW V, NEW base \in V, NEW step, StepsIn(step, n, V),
           NEW g, FoldsBy(g, n, V, base, step)
    PROVE  ComesOf(g[1..n], n, V, base, step)
<1>0. /\ \A k \in 1..n, v \in V : step[k][v] \in V
      /\ g[{}] = base
      /\ \A s \in SUBSET (1..n) :
            s # {} /\ g[s \ {Max(s)}] \in V => g[s] = step[Max(s)][g[s \ {Max(s)}]]
    BY DEF StepsIn, FoldsBy
<1>1. ASSUME NEW k \in 1..n, g[1..(k - 1)] \in V
      PROVE  g[1..k] = step[k][g[1..(k - 1)]] /\ g[1..k] \in V
    <2>0. k \in Nat \ {0}  OBVIOUS
    <2>1. Max(1..k) = k /\ (1..k) \ {k} = 1..(k - 1) /\ 1..k # {}  BY <2>0, PrefixAsSet
    <2>2. 1..k \in SUBSET (1..n)  OBVIOUS
    <2>3. g[1..k] = step[k][g[1..(k - 1)]]  BY <1>0, <1>1, <2>1, <2>2
    <2> QED  BY <1>0, <1>1, <2>3
<1> DEFINE Bad == {k \in 0..n : g[1..k] \notin V}
<1>2. Bad = {}
    <2> SUFFICES ASSUME Bad # {}  PROVE FALSE
        OBVIOUS
    <2>1. Bad \subseteq Nat  OBVIOUS
    <2>2. PICK k \in Bad : \A m \in Bad : k <= m
        <3> HIDE DEF Bad
        <3> QED  BY <2>1, LeastNatural
    <2>3. CASE k = 0
        <3>1. 1..0 = {}  OBVIOUS
        <3> QED  BY <1>0, <2>3, <3>1
    <2>4. CASE k # 0
        <3>1. k \in 1..n /\ k - 1 \in 0..n /\ ~ (k <= k - 1)  BY <2>4
        <3>2. g[1..(k - 1)] \in V  BY <2>2, <3>1
        <3> QED  BY <1>1, <3>1, <3>2
    <2> QED  BY <2>3, <2>4
<1>3. \A k \in 0..n : g[1..k] \in V  BY <1>2
<1> DEFINE part == [k \in 0..n |-> g[1..k]]
<1>4. part \in [0..n -> V]  BY <1>3
<1>5. part[0] = base
    <2>1. 1..0 = {} /\ 0 \in 0..n  OBVIOUS
    <2> QED  BY <1>0, <2>1
<1>6. ASSUME NEW k \in 1..n  PROVE part[k] = step[k][part[k - 1]]
    <2>1. k \in 0..n /\ k - 1 \in 0..n  OBVIOUS
    <2> QED  BY <1>1, <1>3, <2>1
<1>7. part[n] = g[1..n]
    <2>1. n \in 0..n  OBVIOUS
    <2> QED  BY <2>1
<1> HIDE DEF part
<1> QED  BY <1>4, <1>5, <1>6, <1>7 DEF ComesOf

=============================================================================
