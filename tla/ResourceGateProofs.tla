------------------------ MODULE ResourceGateProofs ------------------------
(***************************************************************************)
(* Theorems about ResourceGate, for every set of callers and pools, every  *)
(* cost and every pressure from outside: type correctness, that a pool's   *)
(* counter is the sum of its open reservations, and that the memory tasks  *)
(* allocate stays within the budget.                                       *)
(***************************************************************************)
EXTENDS ResourceGate, FoldProofs

-----------------------------------------------------------------------------
(* The inductive invariant. *)

\* The reservations that are open in a pool.
Holders(p) == {c \in Sharing(p) : state[c] = "holding"}

\* Only a caller whose pool exists gets past acquire's first try.
PoolIsKnown == \A c \in Caller : state[c] \in {"waiting", "holding"} => pool[c] \in Pool

\* Only a task that holds its reservation has memory, and no more than that.
UsesWhatItHolds ==
    \A c \in Caller : used[c] # 0 => state[c] = "holding" /\ used[c] = cost[c]

WithinBudget == \A p \in Pool : reserved[p] <= Budget(p)

GateInv ==
    /\ TypeOK
    /\ PoolIsKnown
    /\ UsesWhatItHolds
    /\ NothingLeaks
    /\ WithinBudget

-----------------------------------------------------------------------------

LEMMA BudgetIsNatural == \A p \in Pool : Budget(p) \in Nat
BY GateAssumption DEF Budget, PlainMax

LEMMA EstimateIsNatural ==
    ASSUME NEW s \in Stage, NEW d \in Duration  PROVE EstimateCost(s, d) \in Nat
<1>1. PlainMax(d, 0) \in Nat  BY GateAssumption DEF PlainMax
<1>2. \A m, n \in Nat : m * n \in Nat  OBVIOUS
<1> QED  BY <1>1, <1>2, GateAssumption DEF EstimateCost

LEMMA CallersAreFinite ==
    ASSUME NEW S \in SUBSET Caller  PROVE IsFiniteSet(S)
BY GateAssumption, FS_Subset

LEMMA TypeOKInit == Init => TypeOK
BY DEF Init, TypeOK

LEMMA TypeOKStep == TypeOK /\ [Next]_vars => TypeOK'
<1> SUFFICES ASSUME TypeOK, [Next]_vars  PROVE TypeOK'
    OBVIOUS
<1> USE DEF TypeOK
<1>1. ASSUME NEW c \in Caller, Acquire(c)  PROVE TypeOK'
    BY <1>1, EstimateIsNatural DEF Acquire
<1>2. ASSUME NEW c \in Caller, TryReserve(c)  PROVE TypeOK'
    <2>1. reserved' \in [Pool -> Nat]
        <3>1. \A m, n \in Nat : m + n \in Nat  OBVIOUS
        <3> QED  BY <1>2, <3>1 DEF TryReserve
    <2> QED  BY <1>2, <2>1 DEF TryReserve
<1>3. ASSUME NEW c \in Caller, Allocate(c)  PROVE TypeOK'
    BY <1>3 DEF Allocate
<1>4. ASSUME NEW c \in Caller, Release(c)  PROVE TypeOK'
    <2>1. reserved' \in [Pool -> Nat]
        <3>1. \A m, n \in Nat : PlainMax(m - n, 0) \in Nat  BY DEF PlainMax
        <3> QED  BY <1>4, <3>1 DEF Release
    <2> QED  BY <1>4, <2>1 DEF Release
<1>5. ASSUME NEW p \in Pool, OutsideChanges(p)  PROVE TypeOK'
    BY <1>5 DEF OutsideChanges
<1>6. CASE UNCHANGED vars  BY <1>6 DEF vars
<1> QED  BY <1>1, <1>2, <1>3, <1>4, <1>5, <1>6 DEF Next

-----------------------------------------------------------------------------

LEMMA HoldersAreFinite ==
    ASSUME TypeOK, NEW p \in Pool
    PROVE  /\ IsFiniteSet(Holders(p)) /\ IsFiniteSet(Sharing(p))
           /\ Holders(p) \in SUBSET Caller /\ Sharing(p) \in SUBSET Caller
           /\ \A c \in Caller : cost[c] \in Nat /\ cost[c] \in Int
           /\ \A c \in Caller : used[c] \in Nat /\ used[c] \in Int
<1>1. Holders(p) \in SUBSET Caller /\ Sharing(p) \in SUBSET Caller  BY DEF Holders, Sharing
<1> QED  BY <1>1, CallersAreFinite DEF TypeOK

\* If neither who holds nor what holders cost changes, the sum is the same.
LEMMA SameHolders ==
    ASSUME TypeOK, NothingLeaks, NEW p \in Pool,
           Holders(p)' = Holders(p), reserved'[p] = reserved[p],
           \A c \in Holders(p) : cost'[c] = cost[c]
    PROVE  reserved'[p] = SumFunctionOnSet(cost', Holders(p)')
<1>1. SumFunctionOnSet(cost', Holders(p)) = SumFunctionOnSet(cost, Holders(p))
    BY HoldersAreFinite, SumOfTheSame
<1> QED  BY <1>1 DEF NothingLeaks, Holders

LEMMA NothingLeaksStep == GateInv /\ [Next]_vars => NothingLeaks'
<1> SUFFICES ASSUME GateInv, [Next]_vars, NEW p \in Pool
             PROVE  reserved'[p] = SumFunctionOnSet(cost', Holders(p)')
    BY DEF NothingLeaks, Holders
<1>a. TypeOK /\ PoolIsKnown /\ NothingLeaks  BY DEF GateInv
<1>1. ASSUME NEW c \in Caller, Acquire(c)
      PROVE  reserved'[p] = SumFunctionOnSet(cost', Holders(p)')
    <2>1. Holders(p)' = Holders(p) /\ c \notin Holders(p)
        BY <1>a, <1>1 DEF Acquire, Holders, Sharing, TypeOK
    <2>2. \A d \in Holders(p) : cost'[d] = cost[d]
        BY <1>a, <1>1, <2>1 DEF Acquire, Holders, Sharing, TypeOK
    <2>3. reserved'[p] = reserved[p]  BY <1>1 DEF Acquire
    <2> QED  BY <1>a, <2>1, <2>2, <2>3, SameHolders
<1>2. ASSUME NEW c \in Caller, TryReserve(c)
      PROVE  reserved'[p] = SumFunctionOnSet(cost', Holders(p)')
    <2>1. CASE pool[c] = p
        <3>1. /\ Holders(p)' = Holders(p) \union {c} /\ c \notin Holders(p)
              /\ cost' = cost /\ reserved'[p] = reserved[p] + cost[c]
            BY <1>a, <1>2, <2>1 DEF TryReserve, Holders, Sharing, TypeOK
        <3> DEFINE H == Holders(p) \union {c}
        <3>2. IsFiniteSet(H) /\ c \in H /\ \A d \in H : cost[d] \in Int
            BY <1>a, HoldersAreFinite, CallersAreFinite
        <3>3. H \ {c} = Holders(p)  BY <3>1
        <3>4. SumFunctionOnSet(cost, H) = cost[c] + SumFunctionOnSet(cost, H \ {c})
            <4> HIDE DEF H
            <4> QED  BY <3>2, SumTakesOut
        <3>5. reserved[p] = SumFunctionOnSet(cost, Holders(p))  BY <1>a DEF NothingLeaks, Holders
        <3>6. reserved[p] \in Int /\ cost[c] \in Int  BY <1>a DEF TypeOK
        <3>7. SumFunctionOnSet(cost, H) = cost[c] + reserved[p]  BY <3>3, <3>4, <3>5
        <3> QED  BY <3>1, <3>6, <3>7
    <2>2. CASE pool[c] # p
        <3>1. Holders(p)' = Holders(p) /\ cost' = cost /\ reserved'[p] = reserved[p]
            BY <1>a, <1>2, <2>2 DEF TryReserve, Holders, Sharing, TypeOK
        <3> QED  BY <1>a, <3>1, SameHolders
    <2> QED  BY <2>1, <2>2
<1>3. ASSUME NEW c \in Caller, Allocate(c)
      PROVE  reserved'[p] = SumFunctionOnSet(cost', Holders(p)')
    <2>1. Holders(p)' = Holders(p) /\ cost' = cost /\ reserved'[p] = reserved[p]
        BY <1>3 DEF Allocate, Holders, Sharing
    <2> QED  BY <1>a, <2>1, SameHolders
<1>4. ASSUME NEW c \in Caller, Release(c)
      PROVE  reserved'[p] = SumFunctionOnSet(cost', Holders(p)')
    <2>1. CASE state[c] = "holding" /\ pool[c] = p
        <3>1. /\ Holders(p)' = Holders(p) \ {c} /\ c \in Holders(p) /\ cost' = cost
              /\ reserved'[p] = PlainMax(reserved[p] - cost[c], 0)
            BY <1>a, <1>4, <2>1 DEF Release, Holders, Sharing, TypeOK
        <3>2. SumFunctionOnSet(cost, Holders(p)) =
                cost[c] + SumFunctionOnSet(cost, Holders(p) \ {c})
            BY <1>a, <3>1, HoldersAreFinite, SumTakesOut
        <3>3. SumFunctionOnSet(cost, Holders(p) \ {c}) \in Nat
            <4> DEFINE H == Holders(p) \ {c}
            <4>1. H \in SUBSET Caller /\ \A d \in H : cost[d] \in Nat  BY <1>a, HoldersAreFinite
            <4>2. IsFiniteSet(H)  BY <4>1, CallersAreFinite
            <4> HIDE DEF H
            <4>3. SumFunctionOnSet(cost, H) \in Nat  BY <4>1, <4>2, SumIsNatural
            <4> QED  BY <4>3 DEF H
        <3>4. reserved[p] = SumFunctionOnSet(cost, Holders(p))  BY <1>a DEF NothingLeaks, Holders
        <3>5. cost[c] \in Nat  BY <1>a DEF TypeOK
        <3>6. \A m, n \in Nat : PlainMax((m + n) - m, 0) = n  BY DEF PlainMax
        <3>7. PlainMax(reserved[p] - cost[c], 0) = SumFunctionOnSet(cost, Holders(p) \ {c})
            BY <3>2, <3>3, <3>4, <3>5, <3>6
        <3> QED  BY <3>1, <3>7
    <2>2. CASE ~ (state[c] = "holding" /\ pool[c] = p)
        <3>1. Holders(p)' = Holders(p) /\ cost' = cost
            BY <1>a, <1>4, <2>2 DEF Release, Holders, Sharing, TypeOK
        <3>2. reserved'[p] = reserved[p]
            BY <1>a, <1>4, <2>2 DEF Release, TypeOK
        <3> QED  BY <1>a, <3>1, <3>2, SameHolders
    <2> QED  BY <2>1, <2>2
<1>5. ASSUME NEW q \in Pool, OutsideChanges(q)
      PROVE  reserved'[p] = SumFunctionOnSet(cost', Holders(p)')
    <2>1. Holders(p)' = Holders(p) /\ cost' = cost /\ reserved'[p] = reserved[p]
        BY <1>5 DEF OutsideChanges, Holders, Sharing
    <2> QED  BY <1>a, <2>1, SameHolders
<1>6. CASE UNCHANGED vars
    <2>1. Holders(p)' = Holders(p) /\ cost' = cost /\ reserved'[p] = reserved[p]
        BY <1>6 DEF vars, Holders, Sharing
    <2> QED  BY <1>a, <2>1, SameHolders
<1> QED  BY <1>1, <1>2, <1>3, <1>4, <1>5, <1>6 DEF Next

LEMMA GateInvInit == Init => GateInv
<1> SUFFICES ASSUME Init  PROVE GateInv
    OBVIOUS
<1>1. TypeOK  BY TypeOKInit
<1>2. PoolIsKnown  BY DEF Init, PoolIsKnown
<1>3. UsesWhatItHolds  BY DEF Init, UsesWhatItHolds
<1>4. NothingLeaks
    <2>1. ASSUME NEW p \in Pool  PROVE reserved[p] = SumFunctionOnSet(cost, Holders(p))
        <3>1. \A c \in Holders(p) : cost[c] = 0  BY DEF Init, Holders, Sharing
        <3>2. SumFunctionOnSet(cost, Holders(p)) = 0  BY <1>1, <3>1, HoldersAreFinite, SumOfZeros
        <3> QED  BY <3>2 DEF Init
    <2> QED  BY <2>1 DEF NothingLeaks, Holders
<1>5. WithinBudget  BY BudgetIsNatural DEF Init, WithinBudget
<1> QED  BY <1>1, <1>2, <1>3, <1>4, <1>5 DEF GateInv

LEMMA GateInvStep == GateInv /\ [Next]_vars => GateInv'
<1> SUFFICES ASSUME GateInv, [Next]_vars  PROVE GateInv'
    OBVIOUS
<1>a. TypeOK /\ PoolIsKnown /\ UsesWhatItHolds /\ NothingLeaks /\ WithinBudget  BY DEF GateInv
<1>1. TypeOK'  BY <1>a, TypeOKStep
<1>2. NothingLeaks'  BY NothingLeaksStep
<1>b. \A q \in Pool : Budget(q)' = Budget(q)  BY DEF Budget
<1> DEFINE Rest == PoolIsKnown' /\ UsesWhatItHolds' /\ WithinBudget'
<1>3. ASSUME NEW c \in Caller, Acquire(c)  PROVE Rest
    <2>1. PoolIsKnown'  BY <1>a, <1>3 DEF PoolIsKnown, Acquire, TypeOK
    <2>2. UsesWhatItHolds'  BY <1>a, <1>3 DEF UsesWhatItHolds, Acquire, TypeOK
    <2>3. WithinBudget'  BY <1>a, <1>b, <1>3 DEF WithinBudget, Acquire
    <2> QED  BY <2>1, <2>2, <2>3
<1>4. ASSUME NEW c \in Caller, TryReserve(c)  PROVE Rest
    <2>1. PoolIsKnown'  BY <1>a, <1>4 DEF PoolIsKnown, TryReserve, TypeOK
    <2>2. UsesWhatItHolds'  BY <1>a, <1>4 DEF UsesWhatItHolds, TryReserve, TypeOK
    <2>3. WithinBudget'  BY <1>a, <1>b, <1>4 DEF WithinBudget, TryReserve, Admissible, TypeOK
    <2> QED  BY <2>1, <2>2, <2>3
<1>5. ASSUME NEW c \in Caller, Allocate(c)  PROVE Rest
    <2>1. PoolIsKnown'  BY <1>a, <1>5 DEF PoolIsKnown, Allocate
    <2>2. UsesWhatItHolds'  BY <1>a, <1>5 DEF UsesWhatItHolds, Allocate, TypeOK
    <2>3. WithinBudget'  BY <1>a, <1>b, <1>5 DEF WithinBudget, Allocate
    <2> QED  BY <2>1, <2>2, <2>3
<1>6. ASSUME NEW c \in Caller, Release(c)  PROVE Rest
    <2>1. PoolIsKnown'  BY <1>a, <1>6 DEF PoolIsKnown, Release, TypeOK
    <2>2. UsesWhatItHolds'  BY <1>a, <1>6 DEF UsesWhatItHolds, Release, TypeOK
    <2>3. WithinBudget'
        <3>1. \A m, n, b \in Nat : m <= b => PlainMax(m - n, 0) <= b  BY DEF PlainMax
        <3>2. ASSUME NEW q \in Pool  PROVE reserved'[q] <= Budget(q)
            <4>1. reserved[q] <= Budget(q)  BY <1>a DEF WithinBudget
            <4>2. reserved[q] \in Nat /\ cost[c] \in Nat  BY <1>a DEF TypeOK
            <4>3. reserved'[q] = reserved[q] \/ reserved'[q] = PlainMax(reserved[q] - cost[c], 0)
                BY <1>a, <1>6 DEF Release, TypeOK
            <4> QED  BY <3>1, <4>1, <4>2, <4>3, BudgetIsNatural
        <3> QED  BY <1>b, <3>2 DEF WithinBudget
    <2> QED  BY <2>1, <2>2, <2>3
<1>7. ASSUME NEW p \in Pool, OutsideChanges(p)  PROVE Rest
    BY <1>a, <1>b, <1>7 DEF PoolIsKnown, UsesWhatItHolds, WithinBudget, OutsideChanges
<1>8. ASSUME UNCHANGED vars  PROVE Rest
    BY <1>a, <1>b, <1>8 DEF PoolIsKnown, UsesWhatItHolds, WithinBudget, vars
<1>9. Rest
    <2> HIDE DEF Rest
    <2> QED  BY <1>3, <1>4, <1>5, <1>6, <1>7, <1>8 DEF Next
<1> QED  BY <1>1, <1>2, <1>9 DEF GateInv

\* What the tasks of a pool have allocated is within their reservations.
LEMMA GateInvBounds == GateInv => MemoryBounded
<1> SUFFICES ASSUME GateInv, NEW p \in Pool
             PROVE  SumFunctionOnSet(used, Sharing(p)) <= reserved[p] /\ reserved[p] <= Budget(p)
    BY DEF MemoryBounded
<1>a. TypeOK /\ UsesWhatItHolds /\ NothingLeaks /\ WithinBudget  BY DEF GateInv
<1>1. Holders(p) \in SUBSET Sharing(p)  BY DEF Holders
<1>2. \A c \in Sharing(p) \ Holders(p) : used[c] = 0
    BY <1>a DEF UsesWhatItHolds, Holders, Sharing
<1>3. \A c \in Sharing(p) : used[c] \in Int  BY <1>a, HoldersAreFinite
<1>4. SumFunctionOnSet(used, Sharing(p)) = SumFunctionOnSet(used, Holders(p))
    BY <1>a, <1>1, <1>2, <1>3, HoldersAreFinite, SumOverSupport
<1>5. \A c \in Holders(p) : used[c] \in Int /\ cost[c] \in Int /\ used[c] <= cost[c]
    <2>1. ASSUME NEW c \in Holders(p)  PROVE used[c] <= cost[c]
        <3>1. c \in Caller  BY DEF Holders, Sharing
        <3>2. used[c] \in Nat /\ cost[c] \in Nat  BY <1>a, <3>1 DEF TypeOK
        <3>3. used[c] = 0 \/ used[c] = cost[c]  BY <1>a, <3>1 DEF UsesWhatItHolds
        <3> QED  BY <3>2, <3>3
    <2> QED  BY <1>a, <2>1, HoldersAreFinite
<1>6. SumFunctionOnSet(used, Holders(p)) <= SumFunctionOnSet(cost, Holders(p))
    BY <1>a, <1>5, HoldersAreFinite, SumIsMonotone
<1>7. reserved[p] = SumFunctionOnSet(cost, Holders(p))  BY <1>a DEF NothingLeaks, Holders
<1> QED  BY <1>a, <1>4, <1>6, <1>7 DEF WithinBudget

\* The invariant holds of the gate, whatever tasks there are, whatever they
\* cost and whatever others take of the machine.
THEOREM GateInvariant == Spec => []GateInv
BY GateInvInit, GateInvStep, PTL DEF Spec

\* The counters stay numbers and a caller stays in one of the states of its
\* reservation (resources.py 44-102).
THEOREM GateTypeOK == Spec => []TypeOK
<1>1. GateInv => TypeOK  BY DEF GateInv
<1> QED  BY GateInvariant, <1>1, PTL

\* resources.py 73-102: the counter of a pool is the sum of its open
\* reservations; no admission and no release, first or repeated, loses a
\* part.
THEOREM GateNothingLeaks == Spec => []NothingLeaks
<1>1. GateInv => NothingLeaks  BY DEF GateInv
<1> QED  BY GateInvariant, <1>1, PTL

\* resources.py 81-96: what admitted tasks allocate is reserved, and what is
\* reserved fits in the budget, in each pool and at every moment.
THEOREM GateMemoryBounded == Spec => []MemoryBounded
BY GateInvariant, GateInvBounds, PTL

=============================================================================
