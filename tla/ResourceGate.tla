---------------------------- MODULE ResourceGate ----------------------------
(***************************************************************************)
(* Admission control (resources.py): coroutines that acquire an estimated  *)
(* amount of RAM or of one GPU's memory, poll until it is admitted, use it *)
(* and release it.  A step of a coroutine is atomic; between two polls     *)
(* anything may happen, and what a task was admitted for it only allocates *)
(* later.                                                                  *)
(*                                                                         *)
(* Memory is counted in small units.  The machine is part of the model:    *)
(* what the OS reports as available is the total less what processes       *)
(* outside the pipeline hold, less what admitted tasks have allocated.     *)
(***************************************************************************)
EXTENDS Naturals, Integers, FiniteSets, Functions

CONSTANTS
    Caller,         \* the coroutines that call acquire, each once
    Pool,           \* the pools that are configured: RAM, one per GPU id
    AnyPool,        \* ... and the GPU ids a caller might name
    Stage, Duration,    \* what a caller asks for
    CostPerSecond,  \* cost_per_audio_second, for some of the stages
    Total,          \* memory of the machine, for each pool
    Floor,          \* ram_floor_mb, vram_floor_mb
    BudgetOverride, \* ram_budget_mb, vram_budget_mb, or NoOverride
    NoOverride,
    Outside         \* how much processes outside the pipeline may hold

ASSUME GateAssumption ==
    /\ IsFiniteSet(Caller)
    /\ Pool \subseteq AnyPool
    /\ DOMAIN CostPerSecond \subseteq Stage
    /\ \A s \in DOMAIN CostPerSecond : CostPerSecond[s] \in Nat
    /\ Duration \subseteq Int
    /\ Total \in [Pool -> Nat]
    /\ Floor \in Nat
    /\ NoOverride \notin Nat
    /\ BudgetOverride \in Nat \union {NoOverride}
    /\ Outside \subseteq Nat

VARIABLES
    reserved,       \* _ram_reserved, _vram_reserved
    state,          \* where each caller is
    pool, cost,     \* what its acquire is about
    used,           \* what it has allocated
    outside         \* memory held outside the pipeline

vars == <<reserved, state, pool, cost, used, outside>>

PlainMax(a, b) == IF a >= b THEN a ELSE b

Budget(p) ==
    IF BudgetOverride # NoOverride THEN BudgetOverride ELSE PlainMax(Total[p] - Floor, 0)

\* A stage without a calibrated constant costs nothing.
EstimateCost(s, d) ==
    IF s \in DOMAIN CostPerSecond THEN CostPerSecond[s] * PlainMax(d, 0) ELSE 0

Sharing(p) == {c \in Caller : pool[c] = p}
Available(p) == Total[p] - outside[p] - SumFunctionOnSet(used, Sharing(p))

TypeOK ==
    /\ reserved \in [Pool -> Nat]
    /\ state \in [Caller -> {"idle", "waiting", "holding", "released", "raised"}]
    /\ pool \in [Caller -> AnyPool]
    /\ cost \in [Caller -> Nat]
    /\ used \in [Caller -> Nat]
    /\ outside \in [Pool -> Outside]

Init ==
    /\ reserved = [p \in Pool |-> 0]
    /\ state = [c \in Caller |-> "idle"]
    /\ pool \in [Caller -> AnyPool]
    /\ cost = [c \in Caller |-> 0]
    /\ used = [c \in Caller |-> 0]
    /\ outside \in [Pool -> Outside]

\* acquire up to its loop; an unknown GPU id raises on the first try.
Acquire(c) ==
    /\ state[c] = "idle"
    /\ \E s \in Stage, d \in Duration : cost' = [cost EXCEPT ![c] = EstimateCost(s, d)]
    /\ state' = [state EXCEPT ![c] = IF pool[c] \in Pool THEN "waiting" ELSE "raised"]
    /\ UNCHANGED <<reserved, pool, used, outside>>

\* Mutant of Admissible: what the task itself would add is left out.
AdmissibleNow(p, amount) == reserved[p] <= Budget(p) /\ Available(p) >= Floor

\* _try_reserve
Admissible(p, amount) ==
    /\ reserved[p] + amount <= Budget(p)
    /\ Available(p) - amount >= Floor

TryReserve(c) ==
    /\ state[c] = "waiting"
    /\ Admissible(pool[c], cost[c])
    /\ reserved' = [reserved EXCEPT ![pool[c]] = @ + cost[c]]
    /\ state' = [state EXCEPT ![c] = "holding"]
    /\ UNCHANGED <<pool, cost, used, outside>>

Allocate(c) ==
    /\ state[c] = "holding"
    /\ used[c] # cost[c]
    /\ used' = [used EXCEPT ![c] = cost[c]]
    /\ UNCHANGED <<reserved, state, pool, cost, outside>>

\* Mutants of Release: no _released flag; the reservation is kept.
ReleaseTwice(c) ==
    /\ state[c] \in {"holding", "released"}
    /\ reserved' = [reserved EXCEPT ![pool[c]] = PlainMax(@ - cost[c], 0)]
    /\ state' = [state EXCEPT ![c] = "released"]
    /\ used' = [used EXCEPT ![c] = 0]
    /\ UNCHANGED <<pool, cost, outside>>

ReleaseNothing(c) ==
    /\ state[c] \in {"holding", "released"}
    /\ state' = [state EXCEPT ![c] = "released"]
    /\ used' = [used EXCEPT ![c] = 0]
    /\ UNCHANGED <<reserved, pool, cost, outside>>

\* The task is over, its memory is free; release() may be called once more.
Release(c) ==
    /\ state[c] \in {"holding", "released"}
    /\ reserved' = IF state[c] = "holding"
                   THEN [reserved EXCEPT ![pool[c]] = PlainMax(@ - cost[c], 0)]
                   ELSE reserved
    /\ state' = [state EXCEPT ![c] = "released"]
    /\ used' = [used EXCEPT ![c] = 0]
    /\ UNCHANGED <<pool, cost, outside>>

OutsideChanges(p) ==
    /\ \E amount \in Outside : outside' = [outside EXCEPT ![p] = amount]
    /\ UNCHANGED <<reserved, state, pool, cost, used>>

Next ==
    \/ \E c \in Caller : Acquire(c) \/ TryReserve(c) \/ Allocate(c) \/ Release(c)
    \/ \E p \in Pool : OutsideChanges(p)

\* A caller keeps polling and every admitted task ends.
Fairness == \A c \in Caller : WF_vars(TryReserve(c)) /\ WF_vars(Release(c))

Spec == Init /\ [][Next]_vars
FairSpec == Spec /\ Fairness

-----------------------------------------------------------------------------
(* Properties *)

\* What the admitted tasks allocate never exceeds what is reserved for them,
\* and that never exceeds the budget: no reservation is freed twice, none is
\* admitted past the limit, and the clamp of _release hides nothing.
MemoryBounded ==
    \A p \in Pool :
        /\ SumFunctionOnSet(used, Sharing(p)) <= reserved[p]
        /\ reserved[p] <= Budget(p)

\* Each pool's counter is the sum of its open reservations, so that when the
\* last one is released the whole budget is free again.
NothingLeaks ==
    \A p \in Pool :
        reserved[p] = SumFunctionOnSet(cost, {c \in Sharing(p) : state[c] = "holding"})

\* If the pressure from outside goes away for good, every request that fits
\* in the budget at all is admitted.
FittingIsAdmitted ==
    (<>[](\A p \in Pool : outside[p] = 0)) =>
        \A c \in Caller :
            (state[c] = "waiting" /\ cost[c] <= Budget(pool[c])) ~> (state[c] = "holding")

=============================================================================
