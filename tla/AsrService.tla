----------------------------- MODULE AsrService -----------------------------
(***************************************************************************)
(* What the ASR worker pool promises its callers, with no processes,       *)
(* queues, heartbeats or faults: a coroutine that awaits                   *)
(* AsrWorkerPool.submit is answered exactly once with a result (ok or      *)
(* error), or is told that the pool was stopped.  AsrPool implements it.   *)
(***************************************************************************)

CONSTANT Task           \* every task that may ever be submitted (a fresh uuid4 each)

VARIABLES
    open,               \* FALSE once stop() was entered: self._closed = True
    status              \* the future of each task, as the awaiting coroutine sees it

vars == <<open, status>>

Settled == {"ok", "error", "aborted"}

TypeOK ==
    /\ open \in BOOLEAN
    /\ status \in [Task -> {"new", "waiting"} \union Settled]

Init ==
    /\ open = TRUE
    /\ status = [t \in Task |-> "new"]

Accept(t) ==
    /\ open
    /\ status[t] = "new"
    /\ status' = [status EXCEPT ![t] = "waiting"]
    /\ UNCHANGED open

Answer(t) ==
    /\ status[t] = "waiting"
    /\ \E answer \in {"ok", "error"} : status' = [status EXCEPT ![t] = answer]
    /\ UNCHANGED open

Close ==
    /\ open
    /\ open' = FALSE
    /\ UNCHANGED status

Abort(t) ==
    /\ ~open
    /\ status[t] = "waiting"
    /\ status' = [status EXCEPT ![t] = "aborted"]
    /\ UNCHANGED open

Next ==
    \/ Close
    \/ \E t \in Task : Accept(t) \/ Answer(t) \/ Abort(t)

Spec == Init /\ [][Next]_vars

=============================================================================
