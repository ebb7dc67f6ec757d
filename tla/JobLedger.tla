------------------------------ MODULE JobLedger ------------------------------
(***************************************************************************)
(* What the job store promises about the life of a row, whatever table it  *)
(* is in and however often the program is killed and restarted: a job is   *)
(* registered once, started only when what it needs is done, settled once, *)
(* and leaves DONE or FAILED by a reset alone.  Pipeline implements it.    *)
(***************************************************************************)

CONSTANTS
    Job,            \* every row the store may hold
    Needs           \* for each job the jobs that are DONE before it starts

VARIABLE status

TypeOK == status \in [Job -> {"absent", "PENDING", "RUNNING", "DONE", "FAILED"}]

Init == status = [j \in Job |-> "absent"]

Register(j) ==
    /\ status[j] = "absent"
    /\ status' = [status EXCEPT ![j] = "PENDING"]

Start(j) ==
    /\ status[j] = "PENDING"
    /\ \A n \in Needs[j] : status[n] = "DONE"
    /\ status' = [status EXCEPT ![j] = "RUNNING"]

Settle(j) ==
    \/ /\ status[j] = "RUNNING"
       /\ \E outcome \in {"DONE", "FAILED"} : status' = [status EXCEPT ![j] = outcome]
    \/ /\ status[j] = "PENDING"     \* a download that failed
       /\ status' = [status EXCEPT ![j] = "FAILED"]

\* recover_stale_running: every row at once.
Recover ==
    status' = [j \in Job |-> IF status[j] = "RUNNING" THEN "PENDING" ELSE status[j]]

\* reset_video, reset_all: a set of rows at once.
Reset ==
    \E gone \in SUBSET Job :
        status' = [j \in Job |-> IF j \in gone THEN "absent" ELSE status[j]]

Next ==
    \/ \E j \in Job : Register(j) \/ Start(j) \/ Settle(j)
    \/ Recover \/ Reset

Spec == Init /\ [][Next]_status

=============================================================================
