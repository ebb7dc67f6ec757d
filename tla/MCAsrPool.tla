----------------------------- MODULE MCAsrPool -----------------------------
(***************************************************************************)
(* Instances of AsrPool for TLC: two workers, a diarize task and an asr    *)
(* task.                                                                   *)
(***************************************************************************)
EXTENDS AsrPool

CONSTANTS w1, w2, diarize1, asr1

\* A bound on the states TLC looks at: one task at most where a fault has hit that
\* the parent cannot attribute.  Submitting and failing are what nothing obliges
\* anyone to do, so every behaviour that is fair within the bound is fair without it.
Bounded ==
    AllAttributed \/ Cardinality({t \in Task : fut[t] # "new"}) <= 1

=============================================================================
