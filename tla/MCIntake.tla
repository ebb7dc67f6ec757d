------------------------------ MODULE MCIntake ------------------------------
(* Instances of Intake for TLC. *)
EXTENDS Intake, TLC

CONSTANTS v1, v2, v3, c1, c2, d1, d2

\* The channels share a video, and one lists a video that is configured too.
MCCatalog == c1 :> <<v1, v2>> @@ c2 :> <<v2, v3>>
MCUrls == <<v1>>

\* Two files with one stem.
MCFolder == <<v1, v1, v2>>

\* What an earlier run knows: the first file of v1, the file of v2, and a
\* video of YouTube.
MCKnownFile == v1 :> 1 @@ v2 :> 3 @@ v3 :> 0

\* A first run, and one after a run that was interrupted.
MCKnownRows ==
    {[v \in Video |-> "absent"],
     [v \in Video |-> IF v = v2 THEN "PENDING" ELSE IF v = v3 THEN "PENDING" ELSE "absent"],
     [v \in Video |-> IF v = v2 THEN "FAILED" ELSE IF v = v1 THEN "PENDING" ELSE "RUNNING"]}

=============================================================================
