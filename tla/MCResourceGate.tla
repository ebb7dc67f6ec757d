--------------------------- MODULE MCResourceGate ---------------------------
(***************************************************************************)
(* Instances of ResourceGate for TLC: three coroutines, a RAM pool, GPU 0  *)
(* and a GPU id that is not configured, six units of memory of which one   *)
(* is the floor.                                                           *)
(***************************************************************************)
EXTENDS ResourceGate, TLC

CONSTANTS c1, c2, c3, ram, gpu0, gpu9

\* "diarize" has no constant of its own: the key of the table is another.
Rates == "asr" :> 2 @@ "vad" :> 1
SixUnits == [p \in Pool |-> 6]
SomeDurations == {-1, 1, 3}

=============================================================================
