------------------------------ MODULE MCOutput ------------------------------
(* Instances of Output for TLC. *)
EXTENDS Output

MCSegment == {0, 1}

=============================================================================
