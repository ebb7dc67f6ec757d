---------------------------- MODULE MCPipeline ----------------------------
(***************************************************************************)
(* Instances of Pipeline for TLC.                                          *)
(***************************************************************************)
EXTENDS Pipeline, TLC

CONSTANTS v1, v2

\* A video of two super-chunks beside one with no speech.
TwoVideos == {v1, v2}
SpeechAndSilence == v1 :> {0, 1} @@ v2 :> {}
OneSegment == v1 :> {0} @@ v2 :> {}

\* The first of them alone.
OneVideo == {v1}
TwoParts == v1 :> {0, 1}

=============================================================================
