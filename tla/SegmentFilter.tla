--------------------------- MODULE SegmentFilter ---------------------------
(***************************************************************************)
(* The quality gate of a segment (filter_segment of stages/filter.py).     *)
(*                                                                         *)
(* cfg is FilterConfig: enabled, reject_overlapping_speech, minDuration (0 *)
(* for None), languages ({} for None or none), dnsmos (min_dnsmos_ovr is   *)
(* set).  The scorer is external; what it does is "raises" (no model file, *)
(* unreadable audio), "missing" (no score), "below" or "enough".           *)
(***************************************************************************)
EXTENDS Intervals

CONSTANT NoLanguage     \* the language None

Scores == {"raises", "missing", "below", "enough"}

\* The gates that need no model, in the order of the code.
Gated(segment, cfg, language) ==
    \/ cfg.reject_overlapping_speech /\ segment.overlap
    \/ Length(segment) < cfg.minDuration
    \/ cfg.languages # {} /\ language \notin cfg.languages \union {NoLanguage}

\* filter_segment
FilterSegment(segment, cfg, language, score) ==
    CASE ~ cfg.enabled -> "passed"
      [] cfg.enabled /\ Gated(segment, cfg, language) -> "rejected"
      [] cfg.enabled /\ ~ Gated(segment, cfg, language) ->
            IF ~ cfg.dnsmos \/ score = "enough" THEN "passed"
            ELSE IF score = "raises" THEN "raised" ELSE "rejected"

=============================================================================
