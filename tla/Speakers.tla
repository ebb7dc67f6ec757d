----------------------------- MODULE Speakers ------------------------------
(***************************************************************************)
(* Who says a word, and whether somebody else talks at the same time       *)
(* (compute_overlap_regions, word_in_overlap and assign_speakers of        *)
(* workers/asr_worker.py).  A turn is a span with a speaker; the turns of  *)
(* one diarization come in the order in which it lists them and may        *)
(* overlap.                                                                *)
(***************************************************************************)
EXTENDS Intervals, Sequences, SequencesExt

CONSTANT NoSpeaker      \* the speaker None

\* All points where a turn begins or ends, in order.
TurnPoints(turns) ==
    InOrder(UNION {{turns[i].start, turns[i].end} : i \in DOMAIN turns})

\* The speakers of the cell between the point a and the next one.
ActiveSpeakers(turns, a) ==
    {turns[i].speaker : i \in {j \in DOMAIN turns : turns[j].start <= a /\ a < turns[j].end}}

\* Mutant of OverlapRegions: a speaker who overlaps with itself counts as two.
OverlapRegionsPerTurn(turns) ==
    LET points == TurnPoints(turns)
        Turns(a) == {j \in DOMAIN turns : turns[j].start <= a /\ a < turns[j].end}
    IN  {Span(points[k], points[k + 1]) :
            k \in {c \in 1..Len(points) - 1 : Cardinality(Turns(points[c])) >= 2}}

\* compute_overlap_regions: from where the sweep line first meets two
\* speakers to the next cell where it does not.
OverlapRegions(turns) ==
    LET points == TurnPoints(turns)
        crowded == {k \in 1..Len(points) - 1 :
                        Cardinality(ActiveSpeakers(turns, points[k])) >= 2}
        \* The first point behind a that no crowded cell begins at.
        end(a) == CHOOSE b \in DOMAIN points :
                      a < b /\ b \notin crowded /\ a..b - 1 \subseteq crowded
    IN  {Span(points[a], points[end(a)]) : a \in {k \in crowded : k - 1 \notin crowded}}

\* word_in_overlap
WordInOverlap(span, spans) == \E region \in spans : Shared(span, region) > 0

\* The loop of assign_speakers keeps the first turn of the largest overlap.
BestTurn(span, turns) ==
    LET better(best, i) ==
            IF Shared(span, turns[i]) > (IF best = 0 THEN 0 ELSE Shared(span, turns[best]))
            THEN i ELSE best
    IN  FoldLeft(better, 0, [i \in DOMAIN turns |-> i])

\* min(turns, key=...), which also keeps the first; middles are doubled.
NearestTurn(span, turns) ==
    LET away(i) == Distance(turns[i].start + turns[i].end, span.start + span.end)
        nearer(best, i) == IF away(i) < away(best) THEN i ELSE best
    IN  FoldLeft(nearer, 1, [i \in DOMAIN turns |-> i])

\* assign_speakers for one word.
AssignSpeaker(span, turns, fillNearest) ==
    LET best == BestTurn(span, turns) IN
    IF turns = <<>> THEN NoSpeaker
    ELSE IF best # 0 THEN turns[best].speaker
    ELSE IF fillNearest THEN turns[NearestTurn(span, turns)].speaker
    ELSE NoSpeaker

=============================================================================
