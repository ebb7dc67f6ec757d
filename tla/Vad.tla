-------------------------------- MODULE Vad --------------------------------
(***************************************************************************)
(* Coarse segmentation (stages/vad.py): the speech regions of a recording  *)
(* are merged greedily into super-chunks, a region longer than the cap is  *)
(* split into equal pieces, and every inner boundary is padded.            *)
(*                                                                         *)
(* Time is counted in units so fine that the equal pieces of any span that *)
(* occurs are whole numbers of them; regions begin and end on a grid.      *)
(* Silero-VAD itself is the environment: it reports regions in order,      *)
(* which may touch, one more at each step of the model, so that every      *)
(* state is one input of coarse_segment. The duration is measured by       *)
(* someone else and may fall short of the speech that was found.           *)
(***************************************************************************)
EXTENDS Intervals, Sequences, SequencesExt

CONSTANTS
    MaxSuperchunk,      \* max_superchunk_s; 0 (or less, which acts alike) never splits
    Overlap,            \* overlap_s
    Grid,               \* units between two points of the grid
    Horizon             \* bound on the grid points of a recording

ASSUME VadAssumption ==
    /\ MaxSuperchunk \in Nat
    /\ Overlap \in Nat
    /\ Grid \in Nat \ {0}
    /\ Horizon \in Nat

VARIABLES
    regions,            \* what the speech detector reports
    duration            \* duration_s of the standardized file

vars == <<regions, duration>>

\* Mutant of MergeRegion: the cap itself is too long.
MergeRegionStrict(chunks, region) ==
    IF chunks # <<>> /\ region.end - Last(chunks).start < MaxSuperchunk
    THEN Append(Front(chunks), Span(Last(chunks).start, region.end))
    ELSE Append(chunks, Span(region.start, region.end))

\* The loop over regions: extend the current chunk or close it.
MergeRegion(chunks, region) ==
    IF chunks # <<>> /\ region.end - Last(chunks).start <= MaxSuperchunk
    THEN Append(Front(chunks), Span(Last(chunks).start, region.end))
    ELSE Append(chunks, Span(region.start, region.end))

Merged(rs) == FoldLeft(MergeRegion, <<>>, rs)

\* Mutant of Pieces: a remainder is dropped.
PiecesFloor(span) == Greatest(Length(span) \div MaxSuperchunk, 1)

\* math.ceil(span / max_superchunk_s)
Pieces(span) == (Length(span) + MaxSuperchunk - 1) \div MaxSuperchunk

\* The unit of time is fine enough.
ASSUME UnitAssumption == MaxSuperchunk > 0 =>
    \A k \in 1..Horizon : (Grid * k) % Pieces(Span(0, Grid * k)) = 0

SplitSpan(span) ==
    LET n == Pieces(span) IN
    IF Length(span) <= MaxSuperchunk \/ MaxSuperchunk <= 0 THEN <<span>>
    ELSE [i \in 1..n |-> Span(span.start + (i - 1) * (Length(span) \div n),
                              IF i = n THEN span.end
                              ELSE span.start + i * (Length(span) \div n))]

\* merge_speech_regions
CutPoints(rs) == FlattenSeq([i \in DOMAIN Merged(rs) |-> SplitSpan(Merged(rs)[i])])

\* Mutants of ApplyOverlap: only the start is padded; the start is moved the
\* wrong way.
ApplyOverlapAtStart(cuts, total) ==
    [i \in DOMAIN cuts |->
        Span(IF i > 1 THEN Greatest(0, cuts[i].start - Overlap) ELSE cuts[i].start,
             Least(total, cuts[i].end))]
ApplyOverlapInside(cuts, total) ==
    [i \in DOMAIN cuts |->
        Span(IF i > 1 THEN cuts[i].start + Overlap ELSE cuts[i].start, Least(total, cuts[i].end))]

ApplyOverlap(cuts, total) ==
    [i \in DOMAIN cuts |->
        Span(IF i > 1 THEN Greatest(0, cuts[i].start - Overlap) ELSE cuts[i].start,
             Least(total, IF i < Len(cuts) THEN cuts[i].end + Overlap ELSE cuts[i].end))]

\* coarse_segment; the index of a super-chunk is its place in the sequence.
CoarseSegment == ApplyOverlap(CutPoints(regions), duration)

-----------------------------------------------------------------------------

\* Rows of the superchunks table have no negative time.
TypeOK ==
    /\ CoarseSegment \in Seq([start : Nat, end : Nat])
    /\ regions \in Seq([start : Nat, end : Nat])
    /\ duration \in Nat

Point == {Grid * k : k \in 0..Horizon}
SpeechEnd == IF regions = <<>> THEN 0 ELSE Last(regions).end

Init == regions = <<>> /\ duration = 0

\* The detector reports one more region. The duration of the file comes from
\* its database row, from a decoder's report or from what was decoded
\* (orchestrator.py 204-212), none of which the detector's regions bound.
Detect ==
    \E from, to, total \in Point :
        /\ from < to
        /\ regions # <<>> => from >= SpeechEnd
        /\ regions' = Append(regions, Span(from, to))
        /\ duration' = total

Next == Detect

Spec == Init /\ [][Next]_vars

-----------------------------------------------------------------------------
(* Properties *)

\* merge_speech_regions: cut points are in order, do not overlap and are
\* never empty. With a cap they are never longer than the cap, and what ASR
\* gets is longer by the padding of both sides and no more, and neither the
\* first nor the last of them on its outer side.
CutsAreCapped ==
    LET cuts == CutPoints(regions)
        chunks == CoarseSegment IN
    /\ \A i \in DOMAIN cuts : 0 < Length(cuts[i])
    /\ \A i \in 1..Len(cuts) - 1 : cuts[i].end <= cuts[i + 1].start
    /\ MaxSuperchunk > 0 =>
         /\ \A i \in DOMAIN cuts : Length(cuts[i]) <= MaxSuperchunk
         /\ \A i \in DOMAIN chunks :
              Length(chunks[i]) <= MaxSuperchunk + (IF i = 1 THEN 0 ELSE Overlap)
                                     + (IF i = Len(chunks) THEN 0 ELSE Overlap)

\* coarse_segment, "super-chunks covering all detected speech": merging,
\* splitting and padding lose no moment of it that the duration leaves in the
\* recording. (Speech after a duration that was measured too short is cut off.)
SpeechIsCovered ==
    \A i \in DOMAIN regions : \A t \in regions[i].start..Least(regions[i].end, duration) - 1 :
        \E c \in ToSet(CoarseSegment) : c.start <= t /\ t + 1 <= c.end

\* vad.py 6-10, why super-chunks overlap: a word spoken across a boundary is
\* in one of them whole. Any stretch of a region that is no longer than the
\* overlap of two neighbours is inside some super-chunk, wherever the cuts
\* fall, how many there are and however short the pieces between them.
WordsAreHeardWhole ==
    \A i \in DOMAIN regions : \A from \in regions[i].start..regions[i].end - 1 :
        LET to == Least(Least(from + 2 * Overlap, regions[i].end), duration) IN
        from < to => \E c \in ToSet(CoarseSegment) : c.start <= from /\ to <= c.end

\* Greedy merging leaves nothing to merge: two neighbours that a silence
\* separates never fit into one super-chunk up to the next region.
NothingLeftToMerge ==
    LET merged == Merged(regions) IN
    \A i \in 1..Len(merged) - 1 : \E j \in DOMAIN regions :
        /\ regions[j].start = merged[i + 1].start
        /\ regions[j].end - merged[i].start > MaxSuperchunk

=============================================================================
