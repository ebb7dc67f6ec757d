---------------------------- MODULE Transcript -----------------------------
(***************************************************************************)
(* From a recording to the segments of the dataset: coarse segmentation    *)
(* (Vad), one ASR task for each super-chunk with the turns of the          *)
(* diarization (Speakers, _worker_main of workers/asr_worker.py), the      *)
(* merging and packing of words (Rechunk) and the filter (SegmentFilter).  *)
(*                                                                         *)
(* The recording grows by one detected region at each step, as in Vad.     *)
(* When it is one of the recordings to be studied, its speaker turns and   *)
(* the settings are fixed, and then its words are spoken one at a time.    *)
(* Each super-chunk that contains a part of a word may hear it, at times   *)
(* of its own: what alignment gets wrong differs between two super-chunks, *)
(* and a word at the edge of one is heard in part or not at all.           *)
(* At any time the video may be rechunked, which ends its story.           *)
(***************************************************************************)
EXTENDS Vad, Rechunk, SegmentFilter

CONSTANTS
    Studies,            \* recordings, each with its turns, words and settings
    None                \* no study has been chosen; the video is not rechunked

\* Times are counted from the start of the recording.
ASSUME StudiesAssumption ==
    \A s \in Studies :
        /\ s.late \in Nat
        /\ s.words \subseteq [start : Nat, end : Nat, text : STRING, stop : BOOLEAN]
        /\ \A cfg \in s.configs : cfg.max \in Nat /\ cfg.filter.minDuration \in Nat
        /\ s.turns \subseteq Seq([start : Nat, end : Nat, speaker : STRING])

VARIABLES
    study,              \* the study, or None while the recording grows
    turns,              \* what diarization reports, in its order
    spoken,             \* the words, with the spans at which each was heard
    segments            \* the segments of the video

transcriptVars == <<regions, duration, study, turns, spoken, segments>>

-----------------------------------------------------------------------------

TranscriptInit ==
    /\ Init
    /\ study = None
    /\ turns = <<>>
    /\ spoken = <<>>
    /\ segments = None

Record ==
    /\ study = None
    /\ Detect
    /\ UNCHANGED <<study, turns, spoken, segments>>

\* diarization of the whole recording, and the settings of the run.
Diarize ==
    \E s \in Studies :
        /\ study = None /\ regions = s.regions /\ duration = s.duration
        /\ \E cfg \in s.configs, ts \in s.turns :
            /\ study' = [words |-> s.words, late |-> s.late, limit |-> s.limit, cfg |-> cfg]
            /\ turns' = ts
        /\ UNCHANGED <<regions, duration, spoken, segments>>

\* The spans at which a super-chunk may hear a word; none is <<>>.  Words
\* are heard in time or late, and never beyond the edges of the super-chunk.
Hearings(word, chunk) ==
    LET part(late) == Span(Greatest(word.start + late, chunk.start),
                           Least(word.end + late, chunk.end))
        parts == {part(late) : late \in {0, study.late}}
    IN  IF Shared(word, chunk) <= 0 THEN {<<>>}
        ELSE {<<p>> : p \in {q \in parts : Length(q) > 0}}
             \union (IF Shared(word, chunk) = Length(word) THEN {} ELSE {<<>>})

\* transcribe_fn for each super-chunk: one more word, after those before it.
Speak ==
    /\ study # None /\ segments = None
    /\ Len(spoken) < study.limit
    /\ \E word \in study.words :
        /\ spoken # <<>> => word.start >= Last(spoken).end
        /\ \E heard \in {h \in [DOMAIN CoarseSegment ->
                                    UNION {Hearings(word, c) : c \in ToSet(CoarseSegment)}] :
                            \A i \in DOMAIN h : h[i] \in Hearings(word, CoarseSegment[i])} :
            spoken' = Append(spoken, [start |-> word.start, end |-> word.end, text |-> word.text,
                                      stop |-> word.stop, heard |-> heard])
    /\ UNCHANGED <<regions, duration, study, turns, segments>>

-----------------------------------------------------------------------------
(* What the program makes of it *)

\* _worker_main: a word in the time of the recording, with its speaker and
\* its overlap flag.  "said" is which word it is, which the program cannot know.
TaggedWord(n, span) ==
    [said |-> n, text |-> spoken[n].text, stop |-> spoken[n].stop,
     start |-> span.start, end |-> span.end,
     speaker |-> AssignSpeaker(span, turns, study.cfg.fill),
     overlap |-> turns # <<>> /\ WordInOverlap(span, OverlapRegions(turns))]

\* _rechunk_and_finalize: the words_json of all rows of the video.
SuperchunkWords ==
    [k \in DOMAIN CoarseSegment |->
        LET heard == InOrder({n \in DOMAIN spoken : spoken[n].heard[k] # <<>>})
        IN  [start |-> CoarseSegment[k].start,
             end |-> CoarseSegment[k].end,
             words |-> [i \in DOMAIN heard |->
                            TaggedWord(heard[i], spoken[heard[i]].heard[k][1])]]]

\* merge, pack and build: the segments of the video, from its super-chunks.
RechunkRecording ==
    /\ study # None /\ segments = None
    /\ segments' = RechunkVideo(SuperchunkWords, study.cfg)
    /\ UNCHANGED <<regions, duration, study, turns, spoken>>

TranscriptNext ==
    \/ Record
    \/ Diarize
    \/ Speak
    \/ RechunkRecording

TranscriptSpec == TranscriptInit /\ [][TranscriptNext]_transcriptVars

-----------------------------------------------------------------------------
(* Properties *)

Rechunked == segments # None

SegmentWords == FlattenSeq([i \in DOMAIN segments |-> segments[i].words])

HeardSpans(n) == {spoken[n].heard[k][1] : k \in {c \in DOMAIN spoken[n].heard :
                                                    spoken[n].heard[c] # <<>>}}

\* Any two super-chunks heard the word at about the same time.
HeardAlike(n) ==
    \A a, b \in HeardSpans(n) : 5 * Shared(a, b) > 2 * (Greatest(a.end, b.end) - Least(a.start, b.start))

\* Two words of one text are never heard so that the two hearings are taken
\* for one word.
ToldApart ==
    \A n, m \in DOMAIN spoken : n # m /\ spoken[n].text = spoken[m].text =>
        \A a \in HeardSpans(n), b \in HeardSpans(m) :
            5 * Greatest(0, Shared(a, b)) <= 2 * (Greatest(a.end, b.end) - Least(a.start, b.start))

\* A word said before another is heard to begin and to end before it, whichever
\* super-chunks heard the two.
HeardInOrder ==
    \A n, m \in DOMAIN spoken : n < m =>
        \A a \in HeardSpans(n), b \in HeardSpans(m) : a.start < b.start /\ a.end <= b.end

\* rechunk.py 80-89, 113-141: if what the super-chunks heard tells the words
\* apart and leaves them in their order, then of the words of the recording,
\* in their order, none that any super-chunk heard is lost, and one that
\* several super-chunks heard at about the same time is there once. The
\* words may follow each other without a pause, and alignment may be late.
EveryWordOnce ==
    Rechunked /\ ToldApart /\ HeardInOrder =>
    LET words == SegmentWords
        said == [i \in DOMAIN words |-> words[i].said] IN
    /\ \A i, j \in DOMAIN said : i < j => said[i] <= said[j]
    /\ \A n \in DOMAIN spoken :
        LET times == Cardinality({i \in DOMAIN said : said[i] = n}) IN
        /\ times > 0 <=> HeardSpans(n) # {}
        /\ HeardAlike(n) => times <= 1

\* A sentence ends after the word a, which b follows.
SentenceEnds(a, b) ==
    \/ a.stop
    \/ b.start - a.end >= study.cfg.silence
    \/ study.cfg.split /\ NoSpeaker \notin {a.speaker, b.speaker} /\ a.speaker # b.speaker

\* rechunk.py 1-12: a segment never ends inside a sentence, where a sentence
\* ends at its punctuation, at any pause of silence_fallback_ms and at a change
\* of speaker, as _find_boundaries says (144-155). README.md says less: there
\* a pause ends a sentence only for want of punctuation (CutAtPunctuation).
SentencesStayWhole ==
    Rechunked => \A i \in 1..Len(segments) - 1 :
        SentenceEnds(Last(segments[i].words), segments[i + 1].words[1])

\* README.md 11-12, 46-50: cuts only ever land between two sentences, which
\* punctuation separates; the gap is a fallback for punctuation-less languages.
\* (A change of speaker is a boundary by default.yaml 60-61.)
CutAtPunctuation ==
    Rechunked /\ (\E n \in DOMAIN spoken : spoken[n].stop) =>
    \A i \in 1..Len(segments) - 1 :
        LET before == Last(segments[i].words)
            after == segments[i + 1].words[1]
        IN  before.stop \/ (study.cfg.split /\ before.speaker # after.speaker)

\* The words of a segment are one sentence.
OneSentence(segment) ==
    \A i \in 1..Len(segment.words) - 1 : ~ SentenceEnds(segment.words[i], segment.words[i + 1])

\* rechunk.py 205-211: a segment above the maximum is a single sentence, and
\* the flag of its row says so; no other segment is flagged.
OnlySentencesExceed ==
    Rechunked => \A segment \in ToSet(segments) :
        /\ segment.exceeds <=> Length(segment) > study.cfg.max
        /\ segment.exceeds => OneSentence(segment)

\* rechunk.py 205-211, 248-254: two segments are separate only because the
\* first cannot take the first sentence of the second without exceeding the
\* maximum, or because their speakers differ.  Hence a segment below the
\* minimum never has a neighbour that could take it.
CutsHaveAReason ==
    Rechunked =>
    LET Sentence(words) ==
            SubSeq(words, 1, CHOOSE k \in DOMAIN words :
                /\ k = Len(words) \/ SentenceEnds(words[k], words[k + 1])
                /\ \A j \in 1..k - 1 : ~ SentenceEnds(words[j], words[j + 1]))
    IN  \A i \in 1..Len(segments) - 1 :
            LET a == segments[i]
                b == segments[i + 1]
            IN  \/ Last(Sentence(b.words)).end - a.start > study.cfg.max
                \/ study.cfg.split /\ NoSpeaker \notin {a.speaker, b.speaker} /\ a.speaker # b.speaker

\* rechunk.py 156-160, 207-210: with split_on_speaker_change no segment has
\* the words of two speakers, provided that every word has a speaker.
OneSpeakerWhenLabelled ==
    Rechunked /\ study.cfg.split =>
    \/ \E segment \in ToSet(segments) : \E w \in ToSet(segment.words) : w.speaker = NoSpeaker
    \/ \A segment \in ToSet(segments) : \A w \in ToSet(segment.words) : w.speaker = segment.speaker

\* configs/default.yaml 60-61: the same without the proviso.
SpeakerTurnsSplit ==
    Rechunked /\ study.cfg.split =>
    \A segment \in ToSet(segments) : \A i, j \in DOMAIN segment.words :
        NoSpeaker \notin {segment.words[i].speaker, segment.words[j].speaker} =>
            segment.words[i].speaker = segment.words[j].speaker

\* Two speakers talk during a word of the segment.
CrossTalk(segment) ==
    \E i \in DOMAIN segment.words : \E t \in segment.words[i].start..segment.words[i].end - 1 :
        \E j, k \in DOMAIN turns :
            /\ turns[j].speaker # turns[k].speaker
            /\ \A turn \in {turns[j], turns[k]} : turn.start <= t /\ t + 1 <= turn.end

\* configs/default.yaml 70-72 for words: a segment with a word during which
\* two speakers talk never gets past the filter, whatever its language and
\* score, and one without is not held back for it.
OverlapIsRejected ==
    Rechunked =>
    LET cfg == study.cfg.filter IN
    \A segment \in ToSet(segments) :
        \A language \in cfg.languages \union {NoLanguage}, score \in Scores :
            LET verdict == FilterSegment(segment, cfg, language, score) IN
            /\ verdict = "passed" =>
                 ~ (CrossTalk(segment) /\ cfg.enabled /\ cfg.reject_overlapping_speech)
            /\ ~ CrossTalk(segment) /\ Length(segment) >= cfg.minDuration /\ score = "enough"
                 => verdict = "passed"

=============================================================================
