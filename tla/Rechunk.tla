------------------------------ MODULE Rechunk ------------------------------
(***************************************************************************)
(* From the words of a video's super-chunks to its segments                *)
(* (stages/rechunk.py).                                                    *)
(*                                                                         *)
(* A word is a record with its span, a text, whether the text ends a       *)
(* sentence (stop), its speaker and its overlap flag.  A super-chunk is a  *)
(* span with the sequence of its words.  cfg holds RechunkConfig: min,     *)
(* max, silence and split.  Speakers are those of module Speakers.          *)
(***************************************************************************)
EXTENDS Speakers, TLC

WordsSpan(words) == Span(words[1].start, Last(words).end)

-----------------------------------------------------------------------------
(* One stream of words out of overlapping super-chunks *)

\* _iou(a, b) > 0.4 and equal normalized texts.
SameWord(a, b) ==
    LET union == Greatest(a.end, b.end) - Least(a.start, b.start) IN
    /\ a.text = b.text
    /\ 5 * Greatest(0, Shared(a, b)) > 2 * union

\* _tag_words: the distance to the nearer edge of the super-chunk.
WithEdge(word, edge) ==
    [field \in DOMAIN word \union {"edge"} |-> IF field = "edge" THEN edge ELSE word[field]]

TagWords(chunk) ==
    [i \in DOMAIN chunk.words |->
        WithEdge(chunk.words[i], Least(chunk.words[i].start - chunk.start,
                                       chunk.end - chunk.words[i].end))]

\* resolved.sort(key=start), which is stable.
SortByStart(words) ==
    LET before(i) == {j \in DOMAIN words : \/ words[j].start < words[i].start
                                          \/ (words[j].start = words[i].start /\ j < i)}
    IN  [k \in DOMAIN words |->
            words[CHOOSE i \in DOMAIN words : Cardinality(before(i)) = k - 1]]

\* The next trailing word takes the first leading word that is free and the
\* same, or 0.
Match(found, t, leading) ==
    LET fits == {j \in DOMAIN leading \ ToSet(found) : SameWord(t, leading[j])}
    IN  Append(found, IF fits = {} THEN 0 ELSE CHOOSE j \in fits : \A k \in fits : j <= k)

\* For each trailing word the index of the leading word it was matched with.
Matches(trailing, leading) ==
    LET match(found, t) == Match(found, t, leading)
    IN  FoldLeft(match, <<>>, trailing)

\* Mutant of ResolveOverlap: words that only the later super-chunk heard are
\* dropped.
ResolveOverlapLoses(trailing, leading) ==
    LET found == Matches(trailing, leading)
    IN  SortByStart([i \in DOMAIN trailing |->
            IF found[i] # 0 /\ trailing[i].edge < leading[found[i]].edge
            THEN leading[found[i]] ELSE trailing[i]])

\* _resolve_overlap
ResolveOverlap(trailing, leading) ==
    LET found == Matches(trailing, leading)
        kept == [i \in DOMAIN trailing |->
                    IF found[i] # 0 /\ trailing[i].edge < leading[found[i]].edge
                    THEN leading[found[i]] ELSE trailing[i]]
    IN  SortByStart(kept \o At(leading, DOMAIN leading \ ToSet(found)))

\* The loop of merge_superchunk_words, for the super-chunk that follows prev.
JoinSuperchunk(merged, prev, chunk) ==
    LET tagged == TagWords(chunk)
        outside == At(merged, {i \in DOMAIN merged : merged[i].end <= chunk.start})
        trailing == At(merged, {i \in DOMAIN merged : merged[i].end > chunk.start})
        leading == At(tagged, {i \in DOMAIN tagged : tagged[i].start < prev.end})
        remainder == At(tagged, {i \in DOMAIN tagged : tagged[i].start >= prev.end})
    IN  IF prev.end <= chunk.start THEN merged \o tagged
        ELSE outside \o ResolveOverlap(trailing, leading) \o remainder

\* What the loop has merged when it comes to super-chunk k, and that one.
MergeWith(merged, k, chunks) ==
    IF k = 1 THEN TagWords(chunks[1]) ELSE JoinSuperchunk(merged, chunks[k - 1], chunks[k])

\* merge_superchunk_words; the super-chunks come in the order of their index.
MergeSuperchunkWords(chunks) ==
    LET join(merged, k) == MergeWith(merged, k, chunks)
    IN  FoldLeft(join, <<>>, [k \in DOMAIN chunks |-> k])

-----------------------------------------------------------------------------
(* Sentences *)

SpeakerChanges(a, b) == NoSpeaker \notin {a.speaker, b.speaker} /\ a.speaker # b.speaker

\* _find_boundaries: the indices after which a cut is allowed.
FindBoundaries(words, cfg) ==
    {i \in DOMAIN words :
        \/ words[i].stop
        \/ i = Len(words)
        \/ words[i + 1].start - words[i].end >= cfg.silence
        \/ cfg.split /\ SpeakerChanges(words[i], words[i + 1])}

\* _split_into_sentences
SplitIntoSentences(words, boundaries) ==
    LET ends == InOrder(boundaries)
    IN  [k \in DOMAIN ends |-> SubSeq(words, IF k = 1 THEN 1 ELSE ends[k - 1] + 1, ends[k])]

\* _dominant_speaker: the most frequent one, the first of several.
DominantSpeaker(words) ==
    LET labelled == {i \in DOMAIN words : words[i].speaker # NoSpeaker}
        times(i) == Cardinality({j \in labelled : words[j].speaker = words[i].speaker})
    IN  IF labelled = {} THEN NoSpeaker
        ELSE words[CHOOSE i \in labelled : \A j \in labelled \ {i} :
                     times(i) > times(j) \/ (times(i) = times(j) /\ i < j)].speaker

-----------------------------------------------------------------------------
(* Segments *)

\* Mutants of PackSentences: the speaker of a sentence does not matter; a
\* sentence that is too long is cut at its last word; a segment that would be
\* as long as the maximum is closed.
PackSentencesMixed(sentences, cfg) ==
    LET pack(packed, sentence) ==
            IF packed # <<>> /\ Last(sentence).end - Last(packed)[1].start <= cfg.max
            THEN Append(Front(packed), Last(packed) \o sentence)
            ELSE Append(packed, sentence)
    IN  FoldLeft(pack, <<>>, sentences)

PackSentencesCutting(sentences, cfg) ==
    LET pack(packed, sentence) ==
            IF Length(WordsSpan(sentence)) > cfg.max
            THEN packed \o <<Front(sentence), <<Last(sentence)>>>>
            ELSE Append(packed, sentence)
    IN  FoldLeft(pack, <<>>, sentences)

PackSentencesStrict(sentences, cfg) ==
    LET pack(packed, sentence) ==
            IF packed # <<>> /\ Last(sentence).end - Last(packed)[1].start < cfg.max
            THEN Append(Front(packed), Last(packed) \o sentence)
            ELSE Append(packed, sentence)
    IN  FoldLeft(pack, <<>>, sentences)

\* The loop of _pack_sentences.  state.speaker is cur_speaker: the dominant
\* speaker of the first sentence of the current segment that has one.
PackSentence(state, sentence, cfg) ==
    LET speaker == DominantSpeaker(sentence)
        current == Last(state.packed)
        changed == /\ cfg.split
                   /\ NoSpeaker \notin {state.speaker, speaker}
                   /\ speaker # state.speaker
    IN  IF \/ state.packed = <<>>
           \/ Last(sentence).end - current[1].start > cfg.max
           \/ changed
        THEN [packed |-> Append(state.packed, sentence), speaker |-> speaker]
        ELSE [packed |-> Append(Front(state.packed), current \o sentence),
              speaker |-> IF state.speaker = NoSpeaker THEN speaker ELSE state.speaker]

\* _pack_sentences
PackSentences(sentences, cfg) ==
    LET pack(state, sentence) == PackSentence(state, sentence, cfg)
    IN  FoldLeft(pack, [packed |-> <<>>, speaker |-> NoSpeaker], sentences).packed

\* _speakers_compatible
SpeakersCompatible(a, b, cfg) ==
    LET both == {DominantSpeaker(a), DominantSpeaker(b)} \ {NoSpeaker}
    IN  cfg.split => Cardinality(both) <= 1

\* a and b may become one segment.
Mergeable(a, b, cfg) ==
    /\ SpeakersCompatible(a, b, cfg)
    /\ Last(b).end - a[1].start <= cfg.max

\* Mutant of EnforceMinDuration: what is merged is not measured.
EnforceMinDurationUnbounded(segments, cfg) ==
    LET step(done, seg) ==
            IF /\ Length(WordsSpan(seg)) < cfg.min
               /\ done # <<>> /\ SpeakersCompatible(Last(done), seg, cfg)
            THEN Append(Front(done), Last(done) \o seg)
            ELSE Append(done, seg)
    IN  FoldLeft(step, <<>>, segments)

\* The loop of _enforce_min_duration, at segment i.  state.carry is what it has
\* moved to the front of that segment.
PlaceSegment(state, i, segments, cfg) ==
    LET n == Len(segments)
        seg == state.carry \o segments[i]
        done == state.done
        keep == [done |-> Append(done, seg), carry |-> <<>>]
    IN  IF Length(WordsSpan(seg)) >= cfg.min \/ n = 1 THEN keep
        ELSE IF done # <<>> /\ Mergeable(Last(done), seg, cfg)
        THEN [done |-> Append(Front(done), Last(done) \o seg), carry |-> <<>>]
        ELSE IF i < n /\ Mergeable(seg, segments[i + 1], cfg)
        THEN [done |-> done, carry |-> seg]
        ELSE keep

\* _enforce_min_duration
EnforceMinDuration(segments, cfg) ==
    LET place(state, i) == PlaceSegment(state, i, segments, cfg)
    IN  FoldLeft(place, [done |-> <<>>, carry |-> <<>>], [i \in DOMAIN segments |-> i]).done

\* _build_segment
BuildSegment(words, cfg) ==
    [start |-> words[1].start,
     end |-> Last(words).end,
     words |-> words,
     speaker |-> DominantSpeaker(words),
     exceeds |-> Length(WordsSpan(words)) > cfg.max,
     overlap |-> \E i \in DOMAIN words : words[i].overlap]

\* rechunk_video
RechunkVideo(chunks, cfg) ==
    LET words == MergeSuperchunkWords(chunks)
        sentences == SplitIntoSentences(words, FindBoundaries(words, cfg))
        packed == EnforceMinDuration(PackSentences(sentences, cfg), cfg)
    IN  IF words = <<>> THEN <<>>
        ELSE [i \in DOMAIN packed |-> BuildSegment(packed[i], cfg)]

=============================================================================
