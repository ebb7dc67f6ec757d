--------------------------- MODULE MCTranscript ----------------------------
(* Recordings for the checking of Transcript. *)
EXTENDS Transcript

Word(from, to, stop) == [start |-> from, end |-> to, text |-> "word", stop |-> stop]
Turn(from, to, speaker) == [start |-> from, end |-> to, speaker |-> speaker]

NoFilter == [enabled |-> FALSE, reject_overlapping_speech |-> TRUE, minDuration |-> 0,
             languages |-> {}, dnsmos |-> FALSE]
Strict == [enabled |-> TRUE, reject_overlapping_speech |-> TRUE, minDuration |-> 8,
           languages |-> {"en"}, dnsmos |-> TRUE]

Settings(min, max, split, fill, filter) ==
    [min |-> min, max |-> max, silence |-> 4, split |-> split, fill |-> fill, filter |-> filter]

\* Speech without a pause: three super-chunks, all of which hear its middle.
Seams ==
    [regions |-> <<Span(0, 72)>>, duration |-> 72, turns |-> {<<>>},
     words |-> {Word(3, 9, FALSE), Word(24, 34, TRUE), Word(36, 44, FALSE),
                Word(38, 46, FALSE), Word(60, 68, FALSE)},
     late |-> 2, limit |-> 3, configs |-> {Settings(12, 40, FALSE, FALSE, NoFilter)}]

\* Two super-chunks that do not meet.
Apart ==
    [regions |-> <<Span(0, 12), Span(72, 96)>>, duration |-> 96, turns |-> {<<>>},
     words |-> {Word(0, 8, FALSE), Word(26, 34, TRUE), Word(50, 56, FALSE), Word(60, 68, FALSE)},
     late |-> 0, limit |-> 3, configs |-> {Settings(12, 40, FALSE, FALSE, NoFilter)}]

\* A conversation that one super-chunk hears.
Talk ==
    [regions |-> <<Span(0, 24)>>, duration |-> 24,
     turns |-> {<<>>,
                <<Turn(0, 8, "ann"), Turn(8, 16, "bob"), Turn(16, 24, "ann")>>,
                <<Turn(0, 8, "ann"), Turn(12, 24, "bob")>>,
                <<Turn(0, 14, "ann"), Turn(10, 24, "bob"), Turn(2, 6, "ann")>>},
     words |-> {Word(4 * k, 4 * k + 4, stop) : k \in 0..5, stop \in BOOLEAN},
     late |-> 0, limit |-> 6,
     configs |-> {Settings(6, 12, TRUE, FALSE, Strict), Settings(10, 16, TRUE, TRUE, Strict),
                  Settings(6, 12, FALSE, FALSE, NoFilter)}]

\* Connected speech: the words follow each other without a pause, and every
\* word may be heard late; one is so short that it may be heard out of order.
\* Two of the regions touch.
Connected ==
    [regions |-> <<Span(0, 24), Span(24, 36), Span(48, 60)>>, duration |-> 72, turns |-> {<<>>},
     words |-> {Word(9, 16, TRUE), Word(16, 26, FALSE), Word(26, 30, FALSE),
                Word(30, 31, FALSE), Word(31, 50, FALSE)},
     late |-> 2, limit |-> 3, configs |-> {Settings(12, 40, FALSE, FALSE, NoFilter)}]

\* The duration was measured too short: the last super-chunk lies beyond it.
Cut ==
    [regions |-> <<Span(0, 36), Span(60, 84)>>, duration |-> 36, turns |-> {<<>>},
     words |-> {Word(0, 8, FALSE), Word(14, 22, TRUE), Word(30, 40, FALSE), Word(64, 70, FALSE)},
     late |-> 1, limit |-> 3, configs |-> {Settings(12, 40, FALSE, FALSE, NoFilter)}]

\* A word that is heard to end after the next one: what greedy packing has left
\* too short can only then be merged.
Brief ==
    [regions |-> <<Span(12, 36)>>, duration |-> 36, turns |-> {<<>>, <<Turn(12, 36, "ann")>>},
     words |-> {Word(12, 21, TRUE), Word(21, 27, TRUE), Word(27, 28, FALSE), Word(28, 34, FALSE)},
     late |-> 2, limit |-> 4, configs |-> {Settings(10, 16, TRUE, FALSE, NoFilter)}]

MCStudies == {Seams, Apart, Connected, Cut, Talk, Brief}

=============================================================================
