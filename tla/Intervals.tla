----------------------------- MODULE Intervals -----------------------------
(***************************************************************************)
(* Spans of time, in whole units: speech regions, super-chunks, speaker    *)
(* turns, words and segments all have a start and an end.                  *)
(***************************************************************************)
EXTENDS Integers, FiniteSets

Least(a, b) == IF a <= b THEN a ELSE b
Greatest(a, b) == IF a >= b THEN a ELSE b
Distance(a, b) == Greatest(a, b) - Least(a, b)

\* The numbers of a set, in order.
InOrder(S) ==
    [k \in 1..Cardinality(S) |-> CHOOSE x \in S : Cardinality({y \in S : y < x}) = k - 1]

\* The elements of a sequence at some of its places, in their order.
At(s, places) == [k \in 1..Cardinality(places) |-> s[InOrder(places)[k]]]

Span(from, to) == [start |-> from, end |-> to]
Length(span) == span.end - span.start

\* What two spans have in common; zero or less if they do not meet.
Shared(a, b) == Least(a.end, b.end) - Greatest(a.start, b.start)

=============================================================================
