---------------------------- MODULE MCRangeFetch ----------------------------
(* Small instances of one range request, times in twentieths of a second   *)
(* scaled down: a base delay of 5 ticks, a budget of 40.                   *)
EXTENDS RangeFetch

Probe == [kind |-> "probe", from |-> 0, to |-> 0]
Span(from, to) == [kind |-> "range", from |-> from, to |-> to]

\* The probe, a byte, an inner range and the archive's tail.
MCCalls == {Probe, Span(0, 1), Span(3, 7), Span(6, 10)}

\* The data of an empty entry.
EmptyCalls == {Span(3, 3)}

\* A date in the past, no wait, a short and a very long one.
MCHints == {-30, 0, 7, 50}

=============================================================================
