-------------------------- MODULE MCItineraryEdit ---------------------------
(* Calls, people and lists for TLC.                                        *)
EXTENDS ItineraryEdit

CONSTANTS c1, c2, p1, x

TwoCalls  == {c1, c2}
OnePerson == {p1}
OneTitle  == {x}
UpToTwo   == {<<>>, <<x, x>>}
=============================================================================
