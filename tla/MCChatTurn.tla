----------------------------- MODULE MCChatTurn -----------------------------
(* Instances of ChatTurn for TLC. *)
EXTENDS ChatTurnRefines, TLC

CONSTANTS s1, s2, t1, t2

OneTurn     == {t1}
TwoTurns    == {t1, t2}
OneSession  == {s1}
TwoSessions == {s1, s2}

PlanningTools  == {"itinerary", "expert"}
OtherTools     == {"other"}

\* Turns are interchangeable in a run without liveness.
TurnSymmetry == Permutations(Turns)
=============================================================================
