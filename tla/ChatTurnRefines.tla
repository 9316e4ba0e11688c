-------------------------- MODULE ChatTurnRefines ---------------------------
(***************************************************************************)
(* ChatTurn implements StreamContract: the mapping from the state of a turn *)
(* to what its client can tell of the stream.                              *)
(***************************************************************************)
EXTENDS ChatTurn

\* How far the stream of turn t has come, for its client.
PhaseOf(t) ==
  IF announced[t] THEN "answered"
  ELSE IF errors[t] > 0 THEN "failed"
  ELSE IF gone[t] \/ pc[t] \in {"refused", "aborted"} THEN "cut"
  ELSE IF pc[t] = "idle" THEN "idle" ELSE "open"

Contract == INSTANCE StreamContract WITH
              phase  <- [t \in Turns |-> PhaseOf(t)],
              said   <- streamed,
              shown  <- shown,
              errors <- errors

\* Every step of the tool loop is a step of the contract or none: no text after
\* a terminal event, at most one answer, which repeats all that was streamed and
\* never follows an error, and no more than three errors, one after an answer.
KeepsContract == Contract!Spec
=============================================================================
