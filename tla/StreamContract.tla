--------------------------- MODULE StreamContract ---------------------------
(***************************************************************************)
(* What the chat stream promises its client, without sessions, tools,      *)
(* iterations or retries: a stream speaks while it is open, is answered     *)
(* once, with all it said, or fails, or is cut, and says nothing afterwards *)
(* but errors: a failure may be told more than once, and an answer may be   *)
(* followed by an error.  A stream that failed is never answered.  ChatTurn *)
(* implements it.                                                          *)
(***************************************************************************)
EXTENDS Naturals

CONSTANTS Turns, MaxIter

NoteFrag == 0
Frags    == 0 .. MaxIter

VARIABLES
  phase,  \* how far each stream has come
  said,   \* the fragments it streamed
  shown,  \* the fragments of its answer
  errors  \* how often it told an error

vars == <<phase, said, shown, errors>>

Phases == {"idle", "open", "answered", "failed", "cut"}

\* An error of the provider is told where it is read and where the turn gives
\* up, and a panic tells one more, which is all that can follow an answer.
MaxErrors(p) == CASE p = "answered" -> 1 [] p \in {"open", "failed"} -> 3 [] OTHER -> 0

Init ==
  /\ phase = [t \in Turns |-> "idle"]
  /\ said  = [t \in Turns |-> {}]
  /\ shown = [t \in Turns |-> {}]
  /\ errors = [t \in Turns |-> 0]

Open(t) ==
  /\ phase[t] = "idle"
  /\ phase' = [phase EXCEPT ![t] = "open"]
  /\ UNCHANGED <<said, shown, errors>>

\* A request may be turned away before its stream opens.
Refuse(t) ==
  /\ phase[t] = "idle"
  /\ phase' = [phase EXCEPT ![t] = "cut"]
  /\ UNCHANGED <<said, shown, errors>>

Speak(t) ==
  /\ phase[t] = "open"
  /\ \E f \in Frags : said' = [said EXCEPT ![t] = @ \cup {f}]
  /\ UNCHANGED <<phase, shown, errors>>

\* The answer holds everything that was said, but for the note.
Answer(t) ==
  /\ phase[t] = "open"
  /\ phase' = [phase EXCEPT ![t] = "answered"]
  /\ \E text \in SUBSET Frags : /\ said[t] \ {NoteFrag} \subseteq text
                                /\ shown' = [shown EXCEPT ![t] = text]
  /\ UNCHANGED <<said, errors>>

Fail(t) ==
  /\ errors[t] < MaxErrors(phase[t])
  /\ errors' = [errors EXCEPT ![t] = @ + 1]
  /\ phase' = [phase EXCEPT ![t] = IF @ = "open" THEN "failed" ELSE @]
  /\ UNCHANGED <<said, shown>>

\* Any number of open streams may be cut by one event.
Cut ==
  /\ \E S \in SUBSET {t \in Turns : phase[t] = "open"} :
       phase' = [t \in Turns |-> IF t \in S THEN "cut" ELSE phase[t]]
  /\ UNCHANGED <<said, shown, errors>>

Next ==
  \/ \E t \in Turns : Open(t) \/ Refuse(t) \/ Speak(t) \/ Answer(t) \/ Fail(t)
  \/ Cut

Spec == Init /\ [][Next]_vars
=============================================================================
