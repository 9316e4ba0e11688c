--------------------------- MODULE MCImportedMail ---------------------------
(* Messages, pasted texts and bookings for TLC.                            *)
EXTENDS ImportedMail, TLC

CONSTANTS m1, p1, b1, b2, t1, c1, c2, s1

OneMessage == {m1}
OnePaste   == {p1}
MailPaste  == {m1, p1}
TwoRows    == {b1, b2}
OneTrip    == {t1}
TwoCodes   == {c1, c2}
OneSlot    == {s1}

\* A confirmation, a similar one with another code, and one for no trip.
Flight == [trip |-> t1, code |-> c1, slot |-> s1]
Change == [trip |-> t1, code |-> c2, slot |-> s1]
Loose  == [trip |-> NoTrip, code |-> c1, slot |-> s1]

AllTexts   == {Flight, Change, Loose}
FlightMail == [m \in OneMessage |-> [code |-> c1, slot |-> s1]]

\* The user writes into other fields than the code and the start time.
OtherFields == {[code |-> NoCode, slot |-> NoSlot]}

\* The ids of bookings are interchangeable.
RowSymmetry == Permutations(TwoRows)
=============================================================================
