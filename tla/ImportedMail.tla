---------------------------- MODULE ImportedMail ----------------------------
(***************************************************************************)
(* The mailbox and the import of bookings together: the poller hands each  *)
(* message to the import and acts on how it ends, while the user pastes    *)
(* confirmations into the app, edits bookings, and the server stops.  A    *)
(* message is marked after its import, so that it may be imported again.   *)
(***************************************************************************)
EXTENDS BookingIngest, EmailPoller

CONSTANTS
  Pastes,    \* the IngestBooking requests
  Texts,     \* what pasted texts are parsed to
  ContentOf  \* the code and the slot each message is parsed to, every time

ASSUME ImportedMailAssumption ==
  /\ Imports = Messages \cup Pastes
  /\ Messages \cap Pastes = {}
  /\ Texts \subseteq Data
  /\ ContentOf \in [Messages -> [code : Codes \cup {NoCode}, slot : Slots \cup {NoSlot}]]

VARIABLE
  result   \* the booking that the last import of a message for a trip named, for the
           \* properties

allVars == <<bookingVars, mailVars, result>>

Init == /\ InitBookings /\ InitMail
        /\ result = [m \in Messages |-> [t \in Trips |-> NoRow]]

-----------------------------------------------------------------------------
(* What the poller and an import do together                               *)

\* What a message is parsed to, for a trip.
Addressed(m, trip) == [trip |-> trip, code |-> ContentOf[m].code, slot |-> ContentOf[m].slot]

\* ResolveTrip asks anew at every attempt: the user makes, renames and finishes
\* trips, and a query that fails makes way for the next best trip, or for none.
SubmitMail(m) ==
  /\ Submit(m)
  /\ FailParse(m) \/ \E trip \in Trips \cup {NoTrip} : Parse(m, Addressed(m, trip))
  /\ UNCHANGED result

\* processMessage tells success and permanent rejection from the rest.
AnswerMail(m) ==
  /\ Answer(m)
  /\ \/ at[m] \in {"done", "rejected"} /\ Settle(m)
     \/ at[m] = "failed" /\ Retry(m)
  /\ result' = IF at[m] = "done" /\ data[m].trip # NoTrip
               THEN [result EXCEPT ![m][data[m].trip] = found[m]]
               ELSE result

\* Both stop with the server.
Crash == Restart /\ StopImports /\ UNCHANGED result

Mail(m) ==
  /\ \/ Deliver(m) \/ Take(m) \/ Mark(m)
     \/ Faults /\ (FetchFails(m) \/ Discard(m) \/ MarkFails(m))
  /\ UNCHANGED <<bookingVars, result>>

Poll == PollOnce /\ UNCHANGED <<bookingVars, result>>

Paste(p) ==
  /\ Answer(p) \/ \E d \in Texts : Parse(p, d)
  /\ UNCHANGED <<mailVars, result>>

Import(i) == ImportStep(i) /\ UNCHANGED <<mailVars, result>>

Next ==
  \/ \E m \in Messages : Mail(m) \/ SubmitMail(m) \/ AnswerMail(m)
  \/ Poll \/ Crash
  \/ \E p \in Pastes : Paste(p)
  \/ \E i \in Imports : Import(i)
  \/ UserStep /\ UNCHANGED <<mailVars, result>>

Spec == Init /\ [][Next]_allVars

-----------------------------------------------------------------------------
(* Properties                                                              *)

\* A message is imported again after a failed mark.  Whenever it is imported for
\* a trip that it was imported for before, it ends at the same booking, whatever
\* it was imported for in between, as long as nobody deletes or moves either
\* booking, or takes its code or time away.  Of two trips it may leave a booking
\* each, where DEPLOYMENT.md calls a second import "a no-op".
RedeliveryFindsBooking ==
  [][\A m \in Messages, t \in Trips :
       /\ {result[m][t], result'[m][t]} \subseteq Keeping(Addressed(m, t))
       /\ Confirms(Addressed(m, t)) /\ Rivals(Addressed(m, t)) = {}
       => result'[m][t] = result[m][t]]_allVars
=============================================================================
