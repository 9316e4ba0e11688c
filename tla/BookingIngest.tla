--------------------------- MODULE BookingIngest ----------------------------
(***************************************************************************)
(* The import of booking confirmations (booking/service.go ingest).  An    *)
(* import looks for a booking with its confirmation code, then for a       *)
(* similar one, merges its data into what it finds and creates a booking   *)
(* otherwise; a unique index on (trip, code) tells it when another import  *)
(* was faster.  The user edits, links and deletes bookings meanwhile.      *)
(*                                                                         *)
(* The bookings of one user, all of one type; a step is one statement on   *)
(* the database.  Of a booking's data a slot is what the similarity search *)
(* compares: two bookings have the same one when their start times are     *)
(* within seven days and their providers similar.  The item an import adds *)
(* to the trip's itinerary, best effort and after all this, is left out.   *)
(***************************************************************************)
EXTENDS Naturals, FiniteSets

CONSTANTS
  Imports,            \* the requests that import
  Rows,               \* the ids bookings may get: a bound of the model
  Trips, NoTrip,
  Codes, NoCode,      \* confirmation codes
  Slots, NoSlot,
  NoRow,
  Updates,            \* the codes and times a user may write into a booking
  Faults              \* whether a statement or the parser may fail

Data   == [trip : Trips \cup {NoTrip}, code : Codes \cup {NoCode}, slot : Slots \cup {NoSlot}]
NoData == [trip |-> NoTrip, code |-> NoCode, slot |-> NoSlot]

ASSUME BookingAssumption ==
  /\ Updates \subseteq [code : Codes \cup {NoCode}, slot : Slots \cup {NoSlot}]
  /\ NoRow \notin Rows

VARIABLES
  (* the rows in bookings *)
  booked,   \* the bookings there are
  spent,    \* the ids that have been given out
  tripOf, codeOf, slotOf,  \* of a booking that is gone, as if it had never been
  edited,   \* whether the user wrote it last
  fresh,    \* whether it was created within the last second
  touched,  \* whether updated_at is later than created_at by more than a second
  shed,     \* the trips, codes and slots it has had and has given up, for the properties
  (* the imports *)
  at,       \* where each is
  data,     \* what its text was parsed to
  found     \* the booking it has found or created

rows        == <<booked, spent, tripOf, codeOf, slotOf, edited, fresh, touched, shed>>
imports     == <<at, data, found>>
bookingVars == <<rows, imports>>

Places == {"idle", "lookup", "fuzzy", "create", "refetch", "merge", "done", "failed", "rejected"}

InitBookings ==
  /\ booked = {} /\ spent = {}
  /\ tripOf = [r \in Rows |-> NoTrip]
  /\ codeOf = [r \in Rows |-> NoCode]
  /\ slotOf = [r \in Rows |-> NoSlot]
  /\ edited = [r \in Rows |-> FALSE]
  /\ fresh = [r \in Rows |-> FALSE]
  /\ touched = [r \in Rows |-> FALSE]
  /\ shed = [r \in Rows |-> {}]
  /\ at = [i \in Imports |-> "idle"]
  /\ data = [i \in Imports |-> NoData]
  /\ found = [i \in Imports |-> NoRow]

Goto(i, place) == at' = [at EXCEPT ![i] = place]

\* The rows of a trip with a code: the unique index admits one.
WithCode(trip, code) ==
  {r \in booked : trip # NoTrip /\ code # NoCode /\ tripOf[r] = trip /\ codeOf[r] = code}

\* The rows of a trip that a search from a slot ranks: those with a start time.
Ranked(trip) == {r \in booked : tripOf[r] = trip /\ slotOf[r] # NoSlot}

\* A step that writes a row: what it had and has no longer is recorded.
Rewrites(r) ==
  shed' = [shed EXCEPT ![r] = @ \cup ({tripOf[r]} \ {tripOf'[r], NoTrip})
                                \cup ({codeOf[r]} \ {codeOf'[r], NoCode})
                                \cup ({slotOf[r]} \ {slotOf'[r], NoSlot})]

-----------------------------------------------------------------------------
(* ingest                                                                  *)

\* The text is parsed; without a trip there is nothing to look for, without a
\* code no exact match.
Parse(i, d) ==
  /\ at[i] = "idle"
  /\ data' = [data EXCEPT ![i] = d]
  /\ Goto(i, IF d.trip = NoTrip THEN "create" ELSE IF d.code = NoCode THEN "fuzzy" ELSE "lookup")
  /\ UNCHANGED <<rows, found>>

\* The parser fails, or what the caller does before it.
FailParse(i) ==
  /\ Faults
  /\ at[i] = "idle"
  /\ Goto(i, "failed")
  /\ UNCHANGED <<rows, data, found>>

\* A statement fails, and with it the import.
FailImport(i) ==
  /\ Faults
  /\ at[i] \in {"lookup", "fuzzy", "create", "refetch", "merge"}
  /\ Goto(i, "failed")
  /\ UNCHANGED <<rows, data, found>>

\* FindBookingByConfirmationCode.
Lookup(i) ==
  /\ at[i] = "lookup"
  /\ \/ \E r \in WithCode(data[i].trip, data[i].code) :
          found' = [found EXCEPT ![i] = r] /\ Goto(i, "merge")
     \/ WithCode(data[i].trip, data[i].code) = {} /\ Goto(i, "fuzzy") /\ UNCHANGED found
  /\ UNCHANGED <<rows, data>>

\* findFuzzyMatch: the nearest row in time is the candidate, and dropped when
\* its provider is another; a row of another slot may be the nearest.
FindFuzzy(i) ==
  LET similar == {r \in Ranked(data[i].trip) : slotOf[r] = data[i].slot}
  IN  /\ at[i] = "fuzzy"
      /\ \/ \E r \in similar : found' = [found EXCEPT ![i] = r] /\ Goto(i, "merge")
         \/ /\ similar = {} \/ similar # Ranked(data[i].trip)
            /\ Goto(i, "create") /\ UNCHANGED found
      /\ UNCHANGED <<rows, data>>

\* Mutant of Create: the table without the unique index.
MutCreate(i) ==
  /\ at[i] = "create"
  /\ \E r \in Rows \ spent :
       /\ booked' = booked \cup {r} /\ spent' = spent \cup {r}
       /\ tripOf' = [tripOf EXCEPT ![r] = data[i].trip]
       /\ codeOf' = [codeOf EXCEPT ![r] = data[i].code]
       /\ slotOf' = [slotOf EXCEPT ![r] = data[i].slot]
       /\ fresh' = [fresh EXCEPT ![r] = TRUE]
       /\ found' = [found EXCEPT ![i] = r]
  /\ Goto(i, "done")
  /\ UNCHANGED <<edited, touched, shed, data>>

\* CreateBookingForOwnerOrEditor, when the index admits the row.
Create(i) ==
  /\ at[i] = "create"
  /\ WithCode(data[i].trip, data[i].code) = {}
  /\ \E r \in Rows \ spent :
       /\ booked' = booked \cup {r} /\ spent' = spent \cup {r}
       /\ tripOf' = [tripOf EXCEPT ![r] = data[i].trip]
       /\ codeOf' = [codeOf EXCEPT ![r] = data[i].code]
       /\ slotOf' = [slotOf EXCEPT ![r] = data[i].slot]
       /\ fresh' = [fresh EXCEPT ![r] = TRUE]
       /\ found' = [found EXCEPT ![i] = r]
  /\ Goto(i, "done")
  /\ UNCHANGED <<edited, touched, shed, data>>

\* When it does not, another import has created the row since: look again.
Conflict(i) ==
  /\ at[i] = "create"
  /\ WithCode(data[i].trip, data[i].code) # {}
  /\ Goto(i, "refetch")
  /\ UNCHANGED <<rows, data, found>>

\* The caller may no longer edit the trip.
Reject(i) ==
  /\ Faults
  /\ at[i] = "create" /\ data[i].trip # NoTrip
  /\ Goto(i, "rejected")
  /\ UNCHANGED <<rows, data, found>>

\* The row is there, or has been deleted again, which is an error.
Refetch(i) ==
  /\ at[i] = "refetch"
  /\ \/ \E r \in WithCode(data[i].trip, data[i].code) :
          found' = [found EXCEPT ![i] = r] /\ Goto(i, "merge")
     \/ WithCode(data[i].trip, data[i].code) = {} /\ Goto(i, "failed") /\ UNCHANGED found
  /\ UNCHANGED <<rows, data>>

\* Mutant of Mergeable: without the guard on updated_at.
MutMergeable(i) ==
  /\ found[i] \in booked
  /\ tripOf[found[i]] = data[i].trip

\* The WHERE clause of MergeBooking.
Mergeable(i) ==
  /\ found[i] \in booked
  /\ tripOf[found[i]] = data[i].trip
  /\ ~touched[found[i]]

\* What the import has wins over what is stored, and updated_at moves.
Merge(i) ==
  LET r == found[i]
      d == data[i]
  IN  /\ at[i] = "merge"
      /\ Mergeable(i)
      /\ WithCode(d.trip, d.code) \subseteq {r}
      /\ codeOf' = [codeOf EXCEPT ![r] = IF d.code = NoCode THEN @ ELSE d.code]
      /\ slotOf' = [slotOf EXCEPT ![r] = IF d.slot = NoSlot THEN @ ELSE d.slot]
      /\ edited' = [edited EXCEPT ![r] = FALSE]
      /\ touched' = [touched EXCEPT ![r] = ~fresh[r]]
      /\ Goto(i, "done")
      /\ UNCHANGED <<booked, spent, tripOf, fresh, data, found>>
      /\ Rewrites(r)

\* The code it would write belongs to another booking of the trip.
MergeConflict(i) ==
  /\ at[i] = "merge"
  /\ Mergeable(i)
  /\ ~(WithCode(data[i].trip, data[i].code) \subseteq {found[i]})
  /\ Goto(i, "failed")
  /\ UNCHANGED <<rows, data, found>>

\* The booking counts as edited, or is gone: the import answers with what it
\* has read.
Preserve(i) ==
  /\ at[i] = "merge"
  /\ ~Mergeable(i)
  /\ Goto(i, "done")
  /\ UNCHANGED <<rows, data, found>>

\* The response is written.
Answer(i) ==
  /\ at[i] \in {"done", "failed", "rejected"}
  /\ Goto(i, "idle")
  /\ data' = [data EXCEPT ![i] = NoData]
  /\ found' = [found EXCEPT ![i] = NoRow]
  /\ UNCHANGED rows

-----------------------------------------------------------------------------
(* The user and the clock                                                  *)

\* UpdateBooking: what the user leaves out stays; the index may refuse a code.
UpdateBooking(r, code, slot) ==
  /\ r \in booked
  /\ WithCode(tripOf[r], code) \subseteq {r}
  /\ codeOf' = [codeOf EXCEPT ![r] = IF code = NoCode THEN @ ELSE code]
  /\ slotOf' = [slotOf EXCEPT ![r] = IF slot = NoSlot THEN @ ELSE slot]
  /\ edited' = [edited EXCEPT ![r] = TRUE]
  /\ touched' = [touched EXCEPT ![r] = ~fresh[r]]
  /\ UNCHANGED <<booked, spent, tripOf, fresh, imports>>
  /\ Rewrites(r)

\* LinkBookingToTrip does not move updated_at; the index may refuse it.
LinkBooking(r, t) ==
  /\ r \in booked /\ tripOf[r] # t
  /\ WithCode(t, codeOf[r]) = {}
  /\ tripOf' = [tripOf EXCEPT ![r] = t]
  /\ UNCHANGED <<booked, spent, codeOf, slotOf, edited, fresh, touched, imports>>
  /\ Rewrites(r)

DeleteBooking(r) ==
  /\ r \in booked
  /\ booked' = booked \ {r}
  /\ tripOf' = [tripOf EXCEPT ![r] = NoTrip]
  /\ codeOf' = [codeOf EXCEPT ![r] = NoCode]
  /\ slotOf' = [slotOf EXCEPT ![r] = NoSlot]
  /\ edited' = [edited EXCEPT ![r] = FALSE]
  /\ fresh' = [fresh EXCEPT ![r] = FALSE]
  /\ touched' = [touched EXCEPT ![r] = FALSE]
  /\ shed' = [shed EXCEPT ![r] = {}]
  /\ UNCHANGED <<spent, imports>>

SecondPasses(r) ==
  /\ fresh[r]
  /\ fresh' = [fresh EXCEPT ![r] = FALSE]
  /\ UNCHANGED <<booked, spent, tripOf, codeOf, slotOf, edited, touched, shed, imports>>

\* The server stops with every import that runs; what they have written stays.
StopImports ==
  /\ Faults
  /\ at' = [i \in Imports |-> "idle"]
  /\ data' = [i \in Imports |-> NoData]
  /\ found' = [i \in Imports |-> NoRow]
  /\ UNCHANGED rows

ImportStep(i) ==
  \/ Lookup(i) \/ FindFuzzy(i) \/ Create(i) \/ Conflict(i) \/ Reject(i) \/ Refetch(i)
  \/ Merge(i) \/ MergeConflict(i) \/ Preserve(i) \/ FailImport(i)

UserStep ==
  \E r \in Rows :
    \/ DeleteBooking(r) \/ SecondPasses(r)
    \/ \E u \in Updates : UpdateBooking(r, u.code, u.slot)
    \/ \E t \in Trips : LinkBooking(r, t)

NextBookings ==
  \/ \E i \in Imports :
       \/ FailParse(i) \/ ImportStep(i) \/ Answer(i)
       \/ \E d \in Data : Parse(i, d)
  \/ UserStep \/ StopImports

SpecBookings == InitBookings /\ [][NextBookings]_bookingVars

-----------------------------------------------------------------------------
(* Properties                                                              *)

\* Every variable stays in its type, ids are given out once, and the unique
\* index holds through creations, merges and links.
BookingTypeOK ==
  /\ booked \subseteq spent /\ spent \subseteq Rows
  /\ tripOf \in [Rows -> Trips \cup {NoTrip}]
  /\ codeOf \in [Rows -> Codes \cup {NoCode}]
  /\ slotOf \in [Rows -> Slots \cup {NoSlot}]
  /\ edited \in [Rows -> BOOLEAN]
  /\ fresh \in [Rows -> BOOLEAN] /\ touched \in [Rows -> BOOLEAN]
  /\ shed \in [Rows -> SUBSET (Trips \cup Codes \cup Slots)]
  /\ at \in [Imports -> Places]
  /\ data \in [Imports -> Data]
  /\ found \in [Imports -> Rows \cup {NoRow}]
  /\ \A r, q \in booked : q \in WithCode(tripOf[r], codeOf[r]) => q = r

\* "Preserves user edits": what the user wrote later than a second after the
\* creation is overwritten by no import, however long ago that import has
\* found the booking.
EditsSurvive ==
  [][\A r \in booked \cap booked' : edited[r] /\ touched[r] => edited'[r]]_bookingVars

\* A similar booking with another code: the search may lead to it.
Rivals(d) ==
  {r \in booked : tripOf[r] = d.trip /\ slotOf[r] = d.slot /\ codeOf[r] # d.code}

\* A confirmation for a trip, with its code.
Confirms(d) == d.trip # NoTrip /\ d.code # NoCode

\* The bookings that are still there and from which neither the user nor
\* another import has taken the trip, the code or the time of a text.
Keeping(d) == {r \in booked : {d.trip, d.code, d.slot} \cap shed[r] = {}}

\* The same confirmation imported twice, at once or one after the other, ends
\* at one booking, as long as nobody deletes or moves what was found or takes
\* its code or time away, and there is no rival.
OneBookingPerConfirmation ==
  \A i, j \in Imports :
    /\ at[i] = "done" /\ at[j] = "done"
    /\ data[i] = data[j] /\ Confirms(data[i])
    /\ {found[i], found[j]} \subseteq Keeping(data[i])
    /\ Rivals(data[i]) = {}
    => found[i] = found[j]
=============================================================================
