--------------------------- MODULE BookingAnalysis ---------------------------
(* What an import tells of the trip's bookings: the conflicts among them     *)
(* (booking/conflict.go) and the first gap in the plan (booking/coverage.go).*)
(* Both go through the list in the order it comes in.  A time is a number,   *)
(* Unset when the field is null; an airport is normalized, NoAirport when it *)
(* is null.  A conflict is its type and the bookings it names.               *)
EXTENDS Integers, SequencesExt, Lists

CONSTANTS
  Airports, MaxClock, MaxBookings,
  MinLayover, CarReturnBuffer   \* minLayoverMinutes, carReturnBufferMinutes

NoAirport == ""
Unset     == 0

ASSUME BookingAnalysisAssumption ==
  /\ NoAirport \notin Airports
  /\ {MaxClock, MaxBookings, MinLayover, CarReturnBuffer} \subseteq Nat

VARIABLE bookings   \* those of the trip, in the order they were imported

Clock  == Unset .. MaxClock
Places == Airports \cup {NoAirport}
Booking(type, start, end, from, to) ==
  [id |-> 0, type |-> type, start |-> start, end |-> end, from |-> from, to |-> to]

(* A flight does not land before it departs.  The analysis does not look at  *)
(* the other fields, nor tell a train from another transfer.                 *)
Flights == {b \in {Booking("flight", s, e, f, t) : s, e \in Clock, f, t \in Places} :
              b.start = Unset \/ b.end = Unset \/ b.start < b.end}
Stays   == {Booking("hotel", s, Unset, NoAirport, NoAirport) : s \in Clock}
Cars    == {Booking("car_rental", Unset, e, NoAirport, NoAirport) : e \in Clock}
Rides   == {Booking("train", Unset, Unset, NoAirport, NoAirport)}

OfType(list, type) == Sublist(list, {b \in Range(list) : b.type = type})

AnalysisInit == bookings = <<>>

Import(b) ==
  /\ Len(bookings) < MaxBookings
  /\ bookings' = Append(bookings, [b EXCEPT !.id = Len(bookings) + 1])

AnalysisNext == \E b \in Flights \cup Stays \cup Cars \cup Rides : Import(b)

AnalysisTypeOK ==
  /\ Len(bookings) <= MaxBookings
  /\ \A i \in DOMAIN bookings : bookings[i].id = i /\ bookings[i].start \in Clock /\ bookings[i].end \in Clock

Connects(a, b) ==
  /\ a.to # NoAirport /\ a.to = b.from /\ a.end # Unset /\ b.start # Unset
  /\ a.end <= b.start /\ b.start - a.end < MinLayover

MutTightLayovers(flights) ==
  {<<"tight_layover", <<flights[p[1]].id, flights[p[2]].id>>>> :
     p \in {p \in (1 .. Len(flights)) \X (1 .. Len(flights)) : p[1] < p[2] /\ Connects(flights[p[1]], flights[p[2]])}}

TightLayovers(flights) ==
  {<<"tight_layover", <<flights[p[1]].id, flights[p[2]].id>>>> :
     p \in {p \in (1 .. Len(flights)) \X (1 .. Len(flights)) : p[1] # p[2] /\ Connects(flights[p[1]], flights[p[2]])}}

(* The running minimum and maximum over the flights with that time.          *)
EarliestArrival(flights) ==
  LET t[n \in 0 .. Len(flights)] ==
        IF n = 0 THEN Unset
        ELSE IF flights[n].end # Unset /\ (t[n - 1] = Unset \/ flights[n].end < t[n - 1]) THEN flights[n].end
        ELSE t[n - 1]
  IN  t[Len(flights)]

LatestDeparture(flights) ==
  LET t[n \in 0 .. Len(flights)] ==
        IF n = 0 THEN Unset
        ELSE IF flights[n].start # Unset /\ flights[n].start > t[n - 1] THEN flights[n].start
        ELSE t[n - 1]
  IN  t[Len(flights)]

HotelsBeforeArrival(flights, hotels) ==
  LET earliest == EarliestArrival(flights)
  IN  {<<"hotel_before_arrival", <<h.id>>>> : h \in {h \in Range(hotels) :
         Len(flights) >= 2 /\ earliest # Unset /\ h.start # Unset /\ h.start < earliest}}

CarReturnMismatches(flights, cars) ==
  LET latest  == LatestDeparture(flights)
      Late(c) == c.end > latest \/ latest - c.end < CarReturnBuffer
  IN  {<<IF c.end > latest THEN "car_return_error" ELSE "car_return_warning", <<c.id>>>> :
         c \in {c \in Range(cars) : Len(flights) >= 2 /\ latest # Unset /\ c.end # Unset /\ Late(c)}}

MissingReturnFlight(flights) ==
  IF Len(flights) = 1 THEN {<<"missing_return_flight", <<flights[1].id>>>>} ELSE {}

DetectConflicts(list) ==
  LET flights == OfType(list, "flight")
  IN  UNION {TightLayovers(flights), HotelsBeforeArrival(flights, OfType(list, "hotel")),
             CarReturnMismatches(flights, OfType(list, "car_rental")), MissingReturnFlight(flights)}

(* The first detector that fires, for a trip of that many days and items.    *)
AnalyzeCoverage(list, days, items) ==
  LET flights == Len(OfType(list, "flight"))
      hotel   == OfType(list, "hotel") # <<>>
      ground  == OfType(list, "car_rental") \o OfType(list, "train") # <<>>
  IN  CASE list = <<>>                    -> "none"
        [] list # <<>> /\ flights > 0 /\ ~hotel -> "no_accommodation"
        [] flights = 1 /\ hotel           -> "no_return_transport"
        [] flights > 1 /\ hotel /\ ~ground -> "no_ground_transport"
        [] OTHER -> IF days >= 3 /\ items < days \div 2 THEN "sparse_itinerary" ELSE "none"

Reorderings == {[i \in DOMAIN bookings |-> bookings[p[i]]] : p \in Bijection(DOMAIN bookings, DOMAIN bookings)}

(* The order in which the bookings come changes neither what conflicts with  *)
(* what nor the gap (booking/conflict.go:93), and the two analyses agree     *)
(* about a return flight that is missing beside a place to stay.             *)
OrderIndependent ==
  \A list \in Reorderings :
    /\ DetectConflicts(list) = DetectConflicts(bookings)
    /\ \A days \in {0, 4}, items \in {0, 2} :
         LET gap == AnalyzeCoverage(list, days, items)
         IN  /\ gap = AnalyzeCoverage(bookings, days, items)
             /\ gap = "no_return_transport" =>
                  \E c \in DetectConflicts(list) : c[1] = "missing_return_flight"
=============================================================================
