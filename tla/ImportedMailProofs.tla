------------------------- MODULE ImportedMailProofs -------------------------
(***************************************************************************)
(* Proofs about the mailbox and the bookings.  The joint specification     *)
(* implements both of its parts: a step of it is a step of the poller or   *)
(* leaves the mailbox alone, and likewise for the bookings.  What is shown *)
(* of a part alone, where messages and imports end as they please, holds   *)
(* of the whole.                                                           *)
(***************************************************************************)
EXTENDS ImportedMail, TLAPS

-----------------------------------------------------------------------------
(* The parts                                                               *)

\* What a message is parsed to is a text, whatever trip it is resolved to.
LEMMA AddressedData ==
  \A m \in Messages, t \in Trips \cup {NoTrip} : Addressed(m, t) \in Data
BY ImportedMailAssumption DEF Addressed, Data

\* Every step is one of the poller's, for the mailbox.
LEMMA MailSteps == [Next]_allVars => [NextMail]_mailVars
<1> SUFFICES ASSUME [Next]_allVars PROVE [NextMail]_mailVars
  OBVIOUS
<1>1. ASSUME NEW m \in Messages, Mail(m) \/ SubmitMail(m) \/ AnswerMail(m)
      PROVE  NextMail
  BY <1>1 DEF Mail, SubmitMail, AnswerMail, NextMail
<1>2. CASE Poll \/ Crash
  BY <1>2 DEF Poll, Crash, NextMail
<1>3. ASSUME \/ \E p \in Pastes : Paste(p)
             \/ \E i \in Imports : Import(i)
             \/ UserStep /\ UNCHANGED <<mailVars, result>>
      PROVE  UNCHANGED mailVars
  BY <1>3 DEF Paste, Import
<1>4. CASE UNCHANGED allVars
  BY <1>4 DEF allVars
<1> QED
  BY <1>1, <1>2, <1>3, <1>4 DEF Next

\* And one of the imports' and the user's, for the bookings.
LEMMA BookingSteps == [Next]_allVars => [NextBookings]_bookingVars
<1> SUFFICES ASSUME [Next]_allVars PROVE [NextBookings]_bookingVars
  OBVIOUS
<1> USE ImportedMailAssumption
<1>1. ASSUME NEW m \in Messages, SubmitMail(m) \/ AnswerMail(m)
      PROVE  NextBookings
  BY <1>1, AddressedData DEF SubmitMail, AnswerMail, NextBookings
<1>2. ASSUME NEW p \in Pastes, Paste(p)
      PROVE  NextBookings
  BY <1>2 DEF Paste, NextBookings
<1>3. ASSUME NEW i \in Imports, Import(i)
      PROVE  NextBookings
  BY <1>3 DEF Import, NextBookings
<1>4. CASE UserStep \/ Crash
  BY <1>4 DEF Crash, NextBookings
<1>5. ASSUME NEW m \in Messages, Mail(m) \/ Poll
      PROVE  UNCHANGED bookingVars
  BY <1>5 DEF Mail, Poll
<1>6. CASE Poll
  BY <1>6 DEF Poll
<1>7. CASE UNCHANGED allVars
  BY <1>7 DEF allVars
<1> QED
  BY <1>1, <1>2, <1>3, <1>4, <1>5, <1>6, <1>7 DEF Next

\* The joint specification implements the mailbox's and the bookings'.
THEOREM ImplementsParts == Spec => SpecMail /\ SpecBookings
<1>1. Init => InitMail /\ InitBookings
  BY DEF Init
<1> QED
  BY <1>1, MailSteps, BookingSteps, PTL DEF Spec, SpecMail, SpecBookings

-----------------------------------------------------------------------------
(* The mailbox                                                             *)

\* A message that is with the import counts as an attempt already.
Busy(m) == IF current = m /\ stage = "import" THEN 1 ELSE 0

\* Its import has been settled or given up, and the mark is to come.
Marking(m) == current = m /\ stage = "mark"

\* The messages the poller has or will come to are unseen, each once.
BatchInv ==
  /\ \A m \in batch : box[m] = "unseen" /\ m # current
  /\ \A m \in Messages : current = m => box[m] = "unseen"

\* The count is behind the tries by the attempts whose count was lost, and by
\* the one that is running.
CountInv ==
  \A m \in Messages :
    /\ attempts[m] + Busy(m) <= tries[m]
    /\ ~Marking(m) => attempts[m] < MaxAttempts
    /\ ~Marking(m) /\ box[m] # "seen" =>
         tries[m] <= MaxAttempts * losses[m] + attempts[m] + Busy(m)
    /\ Marking(m) => settled[m] \/ tries[m] >= MaxAttempts

PollerInv == MailTypeOK /\ BatchInv /\ CountInv /\ TriesBounded /\ SeenIsSettled

\* One more loss allows MaxAttempts more tries.
LEMMA OneMoreLoss == \A n \in Nat : MaxAttempts * (n + 1) = MaxAttempts * n + MaxAttempts
BY EmailPollerAssumption

\* No message has been delivered at first.
LEMMA InitPollerInv == InitMail => PollerInv
<1> SUFFICES ASSUME InitMail PROVE PollerInv
  OBVIOUS
<1> USE EmailPollerAssumption
<1>1. MailTypeOK
  BY DEF InitMail, MailTypeOK, Stages
<1>2. BatchInv
  BY DEF InitMail, BatchInv
<1>3. MaxAttempts * 0 = 0
  OBVIOUS
<1>4. CountInv /\ TriesBounded /\ SeenIsSettled
  BY <1>3 DEF InitMail, CountInv, Busy, Marking, TriesBounded, SeenIsSettled
<1> QED
  BY <1>1, <1>2, <1>4 DEF PollerInv

\* Every step of the poller keeps the invariant: a try is counted when it
\* fails, and when a count is cleared the message is seen or the loss allows
\* as many tries again.
LEMMA StepPollerInv == PollerInv /\ [NextMail]_mailVars => PollerInv'
<1> SUFFICES ASSUME PollerInv, [NextMail]_mailVars PROVE PollerInv'
  OBVIOUS
<1> USE EmailPollerAssumption
<1>a. /\ box \in [Messages -> {"out", "unseen", "seen"}]
      /\ batch \subseteq Messages /\ stage \in Stages /\ current \in Messages \cup {NoMessage}
      /\ current = NoMessage => stage = "idle"
      /\ stage = "idle" => current = NoMessage
  BY DEF PollerInv, MailTypeOK
<1>b. /\ attempts \in [Messages -> 0 .. MaxAttempts] /\ tries \in [Messages -> Nat]
      /\ settled \in [Messages -> BOOLEAN] /\ losses \in [Messages -> 0 .. MaxLosses]
  BY DEF PollerInv, MailTypeOK
<1>c. BatchInv /\ CountInv /\ TriesBounded /\ SeenIsSettled
  BY DEF PollerInv
<1>d. \A m \in Messages : /\ losses[m] \in Nat /\ MaxAttempts * losses[m] \in Nat
                           /\ MaxAttempts * (losses[m] + 1) = MaxAttempts * losses[m] + MaxAttempts
  BY <1>b, OneMoreLoss
<1>1. ASSUME NEW m \in Messages, Deliver(m) PROVE PollerInv'
  <2>1. MailTypeOK'
    BY <1>1, <1>a, <1>b, <1>c DEF Deliver, history, MailTypeOK, Stages, CountInv, Marking
  <2>2. BatchInv'
    BY <1>1, <1>a, <1>c DEF Deliver, history, BatchInv
  <2>3. CountInv' /\ TriesBounded' /\ SeenIsSettled'
    BY <1>1, <1>a, <1>b, <1>c, <1>d
       DEF Deliver, history, BatchInv, CountInv, TriesBounded, SeenIsSettled, Busy, Marking, Stages
  <2> QED
    BY <2>1, <2>2, <2>3 DEF PollerInv
<1>2. ASSUME PollOnce PROVE PollerInv'
  <2>1. MailTypeOK'
    BY <1>2, <1>a, <1>b, <1>c DEF PollOnce, history, MailTypeOK, Stages, CountInv, Marking
  <2>2. BatchInv'
    BY <1>2, <1>a, <1>c DEF PollOnce, history, BatchInv
  <2>3. CountInv' /\ TriesBounded' /\ SeenIsSettled'
    BY <1>2, <1>a, <1>b, <1>c, <1>d
       DEF PollOnce, history, BatchInv, CountInv, TriesBounded, SeenIsSettled, Busy, Marking, Stages
  <2> QED
    BY <2>1, <2>2, <2>3 DEF PollerInv
<1>3. ASSUME NEW m \in Messages, Take(m) PROVE PollerInv'
  <2>1. MailTypeOK'
    BY <1>3, <1>a, <1>b, <1>c DEF Take, history, MailTypeOK, Stages, CountInv, Marking
  <2>2. BatchInv'
    BY <1>3, <1>a, <1>c DEF Take, history, BatchInv
  <2>3. CountInv' /\ TriesBounded' /\ SeenIsSettled'
    BY <1>3, <1>a, <1>b, <1>c, <1>d
       DEF Take, history, BatchInv, CountInv, TriesBounded, SeenIsSettled, Busy, Marking, Stages
  <2> QED
    BY <2>1, <2>2, <2>3 DEF PollerInv
<1>4. ASSUME NEW m \in Messages, FetchFails(m) PROVE PollerInv'
  <2>1. MailTypeOK'
    BY <1>4, <1>a, <1>b, <1>c DEF FetchFails, history, MailTypeOK, Stages, CountInv, Marking
  <2>2. BatchInv'
    BY <1>4, <1>a, <1>c DEF FetchFails, history, BatchInv
  <2>3. CountInv' /\ TriesBounded' /\ SeenIsSettled'
    BY <1>4, <1>a, <1>b, <1>c, <1>d
       DEF FetchFails, history, BatchInv, CountInv, TriesBounded, SeenIsSettled, Busy, Marking,
          Stages
  <2> QED
    BY <2>1, <2>2, <2>3 DEF PollerInv
<1>5. ASSUME NEW m \in Messages, Discard(m) PROVE PollerInv'
  <2>1. MailTypeOK'
    BY <1>5, <1>a, <1>b, <1>c DEF Discard, history, MailTypeOK, Stages, CountInv, Marking
  <2>2. BatchInv'
    BY <1>5, <1>a, <1>c DEF Discard, history, BatchInv
  <2>3. CountInv' /\ TriesBounded' /\ SeenIsSettled'
    BY <1>5, <1>a, <1>b, <1>c, <1>d
       DEF Discard, history, BatchInv, CountInv, TriesBounded, SeenIsSettled, Busy, Marking, Stages
  <2> QED
    BY <2>1, <2>2, <2>3 DEF PollerInv
<1>6. ASSUME NEW m \in Messages, Submit(m) PROVE PollerInv'
  <2>1. MailTypeOK'
    BY <1>6, <1>a, <1>b, <1>c DEF Submit, history, MailTypeOK, Stages, CountInv, Marking
  <2>2. BatchInv'
    BY <1>6, <1>a, <1>c DEF Submit, history, BatchInv
  <2>3. CountInv' /\ TriesBounded' /\ SeenIsSettled'
    BY <1>6, <1>a, <1>b, <1>c, <1>d
       DEF Submit, history, BatchInv, CountInv, TriesBounded, SeenIsSettled, Busy, Marking, Stages
  <2> QED
    BY <2>1, <2>2, <2>3 DEF PollerInv
<1>7. ASSUME NEW m \in Messages, Settle(m) PROVE PollerInv'
  <2>1. MailTypeOK'
    BY <1>7, <1>a, <1>b, <1>c DEF Settle, history, MailTypeOK, Stages, CountInv, Marking
  <2>2. BatchInv'
    BY <1>7, <1>a, <1>c DEF Settle, history, BatchInv
  <2>3. CountInv' /\ TriesBounded' /\ SeenIsSettled'
    BY <1>7, <1>a, <1>b, <1>c, <1>d
       DEF Settle, history, BatchInv, CountInv, TriesBounded, SeenIsSettled, Busy, Marking, Stages
  <2> QED
    BY <2>1, <2>2, <2>3 DEF PollerInv
<1>8. ASSUME NEW m \in Messages, Retry(m) PROVE PollerInv'
  <2>1. MailTypeOK'
    BY <1>8, <1>a, <1>b, <1>c DEF Retry, history, MailTypeOK, Stages, CountInv, Marking
  <2>2. BatchInv'
    BY <1>8, <1>a, <1>c DEF Retry, history, BatchInv
  <2>3. CountInv' /\ TriesBounded' /\ SeenIsSettled'
    BY <1>8, <1>a, <1>b, <1>c, <1>d
       DEF Retry, history, BatchInv, CountInv, TriesBounded, SeenIsSettled, Busy, Marking, Stages
  <2> QED
    BY <2>1, <2>2, <2>3 DEF PollerInv
<1>9. ASSUME NEW m \in Messages, Mark(m) PROVE PollerInv'
  <2>1. MailTypeOK'
    BY <1>9, <1>a, <1>b, <1>c DEF Mark, history, MailTypeOK, Stages, CountInv, Marking
  <2>2. BatchInv'
    BY <1>9, <1>a, <1>c DEF Mark, history, BatchInv
  <2>3. CountInv' /\ TriesBounded' /\ SeenIsSettled'
    BY <1>9, <1>a, <1>b, <1>c, <1>d
       DEF Mark, history, BatchInv, CountInv, TriesBounded, SeenIsSettled, Busy, Marking, Stages
  <2> QED
    BY <2>1, <2>2, <2>3 DEF PollerInv
<1>10. ASSUME NEW m \in Messages, MarkFails(m) PROVE PollerInv'
  <2>1. MailTypeOK'
    BY <1>10, <1>a, <1>b, <1>c DEF MarkFails, history, MailTypeOK, Stages, CountInv, Marking
  <2>2. BatchInv'
    BY <1>10, <1>a, <1>c DEF MarkFails, history, BatchInv
  <2>3. CountInv' /\ TriesBounded' /\ SeenIsSettled'
    BY <1>10, <1>a, <1>b, <1>c, <1>d
       DEF MarkFails, history, BatchInv, CountInv, TriesBounded, SeenIsSettled, Busy, Marking,
          Stages
  <2> QED
    BY <2>1, <2>2, <2>3 DEF PollerInv
<1>11. ASSUME Restart PROVE PollerInv'
  <2>1. MailTypeOK'
    BY <1>11, <1>a, <1>b, <1>c DEF Restart, MailTypeOK, Stages, CountInv, Marking
  <2>2. BatchInv'
    BY <1>11, <1>a, <1>c DEF Restart, BatchInv
  <2>3. CountInv' /\ TriesBounded' /\ SeenIsSettled'
    BY <1>11, <1>a, <1>b, <1>c, <1>d
       DEF Restart, BatchInv, CountInv, TriesBounded, SeenIsSettled, Busy, Marking, Stages
  <2> QED
    BY <2>1, <2>2, <2>3 DEF PollerInv
<1>12. ASSUME UNCHANGED mailVars PROVE PollerInv'
  BY <1>12, PollerInv
     DEF mailVars, PollerInv, MailTypeOK, BatchInv, CountInv, TriesBounded, SeenIsSettled,
         Busy, Marking
<1> QED
  BY <1>1, <1>2, <1>3, <1>4, <1>5, <1>6, <1>7, <1>8, <1>9, <1>10, <1>11, <1>12 DEF NextMail

\* The invariant holds of the mailbox, and with ImplementsParts of the whole.
LEMMA PollerInvHolds == Spec => []PollerInv
<1>1. SpecMail => []PollerInv
  BY InitPollerInv, StepPollerInv, PTL DEF SpecMail
<1> QED
  BY <1>1, ImplementsParts, PTL

\* The variables of the mailbox keep their types, for all constants.
THEOREM MailTypeCorrect == Spec => []MailTypeOK
<1>1. PollerInv => MailTypeOK
  BY DEF PollerInv
<1> QED
  BY <1>1, PollerInvHolds, PTL

\* No message is tried for ever: each loss of its count costs at most
\* MaxAttempts more tries, for all constants.
THEOREM TriesBoundedHolds == Spec => []TriesBounded
<1>1. PollerInv => TriesBounded
  BY DEF PollerInv
<1> QED
  BY <1>1, PollerInvHolds, PTL

\* No message is given up early, for all constants.
THEOREM SeenIsSettledHolds == Spec => []SeenIsSettled
<1>1. PollerInv => SeenIsSettled
  BY DEF PollerInv
<1> QED
  BY <1>1, PollerInvHolds, PTL

-----------------------------------------------------------------------------
(* The bookings                                                            *)

\* At most one booking of a trip has a code: what the unique index keeps.
CodesUnique == \A r, q \in booked : q \in WithCode(tripOf[r], codeOf[r]) => q = r

\* There are no bookings at first.
LEMMA InitBookingType == InitBookings => BookingTypeOK
BY DEF InitBookings, BookingTypeOK, Data, NoData, Places, WithCode

\* Every step of an import, of the user and of the clock keeps the types and
\* the index; a merge writes the code of its text, which no other booking has.
LEMMA StepBookingType == BookingTypeOK /\ [NextBookings]_bookingVars => BookingTypeOK'
<1> SUFFICES ASSUME BookingTypeOK, [NextBookings]_bookingVars PROVE BookingTypeOK'
  OBVIOUS
<1>a. /\ booked \subseteq spent /\ spent \subseteq Rows
      /\ tripOf \in [Rows -> Trips \cup {NoTrip}]
      /\ codeOf \in [Rows -> Codes \cup {NoCode}]
      /\ slotOf \in [Rows -> Slots \cup {NoSlot}]
  BY DEF BookingTypeOK
<1>b. /\ edited \in [Rows -> BOOLEAN]
      /\ fresh \in [Rows -> BOOLEAN] /\ touched \in [Rows -> BOOLEAN]
      /\ shed \in [Rows -> SUBSET (Trips \cup Codes \cup Slots)]
  BY DEF BookingTypeOK
<1>c. /\ at \in [Imports -> Places]
      /\ data \in [Imports -> Data]
      /\ found \in [Imports -> Rows \cup {NoRow}]
  BY DEF BookingTypeOK
<1>d. CodesUnique
  BY DEF BookingTypeOK, CodesUnique
<1>e. \A i \in Imports : /\ data[i].trip \in Trips \cup {NoTrip}
                          /\ data[i].code \in Codes \cup {NoCode}
                          /\ data[i].slot \in Slots \cup {NoSlot}
  BY <1>c DEF Data
<1> DEFINE RowTypes == /\ booked \subseteq spent /\ spent \subseteq Rows
                       /\ tripOf \in [Rows -> Trips \cup {NoTrip}]
                       /\ codeOf \in [Rows -> Codes \cup {NoCode}]
                       /\ slotOf \in [Rows -> Slots \cup {NoSlot}]
           FlagTypes == /\ edited \in [Rows -> BOOLEAN]
                        /\ fresh \in [Rows -> BOOLEAN] /\ touched \in [Rows -> BOOLEAN]
                        /\ shed \in [Rows -> SUBSET (Trips \cup Codes \cup Slots)]
           ImportTypes == /\ at \in [Imports -> Places]
                          /\ data \in [Imports -> Data]
                          /\ found \in [Imports -> Rows \cup {NoRow}]
<1>f. RowTypes' /\ FlagTypes' /\ ImportTypes' /\ CodesUnique' => BookingTypeOK'
  BY DEF BookingTypeOK, CodesUnique
<1>1. ASSUME NEW i \in Imports, NEW d \in Data, Parse(i, d) PROVE BookingTypeOK'
  <2>1. RowTypes'
    BY <1>1, <1>a, <1>e DEF Parse, rows
  <2>2. FlagTypes'
    BY <1>1, <1>b DEF Parse, rows
  <2>3. ImportTypes'
    BY <1>1, <1>a, <1>c DEF Parse, imports, Goto, Places
  <2>4. CodesUnique'
    BY <1>1, <1>a, <1>d, <1>e DEF Parse, rows, CodesUnique, WithCode
  <2> QED
    BY <2>1, <2>2, <2>3, <2>4, <1>f
<1>2. ASSUME NEW i \in Imports, FailParse(i) PROVE BookingTypeOK'
  <2>1. RowTypes'
    BY <1>2, <1>a, <1>e DEF FailParse, rows
  <2>2. FlagTypes'
    BY <1>2, <1>b DEF FailParse, rows
  <2>3. ImportTypes'
    BY <1>2, <1>a, <1>c DEF FailParse, imports, Goto, Places
  <2>4. CodesUnique'
    BY <1>2, <1>a, <1>d, <1>e DEF FailParse, rows, CodesUnique, WithCode
  <2> QED
    BY <2>1, <2>2, <2>3, <2>4, <1>f
<1>3. ASSUME NEW i \in Imports, Lookup(i) PROVE BookingTypeOK'
  <2>1. RowTypes'
    BY <1>3, <1>a, <1>e DEF Lookup, rows
  <2>2. FlagTypes'
    BY <1>3, <1>b DEF Lookup, rows
  <2>3. ImportTypes'
    BY <1>3, <1>a, <1>c DEF Lookup, imports, Goto, Places, WithCode
  <2>4. CodesUnique'
    BY <1>3, <1>a, <1>d, <1>e DEF Lookup, rows, CodesUnique, WithCode
  <2> QED
    BY <2>1, <2>2, <2>3, <2>4, <1>f
<1>4. ASSUME NEW i \in Imports, FindFuzzy(i) PROVE BookingTypeOK'
  <2>1. RowTypes'
    BY <1>4, <1>a, <1>e DEF FindFuzzy, rows
  <2>2. FlagTypes'
    BY <1>4, <1>b DEF FindFuzzy, rows
  <2>3. ImportTypes'
    BY <1>4, <1>a, <1>c DEF FindFuzzy, imports, Goto, Places, Ranked
  <2>4. CodesUnique'
    BY <1>4, <1>a, <1>d, <1>e DEF FindFuzzy, rows, CodesUnique, WithCode
  <2> QED
    BY <2>1, <2>2, <2>3, <2>4, <1>f
<1>5. ASSUME NEW i \in Imports, Create(i) PROVE BookingTypeOK'
  <2>1. RowTypes'
    BY <1>5, <1>a, <1>e DEF Create, rows
  <2>2. FlagTypes'
    BY <1>5, <1>b DEF Create, rows
  <2>3. ImportTypes'
    BY <1>5, <1>a, <1>c DEF Create, imports, Goto, Places, WithCode
  <2>4. CodesUnique'
    BY <1>5, <1>a, <1>d, <1>e DEF Create, rows, CodesUnique, WithCode
  <2> QED
    BY <2>1, <2>2, <2>3, <2>4, <1>f
<1>6. ASSUME NEW i \in Imports, Conflict(i) PROVE BookingTypeOK'
  <2>1. RowTypes'
    BY <1>6, <1>a, <1>e DEF Conflict, rows
  <2>2. FlagTypes'
    BY <1>6, <1>b DEF Conflict, rows
  <2>3. ImportTypes'
    BY <1>6, <1>a, <1>c DEF Conflict, imports, Goto, Places
  <2>4. CodesUnique'
    BY <1>6, <1>a, <1>d, <1>e DEF Conflict, rows, CodesUnique, WithCode
  <2> QED
    BY <2>1, <2>2, <2>3, <2>4, <1>f
<1>7. ASSUME NEW i \in Imports, Reject(i) PROVE BookingTypeOK'
  <2>1. RowTypes'
    BY <1>7, <1>a, <1>e DEF Reject, rows
  <2>2. FlagTypes'
    BY <1>7, <1>b DEF Reject, rows
  <2>3. ImportTypes'
    BY <1>7, <1>a, <1>c DEF Reject, imports, Goto, Places
  <2>4. CodesUnique'
    BY <1>7, <1>a, <1>d, <1>e DEF Reject, rows, CodesUnique, WithCode
  <2> QED
    BY <2>1, <2>2, <2>3, <2>4, <1>f
<1>8. ASSUME NEW i \in Imports, Refetch(i) PROVE BookingTypeOK'
  <2>1. RowTypes'
    BY <1>8, <1>a, <1>e DEF Refetch, rows
  <2>2. FlagTypes'
    BY <1>8, <1>b DEF Refetch, rows
  <2>3. ImportTypes'
    BY <1>8, <1>a, <1>c DEF Refetch, imports, Goto, Places, WithCode
  <2>4. CodesUnique'
    BY <1>8, <1>a, <1>d, <1>e DEF Refetch, rows, CodesUnique, WithCode
  <2> QED
    BY <2>1, <2>2, <2>3, <2>4, <1>f
<1>9. ASSUME NEW i \in Imports, Merge(i) PROVE BookingTypeOK'
  <2>1. RowTypes'
    BY <1>9, <1>a, <1>e DEF Merge, rows, Mergeable
  <2>2. FlagTypes'
    BY <1>9, <1>a, <1>b DEF Merge, Mergeable, Rewrites, rows
  <2>3. ImportTypes'
    BY <1>9, <1>a, <1>c DEF Merge, imports, Goto, Places, WithCode
  <2>4. CodesUnique'
    BY <1>9, <1>a, <1>d, <1>e DEF Merge, rows, CodesUnique, WithCode, Mergeable
  <2> QED
    BY <2>1, <2>2, <2>3, <2>4, <1>f
<1>10. ASSUME NEW i \in Imports, MergeConflict(i) PROVE BookingTypeOK'
  <2>1. RowTypes'
    BY <1>10, <1>a, <1>e DEF MergeConflict, rows
  <2>2. FlagTypes'
    BY <1>10, <1>b DEF MergeConflict, rows
  <2>3. ImportTypes'
    BY <1>10, <1>a, <1>c DEF MergeConflict, imports, Goto, Places
  <2>4. CodesUnique'
    BY <1>10, <1>a, <1>d, <1>e DEF MergeConflict, rows, CodesUnique, WithCode
  <2> QED
    BY <2>1, <2>2, <2>3, <2>4, <1>f
<1>11. ASSUME NEW i \in Imports, Preserve(i) PROVE BookingTypeOK'
  <2>1. RowTypes'
    BY <1>11, <1>a, <1>e DEF Preserve, rows
  <2>2. FlagTypes'
    BY <1>11, <1>b DEF Preserve, rows
  <2>3. ImportTypes'
    BY <1>11, <1>a, <1>c DEF Preserve, imports, Goto, Places
  <2>4. CodesUnique'
    BY <1>11, <1>a, <1>d, <1>e DEF Preserve, rows, CodesUnique, WithCode
  <2> QED
    BY <2>1, <2>2, <2>3, <2>4, <1>f
<1>12. ASSUME NEW i \in Imports, FailImport(i) PROVE BookingTypeOK'
  <2>1. RowTypes'
    BY <1>12, <1>a, <1>e DEF FailImport, rows
  <2>2. FlagTypes'
    BY <1>12, <1>b DEF FailImport, rows
  <2>3. ImportTypes'
    BY <1>12, <1>a, <1>c DEF FailImport, imports, Goto, Places
  <2>4. CodesUnique'
    BY <1>12, <1>a, <1>d, <1>e DEF FailImport, rows, CodesUnique, WithCode
  <2> QED
    BY <2>1, <2>2, <2>3, <2>4, <1>f
<1>13. ASSUME NEW i \in Imports, Answer(i) PROVE BookingTypeOK'
  <2>1. RowTypes'
    BY <1>13, <1>a, <1>e DEF Answer, rows
  <2>2. FlagTypes'
    BY <1>13, <1>b DEF Answer, rows
  <2>3. ImportTypes'
    BY <1>13, <1>a, <1>c DEF Answer, imports, Goto, Places, NoData, Data
  <2>4. CodesUnique'
    BY <1>13, <1>a, <1>d, <1>e DEF Answer, rows, CodesUnique, WithCode
  <2> QED
    BY <2>1, <2>2, <2>3, <2>4, <1>f
<1>14. ASSUME NEW r \in Rows, NEW u \in Updates, UpdateBooking(r, u.code, u.slot)
       PROVE  BookingTypeOK'
  <2>a. u.code \in Codes \cup {NoCode} /\ u.slot \in Slots \cup {NoSlot}
    BY BookingAssumption
  <2>1. RowTypes'
    BY <1>14, <1>a, <2>a DEF UpdateBooking
  <2>2. FlagTypes'
    BY <1>14, <1>a, <1>b DEF UpdateBooking, Rewrites, rows
  <2>3. ImportTypes'
    BY <1>14, <1>a, <1>c DEF UpdateBooking, imports, Goto, Places
  <2>4. CodesUnique'
    BY <1>14, <1>a, <1>d, <1>e DEF UpdateBooking, rows, CodesUnique, WithCode
  <2> QED
    BY <2>1, <2>2, <2>3, <2>4, <1>f
<1>15. ASSUME NEW r \in Rows, NEW t \in Trips, LinkBooking(r, t) PROVE BookingTypeOK'
  <2>1. RowTypes'
    BY <1>15, <1>a, <1>e DEF LinkBooking, rows
  <2>2. FlagTypes'
    BY <1>15, <1>a, <1>b DEF LinkBooking, Rewrites, rows
  <2>3. ImportTypes'
    BY <1>15, <1>a, <1>c DEF LinkBooking, imports, Goto, Places
  <2>4. CodesUnique'
    BY <1>15, <1>a, <1>d, <1>e DEF LinkBooking, rows, CodesUnique, WithCode
  <2> QED
    BY <2>1, <2>2, <2>3, <2>4, <1>f
<1>16. ASSUME NEW r \in Rows, DeleteBooking(r) PROVE BookingTypeOK'
  <2>1. RowTypes'
    BY <1>16, <1>a, <1>e DEF DeleteBooking, rows
  <2>2. FlagTypes'
    BY <1>16, <1>b DEF DeleteBooking, rows
  <2>3. ImportTypes'
    BY <1>16, <1>a, <1>c DEF DeleteBooking, imports, Goto, Places
  <2>4. CodesUnique'
    BY <1>16, <1>a, <1>d, <1>e DEF DeleteBooking, rows, CodesUnique, WithCode
  <2> QED
    BY <2>1, <2>2, <2>3, <2>4, <1>f
<1>17. ASSUME NEW r \in Rows, SecondPasses(r) PROVE BookingTypeOK'
  <2>1. RowTypes'
    BY <1>17, <1>a, <1>e DEF SecondPasses, rows
  <2>2. FlagTypes'
    BY <1>17, <1>b DEF SecondPasses, rows
  <2>3. ImportTypes'
    BY <1>17, <1>a, <1>c DEF SecondPasses, imports, Goto, Places
  <2>4. CodesUnique'
    BY <1>17, <1>a, <1>d, <1>e DEF SecondPasses, rows, CodesUnique, WithCode
  <2> QED
    BY <2>1, <2>2, <2>3, <2>4, <1>f
<1>18. ASSUME StopImports PROVE BookingTypeOK'
  <2>1. RowTypes'
    BY <1>18, <1>a, <1>e DEF StopImports, rows
  <2>2. FlagTypes'
    BY <1>18, <1>b DEF StopImports, rows
  <2>3. ImportTypes'
    BY <1>18, <1>a, <1>c DEF StopImports, imports, Goto, Places, NoData, Data
  <2>4. CodesUnique'
    BY <1>18, <1>a, <1>d, <1>e DEF StopImports, rows, CodesUnique, WithCode
  <2> QED
    BY <2>1, <2>2, <2>3, <2>4, <1>f
<1>19. ASSUME UNCHANGED bookingVars PROVE BookingTypeOK'
  <2>1. RowTypes'
    BY <1>19, <1>a, <1>e DEF bookingVars, rows
  <2>2. FlagTypes'
    BY <1>19, <1>b DEF bookingVars, rows
  <2>3. ImportTypes'
    BY <1>19, <1>a, <1>c DEF bookingVars, imports, Goto, Places
  <2>4. CodesUnique'
    BY <1>19, <1>a, <1>d, <1>e DEF bookingVars, rows, CodesUnique, WithCode
  <2> QED
    BY <2>1, <2>2, <2>3, <2>4, <1>f
<1> QED
  BY <1>1, <1>2, <1>3, <1>4, <1>5, <1>6, <1>7, <1>8, <1>9, <1>10, <1>11, <1>12, <1>13, <1>14, <1>15,
     <1>16, <1>17, <1>18, <1>19
     DEF NextBookings, ImportStep, UserStep

\* The variables of the imports and bookings keep their types and no two
\* bookings of a trip share a code, for all constants.
THEOREM BookingTypeCorrect == Spec => []BookingTypeOK
<1>1. SpecBookings => []BookingTypeOK
  BY InitBookingType, StepBookingType, PTL DEF SpecBookings
<1> QED
  BY <1>1, ImplementsParts, PTL

\* A booking that the user has written last, later than a second after its
\* creation, is found but not mergeable; and a new one gets an unspent id.
LEMMA StepEditsSurvive ==
  ASSUME BookingTypeOK, [NextBookings]_bookingVars,
         NEW r \in booked \cap booked', edited[r], touched[r]
  PROVE  edited'[r]
<1> SUFFICES ASSUME NextBookings PROVE edited'[r]
  BY DEF bookingVars, rows
<1>1. booked \subseteq spent /\ r \in Rows /\ edited \in [Rows -> BOOLEAN]
  BY DEF BookingTypeOK
<1>2. ASSUME NEW i \in Imports, Merge(i)
      PROVE  edited'[r]
  BY <1>1, <1>2 DEF Merge, Mergeable
<1>3. ASSUME NEW q \in Rows, DeleteBooking(q)
      PROVE  edited'[r]
  BY <1>1, <1>3 DEF DeleteBooking
<1>4. ASSUME NEW q \in Rows, NEW u \in Updates, UpdateBooking(q, u.code, u.slot)
      PROVE  edited'[r]
  BY <1>1, <1>4 DEF UpdateBooking
<1>5. ASSUME NEW q \in Rows,
             SecondPasses(q) \/ \E t \in Trips : LinkBooking(q, t)
      PROVE  edited'[r]
  BY <1>5 DEF SecondPasses, LinkBooking
<1>6. ASSUME NEW i \in Imports,
             \/ FailParse(i) \/ Lookup(i) \/ FindFuzzy(i) \/ Create(i) \/ Conflict(i)
             \/ Reject(i) \/ Refetch(i) \/ MergeConflict(i) \/ Preserve(i)
             \/ FailImport(i) \/ Answer(i) \/ \E d \in Data : Parse(i, d)
      PROVE  edited'[r]
  BY <1>6 DEF FailParse, Lookup, FindFuzzy, Create, Conflict, Reject, Refetch, MergeConflict,
              Preserve, FailImport, Answer, Parse, rows
<1>7. CASE StopImports
  BY <1>7 DEF StopImports, rows
<1> QED
  BY <1>2, <1>3, <1>4, <1>5, <1>6, <1>7 DEF NextBookings, ImportStep, UserStep

\* No import overwrites what the user wrote, for all constants.
THEOREM EditsSurviveHolds == Spec => EditsSurvive
<1>1. BookingTypeOK /\ [NextBookings]_bookingVars =>
        [\A r \in booked \cap booked' : edited[r] /\ touched[r] => edited'[r]]_bookingVars
  BY StepEditsSurvive
<1>2. SpecBookings => []BookingTypeOK
  BY InitBookingType, StepBookingType, PTL DEF SpecBookings
<1>3. SpecBookings => EditsSurvive
  BY <1>1, <1>2, PTL DEF SpecBookings, EditsSurvive
<1> QED
  BY <1>3, ImplementsParts, PTL

-----------------------------------------------------------------------------
(* The same confirmation again                                             *)

\* A booking that still has the trip and the code of a text it has had, or the
\* time by which the search has found it.
Own(r, d) ==
  r \in Keeping(d) /\ Confirms(d) =>
    /\ tripOf[r] = d.trip
    /\ codeOf[r] = d.code \/ (slotOf[r] = d.slot /\ d.slot # NoSlot)

\* What an import has found is the booking of its text; what a message's last
\* import for a trip has named is the booking of the message for that trip.
OwnFound ==
  \A i \in Imports : at[i] \in {"merge", "done"} => found[i] \in spent /\ Own(found[i], data[i])

OwnText ==
  \A m \in Messages :
    at[m] \notin {"idle", "failed"} => data[m] = Addressed(m, data[m].trip)

OwnResult ==
  /\ result \in [Messages -> [Trips -> Rows \cup {NoRow}]]
  /\ \A m \in Messages, t \in Trips :
       result[m][t] # NoRow => result[m][t] \in spent /\ Own(result[m][t], Addressed(m, t))

OwnInv == BookingTypeOK /\ OwnFound /\ OwnText /\ OwnResult

\* Two bookings of one confirmation are one, when neither is a rival: the index
\* admits one booking with the code.
LEMMA OwnAgree ==
  ASSUME BookingTypeOK, NEW d \in Data, Confirms(d), Rivals(d) = {},
         NEW r \in Keeping(d), NEW q \in Keeping(d), Own(r, d), Own(q, d)
  PROVE  r = q
<1>1. r \in booked /\ q \in booked
  BY DEF Keeping
<1>2. /\ tripOf[r] = d.trip /\ codeOf[r] = d.code
      /\ tripOf[q] = d.trip /\ codeOf[q] = d.code
  BY <1>1 DEF Own, Rivals
<1>3. q \in WithCode(tripOf[r], codeOf[r])
  BY <1>1, <1>2 DEF WithCode, Confirms
<1> QED
  BY <1>1, <1>3 DEF BookingTypeOK

\* A row that is written keeps what it had or has shed it.
LEMMA OwnStays ==
  ASSUME BookingTypeOK, [NextBookings]_bookingVars, NEW r \in spent, NEW d \in Data, Own(r, d)
  PROVE  Own(r, d)'
<1>1. /\ booked \subseteq spent /\ spent \subseteq Rows
      /\ tripOf \in [Rows -> Trips \cup {NoTrip}]
      /\ codeOf \in [Rows -> Codes \cup {NoCode}]
      /\ slotOf \in [Rows -> Slots \cup {NoSlot}]
      /\ shed \in [Rows -> SUBSET (Trips \cup Codes \cup Slots)]
  BY DEF BookingTypeOK
<1>2. ASSUME booked' \subseteq booked,
             \/ UNCHANGED <<tripOf, codeOf, slotOf, shed>>
             \/ \E q \in booked : /\ \E t : tripOf' = [tripOf EXCEPT ![q] = t]
                                  /\ \E c : codeOf' = [codeOf EXCEPT ![q] = c]
                                  /\ \E s : slotOf' = [slotOf EXCEPT ![q] = s]
                                  /\ Rewrites(q)
      PROVE  Own(r, d)'
  <2>1. CASE UNCHANGED <<tripOf, codeOf, slotOf, shed>>
    BY <1>2, <2>1 DEF Own, Keeping, Confirms
  <2>2. ASSUME NEW q \in booked, NEW t, NEW c, NEW s,
               tripOf' = [tripOf EXCEPT ![q] = t], codeOf' = [codeOf EXCEPT ![q] = c],
               slotOf' = [slotOf EXCEPT ![q] = s], Rewrites(q)
        PROVE  Own(r, d)'
    <3>1. r # q => /\ tripOf'[r] = tripOf[r] /\ codeOf'[r] = codeOf[r]
                   /\ slotOf'[r] = slotOf[r] /\ shed'[r] = shed[r]
      BY <1>1, <2>2 DEF Rewrites
    <3>2. shed[r] \subseteq shed'[r]
      BY <1>1, <2>2 DEF Rewrites
    <3>3. r = q => /\ tripOf'[r] = tripOf[r] \/ tripOf[r] = NoTrip \/ tripOf[r] \in shed'[r]
                   /\ codeOf'[r] = codeOf[r] \/ codeOf[r] = NoCode \/ codeOf[r] \in shed'[r]
                   /\ slotOf'[r] = slotOf[r] \/ slotOf[r] = NoSlot \/ slotOf[r] \in shed'[r]
      BY <1>1, <2>2 DEF Rewrites
    <3>4. SUFFICES ASSUME r \in Keeping(d)', Confirms(d)
                   PROVE  /\ tripOf'[r] = d.trip
                          /\ codeOf'[r] = d.code \/ (slotOf'[r] = d.slot /\ d.slot # NoSlot)
      BY DEF Own, Confirms
    <3>5. /\ r \in booked
          /\ d.trip \notin shed'[r] /\ d.code \notin shed'[r] /\ d.slot \notin shed'[r]
      BY <1>2, <3>4 DEF Keeping
    <3>6. r \in Keeping(d)
      BY <3>2, <3>5 DEF Keeping
    <3>7. /\ tripOf[r] = d.trip
          /\ codeOf[r] = d.code \/ (slotOf[r] = d.slot /\ d.slot # NoSlot)
      BY <3>4, <3>6 DEF Own
    <3> QED
      BY <3>1, <3>3, <3>4, <3>5, <3>7 DEF Confirms
  <2> QED
    BY <1>2, <2>1, <2>2
<1>3. CASE UNCHANGED <<booked, tripOf, codeOf, slotOf, shed>>
  BY <1>2, <1>3
<1>4. ASSUME NEW i \in Imports, Merge(i) PROVE Own(r, d)'
  <2>1. /\ found[i] \in booked /\ booked' = booked /\ Rewrites(found[i])
        /\ tripOf' = [tripOf EXCEPT ![found[i]] = tripOf[found[i]]]
    BY <1>1, <1>4 DEF Merge, Mergeable
  <2> QED
    BY <1>2, <1>4, <2>1 DEF Merge
<1>5. ASSUME NEW q \in Rows, NEW u \in Updates, UpdateBooking(q, u.code, u.slot) PROVE Own(r, d)'
  <2>1. tripOf' = [tripOf EXCEPT ![q] = tripOf[q]]
    BY <1>1, <1>5 DEF UpdateBooking
  <2> QED
    BY <1>2, <1>5, <2>1 DEF UpdateBooking
<1>6. ASSUME NEW q \in Rows, NEW t \in Trips, LinkBooking(q, t) PROVE Own(r, d)'
  <2>1. /\ codeOf' = [codeOf EXCEPT ![q] = codeOf[q]]
        /\ slotOf' = [slotOf EXCEPT ![q] = slotOf[q]]
    BY <1>1, <1>6 DEF LinkBooking
  <2> QED
    BY <1>2, <1>6, <2>1 DEF LinkBooking
<1>7. ASSUME NEW q \in Rows, DeleteBooking(q) PROVE Own(r, d)'
  BY <1>1, <1>7 DEF DeleteBooking, Own, Keeping, Confirms
<1>8. ASSUME NEW i \in Imports, Create(i) PROVE Own(r, d)'
  BY <1>1, <1>8 DEF Create, Own, Keeping, Confirms
<1>9. ASSUME NEW i \in Imports,
             \/ FailParse(i) \/ Lookup(i) \/ FindFuzzy(i) \/ Conflict(i) \/ Reject(i) \/ Refetch(i)
             \/ MergeConflict(i) \/ Preserve(i) \/ FailImport(i) \/ Answer(i)
             \/ \E e \in Data : Parse(i, e)
      PROVE  UNCHANGED <<booked, tripOf, codeOf, slotOf, shed>>
  BY <1>9 DEF FailParse, Lookup, FindFuzzy, Conflict, Reject, Refetch, MergeConflict,
              Preserve, FailImport, Answer, Parse, rows
<1>10. ASSUME StopImports \/ (\E q \in Rows : SecondPasses(q)) \/ UNCHANGED bookingVars
       PROVE  UNCHANGED <<booked, tripOf, codeOf, slotOf, shed>>
  BY <1>10 DEF StopImports, SecondPasses, bookingVars, rows
<1> QED
  BY <1>3, <1>4, <1>5, <1>6, <1>7, <1>8, <1>9, <1>10 DEF NextBookings, ImportStep, UserStep

\* Ids are never taken back.
LEMMA SpentStays == BookingTypeOK /\ [NextBookings]_bookingVars => spent \subseteq spent'
BY DEF NextBookings, ImportStep, UserStep, FailParse, Lookup, FindFuzzy, Create, Conflict, Reject,
       Refetch, Merge, MergeConflict, Preserve, FailImport, Answer, Parse, StopImports,
       DeleteBooking, SecondPasses, UpdateBooking, LinkBooking, bookingVars, rows

\* What an import finds or creates is its text's, and stays so.
LEMMA StepOwnFound ==
  BookingTypeOK /\ OwnFound /\ [NextBookings]_bookingVars => OwnFound'
<1> SUFFICES ASSUME BookingTypeOK, OwnFound, [NextBookings]_bookingVars,
                    NEW i \in Imports, at'[i] \in {"merge", "done"}
             PROVE  found'[i] \in spent' /\ Own(found[i], data[i])'
  BY DEF OwnFound
<1>1. /\ booked \subseteq spent /\ spent \subseteq spent'
      /\ at \in [Imports -> Places] /\ found \in [Imports -> Rows \cup {NoRow}]
      /\ data \in [Imports -> Data]
  BY SpentStays DEF BookingTypeOK
<1>2. /\ tripOf \in [Rows -> Trips \cup {NoTrip}]
      /\ codeOf \in [Rows -> Codes \cup {NoCode}]
      /\ slotOf \in [Rows -> Slots \cup {NoSlot}]
      /\ spent \subseteq Rows
  BY DEF BookingTypeOK
<1>3. CASE at[i] \in {"merge", "done"} /\ UNCHANGED <<found[i], data[i]>>
  <2>1. Own(found[i], data[i]) /\ found[i] \in spent /\ data[i] \in Data
    BY <1>1, <1>3 DEF OwnFound
  <2>2. PICK r \in spent, d \in Data : r = found[i] /\ d = data[i]
    BY <2>1
  <2>3. Own(r, d)'
    BY <2>1, <2>2, OwnStays DEF Own
  <2> QED
    BY <1>1, <1>3, <2>2, <2>3 DEF Own, Keeping, Confirms
<1>4. ASSUME NEW j \in Imports, Lookup(j) \/ Refetch(j)
      PROVE  found'[i] \in spent' /\ Own(found[i], data[i])'
  <2>1. CASE i = j
    BY <1>1, <1>4, <2>1 DEF Lookup, Refetch, Goto, WithCode, Own, Keeping, Confirms, rows
  <2>2. CASE i # j
    BY <1>1, <1>3, <1>4, <2>2 DEF Lookup, Refetch, Goto
  <2> QED
    BY <2>1, <2>2
<1>5. ASSUME NEW j \in Imports, FindFuzzy(j)
      PROVE  found'[i] \in spent' /\ Own(found[i], data[i])'
  <2>1. CASE i = j
    BY <1>1, <1>5, <2>1 DEF FindFuzzy, Goto, Ranked, Own, Keeping, Confirms, rows
  <2>2. CASE i # j
    BY <1>1, <1>3, <1>5, <2>2 DEF FindFuzzy, Goto
  <2> QED
    BY <2>1, <2>2
<1>6. ASSUME NEW j \in Imports, Create(j)
      PROVE  found'[i] \in spent' /\ Own(found[i], data[i])'
  <2>1. CASE i = j
    BY <1>1, <1>2, <1>6, <2>1 DEF Create, Goto, Own, Keeping, Confirms
  <2>2. CASE i # j
    BY <1>1, <1>3, <1>6, <2>2 DEF Create, Goto
  <2> QED
    BY <2>1, <2>2
<1>7. ASSUME NEW j \in Imports, Merge(j) \/ Preserve(j)
      PROVE  found'[i] \in spent' /\ Own(found[i], data[i])'
  BY <1>1, <1>3, <1>7 DEF Merge, Preserve, Goto
<1>8. ASSUME NEW j \in Imports,
             \/ FailParse(j) \/ Conflict(j) \/ Reject(j) \/ MergeConflict(j) \/ FailImport(j)
             \/ Answer(j) \/ \E d \in Data : Parse(j, d)
      PROVE  at[i] \in {"merge", "done"} /\ UNCHANGED <<found[i], data[i]>>
  BY <1>1, <1>8 DEF FailParse, Conflict, Reject, MergeConflict, FailImport, Answer, Parse, Goto
<1>9. ASSUME UserStep \/ UNCHANGED bookingVars
      PROVE  at[i] \in {"merge", "done"} /\ UNCHANGED <<found[i], data[i]>>
  BY <1>9 DEF UserStep, DeleteBooking, SecondPasses, UpdateBooking, LinkBooking, bookingVars,
     imports
<1>10. ~StopImports
  BY DEF StopImports
<1> QED
  BY <1>3, <1>4, <1>5, <1>6, <1>7, <1>8, <1>9, <1>10 DEF NextBookings, ImportStep

\* The import of a message has the message's code and time.
LEMMA StepOwnText == BookingTypeOK /\ OwnText /\ [Next]_allVars => OwnText'
<1> SUFFICES ASSUME BookingTypeOK, OwnText, [Next]_allVars,
                    NEW m \in Messages, at'[m] \notin {"idle", "failed"}
             PROVE  data'[m] = Addressed(m, data'[m].trip)
  BY DEF OwnText
<1> USE ImportedMailAssumption
<1>1. m \in Imports /\ at \in [Imports -> Places] /\ data \in [Imports -> Data]
  BY DEF BookingTypeOK
<1>2. at[m] \notin {"idle", "failed"} => data[m] = Addressed(m, data[m].trip)
  BY DEF OwnText
<1>3. ASSUME NEW n \in Messages, SubmitMail(n) PROVE data'[m] = Addressed(m, data'[m].trip)
  BY <1>1, <1>2, <1>3 DEF SubmitMail, Parse, FailParse, Goto, Addressed
<1>4. ASSUME NEW n \in Messages, AnswerMail(n) PROVE data'[m] = Addressed(m, data'[m].trip)
  BY <1>1, <1>2, <1>4 DEF AnswerMail, Answer, Goto
<1>5. ASSUME NEW p \in Pastes, Paste(p) PROVE data'[m] = Addressed(m, data'[m].trip)
  <2>1. p \in Imports /\ p # m
    OBVIOUS
  <2> QED
    BY <1>1, <1>2, <1>5, <2>1 DEF Paste, Answer, Parse, Goto
<1>6. ASSUME NEW i \in Imports, Import(i) PROVE data'[m] = Addressed(m, data'[m].trip)
  BY <1>1, <1>2, <1>6 DEF Import, ImportStep, Lookup, FindFuzzy, Create, Conflict, Reject, Refetch,
                          Merge, MergeConflict, Preserve, FailImport, Goto
<1>7. ASSUME (\E n \in Messages : Mail(n)) \/ Poll \/ UserStep \/ UNCHANGED allVars
      PROVE  at'[m] = at[m] /\ data'[m] = data[m]
  BY <1>7 DEF Mail, Poll, UserStep, DeleteBooking, SecondPasses, UpdateBooking, LinkBooking,
     allVars,
              bookingVars, imports
<1>8. ~Crash
  BY <1>1 DEF Crash, StopImports
<1> QED
  BY <1>2, <1>3, <1>4, <1>5, <1>6, <1>7, <1>8 DEF Next

\* So what its last import for a trip has named is the message's booking there.
LEMMA StepOwnResult == OwnInv /\ [Next]_allVars => OwnResult'
<1> SUFFICES ASSUME OwnInv, [Next]_allVars PROVE OwnResult'
  OBVIOUS
<1> USE ImportedMailAssumption DEF OwnInv
<1>0. result' \in [Messages -> [Trips -> Rows \cup {NoRow}]]
  <2>1. ASSUME NEW n \in Messages, AnswerMail(n)
        PROVE  result' \in [Messages -> [Trips -> Rows \cup {NoRow}]]
    <3>1. n \in Imports /\ found[n] \in Rows \cup {NoRow} /\ data[n] \in Data
      BY DEF BookingTypeOK
    <3>2. data[n].trip \in Trips \cup {NoTrip}
      BY <3>1 DEF Data
    <3>3. CASE result' = result
      BY <3>3 DEF OwnResult
    <3>4. CASE /\ data[n].trip \in Trips
               /\ result' = [result EXCEPT ![n][data[n].trip] = found[n]]
      BY <3>1, <3>4 DEF OwnResult
    <3> QED
      BY <2>1, <3>2, <3>3, <3>4 DEF AnswerMail
  <2>2. ASSUME ~\E n \in Messages : AnswerMail(n) PROVE result' = result
    BY <2>2 DEF Next, Mail, SubmitMail, Paste, Import, Poll, Crash, allVars
  <2> QED
    BY <2>1, <2>2 DEF OwnResult
<1> SUFFICES ASSUME NEW m \in Messages, NEW t \in Trips, result'[m][t] # NoRow
             PROVE  result'[m][t] \in spent' /\ Own(result[m][t], Addressed(m, t))'
  BY <1>0 DEF OwnResult
<1>1. m \in Imports /\ [NextBookings]_bookingVars /\ spent \subseteq spent'
  BY BookingSteps, SpentStays
<1>a. PICK d \in Data : d = Addressed(m, t)
  BY DEF Addressed, Data
<1>b. ASSUME NEW r \in spent, Own(r, d) PROVE Own(r, d)'
  BY <1>1, <1>b, OwnStays
<1>2. CASE result'[m] = result[m]
  <2>1. PICK r \in spent : r = result[m][t] /\ Own(r, d)
    BY <1>2, <1>a DEF OwnResult
  <2> QED
    BY <1>1, <1>2, <1>a, <1>b, <2>1 DEF Own, Keeping, Confirms, Addressed
<1>3. ASSUME NEW n \in Messages, AnswerMail(n), at[n] = "done"
      PROVE  result'[m][t] \in spent' /\ Own(result[m][t], Addressed(m, t))'
  <2>1. CASE result'[m][t] = result[m][t]
    <3>1. PICK r \in spent : r = result[m][t] /\ Own(r, d)
      BY <2>1, <1>a DEF OwnResult
    <3> QED
      BY <1>1, <2>1, <1>a, <1>b, <3>1 DEF Own, Keeping, Confirms, Addressed
  <2>2. CASE m = n /\ data[m].trip = t /\ result'[m][t] = found[m]
    <3>1. data[m] = d
      BY <1>a, <1>3, <2>2 DEF OwnText
    <3>2. PICK r \in spent : r = found[m] /\ Own(r, d)
      BY <1>1, <1>3, <2>2, <3>1 DEF OwnFound
    <3> QED
      BY <1>1, <2>2, <1>a, <1>b, <3>2 DEF Own, Keeping, Confirms, Addressed
  <2>3. \/ result'[m][t] = result[m][t]
        \/ m = n /\ data[m].trip = t /\ result'[m][t] = found[m]
    <3>1. CASE result' = result
      BY <3>1
    <3>2. CASE result' = [result EXCEPT ![n][data[n].trip] = found[n]]
      BY <3>2 DEF OwnResult
    <3> QED
      BY <1>3, <3>1, <3>2 DEF AnswerMail
  <2> QED
    BY <2>1, <2>2, <2>3
<1>4. ASSUME NEW n \in Messages, AnswerMail(n), at[n] # "done"
      PROVE  result'[m] = result[m]
  BY <1>4 DEF AnswerMail
<1>5. ASSUME \/ \E n \in Messages : Mail(n) \/ SubmitMail(n)
             \/ \E p \in Pastes : Paste(p)
             \/ \E i \in Imports : Import(i)
             \/ Poll \/ Crash \/ UNCHANGED result \/ UNCHANGED allVars
      PROVE  result'[m] = result[m]
  BY <1>5 DEF Mail, SubmitMail, Paste, Import, Poll, Crash, allVars
<1> QED
  BY <1>2, <1>3, <1>4, <1>5 DEF Next

\* The invariant holds of the whole.
LEMMA OwnInvHolds == Spec => []OwnInv
<1>1. Init => OwnInv
  <2> SUFFICES ASSUME Init PROVE OwnInv
    OBVIOUS
  <2>1. BookingTypeOK
    BY InitBookingType DEF Init
  <2>2. OwnFound /\ OwnText
    BY ImportedMailAssumption DEF Init, InitBookings, OwnFound, OwnText
  <2>3. OwnResult
    BY DEF Init, OwnResult
  <2> QED
    BY <2>1, <2>2, <2>3 DEF OwnInv
<1>2. OwnInv /\ [Next]_allVars => OwnInv'
  BY BookingSteps, StepBookingType, StepOwnFound, StepOwnText, StepOwnResult DEF OwnInv
<1> QED
  BY <1>1, <1>2, PTL DEF Spec

\* Imports of one confirmation end at one booking, however they interleave and
\* whatever the user does to other bookings, for all constants.
THEOREM OneBookingHolds == Spec => []OneBookingPerConfirmation
<1>1. OwnInv => OneBookingPerConfirmation
  <2> SUFFICES ASSUME OwnInv, NEW i \in Imports, NEW j \in Imports,
                      at[i] = "done", at[j] = "done",
                      data[i] = data[j], Confirms(data[i]),
                      {found[i], found[j]} \subseteq Keeping(data[i]), Rivals(data[i]) = {}
               PROVE  found[i] = found[j]
    BY DEF OneBookingPerConfirmation
  <2>1. data[i] \in Data /\ BookingTypeOK
    BY DEF OwnInv, BookingTypeOK
  <2>2. Own(found[i], data[i]) /\ Own(found[j], data[i])
    BY DEF OwnInv, OwnFound
  <2> QED
    BY <2>1, <2>2, OwnAgree
<1> QED
  BY <1>1, OwnInvHolds, PTL

\* A message that is imported again for a trip ends at the booking of the first
\* time, whatever it was imported for in between, for all constants.
THEOREM RedeliveryFindsHolds == Spec => RedeliveryFindsBooking
<1>1. OwnInv /\ [Next]_allVars =>
        [\A m \in Messages, t \in Trips :
           /\ {result[m][t], result'[m][t]} \subseteq Keeping(Addressed(m, t))
           /\ Confirms(Addressed(m, t)) /\ Rivals(Addressed(m, t)) = {}
           => result'[m][t] = result[m][t]]_allVars
  <2> SUFFICES ASSUME OwnInv, Next, NEW m \in Messages, NEW t \in Trips,
                      result'[m][t] # result[m][t],
                      {result[m][t], result'[m][t]} \subseteq Keeping(Addressed(m, t)),
                      Confirms(Addressed(m, t)), Rivals(Addressed(m, t)) = {}
               PROVE  FALSE
    BY DEF allVars
  <2> USE ImportedMailAssumption
  <2>1. at[m] = "done" /\ data[m].trip = t /\ result'[m][t] = found[m]
    <3>1. PICK n \in Messages : AnswerMail(n)
      BY DEF Next, Mail, SubmitMail, Paste, Import, Poll, Crash
    <3>2. /\ at[n] = "done"
          /\ result' = [result EXCEPT ![n][data[n].trip] = found[n]]
      BY <3>1 DEF AnswerMail
    <3> QED
      BY <3>2 DEF OwnInv, OwnResult
  <2>2. PICK d \in Data : d = Addressed(m, t)
    BY DEF Addressed, Data
  <2>3. BookingTypeOK /\ result[m][t] # NoRow
    BY BookingAssumption DEF OwnInv, BookingTypeOK, Keeping
  <2>4. Own(result[m][t], d)
    BY <2>2, <2>3 DEF OwnInv, OwnResult
  <2>5. data[m] = d
    BY <2>1, <2>2 DEF OwnInv, OwnText
  <2>6. Own(found[m], d)
    BY <2>1, <2>5 DEF OwnInv, OwnFound
  <2> QED
    BY <2>1, <2>2, <2>3, <2>4, <2>6, OwnAgree
<1> QED
  BY <1>1, OwnInvHolds, PTL DEF Spec, RedeliveryFindsBooking
=============================================================================
