------------------------- MODULE TripRetentionProofs ------------------------
(***************************************************************************)
(* What holds of TripRetention for any sessions, handlers and bounds.      *)
(***************************************************************************)
EXTENDS TripRetention, TLAPS

\* The archival clock runs only when completed_at is set, a trip is on the
\* archive list only after the clock has run out, and only requests that were
\* asked for completion come to its later steps.
ClockInv ==
  /\ archiveAfter # "none" => completedAt
  /\ listed => archiveAfter = "due"
  /\ \A r \in Handlers : handling[r] \in {"complete", "stamp"} => wish[r] = "completed"

RetentionInv == RetentionTypeOK /\ ClockInv

\* A new trip has no clocks running.
LEMMA InitRetentionInv == RetentionInit => RetentionInv
<1> SUFFICES ASSUME RetentionInit PROVE RetentionInv
  OBVIOUS
<1>1. RetentionTypeOK
  <2>1. made \in 0 .. MaxUpdates
    BY TripRetentionAssumption DEF RetentionInit
  <2>2. /\ completedAt \in BOOLEAN /\ archivedAt \in BOOLEAN
        /\ purging \in BOOLEAN /\ listed \in BOOLEAN /\ deleting \in BOOLEAN
    BY Zenon DEF RetentionInit
  <2> QED
    BY <2>1, <2>2 DEF RetentionInit, RetentionTypeOK, Wishes, TripStatuses, Deadlines, HandlerPlaces
<1>2. archiveAfter = "none" /\ \A r \in Handlers : handling[r] = "idle"
  BY DEF RetentionInit
<1>3. ~listed
  BY Zenon DEF RetentionInit
<1> QED
  BY <1>1, <1>2, <1>3 DEF RetentionInv, ClockInv

\* A deletion of sessions leaves the chat in its type.
LEMMA KeepOnlyTyped ==
  ASSUME RetentionTypeOK, NEW S \in SUBSET live, KeepOnly(S)
  PROVE  /\ live' \subseteq Sessions
         /\ expireAt' \in [Sessions -> Deadlines]
         /\ \A s \in Sessions \ live' : expireAt'[s] = "none"
BY DEF KeepOnly, RetentionTypeOK, Deadlines

\* Every step keeps the invariant.
LEMMA StepRetentionInv == RetentionInv /\ [RetentionNext]_retentionVars => RetentionInv'
<1> SUFFICES ASSUME RetentionInv, [RetentionNext]_retentionVars PROVE RetentionInv'
  OBVIOUS
<1> USE TripRetentionAssumption DEF RetentionInv, ClockInv, Wishes, TripStatuses, HandlerPlaces
<1>row. /\ status \in TripStatuses /\ completedAt \in BOOLEAN
        /\ archivedAt \in BOOLEAN /\ archiveAfter \in Deadlines
  BY DEF RetentionTypeOK
<1>chat. /\ live \subseteq Sessions /\ expireAt \in [Sessions -> Deadlines]
         /\ \A s \in Sessions \ live : expireAt[s] = "none"
  BY DEF RetentionTypeOK
<1>reqs. /\ handling \in [Handlers -> HandlerPlaces] /\ wish \in [Handlers -> Wishes]
         /\ made \in 0 .. MaxUpdates
  BY DEF RetentionTypeOK
<1>jobs. purging \in BOOLEAN /\ listed \in BOOLEAN /\ deleting \in BOOLEAN
  BY DEF RetentionTypeOK
<1>1. ASSUME NEW r \in Handlers, NEW next \in Wishes, CheckTransition(r, next)
      PROVE RetentionInv'
  <2>1. made' \in 0 .. MaxUpdates
    BY <1>1, <1>reqs DEF CheckTransition
  <2>2. handling' \in [Handlers -> HandlerPlaces] /\ wish' \in [Handlers -> Wishes]
    BY <1>1, <1>reqs DEF CheckTransition, Proceed
  <2>3. \A q \in Handlers : handling'[q] \in {"complete", "stamp"} => handling'[q] = handling[q] /\ wish'[q] = wish[q]
    BY <1>1, <1>reqs DEF CheckTransition, Proceed
  <2> QED
    BY <1>1, <2>1, <2>2, <2>3, <1>row, <1>chat, <1>jobs
       DEF CheckTransition, RetentionTypeOK, trip, chat, jobs
<1>2. ASSUME NEW r \in Handlers, WriteStatus(r) PROVE RetentionInv'
  <2>1. handling' \in [Handlers -> HandlerPlaces] /\ status' \in TripStatuses
    BY <1>2, <1>reqs, <1>row DEF WriteStatus, Proceed
  <2>2. \A q \in Handlers : handling'[q] \in {"complete", "stamp"} => wish[q] = "completed"
    BY <1>2, <1>reqs DEF WriteStatus, Proceed
  <2> QED
    BY <1>2, <2>1, <2>2, <1>row, <1>chat, <1>reqs, <1>jobs
       DEF WriteStatus, RetentionTypeOK, chat, jobs
<1>3. ASSUME NEW r \in Handlers, CompleteTrip(r) PROVE RetentionInv'
  <2>1. handling' \in [Handlers -> HandlerPlaces]
    BY <1>3, <1>reqs DEF CompleteTrip, Proceed
  <2>2. \A q \in Handlers : handling'[q] \in {"complete", "stamp"} => wish[q] = "completed"
    BY <1>3, <1>reqs DEF CompleteTrip, Proceed
  <2>3. /\ status' \in TripStatuses /\ completedAt' \in BOOLEAN /\ archiveAfter' \in Deadlines
        /\ archiveAfter' # "none" => completedAt'
        /\ listed => archiveAfter' = "due"
    BY <1>3, <1>row DEF CompleteTrip, Deadlines
  <2> QED
    BY <1>3, <2>1, <2>2, <2>3, <1>row, <1>chat, <1>reqs, <1>jobs
       DEF CompleteTrip, RetentionTypeOK, chat, jobs
<1>4. ASSUME NEW r \in Handlers, SetChatTTL(r) PROVE RetentionInv'
  <2>1. handling' \in [Handlers -> HandlerPlaces]
    BY <1>4, <1>reqs DEF SetChatTTL, Proceed
  <2>2. \A q \in Handlers : handling'[q] \in {"complete", "stamp"} => wish[q] = "completed"
    BY <1>4, <1>reqs DEF SetChatTTL, Proceed
  <2>3. expireAt' \in [Sessions -> Deadlines] /\ \A s \in Sessions \ live : expireAt'[s] = "none"
    BY <1>4, <1>chat DEF SetChatTTL, Deadlines
  <2> QED
    BY <1>4, <2>1, <2>2, <2>3, <1>row, <1>chat, <1>reqs, <1>jobs
       DEF SetChatTTL, RetentionTypeOK, trip, jobs
<1>5. ASSUME NEW s \in Sessions, WriteChat(s) PROVE RetentionInv'
  BY <1>5, <1>row, <1>chat, <1>reqs, <1>jobs DEF WriteChat, RetentionTypeOK, trip, jobs
<1>6. ASSUME NEW s \in Sessions, DropChat(s) PROVE RetentionInv'
  <2>1. KeepOnly(live \ {s})
    BY <1>6 DEF DropChat
  <2> QED
    BY <1>6, <2>1, KeepOnlyTyped, <1>row, <1>reqs, <1>jobs DEF DropChat, RetentionTypeOK, trip, jobs
<1>7. ASSUME NEW s \in Sessions, RetentionPasses(s) PROVE RetentionInv'
  <2>1. expireAt' \in [Sessions -> Deadlines] /\ \A q \in Sessions \ live : expireAt'[q] = "none"
    BY <1>7, <1>chat DEF RetentionPasses, Deadlines
  <2> QED
    BY <1>7, <2>1, <1>row, <1>chat, <1>reqs, <1>jobs DEF RetentionPasses, RetentionTypeOK, trip, jobs
<1>8. ASSUME StampMissing PROVE RetentionInv'
  <2>1. expireAt' \in [Sessions -> Deadlines] /\ \A s \in Sessions \ live : expireAt'[s] = "none"
    BY <1>8, <1>chat DEF StampMissing, Deadlines
  <2> QED
    BY <1>8, <2>1, <1>row, <1>chat, <1>reqs, <1>jobs DEF StampMissing, RetentionTypeOK, trip
<1>9. ASSUME PurgeExpired PROVE RetentionInv'
  <2>1. KeepOnly({s \in live : expireAt[s] # "due"})
    BY <1>9 DEF PurgeExpired
  <2> QED
    BY <1>9, <2>1, KeepOnlyTyped, <1>row, <1>reqs, <1>jobs DEF PurgeExpired, RetentionTypeOK, trip
<1>10. ASSUME FailPurge \/ FailArchive PROVE RetentionInv'
  <2>1. purging' \in BOOLEAN /\ listed' \in BOOLEAN /\ deleting' \in BOOLEAN
    BY <1>10, <1>jobs DEF FailPurge, FailArchive
  <2>2. listed' => listed
    BY <1>10 DEF FailPurge, FailArchive
  <2> QED
    BY <1>10, <2>1, <2>2, <1>row, <1>chat, <1>reqs
       DEF FailPurge, FailArchive, RetentionTypeOK, trip, chat
<1>11. ASSUME ListForArchive \/ ArchiveTrip PROVE RetentionInv'
  <2>1. status' \in TripStatuses /\ archivedAt' \in BOOLEAN /\ listed' \in BOOLEAN
    BY <1>11, <1>row DEF ListForArchive, ArchiveTrip, trip
  <2>2. /\ archiveAfter' = archiveAfter /\ completedAt' = completedAt
        /\ listed' => archiveAfter = "due"
    BY <1>11 DEF ListForArchive, ArchiveTrip, trip
  <2> QED
    BY <1>11, <2>1, <2>2, <1>row, <1>chat, <1>reqs, <1>jobs
       DEF ListForArchive, ArchiveTrip, RetentionTypeOK, trip, chat
<1>12. ASSUME DeleteRow PROVE RetentionInv'
  BY <1>12, <1>row, <1>chat, <1>reqs, <1>jobs DEF DeleteRow, RetentionTypeOK, chat
<1>13. ASSUME DeleteChat PROVE RetentionInv'
  <2>1. KeepOnly({}) \/ UNCHANGED chat
    BY <1>13 DEF DeleteChat
  <2>2. /\ live' \subseteq Sessions /\ expireAt' \in [Sessions -> Deadlines]
        /\ \A s \in Sessions \ live' : expireAt'[s] = "none"
    BY <2>1, KeepOnlyTyped, <1>chat DEF chat
  <2> QED
    BY <1>13, <2>2, <1>row, <1>reqs, <1>jobs DEF DeleteChat, RetentionTypeOK, trip
<1>14. ASSUME ArchiveDelayPasses PROVE RetentionInv'
  BY <1>14, <1>row, <1>chat, <1>reqs, <1>jobs DEF ArchiveDelayPasses, RetentionTypeOK, chat, jobs, Deadlines
<1>15. ASSUME Crash PROVE RetentionInv'
  BY <1>15, <1>row, <1>chat, <1>reqs DEF Crash, RetentionTypeOK, trip, chat
<1>16. ASSUME UNCHANGED retentionVars PROVE RetentionInv'
  BY <1>16, <1>row, <1>chat, <1>reqs, <1>jobs DEF retentionVars, RetentionTypeOK, trip, chat, jobs
<1> QED
  BY <1>1, <1>2, <1>3, <1>4, <1>5, <1>6, <1>7, <1>8, <1>9, <1>10, <1>11, <1>12, <1>13,
     <1>14, <1>15, <1>16 DEF RetentionNext

\* The invariant holds in every state.
LEMMA RetentionInvHolds == RetentionSpec => []RetentionInv
BY InitRetentionInv, StepRetentionInv, PTL DEF RetentionSpec

\* Every variable keeps its type, for all constants.
THEOREM TypeCorrect == RetentionSpec => []RetentionTypeOK
<1>1. RetentionInv => RetentionTypeOK
  BY DEF RetentionInv
<1> QED
  BY RetentionInvHolds, <1>1, PTL

\* Re-completions, jobs and crashes never reset the archival clock, and nothing
\* is archived before it has run out: ArchivalClockNotReset, for all constants.
THEOREM ArchivalClockNotResetHolds == RetentionSpec => ArchivalClockNotReset
<1> DEFINE Step == /\ archiveAfter = "due" => archiveAfter' = "due"
                   /\ archivedAt' /\ ~archivedAt => archiveAfter = "due"
<1>1. RetentionInv /\ [RetentionNext]_retentionVars => [Step]_retentionVars
  <2> SUFFICES ASSUME RetentionInv, RetentionNext PROVE Step
    OBVIOUS
  <2>inv. (archiveAfter # "none" => completedAt) /\ (listed => archiveAfter = "due")
    BY DEF RetentionInv, ClockInv
  <2>1. ASSUME NEW r \in Handlers, CompleteTrip(r) PROVE Step
    BY <2>1, <2>inv DEF CompleteTrip
  <2>2. ASSUME NEW r \in Handlers,
               (\E next \in Wishes : CheckTransition(r, next)) \/ WriteStatus(r) \/ SetChatTTL(r)
        PROVE Step
    BY <2>2 DEF CheckTransition, WriteStatus, SetChatTTL, trip
  <2>3. ASSUME NEW s \in Sessions, WriteChat(s) \/ DropChat(s) \/ RetentionPasses(s) PROVE Step
    BY <2>3 DEF WriteChat, DropChat, RetentionPasses, trip
  <2>4. ASSUME StampMissing \/ PurgeExpired \/ FailPurge \/ ListForArchive \/ FailArchive
        PROVE Step
    BY <2>4 DEF StampMissing, PurgeExpired, FailPurge, ListForArchive, FailArchive, trip
  <2>5. ASSUME ArchiveTrip PROVE Step
    BY <2>5, <2>inv DEF ArchiveTrip
  <2>6. ASSUME DeleteRow \/ DeleteChat \/ ArchiveDelayPasses \/ Crash PROVE Step
    BY <2>6 DEF DeleteRow, DeleteChat, ArchiveDelayPasses, Crash, trip
  <2> QED
    BY <2>1, <2>2, <2>3, <2>4, <2>5, <2>6 DEF RetentionNext
<1> QED
  BY RetentionInvHolds, <1>1, PTL DEF RetentionSpec, ArchivalClockNotReset

\* No deadline appears on the chat of a trip that goes on but from a request
\* to complete it: NewDeadlinesNeedEnd, for all constants.
THEOREM NewDeadlinesNeedEndHolds == RetentionSpec => NewDeadlinesNeedEnd
<1> DEFINE Step == \A s \in Sessions : expireAt[s] = "none" /\ expireAt'[s] # "none" =>
       \/ status \in Ended
       \/ \E r \in Handlers : handling[r] = "stamp" /\ wish[r] = "completed"
<1>1. RetentionInv /\ [RetentionNext]_retentionVars => [Step]_retentionVars
  <2> SUFFICES ASSUME RetentionInv, RetentionNext PROVE Step
    OBVIOUS
  <2>inv. /\ \A r \in Handlers : handling[r] \in {"complete", "stamp"} => wish[r] = "completed"
          /\ expireAt \in [Sessions -> Deadlines]
    BY DEF RetentionInv, ClockInv, RetentionTypeOK
  <2>1. ASSUME NEW r \in Handlers, SetChatTTL(r) PROVE Step
    BY <2>1, <2>inv DEF SetChatTTL
  <2>2. ASSUME NEW r \in Handlers,
               (\E next \in Wishes : CheckTransition(r, next)) \/ WriteStatus(r) \/ CompleteTrip(r)
        PROVE Step
    BY <2>2 DEF CheckTransition, WriteStatus, CompleteTrip, chat
  <2>3. ASSUME NEW s \in Sessions, WriteChat(s) \/ RetentionPasses(s) PROVE Step
    BY <2>3, <2>inv DEF WriteChat, RetentionPasses
  <2>4. ASSUME NEW S \in SUBSET live, KeepOnly(S) PROVE Step
    BY <2>4 DEF KeepOnly
  <2>5. ASSUME NEW s \in Sessions, DropChat(s) PROVE Step
    BY <2>5, <2>4 DEF DropChat
  <2>6. ASSUME PurgeExpired \/ DeleteChat PROVE Step
    <3>1. ASSUME PurgeExpired PROVE Step
      BY <3>1, <2>4 DEF PurgeExpired
    <3>2. ASSUME DeleteChat PROVE Step
      BY <3>2, <2>4 DEF DeleteChat, chat
    <3> QED
      BY <2>6, <3>1, <3>2
  <2>7. ASSUME StampMissing PROVE Step
    BY <2>7 DEF StampMissing
  <2>8. ASSUME FailPurge \/ ListForArchive \/ ArchiveTrip \/ FailArchive \/ DeleteRow
               \/ ArchiveDelayPasses \/ Crash
        PROVE Step
    BY <2>8 DEF FailPurge, ListForArchive, ArchiveTrip, FailArchive, DeleteRow,
                ArchiveDelayPasses, Crash, chat
  <2> QED
    BY <2>1, <2>2, <2>3, <2>5, <2>6, <2>7, <2>8 DEF RetentionNext
<1> QED
  BY RetentionInvHolds, <1>1, PTL DEF RetentionSpec, NewDeadlinesNeedEnd
=============================================================================
