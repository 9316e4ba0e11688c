--------------------------- MODULE TripRetention ----------------------------
(***************************************************************************)
(* The end of a trip and of its chat.  UpdateTrip requests move the trip   *)
(* through its states (trip/service.go, handlers/trip.go); completion      *)
(* starts two clocks, one that archives the trip and one that deletes its  *)
(* chat sessions (lifecycle/service.go); background jobs stamp what was    *)
(* missed, purge what has expired and archive what is due                  *)
(* (lifecycle/jobs.go); DeleteTrip ends it all.  Turns of the chat create  *)
(* and drop sessions all the while.                                        *)
(*                                                                         *)
(* A step is one statement on the database.  A deadline is "none", "set"   *)
(* or "due": how long it lasts is not told apart.                          *)
(***************************************************************************)
EXTENDS Naturals

CONSTANTS
  Sessions,    \* the chat sessions the trip may have
  Handlers,    \* the UpdateTrip handlers that may run at once
  MaxUpdates,  \* how many UpdateTrip requests are made: a bound of the model
  Retains,     \* whether CHAT_RETENTION_DAYS is positive
  TripFaults   \* whether a statement may fail

ASSUME TripRetentionAssumption ==
  MaxUpdates \in Nat /\ {Retains, TripFaults} \subseteq BOOLEAN

VARIABLES
  (* the row in trips *)
  status,       \* "deleted" when there is no row
  completedAt,  \* whether completed_at is set
  archiveAfter, \* the deadline archive_after
  archivedAt,   \* whether archived_at is set
  (* the rows in chat_sessions *)
  live,         \* the sessions there are
  expireAt,     \* the deadline of each
  (* the processes *)
  handling,     \* where each UpdateTrip handler is
  wish,         \* the status it was asked for
  made,         \* the UpdateTrip requests made so far
  purging,      \* the hourly job is between its stamp and its purge
  listed,       \* the archive job has the trip on its list
  deleting      \* DeleteTrip has the row deleted and not yet the chat

trip == <<status, completedAt, archiveAfter, archivedAt>>
chat == <<live, expireAt>>
jobs == <<purging, listed, deleting>>
retentionVars == <<trip, chat, handling, wish, made, jobs>>

Wishes        == {"planning", "active", "completed"}
TripStatuses  == Wishes \cup {"archived", "deleted"}
Deadlines     == {"none", "set", "due"}
HandlerPlaces == {"idle", "write", "complete", "stamp"}
Ended         == {"completed", "archived"}

\* CreateWithStatus admits these.
RetentionInit ==
  /\ status \in {"planning", "active"}
  /\ completedAt = FALSE
  /\ archiveAfter = "none"
  /\ archivedAt = FALSE
  /\ live = {}
  /\ expireAt = [s \in Sessions |-> "none"]
  /\ handling = [r \in Handlers |-> "idle"]
  /\ wish = [r \in Handlers |-> "planning"]
  /\ made = 0
  /\ purging = FALSE
  /\ listed = FALSE
  /\ deleting = FALSE

Proceed(r, p) == handling' = [handling EXCEPT ![r] = p]

-----------------------------------------------------------------------------
(* UpdateTrip                                                              *)

\* isValidStatusTransition: "archived" is among the statuses it does not know.
ValidTransition(current, next) ==
  \/ current = next
  \/ current = "planning" /\ next \in {"active", "completed"}
  \/ current = "active" /\ next = "completed"
  \/ current \notin {"planning", "active", "completed"}

\* The status is read and the transition checked; a request that fails the
\* check changes nothing.
CheckTransition(r, next) ==
  /\ handling[r] = "idle"
  /\ made < MaxUpdates
  /\ status # "deleted"
  /\ ValidTransition(status, next)
  /\ made' = made + 1
  /\ wish' = [wish EXCEPT ![r] = next]
  /\ Proceed(r, "write")
  /\ UNCHANGED <<trip, chat, jobs>>

\* The status is written whatever it is by now; the request fails when the
\* row is gone.
WriteStatus(r) ==
  /\ handling[r] = "write"
  /\ \/ /\ status # "deleted"
        /\ status' = wish[r]
        /\ Proceed(r, IF wish[r] = "completed" THEN "complete" ELSE "idle")
     \/ (status = "deleted" \/ TripFaults) /\ Proceed(r, "idle") /\ UNCHANGED status
  /\ UNCHANGED <<completedAt, archiveAfter, archivedAt, chat, wish, made, jobs>>

\* Mutant of CompleteTrip: the guard on completed_at is missing.
MutCompleteTrip(r) ==
  /\ handling[r] = "complete"
  /\ Proceed(r, IF Retains THEN "stamp" ELSE "idle")
  /\ \/ /\ status # "deleted"
        /\ status' = "completed"
        /\ completedAt' = TRUE
        /\ archiveAfter' = "set"
     \/ (status = "deleted" \/ TripFaults) /\ UNCHANGED <<status, completedAt, archiveAfter>>
  /\ UNCHANGED <<archivedAt, chat, wish, made, jobs>>

\* The completion stamps, once per trip; a failure is only logged.  The chat
\* is then stamped by a goroutine the request does not wait for.
CompleteTrip(r) ==
  /\ handling[r] = "complete"
  /\ Proceed(r, IF Retains THEN "stamp" ELSE "idle")
  /\ \/ /\ status # "deleted" /\ ~completedAt
        /\ status' = "completed"
        /\ completedAt' = TRUE
        /\ archiveAfter' = "set"
     \/ /\ status = "deleted" \/ completedAt \/ TripFaults
        /\ UNCHANGED <<status, completedAt, archiveAfter>>
  /\ UNCHANGED <<archivedAt, chat, wish, made, jobs>>

\* Every session of the trip gets a new deadline.
SetChatTTL(r) ==
  /\ handling[r] = "stamp"
  /\ Proceed(r, "idle")
  /\ \/ expireAt' = [s \in Sessions |-> IF s \in live THEN "set" ELSE "none"]
     \/ TripFaults /\ UNCHANGED expireAt
  /\ UNCHANGED <<trip, live, wish, made, jobs>>

-----------------------------------------------------------------------------
(* Chat turns                                                              *)

\* A message is stored, or a selection session moved here: neither looks at
\* the trip's row, and a session that is new has no deadline.
WriteChat(s) ==
  /\ live' = live \cup {s}
  /\ UNCHANGED <<trip, expireAt, handling, wish, made, jobs>>

\* The sessions outside S are deleted.
KeepOnly(S) ==
  /\ live' = S
  /\ expireAt' = [s \in Sessions |-> IF s \in S THEN expireAt[s] ELSE "none"]

\* A turn that got no text drops the session it made.
DropChat(s) ==
  /\ s \in live
  /\ KeepOnly(live \ {s})
  /\ UNCHANGED <<trip, handling, wish, made, jobs>>

-----------------------------------------------------------------------------
(* Background jobs                                                         *)

\* Mutant of StampMissing: sessions of trips that go on are stamped too.
MutStampMissing ==
  /\ Retains /\ ~purging
  /\ purging' = TRUE
  /\ expireAt' = [s \in Sessions |->
       IF s \in live /\ expireAt[s] = "none" THEN "set" ELSE expireAt[s]]
  /\ UNCHANGED <<trip, live, handling, wish, made, listed, deleting>>

\* The hourly job, first half: sessions of an ended trip without a deadline
\* get one.
StampMissing ==
  /\ Retains /\ ~purging
  /\ purging' = TRUE
  /\ expireAt' = [s \in Sessions |->
       IF s \in live /\ status \in Ended /\ expireAt[s] = "none" THEN "set" ELSE expireAt[s]]
  /\ UNCHANGED <<trip, live, handling, wish, made, listed, deleting>>

\* Mutant of PurgeExpired: the job never gets to its next round.
MutPurgeExpired ==
  /\ purging
  /\ KeepOnly({s \in live : expireAt[s] # "due"})
  /\ UNCHANGED <<trip, handling, wish, made, jobs>>

\* Second half: sessions past their deadline are deleted, whatever the trip's
\* status is by now.
PurgeExpired ==
  /\ purging
  /\ purging' = FALSE
  /\ KeepOnly({s \in live : expireAt[s] # "due"})
  /\ UNCHANGED <<trip, handling, wish, made, listed, deleting>>

\* The purge fails: the round is over.
FailPurge ==
  /\ TripFaults /\ purging
  /\ purging' = FALSE
  /\ UNCHANGED <<trip, chat, handling, wish, made, listed, deleting>>

\* The archive job lists the trip, then archives it without another look; the
\* statement may fail.
ListForArchive ==
  /\ ~listed
  /\ status = "completed" /\ archiveAfter = "due" /\ ~archivedAt
  /\ listed' = TRUE
  /\ UNCHANGED <<trip, chat, handling, wish, made, purging, deleting>>

ArchiveTrip ==
  /\ listed /\ status # "deleted"
  /\ listed' = FALSE
  /\ status' = "archived"
  /\ archivedAt' = TRUE
  /\ UNCHANGED <<completedAt, archiveAfter, chat, handling, wish, made, purging, deleting>>

FailArchive ==
  /\ listed /\ (TripFaults \/ status = "deleted")
  /\ listed' = FALSE
  /\ UNCHANGED <<trip, chat, handling, wish, made, purging, deleting>>

-----------------------------------------------------------------------------
(* DeleteTrip, time and crashes                                            *)

\* The row goes first: its owner clause is the permission to go on.
DeleteRow ==
  /\ status # "deleted"
  /\ status' = "deleted"
  /\ deleting' = TRUE
  /\ UNCHANGED <<completedAt, archiveAfter, archivedAt, chat, handling, wish, made, purging,
                 listed>>

\* Then the chat; a failure is only logged.
DeleteChat ==
  /\ deleting
  /\ deleting' = FALSE
  /\ KeepOnly({}) \/ (TripFaults /\ UNCHANGED chat)
  /\ UNCHANGED <<trip, handling, wish, made, purging, listed>>

RetentionPasses(s) ==
  /\ expireAt[s] = "set"
  /\ expireAt' = [expireAt EXCEPT ![s] = "due"]
  /\ UNCHANGED <<trip, live, handling, wish, made, jobs>>

ArchiveDelayPasses ==
  /\ archiveAfter = "set"
  /\ archiveAfter' = "due"
  /\ UNCHANGED <<status, completedAt, archivedAt, chat, handling, wish, made, jobs>>

\* The server stops: handlers, goroutines and jobs end where they are.
Crash ==
  /\ TripFaults
  /\ handling' = [r \in Handlers |-> "idle"]
  /\ purging' = FALSE /\ listed' = FALSE /\ deleting' = FALSE
  /\ UNCHANGED <<trip, chat, wish, made>>

RetentionNext ==
  \/ \E r \in Handlers :
       \/ \E next \in Wishes : CheckTransition(r, next)
       \/ WriteStatus(r) \/ CompleteTrip(r) \/ SetChatTTL(r)
  \/ \E s \in Sessions : WriteChat(s) \/ DropChat(s) \/ RetentionPasses(s)
  \/ StampMissing \/ PurgeExpired \/ FailPurge
  \/ ListForArchive \/ ArchiveTrip \/ FailArchive
  \/ DeleteRow \/ DeleteChat \/ ArchiveDelayPasses \/ Crash

RetentionSpec == RetentionInit /\ [][RetentionNext]_retentionVars

-----------------------------------------------------------------------------
(* Properties                                                              *)

\* Every variable stays in its type; a session that does not exist has no
\* deadline.
RetentionTypeOK ==
  /\ status \in TripStatuses
  /\ completedAt \in BOOLEAN /\ archivedAt \in BOOLEAN
  /\ purging \in BOOLEAN /\ listed \in BOOLEAN /\ deleting \in BOOLEAN
  /\ archiveAfter \in Deadlines
  /\ live \subseteq Sessions
  /\ expireAt \in [Sessions -> Deadlines]
  /\ \A s \in Sessions \ live : expireAt[s] = "none"
  /\ handling \in [Handlers -> HandlerPlaces]
  /\ wish \in [Handlers -> Wishes]
  /\ made \in 0 .. MaxUpdates

\* UpdateTrip's comment: re-completions do not reset the archival clock.  Once
\* it has run out it stays so, whatever requests and jobs do, and nothing is
\* archived before.
ArchivalClockNotReset ==
  [][/\ archiveAfter = "due" => archiveAfter' = "due"
     /\ archivedAt' /\ ~archivedAt => archiveAfter = "due"]_retentionVars

\* A session gets a deadline only while its trip is ended, or from the goroutine
\* of a request that was asked to complete it.
NewDeadlinesNeedEnd ==
  [][\A s \in Sessions : expireAt[s] = "none" /\ expireAt'[s] # "none" =>
       \/ status \in Ended
       \/ \E r \in Handlers : handling[r] = "stamp" /\ wish[r] = "completed"]_retentionVars

\* The chat of an ended trip is deleted in the end: also sessions created after
\* completion, and those whose stamp was lost in a failure or a crash.
EndedChatIsPurged ==
  Retains =>
    \A s \in Sessions :
      s \in live /\ status \in Ended ~> s \notin live \/ status \notin Ended

\* A trip whose completion was stamped is archived in the end, unless its
\* status is changed or it is deleted.
CompletedTripIsArchived ==
  status = "completed" /\ archiveAfter # "none" /\ ~archivedAt
    ~> archivedAt \/ status # "completed"

\* Through lost stamps, late sessions, failures and crashes both jobs get there.
JobsGetThere == EndedChatIsPurged /\ CompletedTripIsArchived
=============================================================================
