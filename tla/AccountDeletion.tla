-------------------------- MODULE AccountDeletion ---------------------------
(***************************************************************************)
(* The deletion of an account (lifecycle/service.go).  RequestDeletion     *)
(* writes a row in deletion_requests and lets a goroutine delete the user; *)
(* an hourly job takes up the requests whose goroutine did not get there,  *)
(* counts its attempts in the row and gives up after MaxRetries of them.   *)
(* Every server instance runs the job (lifecycle/jobs.go), and a user may  *)
(* ask more than once.                                                     *)
(*                                                                         *)
(* One user; a step is one statement on the database.  The chat that       *)
(* DeleteUser deletes first, trip by trip and with failures only logged,   *)
(* tells no request from another and is left out: TripRetention has it.    *)
(***************************************************************************)
EXTENDS Naturals, FiniteSets

CONSTANTS
  Requests,   \* the requests the user may make, and the goroutine of each
  Jobs,       \* the hourly jobs, one per server instance
  NoRequest,
  MaxRetries, \* maxDeletionRetries, 5 in the code
  Faults      \* whether a statement may fail and a process may stop

ASSUME AccountDeletionAssumption ==
  /\ MaxRetries \in Nat
  /\ Faults \in BOOLEAN
  /\ IsFiniteSet(Jobs) /\ Jobs # {}
  /\ Requests \cap Jobs = {}
  /\ NoRequest \notin Requests

VARIABLES
  user,    \* whether there is a row in users
  (* the rows in deletion_requests *)
  req,     \* the status of each: "none" before it is made, "gone" after
  retries, \* retry_count
  stale,   \* whether it was made more than an hour ago
  (* the processes *)
  at,      \* where each goroutine and each job is
  doing,   \* the request a job is at
  todo,    \* the requests a job has listed and not come to
  seen     \* the retry counts it has read with them

row  == <<req, retries>>
list == <<doing, todo, seen>>
deletionVars == <<user, row, stale, at, list>>

Processes == Requests \cup Jobs
Statuses  == {"none", "pending", "processing", "completed", "failed", "gone"}
Places    == {"idle", "mark", "delete", "complete"}

DeletionInit ==
  /\ user = TRUE
  /\ req = [q \in Requests |-> "none"]
  /\ retries = [q \in Requests |-> 0]
  /\ stale = [q \in Requests |-> FALSE]
  /\ at = [p \in Processes |-> "idle"]
  /\ doing = [j \in Jobs |-> NoRequest]
  /\ todo = [j \in Jobs |-> {}]
  /\ seen = [j \in Jobs |-> [q \in Requests |-> 0]]

Goto(p, place) == at' = [at EXCEPT ![p] = place]
HasRow(q)      == req[q] \notin {"none", "gone"}

\* An UPDATE of a row that is gone changes nothing and is no error.
SetStatus(q, value) == req' = IF HasRow(q) THEN [req EXCEPT ![q] = value] ELSE req

-----------------------------------------------------------------------------
(* RequestDeletion                                                         *)

\* The row is written; its foreign key wants the user.
RequestDeletion(q) ==
  /\ user /\ req[q] = "none"
  /\ req' = [req EXCEPT ![q] = "pending"]
  /\ Goto(q, "mark")
  /\ UNCHANGED <<user, retries, stale, list>>

\* Its status is set for the job to find it; a failure is only logged.  Then
\* the goroutine starts.
SetProcessing(q) ==
  /\ at[q] = "mark"
  /\ SetStatus(q, "processing") \/ (Faults /\ UNCHANGED req)
  /\ Goto(q, "delete")
  /\ UNCHANGED <<user, retries, stale, list>>

-----------------------------------------------------------------------------
(* DeleteUser, in a goroutine or in a job                                  *)

\* The user's row goes, and with it by ON DELETE CASCADE the trips and the
\* requests.
DeleteUser(p) ==
  /\ at[p] = "delete"
  /\ user' = FALSE
  /\ req' = [q \in Requests |-> IF HasRow(q) THEN "gone" ELSE req[q]]
  /\ Goto(p, "complete")
  /\ UNCHANGED <<retries, stale, list>>

\* A statement of it fails, or the goroutine's five minutes are over.
FailDelete(p) ==
  /\ Faults /\ at[p] = "delete"
  /\ Goto(p, "idle")
  /\ UNCHANGED <<user, row, stale, list>>

Target(p) == IF p \in Requests THEN p ELSE doing[p]

CompleteRequest(p) ==
  /\ at[p] = "complete"
  /\ SetStatus(Target(p), "completed") \/ (Faults /\ UNCHANGED req)
  /\ Goto(p, "idle")
  /\ UNCHANGED <<user, retries, stale, list>>

-----------------------------------------------------------------------------
(* RetryFailedDeletions                                                    *)

\* The requests that have been processing for more than an hour, with their
\* counts.
ListStale(j) ==
  /\ at[j] = "idle" /\ todo[j] = {}
  /\ \E q \in Requests : req[q] = "processing" /\ stale[q]
  /\ todo' = [todo EXCEPT ![j] = {q \in Requests : req[q] = "processing" /\ stale[q]}]
  /\ seen' = [seen EXCEPT ![j] = retries]
  /\ UNCHANGED <<user, row, stale, at, doing>>

TakeUp(j, q) ==
  /\ at[j] = "idle" /\ q \in todo[j]
  /\ todo' = [todo EXCEPT ![j] = @ \ {q}]

\* Mutant of GiveUp: one attempt too early.
MutGiveUp(j, q) ==
  /\ TakeUp(j, q)
  /\ seen[j][q] + 1 >= MaxRetries
  /\ SetStatus(q, "failed")
  /\ UNCHANGED <<user, retries, stale, at, doing, seen>>

\* The count that was read has reached its limit.
GiveUp(j, q) ==
  /\ TakeUp(j, q)
  /\ seen[j][q] >= MaxRetries
  /\ SetStatus(q, "failed")
  /\ UNCHANGED <<user, retries, stale, at, doing, seen>>

\* Mutant of Retry: the attempt is not counted.
MutRetry(j, q) ==
  /\ TakeUp(j, q)
  /\ seen[j][q] < MaxRetries
  /\ SetStatus(q, "processing")
  /\ doing' = [doing EXCEPT ![j] = q]
  /\ Goto(j, "delete")
  /\ UNCHANGED <<user, retries, stale, seen>>

\* Mutant of Retry: the limit is off by one.
MutRetryLimit(j, q) ==
  /\ TakeUp(j, q)
  /\ seen[j][q] <= MaxRetries
  /\ SetStatus(q, "processing")
  /\ retries' = IF HasRow(q) THEN [retries EXCEPT ![q] = @ + 1] ELSE retries
  /\ doing' = [doing EXCEPT ![j] = q]
  /\ Goto(j, "delete")
  /\ UNCHANGED <<user, stale, seen>>

\* The attempt is counted in the row, whatever its status is by now, before it
\* is made.
Retry(j, q) ==
  /\ TakeUp(j, q)
  /\ seen[j][q] < MaxRetries
  /\ SetStatus(q, "processing")
  /\ retries' = IF HasRow(q) THEN [retries EXCEPT ![q] = @ + 1] ELSE retries
  /\ doing' = [doing EXCEPT ![j] = q]
  /\ Goto(j, "delete")
  /\ UNCHANGED <<user, stale, seen>>

\* Either statement fails, and the job goes on to the next request.
Skip(j, q) ==
  /\ Faults
  /\ TakeUp(j, q)
  /\ UNCHANGED <<user, row, stale, at, doing, seen>>

-----------------------------------------------------------------------------

\* The goroutine's five minutes are long over when the hour is.
HourPasses(q) ==
  /\ HasRow(q) /\ ~stale[q] /\ at[q] = "idle"
  /\ stale' = [stale EXCEPT ![q] = TRUE]
  /\ UNCHANGED <<user, row, at, list>>

\* A process stops with its server; a job that starts anew has no list.
Stop(p) ==
  /\ Faults
  /\ at[p] # "idle" \/ (p \in Jobs /\ todo[p] # {})
  /\ Goto(p, "idle")
  /\ todo' = IF p \in Jobs THEN [todo EXCEPT ![p] = {}] ELSE todo
  /\ UNCHANGED <<user, row, stale, doing, seen>>

DeletionNext ==
  \/ \E q \in Requests : RequestDeletion(q) \/ SetProcessing(q) \/ HourPasses(q)
  \/ \E p \in Processes : DeleteUser(p) \/ FailDelete(p) \/ CompleteRequest(p) \/ Stop(p)
  \/ \E j \in Jobs :
       \/ ListStale(j)
       \/ \E q \in Requests : GiveUp(j, q) \/ Retry(j, q) \/ Skip(j, q)

DeletionSpec == DeletionInit /\ [][DeletionNext]_deletionVars

-----------------------------------------------------------------------------
(* Properties                                                              *)

\* Every variable stays in its type, and while there is no user no request has
\* a row.
DeletionTypeOK ==
  /\ user \in BOOLEAN
  /\ req \in [Requests -> Statuses]
  /\ retries \in [Requests -> Nat]
  /\ stale \in [Requests -> BOOLEAN]
  /\ at \in [Processes -> Places]
  /\ doing \in [Jobs -> Requests \cup {NoRequest}]
  /\ todo \in [Jobs -> SUBSET Requests]
  /\ seen \in [Jobs -> [Requests -> Nat]]
  /\ ~user => \A q \in Requests : ~HasRow(q)

\* "After maxDeletionRetries attempts, the request is marked as failed": no
\* request fails with fewer, whatever count a job has read how long ago.
FailedAfterAllRetries ==
  \A q \in Requests : req[q] = "failed" => retries[q] >= MaxRetries

\* However the jobs of several servers overlap, each makes at most one attempt
\* more than the limit allows, and one server none.
RetriesBounded ==
  \A q \in Requests : retries[q] < MaxRetries + Cardinality(Jobs)

\* A request that the job can find is settled in the end, through failures,
\* timeouts and restarts: the user is gone, or the request has failed for good.
EveryDeletionSettles ==
  \A q \in Requests : req[q] = "processing" ~> ~user \/ req[q] = "failed"
=============================================================================
