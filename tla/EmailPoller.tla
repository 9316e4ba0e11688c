---------------------------- MODULE EmailPoller -----------------------------
(***************************************************************************)
(* The mailbox that bookings are forwarded to (emailimport/poller.go).     *)
(* Every cycle the poller lists the unseen messages and hands one after    *)
(* the other to the import; a message is marked as seen when its import    *)
(* is settled or has failed MaxAttempts times.  The mark may fail, and the *)
(* attempts are counted in memory only.                                    *)
(*                                                                         *)
(* Cycles run one after the other in one goroutine.  How an import ends is *)
(* not decided here: ImportedMail joins this module with BookingIngest.    *)
(***************************************************************************)
EXTENDS Naturals

CONSTANTS
  Messages,
  NoMessage,
  MaxAttempts,  \* maxIngestAttempts, 5 in the code
  MaxLosses     \* how often a mark fails or the server stops: a bound of the model

ASSUME EmailPollerAssumption ==
  /\ MaxAttempts \in Nat \ {0}
  /\ MaxLosses \in Nat
  /\ NoMessage \notin Messages

VARIABLES
  box,       \* where each message is: not "delivered" yet, "unseen" or "seen"
  batch,     \* the messages of this cycle that are still to be fetched
  stage,     \* what the poller does with its current message
  current,   \* that message
  attempts,  \* the poller's count of failed attempts
  (* what has happened, for the properties *)
  tries,     \* how often each message was handed to the import
  settled,   \* whether an import of it was settled
  losses     \* how often its count was lost: to a failed mark or a stop

mailVars == <<box, batch, stage, current, attempts, tries, settled, losses>>

Stages == {"idle", "fetch", "import", "mark"}

InitMail ==
  /\ box = [m \in Messages |-> "out"]
  /\ batch = {}
  /\ stage = "idle" /\ current = NoMessage
  /\ attempts = [m \in Messages |-> 0]
  /\ tries = [m \in Messages |-> 0]
  /\ settled = [m \in Messages |-> FALSE]
  /\ losses = [m \in Messages |-> 0]

history == <<tries, settled, losses>>

Deliver(m) ==
  /\ box[m] = "out"
  /\ box' = [box EXCEPT ![m] = "unseen"]
  /\ UNCHANGED <<batch, stage, current, attempts, history>>

\* A cycle: connected, logged in, searched for what is unseen.
PollOnce ==
  /\ stage = "idle" /\ batch = {}
  /\ \E m \in Messages : box[m] = "unseen"
  /\ batch' = {m \in Messages : box[m] = "unseen"}
  /\ UNCHANGED <<box, stage, current, attempts, history>>

Take(m) ==
  /\ stage = "idle" /\ m \in batch
  /\ stage' = "fetch" /\ current' = m
  /\ batch' = batch \ {m}
  /\ UNCHANGED <<box, attempts, history>>

\* The fetch fails: the message is left for another cycle.
FetchFails(m) ==
  /\ stage = "fetch" /\ current = m
  /\ stage' = "idle" /\ current' = NoMessage
  /\ UNCHANGED <<box, batch, attempts, history>>

\* An empty or oversized message, or one of an unknown sender, is not imported.
Discard(m) ==
  /\ stage = "fetch" /\ current = m
  /\ stage' = "mark"
  /\ settled' = [settled EXCEPT ![m] = TRUE]
  /\ UNCHANGED <<box, batch, current, attempts, tries, losses>>

Submit(m) ==
  /\ stage = "fetch" /\ current = m
  /\ stage' = "import"
  /\ tries' = [tries EXCEPT ![m] = @ + 1]
  /\ UNCHANGED <<box, batch, current, attempts, settled, losses>>

\* The import succeeded or was rejected for good.
Settle(m) ==
  /\ stage = "import" /\ current = m
  /\ stage' = "mark"
  /\ settled' = [settled EXCEPT ![m] = TRUE]
  /\ UNCHANGED <<box, batch, current, attempts, tries, losses>>

\* Mutant of Retry: the comparison is off by one.
MutRetry(m) ==
  /\ stage = "import" /\ current = m
  /\ attempts' = [attempts EXCEPT ![m] = @ + 1]
  /\ IF attempts'[m] > MaxAttempts
     THEN stage' = "mark" /\ UNCHANGED current
     ELSE stage' = "idle" /\ current' = NoMessage
  /\ UNCHANGED <<box, batch, history>>

\* Mutant of Retry: a message is given up one attempt too early.
MutRetryEarly(m) ==
  /\ stage = "import" /\ current = m
  /\ attempts' = [attempts EXCEPT ![m] = @ + 1]
  /\ IF attempts'[m] + 1 >= MaxAttempts
     THEN stage' = "mark" /\ UNCHANGED current
     ELSE stage' = "idle" /\ current' = NoMessage
  /\ UNCHANGED <<box, batch, history>>

\* It failed for now: the message stays unseen, or is given up.
Retry(m) ==
  /\ stage = "import" /\ current = m
  /\ attempts' = [attempts EXCEPT ![m] = @ + 1]
  /\ IF attempts'[m] >= MaxAttempts
     THEN stage' = "mark" /\ UNCHANGED current
     ELSE stage' = "idle" /\ current' = NoMessage
  /\ UNCHANGED <<box, batch, history>>

\* finish: the count is cleared together with the mark.
Mark(m) ==
  /\ stage = "mark" /\ current = m
  /\ stage' = "idle" /\ current' = NoMessage
  /\ box' = [box EXCEPT ![m] = "seen"]
  /\ attempts' = [attempts EXCEPT ![m] = 0]
  /\ UNCHANGED <<batch, history>>

\* The mark fails, which is only logged, and the count is cleared all the same.
MarkFails(m) ==
  /\ stage = "mark" /\ current = m
  /\ losses[m] < MaxLosses
  /\ stage' = "idle" /\ current' = NoMessage
  /\ attempts' = [attempts EXCEPT ![m] = 0]
  /\ losses' = [losses EXCEPT ![m] = @ + 1]
  /\ UNCHANGED <<box, batch, tries, settled>>

\* The server stops; a poller that starts anew counts from zero.
Restart ==
  /\ \A m \in Messages : losses[m] < MaxLosses
  /\ batch' = {} /\ stage' = "idle" /\ current' = NoMessage
  /\ attempts' = [m \in Messages |-> 0]
  /\ losses' = [m \in Messages |-> losses[m] + 1]
  /\ UNCHANGED <<box, tries, settled>>

NextMail ==
  \/ \E m \in Messages :
       \/ Deliver(m) \/ Take(m) \/ FetchFails(m) \/ Discard(m) \/ Submit(m)
       \/ Settle(m) \/ Retry(m) \/ Mark(m) \/ MarkFails(m)
  \/ PollOnce \/ Restart

SpecMail == InitMail /\ [][NextMail]_mailVars

-----------------------------------------------------------------------------
(* Properties                                                              *)

\* Every variable stays in its type, and the poller has a message exactly when
\* it is busy.
MailTypeOK ==
  /\ box \in [Messages -> {"out", "unseen", "seen"}]
  /\ batch \subseteq Messages
  /\ stage \in Stages
  /\ current \in Messages \cup {NoMessage}
  /\ current = NoMessage <=> stage = "idle"
  /\ attempts \in [Messages -> 0 .. MaxAttempts]
  /\ tries \in [Messages -> Nat]
  /\ settled \in [Messages -> BOOLEAN]
  /\ losses \in [Messages -> 0 .. MaxLosses]

\* maxIngestAttempts' comment: a message is not handed to the import (and its
\* AI) "every cycle forever".  Each loss of the count costs at most MaxAttempts
\* more tries, and nothing else does.
TriesBounded ==
  \A m \in Messages : tries[m] <= MaxAttempts * (losses[m] + 1)

\* No message is given up while it may still succeed: one that is seen was
\* settled, or has been tried MaxAttempts times.
SeenIsSettled ==
  \A m \in Messages : box[m] = "seen" => settled[m] \/ tries[m] >= MaxAttempts
=============================================================================
