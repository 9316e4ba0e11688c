----------------------------- MODULE MCLifecycle ------------------------------
(* What the jobs of the lifecycle service work on (lifecycle/jobs.go): trips *)
(* and their chats, and the deletions of accounts.  They have no state in    *)
(* common; a behaviour is one of them, chosen at the start, so that the      *)
(* states are added and not multiplied.                                      *)
EXTENDS TripRetention, AccountDeletion

CONSTANTS s1, s2, u1, u2, q1, q2, j1, j2

TwoSessions == {s1, s2}
TwoHandlers == {u1, u2}
TwoRequests == {q1, q2}
TwoJobs     == {j1, j2}

VARIABLE focus

vars == <<focus, retentionVars, deletionVars>>

Init ==
  /\ focus \in {"trips", "accounts"}
  /\ RetentionInit /\ DeletionInit
  /\ focus # "trips" => status = "planning"

OnTrips(step)    == focus = "trips" /\ step /\ UNCHANGED <<focus, deletionVars>>
OnAccounts(step) == focus = "accounts" /\ step /\ UNCHANGED <<focus, retentionVars>>

Next == OnTrips(RetentionNext) \/ OnAccounts(DeletionNext)

Spec == Init /\ [][Next]_vars

(* Time passes, and the tickers start the jobs again and again               *)
(* (lifecycle/jobs.go:36-93).                                                *)
Rounds ==
  /\ WF_vars(OnTrips(ArchiveDelayPasses))
  /\ \A s \in Sessions : WF_vars(OnTrips(RetentionPasses(s)))
  /\ \A q \in Requests : WF_vars(OnAccounts(HourPasses(q)))
  /\ WF_vars(OnTrips(StampMissing)) /\ WF_vars(OnTrips(ListForArchive))
  /\ WF_vars(OnAccounts(\E j \in Jobs : ListStale(j)))

(* An attempt to delete the user ends one way or the other.                  *)
Attempts ==
  /\ \A q \in Requests : WF_vars(OnAccounts(SetProcessing(q)))
  /\ \A p \in Processes :
       /\ WF_vars(OnAccounts(DeleteUser(p) \/ FailDelete(p)))
       /\ WF_vars(OnAccounts(CompleteRequest(p)))

(* What a failure or a crash keeps a job from is done in a later round: a    *)
(* statement that is repeated for ever does not fail for ever (hence SF).    *)
Repairs ==
  /\ SF_vars(OnTrips(PurgeExpired)) /\ SF_vars(OnTrips(ArchiveTrip))
  /\ \A q \in Requests : SF_vars(OnAccounts(\E j \in Jobs : GiveUp(j, q) \/ Retry(j, q)))

FairSpec == Spec /\ Rounds /\ Attempts /\ Repairs
=============================================================================
