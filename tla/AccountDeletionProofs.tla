----------------------- MODULE AccountDeletionProofs ------------------------
(***************************************************************************)
(* What holds of AccountDeletion for any requests, servers and limit.      *)
(***************************************************************************)
EXTENDS AccountDeletion, FiniteSetTheorems, TLAPS

\* The jobs that will still make an attempt at q from the count they have read.
Pending(q) == {j \in Jobs : q \in todo[j] /\ seen[j][q] < MaxRetries}

\* A count that was read is at most the row's.
SeenInv ==
  \A j \in Jobs, q \in Requests : q \in todo[j] => seen[j][q] <= retries[q]

\* Once the limit is reached, nothing is left but the attempts of jobs that
\* have read the count before.
BudgetInv ==
  \A q \in Requests : retries[q] >= MaxRetries =>
    retries[q] + Cardinality(Pending(q)) < MaxRetries + Cardinality(Jobs)

DeletionInv == DeletionTypeOK /\ SeenInv /\ FailedAfterAllRetries /\ BudgetInv

\* A set of jobs has a size, and no subset of it a larger one.
LEMMA JobSets ==
  ASSUME NEW S \in SUBSET Jobs, NEW T \in SUBSET S
  PROVE  /\ Cardinality(S) \in Nat /\ Cardinality(T) \in Nat
         /\ Cardinality(T) <= Cardinality(S)
<1>1. IsFiniteSet(S)
  BY FS_Subset, AccountDeletionAssumption
<1>2. IsFiniteSet(T) /\ Cardinality(T) <= Cardinality(S)
  BY <1>1, FS_Subset
<1> QED
  BY <1>1, <1>2, FS_CardinalityType

\* Without one of its members a set of jobs is smaller by one.
LEMMA JobRemoved ==
  ASSUME NEW S \in SUBSET Jobs, NEW j \in S
  PROVE  Cardinality(S \ {j}) = Cardinality(S) - 1
<1>1. IsFiniteSet(S)
  BY FS_Subset, AccountDeletionAssumption
<1> QED
  BY <1>1, FS_RemoveElement

\* There is a job.
LEMMA SomeJob == Cardinality(Jobs) \in Nat /\ Cardinality(Jobs) > 0
<1>1. PICK j \in Jobs : TRUE
  BY AccountDeletionAssumption
<1>2. Cardinality(Jobs \ {j}) = Cardinality(Jobs) - 1
  BY JobRemoved
<1>3. Cardinality(Jobs) \in Nat /\ Cardinality(Jobs \ {j}) \in Nat
  BY JobSets
<1> QED
  BY <1>2, <1>3

\* Nothing has been counted at the start.
LEMMA InitDeletionInv == DeletionInit => DeletionInv
<1> SUFFICES ASSUME DeletionInit PROVE DeletionInv
  OBVIOUS
<1>1. user = TRUE
  BY Zenon DEF DeletionInit
<1>2. /\ req = [q \in Requests |-> "none"] /\ retries = [q \in Requests |-> 0]
      /\ at = [p \in Processes |-> "idle"] /\ doing = [j \in Jobs |-> NoRequest]
      /\ todo = [j \in Jobs |-> {}] /\ seen = [j \in Jobs |-> [q \in Requests |-> 0]]
  BY DEF DeletionInit
<1>3. stale \in [Requests -> BOOLEAN]
  BY Zenon DEF DeletionInit
<1>4. DeletionTypeOK
  BY <1>1, <1>2, <1>3 DEF DeletionTypeOK, Statuses, Places
<1>5. \A q \in Requests : Cardinality(Pending(q)) = 0
  <2> SUFFICES ASSUME NEW q \in Requests PROVE Pending(q) = {}
    BY FS_EmptySet
  <2> QED
    BY <1>2 DEF Pending
<1> QED
  BY <1>2, <1>4, <1>5, SomeJob, AccountDeletionAssumption
     DEF DeletionInv, SeenInv, FailedAfterAllRetries, BudgetInv

\* While no row is counted up and no job has new attempts before it, the budget
\* is kept.
LEMMA BudgetKept ==
  ASSUME DeletionTypeOK, BudgetInv, retries' = retries,
         \A q \in Requests : Pending(q)' \subseteq Pending(q) \/ retries[q] < MaxRetries
  PROVE  BudgetInv'
<1> SUFFICES ASSUME NEW q \in Requests, retries[q] >= MaxRetries
             PROVE  retries[q] + Cardinality(Pending(q)') < MaxRetries + Cardinality(Jobs)
  BY DEF BudgetInv
<1>1. retries[q] \in Nat /\ MaxRetries \in Nat
  BY AccountDeletionAssumption DEF DeletionTypeOK
<1>2. Pending(q)' \subseteq Pending(q)
  BY <1>1
<1>3. Pending(q) \subseteq Jobs
  BY DEF Pending
<1>4. /\ Cardinality(Pending(q)) \in Nat /\ Cardinality(Pending(q)') \in Nat
      /\ Cardinality(Pending(q)') <= Cardinality(Pending(q))
  BY <1>2, <1>3, JobSets
<1>5. retries[q] + Cardinality(Pending(q)) < MaxRetries + Cardinality(Jobs)
  BY DEF BudgetInv
<1> QED
  BY <1>1, <1>4, <1>5, SomeJob

\* A step that leaves counts and lists alone keeps what is said of them.
LEMMA ListsAlone ==
  ASSUME DeletionInv, UNCHANGED <<retries, todo, seen>>
  PROVE  SeenInv' /\ BudgetInv'
<1>1. \A q \in Requests : Pending(q)' = Pending(q)
  BY DEF Pending
<1> QED
  BY <1>1 DEF DeletionInv, SeenInv, BudgetInv

\* A status written to the row of a request keeps the types.
LEMMA SetStatusTyped ==
  ASSUME DeletionTypeOK, NEW q \in Requests, NEW s \in {"processing", "completed", "failed"}, SetStatus(q, s)
  PROVE  /\ req' \in [Requests -> Statuses]
         /\ ~user => \A p \in Requests : req'[p] \in {"none", "gone"}
         /\ \A p \in Requests : req'[p] = "failed" => req[p] = "failed" \/ (p = q /\ s = "failed")
BY DEF SetStatus, DeletionTypeOK, Statuses, HasRow

\* The process that acts gets to a place of its own.
LEMMA GotoTyped ==
  ASSUME DeletionTypeOK, NEW p \in Processes, NEW place \in Places, Goto(p, place)
  PROVE  at' \in [Processes -> Places]
BY DEF Goto, DeletionTypeOK

\* Taking up a request shortens one list.
LEMMA TakeUpTyped ==
  ASSUME DeletionTypeOK, NEW j \in Jobs, NEW q \in Requests, TakeUp(j, q)
  PROVE  /\ todo' \in [Jobs -> SUBSET Requests]
         /\ \A i \in Jobs : todo'[i] \subseteq todo[i]
         /\ \A i \in Jobs, p \in Requests : p \in todo'[i] <=> p \in todo[i] /\ ~(i = j /\ p = q)
BY DEF TakeUp, DeletionTypeOK

\* An attempt uses up one of the jobs that may still make one.
LEMMA RetryKeepsBudget ==
  ASSUME DeletionInv, NEW j \in Jobs, NEW q \in Requests, Retry(j, q)
  PROVE  BudgetInv'
<1> SUFFICES ASSUME NEW p \in Requests, retries'[p] >= MaxRetries
             PROVE  retries'[p] + Cardinality(Pending(p)') < MaxRetries + Cardinality(Jobs)
  BY DEF BudgetInv
<1>1. DeletionTypeOK /\ BudgetInv /\ TakeUp(j, q) /\ seen[j][q] < MaxRetries /\ seen' = seen
  BY DEF DeletionInv, Retry
<1>2. \A i \in Jobs, r \in Requests : r \in todo'[i] <=> r \in todo[i] /\ ~(i = j /\ r = q)
  BY <1>1, TakeUpTyped
<1>3. retries[p] \in Nat /\ MaxRetries \in Nat /\ retries \in [Requests -> Nat]
  BY <1>1, AccountDeletionAssumption DEF DeletionTypeOK
<1>4. Pending(p) \subseteq Jobs /\ Pending(p)' \subseteq Pending(p)
  BY <1>1, <1>2 DEF Pending
<1>5. /\ Cardinality(Pending(p)) \in Nat /\ Cardinality(Pending(p)') \in Nat
      /\ Cardinality(Pending(p)') <= Cardinality(Pending(p))
  BY <1>4, JobSets
<1>6. retries' = retries \/ retries' = [retries EXCEPT ![q] = @ + 1]
  BY DEF Retry
<1>7. CASE retries'[p] = retries[p]
  <2>1. retries[p] + Cardinality(Pending(p)) < MaxRetries + Cardinality(Jobs)
    BY <1>1, <1>7 DEF BudgetInv
  <2> QED
    BY <2>1, <1>3, <1>5, <1>7, SomeJob
<1>8. CASE retries'[p] # retries[p]
  <2>1. p = q /\ retries'[p] = retries[p] + 1
    BY <1>3, <1>6, <1>8
  <2>2. q \in todo[j]
    BY <1>1 DEF TakeUp
  <2>3. j \in Pending(p) /\ Pending(p)' = Pending(p) \ {j}
    BY <1>1, <1>2, <2>1, <2>2 DEF Pending
  <2>4. Cardinality(Pending(p)') = Cardinality(Pending(p)) - 1
    BY <1>4, <2>3, JobRemoved
  <2>5. Cardinality(Pending(p)) <= Cardinality(Jobs)
    BY <1>4, JobSets
  <2>6. CASE retries[p] >= MaxRetries
    <3>1. retries[p] + Cardinality(Pending(p)) < MaxRetries + Cardinality(Jobs)
      BY <1>1, <2>6 DEF BudgetInv
    <3> QED
      BY <3>1, <2>1, <2>4, <1>3, <1>5, SomeJob
  <2>7. CASE retries[p] < MaxRetries
    BY <2>7, <2>1, <2>4, <2>5, <1>3, <1>5, SomeJob
  <2> QED
    BY <2>6, <2>7, <1>3
<1> QED
  BY <1>7, <1>8

\* Every step keeps the invariant.
LEMMA StepDeletionInv == DeletionInv /\ [DeletionNext]_deletionVars => DeletionInv'
<1> SUFFICES ASSUME DeletionInv, [DeletionNext]_deletionVars PROVE DeletionInv'
  OBVIOUS
<1> USE AccountDeletionAssumption
<1>typed. DeletionTypeOK /\ SeenInv /\ FailedAfterAllRetries /\ BudgetInv
  BY DEF DeletionInv
<1>row. /\ req \in [Requests -> Statuses] /\ retries \in [Requests -> Nat]
        /\ ~user => \A q \in Requests : ~HasRow(q)
  BY <1>typed DEF DeletionTypeOK
<1>flags. user \in BOOLEAN /\ stale \in [Requests -> BOOLEAN]
  BY <1>typed DEF DeletionTypeOK
<1>at. at \in [Processes -> Places]
  BY <1>typed DEF DeletionTypeOK
<1>jobs. /\ doing \in [Jobs -> Requests \cup {NoRequest}] /\ todo \in [Jobs -> SUBSET Requests]
         /\ seen \in [Jobs -> [Requests -> Nat]]
  BY <1>typed DEF DeletionTypeOK
<1>failed. \A q \in Requests : req[q] = "failed" => retries[q] >= MaxRetries
  BY <1>typed DEF FailedAfterAllRetries
<1>procs. Requests \subseteq Processes /\ Jobs \subseteq Processes
  BY DEF Processes
<1>1. ASSUME NEW q \in Requests, RequestDeletion(q) PROVE DeletionInv'
  <2>1. at' \in [Processes -> Places]
    BY <1>1, <1>typed, <1>procs, GotoTyped DEF RequestDeletion, Places
  <2>2. /\ req' \in [Requests -> Statuses]
        /\ \A p \in Requests : req'[p] = "failed" => req[p] = "failed"
    BY <1>1, <1>row DEF RequestDeletion, Statuses
  <2>3. user' \in BOOLEAN /\ stale' \in [Requests -> BOOLEAN]
    BY <1>1, <1>flags DEF RequestDeletion
  <2>4. user'
    BY Zenon, <1>1 DEF RequestDeletion
  <2>5. DeletionTypeOK'
    BY <1>1, <2>1, <2>2, <2>3, <2>4, <1>row, <1>jobs DEF RequestDeletion, DeletionTypeOK, list
  <2> QED
    BY <1>1, <2>2, <2>5, <1>failed, ListsAlone DEF RequestDeletion, list, DeletionInv, FailedAfterAllRetries
<1>2. ASSUME NEW q \in Requests, SetProcessing(q) PROVE DeletionInv'
  <2>1. at' \in [Processes -> Places]
    BY <1>2, <1>typed, <1>procs, GotoTyped DEF SetProcessing, Places
  <2>2. /\ req' \in [Requests -> Statuses]
        /\ ~user => \A p \in Requests : req'[p] \in {"none", "gone"}
        /\ \A p \in Requests : req'[p] = "failed" => req[p] = "failed"
    BY <1>2, <1>typed, <1>row, SetStatusTyped DEF SetProcessing, HasRow, Statuses
  <2>3. user' \in BOOLEAN /\ stale' \in [Requests -> BOOLEAN] /\ user' = user
    BY <1>2, <1>flags DEF SetProcessing
  <2>5. DeletionTypeOK'
    BY <1>2, <2>1, <2>2, <2>3, <1>row, <1>jobs DEF SetProcessing, DeletionTypeOK, list, HasRow
  <2> QED
    BY <1>2, <2>2, <2>5, <1>failed, ListsAlone DEF SetProcessing, list, DeletionInv, FailedAfterAllRetries
<1>3. ASSUME NEW q \in Requests, HourPasses(q) PROVE DeletionInv'
  <2>1. stale' \in [Requests -> BOOLEAN]
    BY Zenon, <1>3, <1>flags DEF HourPasses
  <2>2. user' \in BOOLEAN /\ user' = user
    BY <1>3, <1>flags DEF HourPasses
  <2>5. DeletionTypeOK'
    BY <1>3, <2>1, <2>2, <1>row, <1>at, <1>jobs DEF HourPasses, DeletionTypeOK, row, list, HasRow
  <2> QED
    BY <1>3, <2>5, <1>failed, ListsAlone DEF HourPasses, row, list, DeletionInv, FailedAfterAllRetries
<1>4. ASSUME NEW p \in Processes, DeleteUser(p) PROVE DeletionInv'
  <2>1. at' \in [Processes -> Places]
    BY <1>4, <1>typed, GotoTyped DEF DeleteUser, Places
  <2>2. /\ req' \in [Requests -> Statuses]
        /\ \A q \in Requests : req'[q] = "none" \/ req'[q] = "gone"
    BY <1>4, <1>row DEF DeleteUser, Statuses, HasRow
  <2>3. user' \in BOOLEAN /\ stale' \in [Requests -> BOOLEAN]
    BY <1>4, <1>flags DEF DeleteUser
  <2>5. DeletionTypeOK'
    BY <1>4, <2>1, <2>2, <2>3, <1>row, <1>jobs DEF DeleteUser, DeletionTypeOK, list, HasRow
  <2> QED
    BY <1>4, <2>2, <2>5, ListsAlone DEF DeleteUser, list, DeletionInv, FailedAfterAllRetries
<1>5. ASSUME NEW p \in Processes, FailDelete(p) PROVE DeletionInv'
  <2>1. at' \in [Processes -> Places]
    BY <1>5, <1>typed, GotoTyped DEF FailDelete, Places
  <2>2. user' \in BOOLEAN /\ user' = user /\ stale' \in [Requests -> BOOLEAN]
    BY <1>5, <1>flags DEF FailDelete
  <2>5. DeletionTypeOK'
    BY <1>5, <2>1, <2>2, <1>row, <1>jobs DEF FailDelete, DeletionTypeOK, row, list, HasRow
  <2> QED
    BY <1>5, <2>5, <1>failed, ListsAlone DEF FailDelete, row, list, DeletionInv, FailedAfterAllRetries
<1>6. ASSUME NEW p \in Processes, CompleteRequest(p) PROVE DeletionInv'
  <2>1. at' \in [Processes -> Places]
    BY <1>6, <1>typed, GotoTyped DEF CompleteRequest, Places
  <2>2. /\ req' \in [Requests -> Statuses]
        /\ ~user => \A q \in Requests : req'[q] \in {"none", "gone"}
        /\ \A q \in Requests : req'[q] = "failed" => req[q] = "failed"
    BY <1>6, <1>row DEF CompleteRequest, SetStatus, HasRow, Statuses
  <2>3. user' \in BOOLEAN /\ stale' \in [Requests -> BOOLEAN] /\ user' = user
    BY <1>6, <1>flags DEF CompleteRequest
  <2>5. DeletionTypeOK'
    BY <1>6, <2>1, <2>2, <2>3, <1>row, <1>jobs DEF CompleteRequest, DeletionTypeOK, list, HasRow
  <2> QED
    BY <1>6, <2>2, <2>5, <1>failed, ListsAlone DEF CompleteRequest, list, DeletionInv, FailedAfterAllRetries
<1>7. ASSUME NEW p \in Processes, Stop(p) PROVE DeletionInv'
  <2>1. at' \in [Processes -> Places]
    BY <1>7, <1>typed, GotoTyped DEF Stop, Places
  <2>2. user' \in BOOLEAN /\ user' = user /\ stale' \in [Requests -> BOOLEAN]
    BY <1>7, <1>flags DEF Stop
  <2>3. todo' \in [Jobs -> SUBSET Requests] /\ \A j \in Jobs : todo'[j] \subseteq todo[j]
    BY <1>7, <1>jobs DEF Stop
  <2>4. \A q \in Requests : Pending(q)' \subseteq Pending(q)
    BY <1>7, <2>3 DEF Stop, Pending
  <2>5. DeletionTypeOK'
    BY <1>7, <2>1, <2>2, <2>3, <1>row, <1>jobs DEF Stop, DeletionTypeOK, row, HasRow
  <2>6. BudgetInv'
    BY <1>7, <2>4, <1>typed, BudgetKept DEF Stop, row
  <2>7. SeenInv'
    BY <1>7, <2>3, <1>typed DEF Stop, row, SeenInv
  <2> QED
    BY <1>7, <2>5, <2>6, <2>7, <1>failed DEF Stop, row, DeletionInv, FailedAfterAllRetries
<1>8. ASSUME NEW j \in Jobs, ListStale(j) PROVE DeletionInv'
  <2>1. /\ todo' \in [Jobs -> SUBSET Requests]
        /\ \A i \in Jobs \ {j} : todo'[i] = todo[i] /\ seen'[i] = seen[i]
    BY <1>8, <1>jobs DEF ListStale
  <2>2. seen' \in [Jobs -> [Requests -> Nat]] /\ seen'[j] = retries
    BY <1>8, <1>jobs, <1>row DEF ListStale
  <2>3. \A q \in Requests : Pending(q)' \subseteq Pending(q) \/ retries[q] < MaxRetries
    <3> SUFFICES ASSUME NEW q \in Requests, NEW i \in Pending(q)', ~(retries[q] < MaxRetries)
                 PROVE  i \in Pending(q)
      OBVIOUS
    <3>1. i \in Jobs /\ q \in todo'[i] /\ seen'[i][q] < MaxRetries
      BY DEF Pending
    <3>2. i # j
      BY <3>1, <2>2
    <3> QED
      BY <3>1, <3>2, <2>1 DEF Pending
  <2>4. user' \in BOOLEAN /\ user' = user /\ stale' \in [Requests -> BOOLEAN]
    BY <1>8, <1>flags DEF ListStale
  <2>5. DeletionTypeOK'
    BY <1>8, <2>1, <2>2, <2>4, <1>row, <1>at, <1>jobs DEF ListStale, DeletionTypeOK, row, HasRow
  <2>6. BudgetInv'
    BY <1>8, <2>3, <1>typed, BudgetKept DEF ListStale, row
  <2>7. SeenInv'
    <3> SUFFICES ASSUME NEW i \in Jobs, NEW q \in Requests, q \in todo'[i]
                 PROVE  seen'[i][q] <= retries'[q]
      BY DEF SeenInv
    <3>1. retries' = retries /\ retries[q] \in Nat
      BY <1>8, <1>row DEF ListStale, row
    <3>2. CASE i = j
      BY <3>1, <3>2, <2>2
    <3>3. CASE i # j
      BY <3>1, <3>3, <2>1, <1>typed DEF SeenInv
    <3> QED
      BY <3>2, <3>3
  <2> QED
    BY <1>8, <2>5, <2>6, <2>7, <1>failed DEF ListStale, row, DeletionInv, FailedAfterAllRetries
<1>9. ASSUME NEW j \in Jobs, NEW q \in Requests, GiveUp(j, q) PROVE DeletionInv'
  <2>1. /\ todo' \in [Jobs -> SUBSET Requests]
        /\ \A i \in Jobs : todo'[i] \subseteq todo[i]
    BY <1>9, <1>typed, TakeUpTyped DEF GiveUp
  <2>2. /\ req' \in [Requests -> Statuses]
        /\ ~user => \A p \in Requests : req'[p] \in {"none", "gone"}
        /\ \A p \in Requests : req'[p] = "failed" => req[p] = "failed" \/ p = q
    BY <1>9, <1>typed, SetStatusTyped DEF GiveUp
  <2>3. retries[q] >= MaxRetries
    <3>1. seen[j][q] >= MaxRetries /\ q \in todo[j]
      BY <1>9 DEF GiveUp, TakeUp
    <3>2. seen[j][q] <= retries[q]
      BY <3>1, <1>typed DEF SeenInv
    <3>3. seen[j][q] \in Nat /\ retries[q] \in Nat /\ MaxRetries \in Nat
      BY <1>row, <1>jobs
    <3> QED
      BY <3>1, <3>2, <3>3
  <2>4. user' \in BOOLEAN /\ user' = user /\ stale' \in [Requests -> BOOLEAN]
    BY <1>9, <1>flags DEF GiveUp
  <2>5. DeletionTypeOK'
    BY <1>9, <2>1, <2>2, <2>4, <1>row, <1>at, <1>jobs DEF GiveUp, DeletionTypeOK, HasRow
  <2>6. \A p \in Requests : Pending(p)' \subseteq Pending(p)
    BY <1>9, <2>1 DEF GiveUp, Pending
  <2>7. BudgetInv'
    BY <1>9, <2>6, <1>typed, BudgetKept DEF GiveUp
  <2>8. SeenInv'
    BY <1>9, <2>1, <1>typed DEF GiveUp, SeenInv
  <2> QED
    BY <1>9, <2>2, <2>3, <2>5, <2>7, <2>8, <1>failed DEF GiveUp, DeletionInv, FailedAfterAllRetries
<1>10. ASSUME NEW j \in Jobs, NEW q \in Requests, Retry(j, q) PROVE DeletionInv'
  <2>1. /\ todo' \in [Jobs -> SUBSET Requests]
        /\ \A i \in Jobs : todo'[i] \subseteq todo[i]
    BY <1>10, <1>typed, TakeUpTyped DEF Retry
  <2>2. /\ req' \in [Requests -> Statuses]
        /\ ~user => \A p \in Requests : req'[p] \in {"none", "gone"}
        /\ \A p \in Requests : req'[p] = "failed" => req[p] = "failed"
    BY <1>10, <1>typed, SetStatusTyped DEF Retry
  <2>3. retries' \in [Requests -> Nat] /\ \A p \in Requests : retries[p] <= retries'[p]
    BY <1>10, <1>row DEF Retry
  <2>4. user' \in BOOLEAN /\ user' = user /\ stale' \in [Requests -> BOOLEAN]
    BY <1>10, <1>flags DEF Retry
  <2>5. at' \in [Processes -> Places]
    BY <1>10, <1>typed, <1>procs, GotoTyped DEF Retry, Places
  <2>6. doing' \in [Jobs -> Requests \cup {NoRequest}]
    BY <1>10, <1>jobs DEF Retry
  <2>7. DeletionTypeOK'
    BY <1>10, <2>1, <2>2, <2>3, <2>4, <2>5, <2>6, <1>jobs DEF Retry, DeletionTypeOK, HasRow
  <2>8. BudgetInv'
    BY <1>10, RetryKeepsBudget
  <2>9. SeenInv'
    <3> SUFFICES ASSUME NEW i \in Jobs, NEW p \in Requests, p \in todo'[i]
                 PROVE  seen'[i][p] <= retries'[p]
      BY DEF SeenInv
    <3>1. seen' = seen /\ seen[i][p] <= retries[p]
      BY <1>10, <2>1, <1>typed DEF Retry, SeenInv
    <3>2. seen[i][p] \in Nat /\ retries[p] \in Nat /\ retries'[p] \in Nat
      BY <1>row, <1>jobs, <2>3
    <3> QED
      BY <3>1, <3>2, <2>3
  <2>10. FailedAfterAllRetries'
    <3> SUFFICES ASSUME NEW p \in Requests, req'[p] = "failed" PROVE retries'[p] >= MaxRetries
      BY DEF FailedAfterAllRetries
    <3>1. retries[p] >= MaxRetries /\ retries[p] \in Nat /\ retries'[p] \in Nat
      BY <2>2, <2>3, <1>failed, <1>row
    <3> QED
      BY <3>1, <2>3
  <2> QED
    BY <2>7, <2>8, <2>9, <2>10 DEF DeletionInv
<1>11. ASSUME NEW j \in Jobs, NEW q \in Requests, Skip(j, q) PROVE DeletionInv'
  <2>1. /\ todo' \in [Jobs -> SUBSET Requests]
        /\ \A i \in Jobs : todo'[i] \subseteq todo[i]
    BY <1>11, <1>typed, TakeUpTyped DEF Skip
  <2>2. user' \in BOOLEAN /\ user' = user /\ stale' \in [Requests -> BOOLEAN]
    BY <1>11, <1>flags DEF Skip
  <2>3. DeletionTypeOK'
    BY <1>11, <2>1, <2>2, <1>row, <1>at, <1>jobs DEF Skip, DeletionTypeOK, row, HasRow
  <2>4. \A p \in Requests : Pending(p)' \subseteq Pending(p)
    BY <1>11, <2>1 DEF Skip, Pending
  <2>5. BudgetInv'
    BY <1>11, <2>4, <1>typed, BudgetKept DEF Skip, row
  <2>6. SeenInv'
    BY <1>11, <2>1, <1>typed DEF Skip, row, SeenInv
  <2> QED
    BY <1>11, <2>3, <2>5, <2>6, <1>failed DEF Skip, row, DeletionInv, FailedAfterAllRetries
<1>12. CASE UNCHANGED deletionVars
  <2>1. user' \in BOOLEAN /\ user' = user /\ stale' \in [Requests -> BOOLEAN]
    BY <1>12, <1>flags DEF deletionVars
  <2>2. DeletionTypeOK'
    BY <1>12, <2>1, <1>row, <1>at, <1>jobs DEF deletionVars, row, list, DeletionTypeOK, HasRow
  <2> QED
    BY <1>12, <2>2, <1>failed, ListsAlone DEF deletionVars, row, list, DeletionInv, FailedAfterAllRetries
<1> QED
  BY <1>1, <1>2, <1>3, <1>4, <1>5, <1>6, <1>7, <1>8, <1>9, <1>10, <1>11, <1>12 DEF DeletionNext

\* The invariant holds of every behaviour.
THEOREM DeletionInvHolds == DeletionSpec => []DeletionInv
<1> QED
  BY InitDeletionInv, StepDeletionInv, PTL DEF DeletionSpec

\* Every variable keeps its type, and a request has a row only while there is
\* a user.
THEOREM TypeCorrect == DeletionSpec => []DeletionTypeOK
<1>1. DeletionInv => DeletionTypeOK
  BY DEF DeletionInv
<1> QED
  BY <1>1, DeletionInvHolds, PTL

\* However many servers run the job and however old the counts they have read,
\* no request fails before its attempts are used up.
THEOREM FailedAfterAllRetriesHolds == DeletionSpec => []FailedAfterAllRetries
<1>1. DeletionInv => FailedAfterAllRetries
  BY DEF DeletionInv
<1> QED
  BY <1>1, DeletionInvHolds, PTL

\* The limit is overshot by less than one attempt per server.
THEOREM RetriesBoundedHolds == DeletionSpec => []RetriesBounded
<1>1. ASSUME DeletionInv PROVE RetriesBounded
  <2> SUFFICES ASSUME NEW q \in Requests PROVE retries[q] < MaxRetries + Cardinality(Jobs)
    BY DEF RetriesBounded
  <2>1. retries[q] \in Nat /\ MaxRetries \in Nat
    BY <1>1, AccountDeletionAssumption DEF DeletionInv, DeletionTypeOK
  <2>2. Pending(q) \subseteq Jobs
    BY DEF Pending
  <2>3. Cardinality(Pending(q)) \in Nat
    BY <2>2, JobSets
  <2>4. retries[q] >= MaxRetries =>
          retries[q] + Cardinality(Pending(q)) < MaxRetries + Cardinality(Jobs)
    BY <1>1 DEF DeletionInv, BudgetInv
  <2> QED
    BY <2>1, <2>3, <2>4, SomeJob
<1> QED
  BY <1>1, DeletionInvHolds, PTL
=============================================================================
