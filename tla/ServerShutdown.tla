---------------------------- MODULE ServerShutdown ----------------------------
(* How the server ends (cmd/server/main.go:590-639): the goroutine that      *)
(* waits for the signal, main itself, which returns from ListenAndServe when *)
(* the listener is closed and runs its deferred calls, or ends at once when  *)
(* the listener fails, and the work they interrupt: requests, and background *)
(* jobs, whose context is cancelled.                                         *)
(* Work is a sequence of database statements and of other steps.             *)
EXTENDS Naturals, FiniteSets

CONSTANTS Requests, Jobs,
  MaxStatements    \* bound: statements of a piece of work

Work == Requests \cup Jobs

ASSUME ShutdownAssumption == Requests \cap Jobs = {} /\ MaxStatements \in Nat

VARIABLES
  main,       \* "serving", "returned" from ListenAndServe, "closing" the pool, "closed", "exited";
              \* or "aborted", by os.Exit
  signal,     \* the other goroutine: "waiting", "shutdown", "done"
  cancelled,  \* jobsCtx
  timedOut,   \* the ten seconds of shutdownCtx
  work, statements

shutdownVars == <<main, signal, cancelled, timedOut, work, statements>>
process == <<main, signal, cancelled, timedOut>>

Busy      == {w \in Work : work[w] \in {"between", "statement"}}
InRequest == Busy \cap Requests
Ended     == main \in {"exited", "aborted"}

ShutdownInit ==
  /\ main = "serving" /\ signal = "waiting" /\ cancelled = FALSE /\ timedOut = FALSE
  /\ work = [w \in Work |-> "idle"]
  /\ statements = [w \in Work |-> 0]

Accept(w) ==
  /\ work[w] = "idle" /\ ~Ended
  /\ w \in Requests => signal = "waiting"
  /\ work' = [work EXCEPT ![w] = "between"]
  /\ UNCHANGED <<process, statements>>

(* The pool hands out no connection once it is being closed, nor to a        *)
(* context that is cancelled; the work then fails.                           *)
Refused(w) == main \in {"closing", "closed"} \/ (w \in Jobs /\ cancelled)

BeginStatement(w) ==
  /\ work[w] = "between" /\ ~Ended /\ statements[w] < MaxStatements
  /\ statements' = [statements EXCEPT ![w] = @ + 1]
  /\ work' = [work EXCEPT ![w] = IF Refused(w) THEN "failed" ELSE "statement"]
  /\ UNCHANGED process

EndStatement(w) ==
  /\ work[w] = "statement" /\ ~Ended
  /\ work' = [work EXCEPT ![w] = IF w \in Jobs /\ cancelled THEN "failed" ELSE "between"]
  /\ UNCHANGED <<process, statements>>

FinishWork(w) ==
  /\ work[w] = "between" /\ ~Ended
  /\ work' = [work EXCEPT ![w] = "done"]
  /\ UNCHANGED <<process, statements>>

(* SIGTERM: the jobs are cancelled; Shutdown closes the listener, on which   *)
(* ListenAndServe returns at once, and waits for the requests, but for those *)
(* on connections that h2c has taken over.                                   *)
Terminate ==
  /\ signal = "waiting" /\ ~Ended
  /\ signal' = "shutdown" /\ cancelled' = TRUE
  /\ UNCHANGED <<main, timedOut, work, statements>>

ServeReturns ==
  /\ main = "serving" /\ signal # "waiting"
  /\ main' = "returned"
  /\ UNCHANGED <<signal, cancelled, timedOut, work, statements>>

(* ListenAndServe returns another error: the port is taken, or the listener  *)
(* breaks.  os.Exit(1) runs no deferred call: the pool is not closed, and no *)
(* job is cancelled.                                                         *)
ServeFails ==
  /\ main = "serving"
  /\ main' = "aborted"
  /\ work' = [w \in Work |-> IF w \in Busy THEN "killed" ELSE work[w]]
  /\ UNCHANGED <<signal, cancelled, timedOut, statements>>

ShutdownReturns ==
  /\ signal = "shutdown" /\ ~Ended
  /\ timedOut' \in {FALSE, InRequest # {}}
  /\ signal' = "done"
  /\ UNCHANGED <<main, cancelled, work, statements>>

(* The deferred calls: jobsCancel, the limiters, then pool.Close.            *)
ClosePool ==
  /\ main = "returned"
  /\ main' = "closing"
  /\ UNCHANGED <<signal, cancelled, timedOut, work, statements>>

(* Close returns when all connections handed out are back.                   *)
PoolCloses ==
  /\ main = "closing" /\ \A w \in Work : work[w] # "statement"
  /\ main' = "closed"
  /\ UNCHANGED <<signal, cancelled, timedOut, work, statements>>

(* Mutant of Exit: main ends without its deferred calls, by os.Exit(0).      *)
MutExit ==
  /\ main \in {"returned", "closed"}
  /\ main' = "exited"
  /\ work' = [w \in Work |-> IF w \in Busy THEN "killed" ELSE work[w]]
  /\ UNCHANGED <<signal, cancelled, timedOut, statements>>

Exit ==
  /\ main = "closed"
  /\ main' = "exited"
  /\ work' = [w \in Work |-> IF w \in Busy THEN "killed" ELSE work[w]]
  /\ UNCHANGED <<signal, cancelled, timedOut, statements>>

ShutdownNext ==
  \/ \E w \in Work : Accept(w) \/ BeginStatement(w) \/ EndStatement(w) \/ FinishWork(w)
  \/ Terminate \/ ServeReturns \/ ServeFails \/ ShutdownReturns \/ ClosePool \/ PoolCloses \/ Exit

ShutdownSpec == ShutdownInit /\ [][ShutdownNext]_shutdownVars

(* A process that is told to end kills nothing inside a statement of the     *)
(* database: what was sent to it is answered (main.go:97, 593).  Only one    *)
(* whose listener fails does (main.go:635).                                  *)
StatementsEndFirst ==
  [][\A w \in Work :
       work[w] = "statement" /\ work'[w] = "killed" => main' = "aborted"]_shutdownVars

(* main.go:616: "Graceful shutdown": the requests of a process that is told  *)
(* to end come to their end, or have ten seconds.                            *)
RequestsEndFirst == main = "exited" => \A w \in Requests : work[w] = "killed" => timedOut
=============================================================================
