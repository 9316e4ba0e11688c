----------------------------- MODULE TokenBudget -----------------------------
(* The daily budget of AI tokens (ai/budget.go): a counter and the date of   *)
(* its last reset, both atomic, with nothing that keeps them together.  A    *)
(* turn is admitted when the counter is below the limit and adds what it has *)
(* used when it ends (chat/service.go:145, :911); the turns run at once.     *)
EXTENDS Integers, FiniteSets

CONSTANTS Streams, DailyLimit, MaxTurn, MaxDay

ASSUME TokenBudgetAssumption ==
  /\ DailyLimit \in Nat \ {0} /\ MaxTurn \in Nat \ {0} /\ MaxDay \in Nat
  /\ IsFiniteSet(Streams)

VARIABLES
  day,       \* the date, up to MaxDay
  used, resetDay,   \* the fields of TokenBudget
  stage,     \* a stream's place: before the turn, in it, after it
  op,        \* the atomic operation its Check or Record comes to next
  today, last,      \* what maybeReset has read
  spent,     \* history: tokens recorded with the date of today
  torn       \* history: another call was at work while one was resetting

counter    == <<used, resetDay>>
read       == <<today, last>>
budgetVars == <<day, counter, stage, op, read, spent, torn>>

Overshoot == DailyLimit - 1 + Cardinality(Streams) * MaxTurn

BudgetTypeOK ==
  /\ day \in 0 .. MaxDay /\ resetDay \in 0 .. MaxDay
  /\ used \in Nat /\ spent \in Nat
  /\ stage \in [Streams -> {"idle", "check", "turn", "record"}]
  /\ op \in [Streams -> {"none", "date", "load", "swap", "zero", "use"}]
  /\ today \in [Streams -> 0 .. MaxDay] /\ last \in [Streams -> 0 .. MaxDay]
  /\ torn \in BOOLEAN

BudgetInit ==
  /\ day = 0 /\ used = 0 /\ resetDay = 0
  /\ stage = [s \in Streams |-> "idle"] /\ op = [s \in Streams |-> "none"]
  /\ today = [s \in Streams |-> 0] /\ last = [s \in Streams |-> 0]
  /\ spent = 0 /\ torn = FALSE

Goto(s, o)    == op' = [op EXCEPT ![s] = o]
Resetting(s)  == op[s] \in {"swap", "zero"}
Overlap(s)    == \E r \in Streams \ {s} : op[r] # "none" /\ (Resetting(r) \/ Resetting(s))
Capped(n)     == IF n > Overshoot THEN Overshoot + 1 ELSE n

(* A call of Check, or of Record when the turn has ended.                    *)
BeginCall(s) ==
  /\ op[s] = "none" /\ stage[s] \in {"idle", "turn"}
  /\ stage' = [stage EXCEPT ![s] = IF @ = "idle" THEN "check" ELSE "record"]
  /\ Goto(s, "date")
  /\ UNCHANGED <<day, counter, read, spent, torn>>

ReadDate(s) ==
  /\ op[s] = "date"
  /\ today' = [today EXCEPT ![s] = day]
  /\ Goto(s, "load")
  /\ UNCHANGED <<day, counter, stage, last, spent, torn>>

LoadResetDay(s) ==
  /\ op[s] = "load"
  /\ last' = [last EXCEPT ![s] = resetDay]
  /\ Goto(s, IF today[s] # resetDay THEN "swap" ELSE "use")
  /\ UNCHANGED <<day, counter, stage, today, spent, torn>>

SwapResetDay(s) ==
  /\ op[s] = "swap"
  /\ \/ resetDay = last[s] /\ resetDay' = today[s] /\ Goto(s, "zero")
     \/ resetDay # last[s] /\ UNCHANGED resetDay /\ Goto(s, "use")
  /\ torn' = (torn \/ Overlap(s))
  /\ UNCHANGED <<day, used, stage, read, spent>>

StoreZero(s) ==
  /\ op[s] = "zero"
  /\ used' = 0
  /\ Goto(s, "use")
  /\ torn' = (torn \/ Overlap(s))
  /\ UNCHANGED <<day, resetDay, stage, read, spent>>

(* The rest of Check: ErrBudgetExhausted, or the turn begins.                *)
Compare(s) ==
  /\ op[s] = "use" /\ stage[s] = "check"
  /\ stage' = [stage EXCEPT ![s] = IF used >= DailyLimit THEN "idle" ELSE "turn"]
  /\ Goto(s, "none")
  /\ torn' = (torn \/ Overlap(s))
  /\ UNCHANGED <<day, counter, read, spent>>

(* The rest of Record.                                                       *)
Add(s) ==
  /\ op[s] = "use" /\ stage[s] = "record"
  /\ \E n \in 1 .. MaxTurn :
       /\ used' = used + n
       /\ spent' = IF today[s] = day THEN Capped(spent + n) ELSE spent
  /\ stage' = [stage EXCEPT ![s] = "idle"]
  /\ Goto(s, "none")
  /\ torn' = (torn \/ Overlap(s))
  /\ UNCHANGED <<day, resetDay, read>>

(* A turn that used no tokens records nothing.                               *)
EndUnused(s) ==
  /\ op[s] = "none" /\ stage[s] = "turn"
  /\ stage' = [stage EXCEPT ![s] = "idle"]
  /\ UNCHANGED <<day, counter, op, read, spent, torn>>

Midnight ==
  /\ day < MaxDay
  /\ day' = day + 1 /\ spent' = 0
  /\ torn' = \E s \in Streams : Resetting(s)
  /\ UNCHANGED <<counter, stage, op, read>>

BudgetNext ==
  \/ \E s \in Streams :
       \/ BeginCall(s) \/ ReadDate(s) \/ LoadResetDay(s) \/ SwapResetDay(s) \/ StoreZero(s)
       \/ Compare(s) \/ Add(s) \/ EndUnused(s)
  \/ Midnight

(* The limit is checked before a turn and charged after it, so the turns in  *)
(* progress can pass it by what they use, but no day is charged more than    *)
(* that, unless calls overlapped with a reset (ai/budget.go:60): then what   *)
(* one recorded is lost in the reset of the other, which may also be a       *)
(* second reset, by a call that read the date before midnight.               *)
SpendBounded == torn \/ spent <= Overshoot
=============================================================================
