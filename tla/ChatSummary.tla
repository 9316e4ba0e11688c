----------------------------- MODULE ChatSummary -----------------------------
(* What a turn's model is told of a long session (chat/summarize.go,         *)
(* service.go:200-216): the newest RecentWindow rows, and a summary of the   *)
(* oldest ones, made again every RefreshInterval messages.  The session      *)
(* counts messages with content by the user and the assistant; the window    *)
(* and the summary count rows, those of the tool loop included.              *)
EXTENDS Integers

CONSTANTS Turns, SummaryThreshold, RefreshInterval, RecentWindow, MaxRows

ASSUME ChatSummaryAssumption ==
  /\ RefreshInterval \in Nat \ {0} /\ RecentWindow \in Nat /\ MaxRows \in Nat
  /\ SummaryThreshold \in RecentWindow .. RecentWindow + RefreshInterval - 1

VARIABLES
  rows, messageCount,   \* rows of the session, and those that count
  summaryCount,         \* summary_message_count, 0 without a summary
  covered,              \* how many of the oldest rows the summary is made from
  phase,                \* of a turn
  count, told,          \* of its copy of the session: messageCount, covered
  failed,               \* whether it has failed to read or summarise
  upTo                  \* rows when it loaded its history

session     == <<rows, messageCount, summaryCount, covered>>
copy        == <<count, told, failed, upTo>>
summaryVars == <<session, phase, copy>>

SummaryTypeOK ==
  /\ rows \in 0 .. MaxRows /\ messageCount \in 0 .. rows
  /\ summaryCount \in 0 .. messageCount /\ covered \in 0 .. rows
  /\ phase \in [Turns -> {"idle", "sent", "summarising", "loading", "answering"}]
  /\ count \in [Turns -> 0 .. MaxRows] /\ told \in [Turns -> 0 .. MaxRows]
  /\ failed \in [Turns -> BOOLEAN] /\ upTo \in [Turns -> 0 .. MaxRows]

SummaryInit ==
  /\ rows = 0 /\ messageCount = 0 /\ summaryCount = 0 /\ covered = 0
  /\ phase = [t \in Turns |-> "idle"]
  /\ count = [t \in Turns |-> 0] /\ told = [t \in Turns |-> 0]
  /\ failed = [t \in Turns |-> FALSE] /\ upTo = [t \in Turns |-> 0]

Phase(t, p) == phase' = [phase EXCEPT ![t] = p]

(* AddMessage: a row, and a counted one unless the tool loop wrote it.       *)
AddRow(counts) ==
  /\ rows < MaxRows
  /\ rows' = rows + 1
  /\ messageCount' = messageCount + IF counts THEN 1 ELSE 0
  /\ UNCHANGED <<summaryCount, covered>>

StoreQuestion(t) ==
  /\ phase[t] = "idle"
  /\ AddRow(TRUE)
  /\ Phase(t, "sent")
  /\ UNCHANGED copy

MutNeedsSummary ==
  /\ messageCount > SummaryThreshold
  /\ summaryCount = 0 \/ messageCount - summaryCount > RefreshInterval

NeedsSummary ==
  /\ messageCount > SummaryThreshold
  /\ summaryCount = 0 \/ messageCount - summaryCount >= RefreshInterval

(* GetSession, and whether MaybeRefreshSummary goes on with this copy.       *)
ReadSession(t) ==
  /\ phase[t] = "sent"
  /\ Phase(t, IF NeedsSummary THEN "summarising" ELSE "loading")
  /\ count' = [count EXCEPT ![t] = messageCount]
  /\ told' = [told EXCEPT ![t] = covered]
  /\ failed' = [failed EXCEPT ![t] = FALSE]
  /\ UNCHANGED <<session, upTo>>

(* Without its session a turn goes on without any summary.                   *)
FailRead(t) ==
  /\ phase[t] = "sent"
  /\ Phase(t, "loading")
  /\ count' = [count EXCEPT ![t] = 0] /\ told' = [told EXCEPT ![t] = 0]
  /\ failed' = [failed EXCEPT ![t] = TRUE]
  /\ UNCHANGED <<session, upTo>>

OlderMessageCount(n) == IF n <= RecentWindow THEN 0 ELSE n - RecentWindow

(* The oldest rows are summarised, in a call of the model's own, and stored  *)
(* over what another turn has stored in the meantime.                        *)
Refresh(t) ==
  /\ phase[t] = "summarising"
  /\ OlderMessageCount(count[t]) > 0
  /\ summaryCount' = count[t] /\ covered' = OlderMessageCount(count[t])
  /\ told' = [told EXCEPT ![t] = OlderMessageCount(count[t])]
  /\ Phase(t, "loading")
  /\ UNCHANGED <<rows, messageCount, count, failed, upTo>>

FailRefresh(t) ==
  /\ phase[t] = "summarising"
  /\ failed' = [failed EXCEPT ![t] = TRUE]
  /\ Phase(t, "loading")
  /\ UNCHANGED <<session, count, told, upTo>>

(* GetMessages: the newest rows, other turns' included.                      *)
LoadRecent(t) ==
  /\ phase[t] = "loading"
  /\ upTo' = [upTo EXCEPT ![t] = rows]
  /\ Phase(t, "answering")
  /\ UNCHANGED <<session, count, told, failed>>

(* A row of the answer or of the tool loop.                                  *)
WriteRow(t) ==
  /\ phase[t] = "answering"
  /\ \E counts \in BOOLEAN : AddRow(counts)
  /\ UNCHANGED <<phase, copy>>

(* With an error, when its history could not be loaded.                      *)
EndTurn(t) ==
  /\ phase[t] \in {"loading", "answering"}
  /\ Phase(t, "idle")
  /\ count' = [count EXCEPT ![t] = 0] /\ told' = [told EXCEPT ![t] = 0]
  /\ failed' = [failed EXCEPT ![t] = FALSE] /\ upTo' = [upTo EXCEPT ![t] = 0]
  /\ UNCHANGED session

SummaryNext ==
  \E t \in Turns :
    \/ StoreQuestion(t) \/ ReadSession(t) \/ FailRead(t) \/ Refresh(t) \/ FailRefresh(t)
    \/ LoadRecent(t) \/ WriteRow(t) \/ EndTurn(t)

(* What a model is not told of, neither in its window nor in its summary, is *)
(* less than a refresh interval, besides the rows that the session does not  *)
(* count and those written since the turn read it, however the refreshes of  *)
(* several turns overwrite each other (chat/summarize.go:65, :153).          *)
ForgottenBounded ==
  \A t \in Turns : phase[t] = "answering" /\ ~failed[t] =>
    upTo[t] - RecentWindow - told[t] <= RefreshInterval - 1 + (upTo[t] - count[t])
=============================================================================
