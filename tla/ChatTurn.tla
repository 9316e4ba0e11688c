------------------------------ MODULE ChatTurn ------------------------------
(***************************************************************************)
(* One chat request of toqui, from SendMessage to the closed stream        *)
(* (backend/internal/chat/service.go), over the chat store it writes to    *)
(* (backend/internal/chatstore).  A turn is one call of SendMessage: it    *)
(* stores the user's message, asks the AI provider in a loop that runs     *)
(* tools, retries suspicious answers and may swap persona, stores what the *)
(* loop produced, tells the client, and cleans up.  Several turns run at   *)
(* once, each in a goroutine of its own, and share the sessions; a step of *)
(* the model is one access to the store, one event of the provider or one  *)
(* decision taken between two of them.                                     *)
(*                                                                         *)
(* Text is abstracted to fragments: what the provider wrote in iteration i *)
(* is fragment i, and NoteFrag is the remark added at the iteration limit. *)
(* What a text says (a claim, a hand-off, an intention) is a choice.       *)
(***************************************************************************)
EXTENDS Naturals, Sequences, FiniteSets

CONSTANTS
  Turns,       \* the calls of SendMessage
  Sessions,    \* the session ids
  NoSession,   \* the session id of a turn that has none yet
  Tools,       \* the tools the provider may call
  MaxIter,     \* maxToolLoopIterations (7 in the code)
  MaxFab,      \* fabrication retries per turn (2 in the code)
  Planning,    \* whether the turns are in planning mode
  Gemini,      \* whether the provider's name is "gemini"
  StoreFaults, \* whether a write to the store may fail on its own
  OtherDeletes \* whether a trip deletion or a purge may remove a session

ASSUME ChatTurnAssumption ==
  /\ NoSession \notin Sessions
  /\ Tools \subseteq {"itinerary", "expert", "other"}
  /\ MaxIter \in Nat \ {0}
  /\ MaxFab \in Nat
  /\ {Planning, Gemini, StoreFaults, OtherDeletes} \subseteq BOOLEAN

VARIABLES
  live,          \* the sessions that have a row in chat_sessions
  log,           \* the chat_messages rows of each session, in seq order
  (* the goroutine of each turn *)
  pc,            \* where it is
  sid,           \* sessionID
  fresh,         \* isNewSession
  iter,          \* iteration + 1
  fab,           \* fabricationRetries
  expertRetried,
  emptyRetried,  \* emptyStreamRetried
  everItin,      \* everCalledItinerary
  full,          \* fullResponse: the text of this iteration
  complete,      \* completeResponse: the text of all iterations
  calls,         \* toolCalls of this iteration
  swap,          \* an expert waits in personaSwitchCh
  answer,        \* content of the assistant message to store
  ret,           \* the loop returned a non-empty text
  gone,          \* the request's context is cancelled
  (* what the client of each turn has received *)
  streamed,      \* its text deltas
  shown,         \* the text of message_complete
  announced,     \* whether message_complete came
  errors         \* how many error events came

store   == <<live, log>>
session == <<sid, fresh>>
guards  == <<fab, expertRetried, emptyRetried, everItin>>
texts   == <<full, complete, answer, ret>>
tools   == <<calls, swap>>
client  == <<streamed, shown, announced, errors>>
vars    == <<store, pc, session, iter, guards, texts, tools, gone, client>>

-----------------------------------------------------------------------------
NoteFrag == 0
Frags    == 0 .. MaxIter
Kinds    == {"user", "call", "result", "final"}

\* One stored message: who wrote it, in which role, the tools it names and
\* the fragments in its content.
Message == [kind : Kinds, turn : Turns, tools : SUBSET Tools, text : SUBSET Frags]

\* "refused" is an RPC that returned an error before the stream was opened,
\* "closed" a closed event channel and "aborted" a goroutine that a panic or a
\* crash ended.
Looping == {"top", "stream", "continue", "decide", "storeResult", "storeAnswer", "emit",
            "report"}
Running == {"create", "ask", "load", "cleanup"} \cup Looping
Over    == {"refused", "closed", "aborted"}
PCs     == {"idle"} \cup Running \cup Over

Init ==
  /\ live = {}
  /\ log = [s \in Sessions |-> <<>>]
  /\ pc = [t \in Turns |-> "idle"]
  /\ sid = [t \in Turns |-> NoSession]
  /\ iter = [t \in Turns |-> 1]
  /\ fab = [t \in Turns |-> 0]
  /\ fresh = [t \in Turns |-> FALSE]
  /\ expertRetried = [t \in Turns |-> FALSE]
  /\ emptyRetried = [t \in Turns |-> FALSE]
  /\ everItin = [t \in Turns |-> FALSE]
  /\ swap = [t \in Turns |-> FALSE]
  /\ ret = [t \in Turns |-> FALSE]
  /\ gone = [t \in Turns |-> FALSE]
  /\ full = [t \in Turns |-> {}]
  /\ complete = [t \in Turns |-> {}]
  /\ answer = [t \in Turns |-> {}]
  /\ calls = [t \in Turns |-> {}]
  /\ streamed = [t \in Turns |-> {}]
  /\ shown = [t \in Turns |-> {}]
  /\ announced = [t \in Turns |-> FALSE]
  /\ errors = [t \in Turns |-> 0]

Goto(t, p) == pc' = [pc EXCEPT ![t] = p]

-----------------------------------------------------------------------------
(* The store                                                               *)

\* AddMessage: one transaction that upserts the session row, so it brings a
\* deleted session back, and appends the message.
AddMessage(s, m) ==
  /\ live' = live \cup {s}
  /\ log' = [log EXCEPT ![s] = Append(@, m)]

\* An access under the request's context: it cannot succeed once the context
\* is cancelled, and may fail on its own.
MaySucceed(t) == ~gone[t]
MayFail(t)    == gone[t] \/ StoreFaults

\* Store message m for turn t, or fail to: the caller only logs a failure.
TryStore(t, m) ==
  \/ MaySucceed(t) /\ AddMessage(sid[t], m)
  \/ MayFail(t) /\ UNCHANGED store

DropSession(s) ==
  /\ live' = live \ {s}
  /\ log' = [log EXCEPT ![s] = <<>>]

-----------------------------------------------------------------------------
(* SendMessage, before the stream                                          *)

\* Budget checks come first; then a new session is created or the given one
\* is used as it is, known to the store or not.
Admit(t) ==
  /\ pc[t] = "idle"
  /\ \/ Goto(t, "create") /\ UNCHANGED sid
     \/ \E s \in Sessions : Goto(t, "ask") /\ sid' = [sid EXCEPT ![t] = s]
     \/ Goto(t, "refused") /\ UNCHANGED sid        \* budget exhausted
  /\ UNCHANGED <<store, fresh, iter, guards, texts, tools, gone, client>>

CreateSession(t) ==
  /\ pc[t] = "create"
  /\ \/ \E s \in Sessions \ (live \cup {sid[u] : u \in Turns}) :
          /\ MaySucceed(t)
          /\ Goto(t, "ask")
          /\ live' = live \cup {s}
          /\ sid' = [sid EXCEPT ![t] = s]
          /\ fresh' = [fresh EXCEPT ![t] = TRUE]
     \/ MayFail(t) /\ Goto(t, "refused") /\ UNCHANGED <<live, session>>
  /\ UNCHANGED <<log, iter, guards, texts, tools, gone, client>>

StoreUserMessage(t) ==
  /\ pc[t] = "ask"
  /\ \/ /\ MaySucceed(t)
        /\ Goto(t, "load")
        /\ AddMessage(sid[t], [kind |-> "user", turn |-> t, tools |-> {}, text |-> {}])
     \/ MayFail(t) /\ Goto(t, "refused") /\ UNCHANGED store
  /\ UNCHANGED <<session, iter, guards, texts, tools, gone, client>>

\* The history is loaded and the request built.  A failed read refuses the
\* request; a cached response is streamed and stored without the provider.
LoadHistory(t) ==
  /\ pc[t] = "load"
  /\ \/ MaySucceed(t) /\ Goto(t, "top") /\ UNCHANGED <<texts, client>>
     \/ /\ MaySucceed(t)
        /\ Goto(t, "storeAnswer")
        /\ complete' = [complete EXCEPT ![t] = {1}]
        /\ answer' = [answer EXCEPT ![t] = {1}]
        /\ ret' = [ret EXCEPT ![t] = TRUE]
        /\ streamed' = [streamed EXCEPT ![t] = {1}]
        /\ UNCHANGED <<full, shown, announced, errors>>
     \/ MayFail(t) /\ Goto(t, "refused") /\ UNCHANGED <<texts, client>>
  /\ UNCHANGED <<store, session, iter, guards, tools, gone>>

-----------------------------------------------------------------------------
(* The tool loop                                                           *)

\* Events sent after the client has gone reach nobody.
TellError(t) ==
  errors' = IF gone[t] THEN errors ELSE [errors EXCEPT ![t] = @ + 1]

Speak(t, frag) ==
  streamed' = IF gone[t] THEN streamed ELSE [streamed EXCEPT ![t] = @ \cup {frag}]

\* The loop gives up: error event, empty response text.
GiveUp(t) ==
  /\ Goto(t, "cleanup")
  /\ TellError(t)
  /\ ret' = [ret EXCEPT ![t] = FALSE]
  /\ UNCHANGED <<store, session, iter, guards, full, complete, answer, tools, gone,
                 streamed, shown, announced>>

\* The client is gone at the top of an iteration: the text of the one before
\* is returned.
StopForClient(t) ==
  /\ pc[t] = "top" /\ iter[t] <= MaxIter
  /\ gone[t]
  /\ Goto(t, "cleanup")
  /\ ret' = [ret EXCEPT ![t] = (full[t] # {})]
  /\ UNCHANGED <<store, session, iter, guards, full, complete, answer, tools, gone, client>>

\* The text of the iteration is reset and the provider called.
StartIteration(t) ==
  /\ pc[t] = "top" /\ iter[t] <= MaxIter
  /\ ~gone[t]
  /\ Goto(t, "stream")
  /\ full' = [full EXCEPT ![t] = {}]
  /\ calls' = [calls EXCEPT ![t] = {}]
  /\ UNCHANGED <<store, session, iter, guards, complete, answer, ret, swap, gone, client>>

ReceiveText(t) ==
  /\ pc[t] = "stream"
  /\ full[t] = {}
  /\ full' = [full EXCEPT ![t] = {iter[t]}]
  /\ Speak(t, iter[t])
  /\ UNCHANGED <<store, pc, session, iter, guards, complete, answer, ret, tools, gone,
                 shown, announced, errors>>

\* A tool call is executed while the provider is still streaming;
\* suggest_expert leaves the expert in the channel when it finds one.
ExecuteTool(t, tool) ==
  /\ pc[t] = "stream"
  /\ tool \notin calls[t]
  /\ calls' = [calls EXCEPT ![t] = @ \cup {tool}]
  /\ \/ UNCHANGED swap
     \/ tool = "expert" /\ swap' = [swap EXCEPT ![t] = TRUE]
  /\ UNCHANGED <<store, pc, session, iter, guards, texts, gone, client>>

\* Mutant of EndStream: completeResponse is reset with fullResponse.
MutEndStream(t) ==
  /\ pc[t] = "stream"
  /\ complete' = [complete EXCEPT ![t] = full[t]]
  /\ \/ Goto(t, "decide")
     \/ calls[t] # {} /\ Goto(t, "continue")
  /\ UNCHANGED <<store, session, iter, guards, full, answer, ret, tools, gone, client>>

\* EventDone, or a channel that closed without it: the iteration's text joins
\* the text of the whole turn.  Only with stop reason "tool_use", and calls,
\* does the loop continue for their results.
EndStream(t) ==
  /\ pc[t] = "stream"
  /\ complete' = [complete EXCEPT ![t] = @ \cup full[t]]
  /\ \/ Goto(t, "decide")
     \/ calls[t] # {} /\ Goto(t, "continue")
  /\ UNCHANGED <<store, session, iter, guards, full, answer, ret, tools, gone, client>>

\* ChatStream failed.
FailStart(t) ==
  /\ pc[t] = "top" /\ iter[t] <= MaxIter
  /\ ~gone[t]
  /\ GiveUp(t)

\* The per-turn timeout or a cancelled context.
FailStream(t) ==
  /\ pc[t] = "stream"
  /\ GiveUp(t)

\* An error event of the provider is told where it is read, unless the turn's
\* time is up by then, and once more when the loop gives up.
ProviderError(t) ==
  /\ pc[t] = "stream"
  /\ Goto(t, "report")
  /\ TellError(t) \/ UNCHANGED errors
  /\ UNCHANGED <<store, session, iter, guards, texts, tools, gone, streamed, shown, announced>>

ReportError(t) ==
  /\ pc[t] = "report"
  /\ GiveUp(t)

\* Mutant of ContinueWithTools: the text before a tool call is stored for no
\* provider.
MutContinueWithTools(t) ==
  /\ pc[t] = "continue"
  /\ Goto(t, "storeResult")
  /\ swap' = [swap EXCEPT ![t] = FALSE]
  /\ TryStore(t, [kind |-> "call", turn |-> t, tools |-> calls[t], text |-> {}])
  /\ UNCHANGED <<session, iter, guards, texts, calls, gone, client>>

\* The provider stopped for tools: the waiting persona is taken and the retry
\* guards reset, then the assistant's tool-call message is stored.
ContinueWithTools(t) ==
  /\ pc[t] = "continue"
  /\ Goto(t, "storeResult")
  /\ \/ /\ swap[t]
        /\ swap' = [swap EXCEPT ![t] = FALSE]
        /\ fab' = [fab EXCEPT ![t] = 0]
        /\ expertRetried' = [expertRetried EXCEPT ![t] = FALSE]
        /\ emptyRetried' = [emptyRetried EXCEPT ![t] = FALSE]
        /\ everItin' = [everItin EXCEPT ![t] = FALSE]
     \/ ~swap[t] /\ UNCHANGED <<swap, guards>>
  /\ TryStore(t, [kind |-> "call", turn |-> t, tools |-> calls[t],
                  text |-> IF Gemini THEN {} ELSE full[t]])
  /\ UNCHANGED <<session, iter, texts, calls, gone, client>>

\* Mutant of StoreToolResult: a tool iteration is not counted.
MutStoreToolResult(t) ==
  /\ pc[t] = "storeResult"
  /\ Goto(t, "top")
  /\ TryStore(t, [kind |-> "result", turn |-> t, tools |-> calls[t], text |-> {}])
  /\ UNCHANGED <<session, iter, guards, texts, tools, gone, client>>

StoreToolResult(t) ==
  /\ pc[t] = "storeResult"
  /\ Goto(t, "top")
  /\ iter' = [iter EXCEPT ![t] = @ + 1]
  /\ TryStore(t, [kind |-> "result", turn |-> t, tools |-> calls[t], text |-> {}])
  /\ UNCHANGED <<session, guards, texts, tools, gone, client>>

\* Past the tool branch, the iteration's calls are looked at.
CalledItinerary(t) == everItin[t] \/ "itinerary" \in calls[t]
Silent(t)          == full[t] = {} /\ calls[t] = {}

\* Ask again with a nudge: the iteration's text is thrown away.
Nudge(t) ==
  /\ Goto(t, "top")
  /\ full' = [full EXCEPT ![t] = {}]
  /\ iter' = [iter EXCEPT ![t] = @ + 1]
  /\ everItin' = [everItin EXCEPT ![t] = CalledItinerary(t)]
  /\ UNCHANGED <<store, session, complete, answer, ret, tools, gone, client>>

RetrySilence(t) ==
  /\ pc[t] = "decide"
  /\ Silent(t)
  /\ ~emptyRetried[t] /\ iter[t] < MaxIter
  /\ emptyRetried' = [emptyRetried EXCEPT ![t] = TRUE]
  /\ Nudge(t)
  /\ UNCHANGED <<fab, expertRetried>>

SuppressSilence(t) ==
  /\ pc[t] = "decide"
  /\ Silent(t)
  /\ emptyRetried[t] \/ iter[t] >= MaxIter
  /\ GiveUp(t)

\* The guard of the fabrication branch; whether a trigger fires depends on the
\* texts, and on the classifier, which is asked only before the first retry.
RetryFabrication(t) ==
  /\ pc[t] = "decide"
  /\ ~Silent(t)
  /\ Planning /\ fab[t] < MaxFab /\ ~CalledItinerary(t)
  /\ fab' = [fab EXCEPT ![t] = @ + 1]
  /\ Nudge(t)
  /\ UNCHANGED <<expertRetried, emptyRetried>>

\* The text claims a hand-off and suggest_expert was not called.
RetryExpert(t) ==
  /\ pc[t] = "decide"
  /\ full[t] # {}
  /\ ~expertRetried[t] /\ "expert" \notin calls[t]
  /\ expertRetried' = [expertRetried EXCEPT ![t] = TRUE]
  /\ Nudge(t)
  /\ UNCHANGED <<fab, emptyRetried>>

\* The answer is accepted: the text of this iteration, which is empty when the
\* provider called tools but did not stop for them.
AcceptAnswer(t) ==
  /\ pc[t] = "decide"
  /\ ~Silent(t)
  /\ Goto(t, "storeAnswer")
  /\ answer' = [answer EXCEPT ![t] = full[t]]
  /\ ret' = [ret EXCEPT ![t] = (full[t] # {})]
  /\ everItin' = [everItin EXCEPT ![t] = CalledItinerary(t)]
  /\ UNCHANGED <<store, session, iter, fab, expertRetried, emptyRetried, full, complete,
                 tools, gone, client>>

\* The iteration limit: what the last iteration wrote and a note, or, when it
\* wrote nothing, the text of the whole turn.
HitLimit(t) ==
  /\ pc[t] = "top" /\ iter[t] > MaxIter
  /\ Goto(t, "storeAnswer")
  /\ ret' = [ret EXCEPT ![t] = (full[t] # {})]
  /\ \/ /\ full[t] # {}
        /\ answer' = [answer EXCEPT ![t] = full[t] \cup {NoteFrag}]
        /\ Speak(t, NoteFrag)
     \/ /\ full[t] = {}
        /\ answer' = [answer EXCEPT ![t] = complete[t]]
        /\ UNCHANGED streamed
  /\ UNCHANGED <<store, session, iter, guards, full, complete, tools, gone, shown, announced,
                 errors>>

\* Mutant of StoreAnswer: the loop goes on after the answer is stored.
MutStoreAnswer(t) ==
  /\ pc[t] = "storeAnswer"
  /\ Goto(t, "top")
  /\ TryStore(t, [kind |-> "final", turn |-> t, tools |-> {}, text |-> answer[t]])
  /\ UNCHANGED <<session, iter, guards, texts, tools, gone, client>>

\* Mutant of StoreAnswer: an answer whose last iteration wrote nothing is not
\* stored.
MutSkipAnswer(t) ==
  /\ pc[t] = "storeAnswer"
  /\ Goto(t, "emit")
  /\ IF ret[t]
       THEN TryStore(t, [kind |-> "final", turn |-> t, tools |-> {}, text |-> answer[t]])
       ELSE UNCHANGED store
  /\ UNCHANGED <<session, iter, guards, texts, tools, gone, client>>

StoreAnswer(t) ==
  /\ pc[t] = "storeAnswer"
  /\ Goto(t, "emit")
  /\ TryStore(t, [kind |-> "final", turn |-> t, tools |-> {}, text |-> answer[t]])
  /\ UNCHANGED <<session, iter, guards, texts, tools, gone, client>>

\* message_complete carries the text of every iteration.
CompleteText(t) == IF complete[t] = {} THEN answer[t] ELSE complete[t]

EmitComplete(t) ==
  /\ pc[t] = "emit"
  /\ Goto(t, "cleanup")
  /\ announced' = IF gone[t] THEN announced ELSE [announced EXCEPT ![t] = TRUE]
  /\ shown' = IF gone[t] THEN shown ELSE [shown EXCEPT ![t] = CompleteText(t)]
  /\ UNCHANGED <<store, session, iter, guards, texts, tools, gone, streamed, errors>>

-----------------------------------------------------------------------------
(* After the loop                                                          *)

\* Mutant of CleanUp: isNewSession is not looked at.
MutCleanUp(t) ==
  /\ pc[t] = "cleanup"
  /\ Goto(t, "closed")
  /\ IF ret[t] THEN UNCHANGED store ELSE DropSession(sid[t])
  /\ UNCHANGED <<session, iter, guards, texts, tools, gone, client>>

\* The goroutine deletes the session if it made it and got no text, under a
\* context of its own, and closes the channel.
CleanUp(t) ==
  /\ pc[t] = "cleanup"
  /\ Goto(t, "closed")
  /\ \/ ~ret[t] /\ fresh[t] /\ DropSession(sid[t])
     \/ (ret[t] \/ ~fresh[t] \/ StoreFaults) /\ UNCHANGED store
  /\ UNCHANGED <<session, iter, guards, texts, tools, gone, client>>

\* A panic in a tool, in the provider, in persistence, in the accounting after
\* the answer or in the clean-up ends the turn there, whatever its client was
\* told before: recover only sends an error event, and drops it if the channel
\* is full.
Panic(t) ==
  /\ pc[t] \in Looping \cup {"cleanup"}
  /\ Goto(t, "aborted")
  /\ TellError(t) \/ UNCHANGED errors
  /\ UNCHANGED <<store, session, iter, guards, texts, tools, gone, streamed, shown, announced>>

-----------------------------------------------------------------------------
(* What the turn does not control                                          *)

\* The client goes away, or the handler returns because a send failed: the
\* request's context is cancelled.
Disconnect(t) ==
  /\ pc[t] \in Running
  /\ ~gone[t]
  /\ gone' = [gone EXCEPT ![t] = TRUE]
  /\ UNCHANGED <<store, pc, session, iter, guards, texts, tools, client>>

\* The server stops: every turn that is running ends where it is.
Crash ==
  /\ \E t \in Turns : pc[t] \in Running
  /\ pc' = [t \in Turns |-> IF pc[t] \in Running THEN "aborted" ELSE pc[t]]
  /\ gone' = [t \in Turns |-> gone[t] \/ pc[t] \in Running]
  /\ UNCHANGED <<store, session, iter, guards, texts, tools, client>>

\* The trip of the session is deleted, or the session is purged.
DeleteElsewhere(s) ==
  /\ OtherDeletes
  /\ s \in live
  /\ DropSession(s)
  /\ UNCHANGED <<pc, session, iter, guards, texts, tools, gone, client>>

TurnStep(t) ==
  \/ CreateSession(t) \/ StoreUserMessage(t) \/ LoadHistory(t)
  \/ StopForClient(t) \/ StartIteration(t) \/ FailStart(t)
  \/ ReceiveText(t) \/ EndStream(t) \/ FailStream(t)
  \/ ProviderError(t) \/ ReportError(t)
  \/ \E tool \in Tools : ExecuteTool(t, tool)
  \/ ContinueWithTools(t) \/ StoreToolResult(t)
  \/ RetrySilence(t) \/ SuppressSilence(t)
  \/ RetryFabrication(t) \/ RetryExpert(t) \/ AcceptAnswer(t)
  \/ HitLimit(t) \/ StoreAnswer(t) \/ EmitComplete(t) \/ CleanUp(t)

Next ==
  \/ \E t \in Turns : Admit(t) \/ TurnStep(t) \/ Panic(t) \/ Disconnect(t)
  \/ Crash
  \/ \E s \in Sessions : DeleteElsewhere(s)

Spec == Init /\ [][Next]_vars

\* A goroutine keeps running, and the provider's stream ends: by EventDone, by
\* an error or by the turn timeout.  Clients, crashes and deletions are free.
Fairness == \A t \in Turns : WF_vars(TurnStep(t))

FairSpec == Spec /\ Fairness

-----------------------------------------------------------------------------
(* Properties                                                              *)

\* Every variable stays in its type.
TypeOK ==
  /\ live \subseteq Sessions
  /\ log \in [Sessions -> Seq(Message)]
  /\ pc \in [Turns -> PCs]
  /\ sid \in [Turns -> Sessions \cup {NoSession}]
  /\ iter \in [Turns -> Nat \ {0}]
  /\ fab \in [Turns -> 0 .. MaxFab]
  /\ fresh \in [Turns -> BOOLEAN] /\ gone \in [Turns -> BOOLEAN]
  /\ expertRetried \in [Turns -> BOOLEAN] /\ emptyRetried \in [Turns -> BOOLEAN]
  /\ everItin \in [Turns -> BOOLEAN] /\ swap \in [Turns -> BOOLEAN]
  /\ full \in [Turns -> SUBSET Frags] /\ complete \in [Turns -> SUBSET Frags]
  /\ answer \in [Turns -> SUBSET Frags] /\ ret \in [Turns -> BOOLEAN]
  /\ streamed \in [Turns -> SUBSET Frags] /\ shown \in [Turns -> SUBSET Frags]
  /\ calls \in [Turns -> SUBSET Tools]
  /\ announced \in [Turns -> BOOLEAN] /\ errors \in [Turns -> Nat]

\* The rows of one turn keep the order of the conversation whatever the other
\* turns of the session do and whoever deletes it meanwhile: nothing of the
\* turn precedes its question or follows its answer, so it asks once and
\* answers at most once.
TurnOrder ==
  \A s \in Sessions : \A i, j \in DOMAIN log[s] :
     i < j /\ log[s][i].turn = log[s][j].turn
       => log[s][j].kind # "user" /\ log[s][i].kind # "final"

\* A turn other than t made t's session, got no text and has dropped it.
DroppedUnder(t) ==
  \E u \in Turns \ {t} : /\ sid[u] = sid[t] /\ fresh[u]
                         /\ ~ret[u] /\ pc[u] = "closed"

\* The rows of kind k that turn t has in its session.
Rows(t, k) == {i \in DOMAIN log[sid[t]] : log[sid[t]][i].turn = t /\ log[sid[t]][i].kind = k}

\* A client that was told its answer is complete finds it wherever it still
\* finds its question, as long as the store accepts writes: whoever deletes the
\* session, and whenever (the clean-up of any turn, a trip deletion, a purge),
\* takes both or leaves the answer, never the question alone.
AnswerKept ==
  ~StoreFaults =>
    \A t \in Turns : announced[t] /\ Rows(t, "user") # {} => Rows(t, "final") # {}

\* What the assistant stored follows the question it belongs to.  If nobody
\* else deletes sessions there is one way to an answer, a tool call or a tool
\* result without its question, the one QuestionKept stumbles on: another turn
\* made the session and its clean-up dropped it.
AnswersHaveQuestions ==
  ~OtherDeletes =>
    \A s \in Sessions : \A i \in DOMAIN log[s] : log[s][i].kind # "user" =>
      \/ \E j \in 1 .. i - 1 : log[s][j].turn = log[s][i].turn /\ log[s][j].kind = "user"
      \/ DroppedUnder(log[s][i].turn)

\* What a client was shown as its answer is what the history shows it later: for
\* a provider that does not repeat itself, the tool messages and the answer of
\* the turn hold all of it, if every iteration before the last one stopped for
\* tools (a nudge throws its text away) and no row is missing.
ShownIsStored ==
  \A t \in Turns :
    /\ ~Gemini /\ announced[t]
    /\ Rows(t, "final") # {} /\ Cardinality(Rows(t, "call")) = iter[t] - 1
    => \A f \in shown[t] : \E i \in Rows(t, "call") \cup Rows(t, "final") :
          f \in log[sid[t]][i].text

\* A stream that ran to its end and lost nobody on the way told how the turn
\* ended, one way only: by the answer and no error, or by an error, told twice
\* at most, and no answer.
OneEnding ==
  \A t \in Turns : pc[t] = "closed" /\ ~gone[t] =>
     IF announced[t] THEN errors[t] = 0 ELSE errors[t] \in 1 .. 2

\* Every request that is admitted ends, whatever the provider does.
EveryTurnEnds ==
  \A t \in Turns : pc[t] \in Running ~> pc[t] \in {"closed", "aborted", "refused"}

-----------------------------------------------------------------------------
(* What a comment of the code says, and a run refutes                      *)

\* service.go: the session is deleted only if "the AI produced zero response
\* text": a turn that announced a complete answer with text keeps its session.
AnnouncedSessionKept ==
  \A t \in Turns :
     pc[t] = "closed" /\ announced[t] /\ shown[t] # {}
       => sid[t] \in live

\* service.go: "We no longer delete user messages on failure": a turn that
\* announced its answer, and whose own clean-up deletes nothing, finds its
\* question in the session it was told of.
QuestionKept ==
  ~OtherDeletes =>
    \A t \in Turns : announced[t] /\ ret[t] => Rows(t, "user") # {}
=============================================================================
