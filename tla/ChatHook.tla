------------------------------- MODULE ChatHook -------------------------------
(* The chat of a screen, useChat of lib/hooks/useChat.ts, over the streams   *)
(* that StreamContract promises: the history it loads, the session it keeps  *)
(* in the storage of the browser or the phone, the messages it sends and     *)
(* shows, and the moves of its user between screens and trips.  A send is a  *)
(* number; a session is the send that made it.  What only decorates the      *)
(* screen (tools at work, personas, trips created) is left out, and so are   *)
(* further pages of history, of which the server never announces one.        *)
EXTENDS Naturals, SequencesExt, Lists

CONSTANTS
  Trips,
  MaxSends, MaxText,  \* bounds: messages sent, fragments of an answer
  MaxMoves            \* bound: screens opened and trips changed

Sends    == 1 .. MaxSends
NoTrip   == "no screen"
NoSend   == 0
NoText   == {}
NoBubble == <<>>

ASSUME ChatHookAssumption == {MaxSends, MaxText, MaxMoves} \subseteq Nat /\ NoTrip \notin Trips

VARIABLES
  phase, said, shown, errors,  \* the streams as the server sends them
  rows, sessionTrip, latest,   \* the chat store: a session's rows, its trip, a trip's latest session
  persisted,                   \* sessionStorage: the session of each trip
  trip, mount, moves,          \* the screen: its trip, the move that opened it, all moves
  messages, bubble,            \* shown entries, and the entry that deltas fill
  isSending, isStreaming, controller, sessionId, lastFailed,
  hydration, load, page, historyError,   \* the two effects that run when a trip is opened
  pc, sent,                    \* each send: its step, what it was sent with
  early, disturbed             \* history: a send before the effects had ended; a
                               \* change of trip while a stream was running

Stream == INSTANCE StreamContract WITH Turns <- Sends, MaxIter <- MaxText
Frags  == 1 .. MaxText                 \* of answers; the contract's note is left out

store  == <<rows, sessionTrip, latest>>
screen == <<trip, mount, moves>>
guards == <<isSending, isStreaming, controller, lastFailed>>
effects == <<hydration, load, page, historyError>>
notes  == <<early, disturbed>>
hookVars == <<phase, said, shown, errors, store, persisted, screen, messages, bubble, guards,
              sessionId, effects, pc, sent, notes>>

(* An entry: a row of the history or what the hook made itself.              *)
Entry(who, k, origin, text) == [who |-> who, of |-> k, origin |-> origin, text |-> text]
FromServer    == <<"row">>
FromHook      == <<"hook">>
You(k)        == Entry("user", k, FromHook, NoText)
Apology(k)    == Entry("error", k, FromHook, NoText)
Bubble(id, t) == Entry("assistant", id[1], id, t)
Row(who, k, text) == Entry(who, k, FromServer, text)

Unread  == MaxSends + 1                \* hydration has not read the storage
Settled == MaxSends + 2
Running(k)  == pc[k] \notin {"idle", "done", "failed"}
Alive(k)    == trip # NoTrip /\ sent[k].move >= mount   \* its setters and refs are the screen's

(* With the types: the button that stops a stream is there while there is    *)
(* one, and no message can be sent meanwhile (useChat.ts:337-343, 617-625).  *)
ChatHookTypeOK ==
  /\ trip \in Trips \cup {NoTrip} /\ mount \in 0 .. MaxMoves /\ moves \in 0 .. MaxMoves
  /\ pc \in [Sends -> {"idle", "sent", "opened", "listening", "told", "done", "failed"}]
  /\ persisted \in [Trips -> 0 .. MaxSends] /\ sessionId \in 0 .. MaxSends
  /\ hydration \in 0 .. Settled /\ load \in {"none", "asked", "answered"}
  /\ {isSending, isStreaming, historyError, early, disturbed} \subseteq BOOLEAN
  /\ controller \in 0 .. MaxSends /\ lastFailed \in 0 .. MaxSends
  /\ isSending = isStreaming
  /\ ~disturbed => isStreaming = (controller # NoSend /\ Running(controller))
  /\ \A i \in DOMAIN messages : messages[i].of \in Sends /\ messages[i].text \subseteq Frags

HookInit ==
  /\ Stream!Init
  /\ rows = [s \in Sends |-> <<>>] /\ sessionTrip = [s \in Sends |-> NoTrip]
  /\ latest = [t \in Trips |-> NoSend] /\ persisted = [t \in Trips |-> NoSend]
  /\ trip = NoTrip /\ mount = 0 /\ moves = 0
  /\ messages = <<>> /\ bubble = NoBubble
  /\ isSending = FALSE /\ isStreaming = FALSE /\ controller = NoSend /\ sessionId = NoSend
  /\ lastFailed = NoSend
  /\ hydration = Settled /\ load = "none" /\ page = <<>> /\ historyError = FALSE
  /\ pc = [k \in Sends |-> "idle"]
  /\ sent = [k \in Sends |-> [trip |-> NoTrip, session |-> NoSend, move |-> 0]]
  /\ early = FALSE /\ disturbed = FALSE

(*************************  screens and effects  ***************************)
Reset ==
  /\ messages' = <<>> /\ bubble' = NoBubble
  /\ isSending' = FALSE /\ isStreaming' = FALSE /\ sessionId' = NoSend /\ lastFailed' = NoSend
  /\ historyError' = FALSE /\ page' = <<>>

(* Both effects start over; what the old ones still find is dropped.         *)
Open(t) ==
  /\ moves < MaxMoves
  /\ moves' = moves + 1 /\ trip' = t
  /\ Reset
  /\ hydration' = Unread /\ load' = "asked"
  /\ UNCHANGED <<phase, said, shown, errors, store, persisted, sent>>

Mount(t) ==
  /\ trip = NoTrip
  /\ Open(t)
  /\ mount' = moves' /\ controller' = NoSend
  /\ UNCHANGED <<pc, notes>>

(* The same hook with another trip: abortControllerRef is left as it is.     *)
ChangeTrip(t) ==
  /\ trip \notin {NoTrip, t}
  /\ Open(t)
  /\ disturbed' = (disturbed \/ \E k \in Sends : Running(k) /\ Alive(k))
  /\ UNCHANGED <<mount, controller, pc, early>>

(* The clean-up aborts the stream it knows of, whose read then throws.       *)
Unmount ==
  /\ trip # NoTrip
  /\ trip' = NoTrip
  /\ Reset
  /\ hydration' = Settled /\ load' = "none" /\ controller' = NoSend
  /\ pc' = IF controller = NoSend THEN pc ELSE [pc EXCEPT ![controller] = "failed"]
  /\ UNCHANGED <<phase, said, shown, errors, store, persisted, mount, moves, sent, notes>>

HydrateRead ==
  /\ hydration = Unread
  /\ hydration' = persisted[trip]
  /\ UNCHANGED <<phase, said, shown, errors, store, persisted, screen, messages, bubble, guards,
                 sessionId, load, page, historyError, pc, sent, notes>>

Hydrate ==
  /\ hydration \in 0 .. MaxSends
  /\ sessionId' = hydration /\ hydration' = Settled
  /\ UNCHANGED <<phase, said, shown, errors, store, persisted, screen, messages, bubble, guards,
                 load, page, historyError, pc, sent, notes>>

History(effect) ==
  /\ effect
  /\ UNCHANGED <<phase, said, shown, errors, store, persisted, screen, bubble, guards, sessionId,
                 hydration, pc, sent, notes>>

(* GetChatHistory without a session: the rows of the latest one of the trip. *)
LoadAnswer == History(
  /\ load = "asked"
  /\ load' = "answered"
  /\ page' = IF latest[trip] = NoSend THEN <<>>
             ELSE Sublist(rows[latest[trip]], {r \in ToSet(rows[latest[trip]]) : r.who = "user" \/ r.text # NoText})
  /\ UNCHANGED <<messages, historyError>>)

(* Of rows one of which begins another the longer stays, in the first place; *)
(* the answers of two turns are taken to differ.                             *)
Begins(r, q) == r.who = "assistant" /\ q.who = "assistant" /\ r.of = q.of /\ r.text \subseteq q.text
Merged(list, r) ==
  LET twins == {i \in DOMAIN list : Begins(list[i], r) \/ Begins(r, list[i])}
  IN  IF twins = {} THEN Append(list, r)
      ELSE IF Begins(list[Min(twins)], r) THEN [list EXCEPT ![Min(twins)] = r] ELSE list
Deduped(rs) ==
  LET merged[n \in 0 .. Len(rs)] == IF n = 0 THEN <<>> ELSE Merged(merged[n - 1], rs[n])
  IN  merged[Len(rs)]

MutLoadApply == History(
  /\ load = "answered"
  /\ messages' = messages \o Deduped(page)
  /\ load' = "none" /\ page' = <<>> /\ historyError' = FALSE)

LoadApply == History(
  /\ load = "answered"
  /\ messages' = Sublist(Deduped(page), ToSet(Deduped(page)) \ ToSet(messages)) \o messages
  /\ load' = "none" /\ page' = <<>> /\ historyError' = FALSE)

LoadFail == History(
  /\ load # "none"
  /\ load' = "none" /\ page' = <<>> /\ historyError' = TRUE
  /\ UNCHANGED messages)

(* retryHistory, from the button that an empty list shows.                   *)
RetryHistory == History(
  /\ historyError /\ load = "none" /\ messages = <<>> /\ ~isStreaming
  /\ load' = "asked" /\ historyError' = FALSE
  /\ UNCHANGED <<messages, page>>)

(*****************************  the messages  ******************************)
Send(k) ==
  /\ trip # NoTrip /\ ~isSending
  /\ pc[k] = "idle" /\ \A j \in 1 .. k - 1 : pc[j] # "idle"
  /\ isSending' = TRUE /\ isStreaming' = TRUE /\ controller' = k /\ lastFailed' = NoSend
  /\ messages' = Append(messages, You(k)) /\ bubble' = NoBubble
  /\ pc' = [pc EXCEPT ![k] = "sent"]
  /\ sent' = [sent EXCEPT ![k] = [trip |-> trip, session |-> sessionId, move |-> moves]]
  /\ early' = (early \/ hydration # Settled \/ load # "none" \/ historyError)
  /\ UNCHANGED <<phase, said, shown, errors, store, persisted, screen, sessionId, effects, disturbed>>

(* The server: it stores the question, in a new session if none is named,    *)
(* maybe an iteration that ended in calls, and the answer before it tells it. *)
Session(k) == IF sent[k].session = NoSend THEN k ELSE sent[k].session
Write(k, row) ==
  /\ rows' = [rows EXCEPT ![Session(k)] = Append(@, row)]
  /\ latest' = [latest EXCEPT ![sent[k].trip] = Session(k)]

Server(step) ==
  /\ step
  /\ UNCHANGED <<persisted, screen, messages, bubble, guards, sessionId, effects, sent, notes>>

Accept(k) == Server(
  /\ pc[k] # "idle" /\ sessionTrip[Session(k)] \in {NoTrip, sent[k].trip}
  /\ Stream!Open(k)
  /\ Write(k, Row("user", k, NoText))
  /\ sessionTrip' = [sessionTrip EXCEPT ![Session(k)] = sent[k].trip]
  /\ pc' = [pc EXCEPT ![k] = CASE ~Running(k) -> @
                               [] Running(k) /\ sent[k].session = NoSend -> "opened"
                               [] OTHER -> "listening"])

Reject(k) == Server(
  /\ pc[k] = "sent"
  /\ Stream!Refuse(k)
  /\ UNCHANGED <<store, pc>>)

StorePart(k) == Server(
  /\ phase[k] = "open" /\ said[k] # NoText
  /\ Row("assistant", k, said[k]) \notin ToSet(rows[Session(k)])
  /\ Write(k, Row("assistant", k, said[k]))
  /\ UNCHANGED <<phase, said, shown, errors, sessionTrip, pc>>)

StoreAnswer(k) == Server(
  /\ Stream!Answer(k) /\ shown'[k] \subseteq Frags
  /\ Write(k, Row("assistant", k, shown'[k]))
  /\ UNCHANGED <<sessionTrip, pc>>)

(* A crash or a panic; of the streams nobody reads it makes no difference.   *)
CutStream(k) == Server(
  /\ pc[k] = "listening"
  /\ Stream!Cut /\ phase'[k] = "cut" /\ \A j \in Sends \ {k} : phase'[j] = phase[j]
  /\ UNCHANGED <<store, pc>>)

(* What a setter or a ref of the screen that sent k becomes.                 *)
Sets(k, new, old) == IF Alive(k) THEN new ELSE old
Replaced(id, text) ==
  [i \in DOMAIN messages |-> IF messages[i].origin = id THEN [messages[i] EXCEPT !.text = text] ELSE messages[i]]
Without(id) == Sublist(messages, {m \in ToSet(messages) : m.origin # id})

Event(k, step) ==
  /\ pc[k] = step
  /\ UNCHANGED <<store, screen, guards, effects, sent, notes>>

SessionCreated(k) ==
  /\ Event(k, "opened")
  /\ sessionId' = Sets(k, k, sessionId)
  /\ persisted' = [persisted EXCEPT ![sent[k].trip] = k]
  /\ pc' = [pc EXCEPT ![k] = "listening"]
  /\ UNCHANGED <<phase, said, shown, errors, messages, bubble>>

(* textDelta: the first makes an entry, the others fill it.                  *)
TextDelta(k) ==
  /\ Event(k, "listening")
  /\ Stream!Speak(k) /\ said'[k] # said[k] /\ said'[k] \subseteq Frags
  /\ LET id == <<k, Cardinality(said[k])>>
         fresh == bubble = NoBubble
     IN /\ messages' = Sets(k, IF fresh THEN Append(messages, Bubble(id, said'[k]))
                                         ELSE Replaced(bubble, said'[k]), messages)
        /\ bubble' = Sets(k, IF fresh THEN id ELSE bubble, bubble)
  /\ UNCHANGED <<persisted, sessionId, pc>>

(* fullText: what was said, or what messageComplete has put in its place.    *)
Full(k) == IF phase[k] = "answered" /\ shown[k] # NoText THEN shown[k] ELSE said[k]

MutMessageComplete(k) ==
  /\ Event(k, "listening") /\ phase[k] = "answered"
  /\ pc' = [pc EXCEPT ![k] = "told"]
  /\ messages' = Sets(k, IF shown[k] # {} THEN Append(messages, Bubble(<<k, MaxText + 2>>, shown[k])) ELSE messages, messages)
  /\ bubble' = Sets(k, NoBubble, bubble)
  /\ UNCHANGED <<phase, said, shown, errors, persisted, sessionId>>

MessageComplete(k) ==
  /\ Event(k, "listening") /\ phase[k] = "answered"
  /\ pc' = [pc EXCEPT ![k] = "told"]
  /\ messages' = Sets(k,
       CASE bubble # NoBubble -> Replaced(bubble, Full(k))
         [] bubble = NoBubble /\ Full(k) # NoText -> Append(messages, Bubble(<<k, MaxText + 2>>, Full(k)))
         [] OTHER -> messages, messages)
  /\ bubble' = Sets(k, NoBubble, bubble)
  /\ UNCHANGED <<phase, said, shown, errors, persisted, sessionId>>

(* The event "error": an entry for each, and the hook reads on.              *)
StreamError(k) ==
  /\ Event(k, IF phase[k] = "open" THEN "listening" ELSE "told")
  /\ Stream!Fail(k)
  /\ pc' = [pc EXCEPT ![k] = "told"]
  /\ messages' = Sets(k, Append(messages, Apology(k)), messages)
  /\ UNCHANGED <<persisted, sessionId, bubble>>

(* The finally block.                                                        *)
Finish(k, how, failed) ==
  /\ pc' = [pc EXCEPT ![k] = how]
  /\ controller' = Sets(k, NoSend, controller)
  /\ isStreaming' = Sets(k, FALSE, isStreaming) /\ isSending' = Sets(k, FALSE, isSending)
  /\ bubble' = Sets(k, NoBubble, bubble)
  /\ lastFailed' = Sets(k, failed, lastFailed)
  /\ UNCHANGED <<store, persisted, screen, sessionId, effects, sent, notes>>

(* The stream ends without an error: what it said stays.                     *)
EndStream(k) ==
  /\ pc[k] = "told" \/ (pc[k] = "listening" /\ phase[k] = "cut")
  /\ Finish(k, "done", lastFailed)
  /\ messages' = Sets(k, IF bubble # NoBubble /\ Full(k) # NoText THEN Replaced(bubble, Full(k)) ELSE messages,
                     messages)
  /\ UNCHANGED <<phase, said, shown, errors>>

(* The catch block: what is left of the answer goes, an apology comes.       *)
Caught(k, failed) ==
  /\ messages' = Sets(k, Append(IF bubble = NoBubble THEN messages ELSE Without(bubble), Apology(k)), messages)
  /\ Finish(k, "failed", failed)

(* The request is turned away, for a used up quota or for another reason, or *)
(* the connection breaks.                                                    *)
Fail(k) ==
  /\ Running(k)
  /\ \/ Caught(k, k)
     \/ pc[k] = "sent" /\ phase[k] = "cut" /\ Caught(k, NoSend)
  /\ UNCHANGED <<phase, said, shown, errors>>

(* The user, who sees the button while a stream runs, or the 90 seconds: the *)
(* aborted read throws at once.                                              *)
Stop ==
  /\ isStreaming /\ controller # NoSend
  /\ Caught(controller, lastFailed)
  /\ UNCHANGED <<phase, said, shown, errors>>

MutTimeout(k) ==
  /\ Running(k) /\ k = controller
  /\ Caught(k, k)
  /\ UNCHANGED <<phase, said, shown, errors>>

Timeout(k) ==
  /\ Running(k)
  /\ Caught(k, k)
  /\ UNCHANGED <<phase, said, shown, errors>>

HookNext ==
  \/ \E t \in Trips : Mount(t) \/ ChangeTrip(t)
  \/ Unmount \/ HydrateRead \/ Hydrate \/ LoadAnswer \/ LoadApply \/ LoadFail \/ RetryHistory
  \/ Stop
  \/ \E k \in Sends :
       \/ Send(k) \/ Accept(k) \/ Reject(k) \/ StorePart(k) \/ StoreAnswer(k) \/ CutStream(k)
       \/ SessionCreated(k) \/ TextDelta(k) \/ MessageComplete(k) \/ StreamError(k)
       \/ EndStream(k) \/ Fail(k) \/ Timeout(k)

HookSpec == HookInit /\ [][HookNext]_hookVars

(* Timers fire.                                                              *)
HookFair == \A k \in Sends : WF_hookVars(Timeout(k))

(* When a stream has ended, the screen that sent the message shows what came *)
(* of it, and once: the whole answer, or all that was said, with an apology  *)
(* for each error the server told of and none besides; where the stream      *)
(* broke, one apology more, which stands in place of what was said           *)
(* (useChat.ts:514-617).                                                     *)
Of(k, who) == {i \in DOMAIN messages : messages[i].of = k /\ messages[i].who = who /\ messages[i].origin # FromServer}
Texts(k)   == {messages[i].text : i \in Of(k, "assistant")}
OutcomeShown ==
  \A k \in Sends : ~Running(k) /\ Alive(k) /\ sent[k].move = moves /\ ~disturbed =>
    /\ Cardinality(Of(k, "user")) = (IF pc[k] = "idle" THEN 0 ELSE 1)
    /\ Cardinality(Of(k, "assistant")) <= 1
    /\ pc[k] = "done" => /\ Texts(k) = {Full(k)} \ {NoText}
                         /\ Cardinality(Of(k, "error")) = errors[k]
    /\ pc[k] = "failed" => /\ Cardinality(Of(k, "error")) = errors[k] + 1
                           /\ Texts(k) # {} => phase[k] = "answered" /\ Texts(k) = {Full(k)}

(* The history always stands before what was sent since; and a user who      *)
(* waits for the screen to be ready sees no message twice and no answer      *)
(* before its question (useChat.ts:249-280).                                 *)
Same(m, n) == m.of = n.of /\ m.who = n.who /\ m.who # "error"
ShownInOrder ==
  \A i, j \in DOMAIN messages : i < j =>
    /\ messages[j].origin = FromServer => messages[i].origin = FromServer
    /\ ~early /\ ~disturbed =>
         /\ ~Same(messages[i], messages[j])
         /\ messages[i].of = messages[j].of => messages[j].who # "user"

(* Whatever the server, the connection and the user do, each message that    *)
(* was sent is done with in the end, also one whose screen shows another     *)
(* trip by then and that no button reaches, and the screen stops waiting     *)
(* (useChat.ts:343-354, 603-612).                                            *)
SendsEnd == (\A k \in Sends : Running(k) ~> ~Running(k)) /\ (isStreaming ~> ~isStreaming)
=============================================================================
