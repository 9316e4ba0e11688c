---------------------------- MODULE ProviderStream ----------------------------
(* One call to an AI provider: the attempts with their back-off and the      *)
(* fallback (ai/retry.go, ai/fallback.go), the goroutine that turns the      *)
(* lines of the answer into events (processStream of ai/claude.go, gemini.go *)
(* and openai.go), the channel, and the reader of one iteration of the tool  *)
(* loop (processOneTurn).  A line that does not parse is skipped and is no   *)
(* step.  The upstream server begins calls one after the other and numbers   *)
(* them; a text is not told from another.                                    *)
EXTENDS Integers, Sequences, SequencesExt, FiniteSets

CONSTANTS Providers, NoProvider, MaxRetries, MaxCalls, MaxTexts, Room

ASSUME ProviderAssumption ==
  /\ Providers \subseteq {"claude", "gemini", "openai"} /\ NoProvider \notin Providers
  /\ MaxRetries \in Nat /\ MaxCalls \in Nat /\ MaxTexts \in Nat /\ Room \in Nat \ {0}

VARIABLES
  conn,        \* "none", "asking", "backoff", "streaming", "closed", "refused"
  using, spare,    \* the provider asked, and the one to fall back on
  attempt,
  begun, whole,    \* upstream: calls begun, and those with all arguments
  ended,       \* upstream: nothing, "finished" with a reason, or "broken" off
  blocks,      \* toolBlocks: calls accumulated and not emitted
  stopReason,
  outbox,      \* events that the line last read still has to send
  eventCh,
  sent,        \* history: everything that went into the channel
  reader       \* "waiting", "executing" a tool, "done", or "left" early

asked    == <<conn, using, spare, attempt>>
upstream == <<begun, whole, ended>>
parser   == <<blocks, stopReason>>
channel  == <<outbox, eventCh, sent>>
providerVars == <<asked, upstream, parser, channel, reader>>

Text      == [type |-> "text", call |-> 0, stop |-> "none"]
CallOf(n) == [type |-> "call", call |-> n, stop |-> "none"]
Done(r)   == [type |-> "done", call |-> 0, stop |-> r]
ErrorEvent == [type |-> "error", call |-> 0, stop |-> "none"]
Reasons   == {"none", "tool_use", "end_turn", "max_tokens"}
Events    == {Text, ErrorEvent} \cup {CallOf(n) : n \in 1 .. MaxCalls} \cup {Done(r) : r \in Reasons}
Terminal(e) == e.type \in {"done", "error"}

ProviderTypeOK ==
  /\ conn \in {"none", "asking", "backoff", "streaming", "closed", "refused"}
  /\ {using, spare} \subseteq Providers \cup {NoProvider} /\ attempt \in 0 .. MaxRetries
  /\ begun \in 0 .. MaxCalls /\ whole \in 0 .. begun
  /\ ended \in {"no", "finished", "broken"}
  /\ blocks \subseteq 1 .. MaxCalls /\ stopReason \in Reasons
  /\ {outbox, eventCh, sent} \subseteq Seq(Events) /\ Len(eventCh) <= Room
  /\ reader \in {"waiting", "executing", "done", "left"}

ProviderInit ==
  /\ conn = "none" /\ using = NoProvider /\ spare = NoProvider /\ attempt = 0
  /\ begun = 0 /\ whole = 0 /\ ended = "no" /\ blocks = {} /\ stopReason = "none"
  /\ outbox = <<>> /\ eventCh = <<>> /\ sent = <<>> /\ reader = "waiting"

(* Gemini and Claude are the fallbacks of each other and of OpenAI.          *)
Ask ==
  /\ conn = "none" /\ conn' = "asking"
  /\ using' \in Providers /\ spare' \in (Providers \ {using', "openai"}) \cup {NoProvider}
  /\ UNCHANGED <<attempt, upstream, parser, channel, reader>>

Connect ==
  /\ conn = "asking" /\ conn' = "streaming"
  /\ UNCHANGED <<using, spare, attempt, upstream, parser, channel, reader>>

(* The network fails, or the status is one that passes.                      *)
FailTransiently ==
  /\ conn = "asking" /\ attempt < MaxRetries
  /\ conn' = "backoff"
  /\ UNCHANGED <<using, spare, attempt, upstream, parser, channel, reader>>

AskAgain ==
  /\ conn = "backoff" /\ conn' = "asking" /\ attempt' = attempt + 1
  /\ UNCHANGED <<using, spare, upstream, parser, channel, reader>>

(* The last attempt fails, a status does not pass, or the request is         *)
(* cancelled while it waits: the fallback is asked, if there is one.         *)
GiveUpAsking ==
  /\ conn \in {"asking", "backoff"}
  /\ IF spare # NoProvider
     THEN conn' = "asking" /\ using' = spare /\ attempt' = 0
     ELSE conn' = "refused" /\ UNCHANGED <<using, attempt>>
  /\ spare' = NoProvider
  /\ UNCHANGED <<upstream, parser, channel, reader>>

(* The next line is read when the events of the one before have been sent.   *)
Reading == conn = "streaming" /\ outbox = <<>> /\ \A i \in 1 .. Len(sent) : ~Terminal(sent[i])

InOrder(s) == [i \in 1 .. Cardinality(s) |->
                 CallOf(CHOOSE n \in s : Cardinality({k \in s : k <= n}) = i)]

ReadText ==
  /\ Reading /\ ended = "no" /\ begun = whole
  /\ Len(SelectSeq(sent, LAMBDA e : e = Text)) < MaxTexts
  /\ outbox' = <<Text>>
  /\ UNCHANGED <<asked, upstream, parser, eventCh, sent, reader>>

(* The start of a call, and fragments of its arguments.                      *)
ReadCallStart ==
  /\ Reading /\ ended = "no" /\ using \in {"claude", "openai"}
  /\ begun = whole /\ begun < MaxCalls
  /\ begun' = begun + 1 /\ blocks' = blocks \cup {begun'}
  /\ UNCHANGED <<asked, whole, ended, stopReason, channel, reader>>

(* The last fragment.  Claude says that the block stops, OpenAI says nothing.*)
ReadCallEnd ==
  /\ Reading /\ ended = "no" /\ whole < begun
  /\ whole' = begun
  /\ IF using = "claude"
     THEN outbox' = <<CallOf(begun)>> /\ blocks' = blocks \ {begun}
     ELSE UNCHANGED <<outbox, blocks>>
  /\ UNCHANGED <<asked, begun, ended, stopReason, eventCh, sent, reader>>

(* Gemini sends a call as one part.                                          *)
ReadCallPart ==
  /\ Reading /\ ended = "no" /\ using = "gemini" /\ begun < MaxCalls
  /\ begun' = begun + 1 /\ whole' = begun' /\ outbox' = <<CallOf(begun')>>
  /\ UNCHANGED <<asked, ended, parser, eventCh, sent, reader>>

(* hadFunctionCall: a call has been sent.                                    *)
GeminiReason == IF begun > 0 THEN "tool_use" ELSE "end_turn"

MutReadFinish ==
  /\ Reading /\ ended = "no" /\ begun = whole /\ ended' = "finished"
  /\ LET reason == IF begun > 0 THEN "tool_use" ELSE "end_turn" IN
     CASE using = "gemini" -> outbox' = <<Done(GeminiReason)>> /\ UNCHANGED parser
       [] using = "claude" -> stopReason' = reason /\ UNCHANGED <<blocks, outbox>>
       [] OTHER -> stopReason' = reason /\ outbox' = InOrder(blocks) /\ UNCHANGED blocks
  /\ UNCHANGED <<asked, begun, whole, eventCh, sent, reader>>

(* The upstream server finishes: with calls it asks for their results.       *)
ReadFinish ==
  /\ Reading /\ ended = "no" /\ begun = whole /\ ended' = "finished"
  /\ LET reason == IF begun > 0 THEN "tool_use" ELSE "end_turn" IN
     CASE using = "gemini" -> outbox' = <<Done(GeminiReason)>> /\ UNCHANGED parser
       [] using = "claude" -> stopReason' = reason /\ UNCHANGED <<blocks, outbox>>
       [] OTHER -> /\ stopReason' = reason
                   /\ outbox' = InOrder(blocks) /\ blocks' = {}
  /\ UNCHANGED <<asked, begun, whole, eventCh, sent, reader>>

(* The limit of tokens is reached, perhaps in the middle of a call: Gemini's *)
(* answer is given up, the others' ends as it is.                            *)
ReadLimit ==
  /\ Reading /\ ended = "no" /\ ended' = "broken"
  /\ CASE using = "gemini" -> outbox' = <<ErrorEvent>> /\ UNCHANGED stopReason
       [] using = "claude" -> stopReason' = "max_tokens" /\ UNCHANGED outbox
       [] OTHER -> stopReason' = "end_turn" /\ UNCHANGED outbox
  /\ UNCHANGED <<asked, begun, whole, blocks, eventCh, sent, reader>>

(* message_stop, [DONE] or the end of the body, which may come too early.    *)
ReadEnd ==
  /\ Reading
  /\ ended' = IF ended = "no" THEN "broken" ELSE ended
  /\ outbox' = CASE using = "gemini" -> <<Done(GeminiReason)>>
                 [] using = "claude" -> <<Done(stopReason)>>
                 [] OTHER -> Append(InOrder(blocks), Done(stopReason))
  /\ UNCHANGED <<asked, begun, whole, parser, eventCh, sent, reader>>

(* The connection breaks, or the request's context has ended.                *)
ReadError ==
  /\ Reading
  /\ outbox' = <<ErrorEvent>>
  /\ UNCHANGED <<asked, upstream, parser, eventCh, sent, reader>>

(* The send waits for room and for nothing else.                             *)
SendEvent ==
  /\ outbox # <<>> /\ Len(eventCh) < Room
  /\ eventCh' = Append(eventCh, Head(outbox)) /\ sent' = Append(sent, Head(outbox))
  /\ outbox' = Tail(outbox)
  /\ UNCHANGED <<asked, upstream, parser, reader>>

Close ==
  /\ conn = "streaming" /\ outbox = <<>> /\ ~Reading
  /\ conn' = "closed"
  /\ UNCHANGED <<using, spare, attempt, upstream, parser, channel, reader>>

TakeEvent ==
  /\ reader = "waiting" /\ eventCh # <<>>
  /\ eventCh' = Tail(eventCh)
  /\ reader' = CASE Terminal(Head(eventCh))        -> "done"
                 [] Head(eventCh).type = "call"    -> "executing"
                 [] OTHER                          -> "waiting"
  /\ UNCHANGED <<asked, upstream, parser, outbox, sent>>

FinishTool ==
  /\ reader = "executing" /\ reader' = "waiting"
  /\ UNCHANGED <<asked, upstream, parser, channel>>

(* The time of the iteration is up, or the client is gone: the reader        *)
(* returns and nobody reads the rest.                                        *)
Abandon ==
  /\ conn \in {"streaming", "closed"} /\ reader = "waiting" /\ reader' = "left"
  /\ UNCHANGED <<asked, upstream, parser, channel>>

Asking  == Connect \/ FailTransiently \/ AskAgain \/ GiveUpAsking
Parsing == \/ ReadText \/ ReadCallStart \/ ReadCallEnd \/ ReadCallPart \/ ReadFinish \/ ReadLimit
           \/ ReadEnd \/ ReadError \/ SendEvent \/ Close
Taking  == TakeEvent \/ FinishTool
ProviderNext == Ask \/ Asking \/ Parsing \/ Taking \/ Abandon

(* What the tool loop relies on, whichever provider answers: the stream ends *)
(* in one terminal event; a call is neither doubled nor out of order, and    *)
(* has all its arguments unless the answer broke off; and an answer that is  *)
(* finished has all its calls and stops for tools exactly if it has any      *)
(* (chat/service.go:496: otherwise their results never reach the model).     *)
CallsIn(s, n) == Cardinality({i \in 1 .. n : s[i].type = "call"})
ProviderContract ==
  /\ \A i \in 1 .. Len(sent) : Terminal(sent[i]) => i = Len(sent)
  /\ conn = "closed" => sent # <<>> /\ Terminal(Last(sent))
  /\ \A i \in 1 .. Len(sent) : sent[i].type = "call" =>
       sent[i] = CallOf(CallsIn(sent, i)) /\ (sent[i].call <= whole \/ ended = "broken")
  /\ sent # <<>> /\ Last(sent).type = "done" /\ ended = "finished" =>
       /\ CallsIn(sent, Len(sent)) = begun
       /\ Last(sent).stop = "tool_use" <=> begun > 0

(* The call is answered or refused, and the goroutine ends unless its reader *)
(* has left it with a full channel: then it holds its connection for ever    *)
(* (ai/claude.go:71).                                                        *)
ProviderEnds ==
  conn \in {"asking", "backoff", "streaming"} ~>
    conn \in {"closed", "refused"} \/ (reader = "left" /\ Len(eventCh) = Room)
=============================================================================
