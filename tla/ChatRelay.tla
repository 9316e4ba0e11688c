------------------------------ MODULE ChatRelay ------------------------------
(* A chat request without a trip: ChatHandler.SendMessage in selection mode  *)
(* (handlers/chat.go).  The turn's goroutine runs the tools, which leave     *)
(* what they did in slots behind a mutex, and sends the results through a    *)
(* channel; the handler forwards them, empties the slots of a tool when its  *)
(* result comes by, and at the end moves the session to the trip that the    *)
(* turn created.  The provider may name a tool in its own way: the lookup    *)
(* of the tool forgives that, the handler's comparison does not.             *)
EXTENDS Naturals, Sequences, SequencesExt, FiniteSets

CONSTANTS NewTrips, Experts, Capacity, MaxToolCalls, NoOne

Lobby     == "_lobby"
TripTools == {"create_trip", "select_trip"}
Results   == [name : TripTools \cup {"suggest_expert"}, exact : BOOLEAN]
Ends      == [name : {"message_complete", "error"}, exact : {TRUE}]

ASSUME RelayAssumption ==
  /\ Capacity \in Nat \ {0} /\ MaxToolCalls \in Nat
  /\ NoOne \notin NewTrips \cup Experts \cup Results \cup Ends /\ Lobby \notin NewTrips

VARIABLES
  goroutine,        \* "none" yet, "tools", "last" event to send, "closed" channel
  toolCalls,        \* tools called, up to MaxToolCalls
  result,           \* what the goroutine is about to send, or NoOne
  outCh,            \* events on their way to the handler
  pendingTrips,     \* createdTrips and selectedTrips
  createdTripID,    \* the first trip created
  pendingSwitch,    \* the expert to tell the client of
  personaSwitchCh,  \* the expert to answer from the next iteration on
  persona,          \* the expert who answers
  handler,          \* "reading", "moving" the session, "returned", "unmoved"
  scope,            \* the session's trip
  client,           \* "there" or "gone"
  deadline,         \* the provider's time is up
  made, announced,       \* history: trips of the tools, trips announced in order
  toldSwitch,       \* history: the expert last announced
  spoilt            \* history: a result dropped or misnamed

goroutineVars == <<goroutine, toolCalls, result, personaSwitchCh, persona>>
slots == <<pendingTrips, createdTripID, pendingSwitch>>
heard == <<announced, toldSwitch>>
relayVars == <<goroutineVars, outCh, slots, handler, scope, client, deadline, made, heard, spoilt>>

RelayTypeOK ==
  /\ goroutine \in {"none", "tools", "last", "closed"} /\ toolCalls \in 0 .. MaxToolCalls
  /\ result \in Results \cup Ends \cup {NoOne}
  /\ outCh \in Seq(Results \cup Ends) /\ Len(outCh) <= Capacity
  /\ pendingTrips \in [TripTools -> Seq(NewTrips)] /\ createdTripID \in NewTrips \cup {NoOne}
  /\ {pendingSwitch, personaSwitchCh, persona, toldSwitch} \subseteq Experts \cup {NoOne}
  /\ handler \in {"reading", "moving", "returned", "unmoved"} /\ scope \in NewTrips \cup {Lobby, "elsewhere"}
  /\ client \in {"there", "gone"} /\ {deadline, spoilt} \subseteq BOOLEAN
  /\ made \subseteq NewTrips /\ announced \in Seq(NewTrips)

RelayInit ==
  /\ goroutine = "none" /\ toolCalls = 0 /\ result = NoOne /\ outCh = <<>>
  /\ pendingTrips = [tool \in TripTools |-> <<>>] /\ createdTripID = NoOne
  /\ pendingSwitch = NoOne /\ personaSwitchCh = NoOne /\ persona = NoOne /\ toldSwitch = NoOne
  /\ handler = "reading" /\ scope = Lobby /\ client = "there"
  /\ deadline = FALSE /\ spoilt = FALSE /\ made = {} /\ announced = <<>>

(* chat.Service has stored the question and gives the channel back.          *)
StartTurn ==
  /\ goroutine = "none" /\ goroutine' = "tools"
  /\ UNCHANGED <<toolCalls, result, personaSwitchCh, persona, outCh, slots, handler, scope, client, deadline, made, heard, spoilt>>

(* A tool call: the tool runs, and its result is ready to be sent.           *)
Call(tool) ==
  /\ goroutine = "tools" /\ result = NoOne /\ toolCalls < MaxToolCalls
  /\ toolCalls' = toolCalls + 1
  /\ \E exact \in BOOLEAN : /\ result' = [name |-> tool, exact |-> exact]
                            /\ spoilt' = (spoilt \/ ~exact)
  /\ UNCHANGED <<goroutine, persona, outCh, handler, scope, client, deadline, heard>>

(* A trip appears in the slot of its tool once it exists.  NewTrips names    *)
(* what the tools do: each creation, and each selection of a trip.           *)
CreateTrip ==
  /\ Call("create_trip")
  /\ \E t \in NewTrips \ made :
       /\ made' = made \cup {t}
       /\ pendingTrips' = [pendingTrips EXCEPT !["create_trip"] = Append(@, t)]
       /\ createdTripID' = IF createdTripID = NoOne THEN t ELSE createdTripID
  /\ UNCHANGED <<pendingSwitch, personaSwitchCh>>

SelectTrip ==
  /\ Call("select_trip")
  /\ \E t \in NewTrips \ made :
       /\ made' = made \cup {t}
       /\ pendingTrips' = [pendingTrips EXCEPT !["select_trip"] = Append(@, t)]
  /\ UNCHANGED <<createdTripID, pendingSwitch, personaSwitchCh>>

(* The later of two switches replaces the earlier in both places.            *)
SuggestExpert ==
  /\ Call("suggest_expert")
  /\ \E e \in Experts : pendingSwitch' = e /\ personaSwitchCh' = e
  /\ UNCHANGED <<pendingTrips, createdTripID, made>>

FailTool ==
  /\ \E tool \in TripTools \cup {"suggest_expert"} : Call(tool)
  /\ UNCHANGED <<slots, personaSwitchCh, made>>

(* Between two iterations the expert takes over.                             *)
SwapPersona ==
  /\ goroutine = "tools" /\ result = NoOne /\ personaSwitchCh # NoOne
  /\ persona' = personaSwitchCh /\ personaSwitchCh' = NoOne
  /\ UNCHANGED <<goroutine, toolCalls, result, outCh, slots, handler, scope, client, deadline, made, heard, spoilt>>

(* The answer's or the error's event, after which the channel is closed.     *)
EndLoop ==
  /\ goroutine = "tools" /\ result = NoOne
  /\ goroutine' = "last" /\ result' \in Ends
  /\ UNCHANGED <<toolCalls, personaSwitchCh, persona, outCh, slots, handler, scope, client, deadline, made, heard, spoilt>>

CloseChannel ==
  /\ goroutine = "last" /\ result = NoOne
  /\ goroutine' = "closed"
  /\ UNCHANGED <<toolCalls, result, personaSwitchCh, persona, outCh, slots, handler, scope, client, deadline, made, heard, spoilt>>

Cancelled == client = "gone" \/ handler = "returned"

MutSend ==
  /\ result # NoOne /\ Len(outCh) < Capacity
  /\ outCh' = Append(outCh, result) /\ result' = NoOne
  /\ UNCHANGED <<goroutine, toolCalls, personaSwitchCh, persona, slots, handler, scope, client, deadline, made, heard, spoilt>>

(* Sending waits for room, but not when the request is cancelled, and a      *)
(* result also not when the time is up: where both are possible, either.     *)
Send ==
  /\ result # NoOne
  /\ \/ Len(outCh) < Capacity /\ outCh' = Append(outCh, result) /\ UNCHANGED spoilt
     \/ (Cancelled \/ (deadline /\ goroutine = "tools")) /\ spoilt' = TRUE /\ UNCHANGED outCh
  /\ result' = NoOne
  /\ UNCHANGED <<goroutine, toolCalls, personaSwitchCh, persona, slots, handler, scope, client, deadline, made, heard>>

MutForward ==
  /\ handler = "reading" /\ outCh # <<>>
  /\ LET e == Head(outCh) IN
     announced' = IF e.exact /\ e.name \in TripTools
             THEN announced \o pendingTrips[e.name] ELSE announced
  /\ outCh' = Tail(outCh)
  /\ UNCHANGED <<goroutineVars, slots, handler, scope, client, deadline, made, toldSwitch, spoilt>>

(* An event is forwarded; with the result of a tool goes what is in its      *)
(* slot, copied and cleared under the mutex.                                 *)
Forward ==
  /\ handler = "reading" /\ outCh # <<>>
  /\ LET e == Head(outCh) IN
     /\ IF e.exact /\ e.name \in TripTools
        THEN /\ announced' = announced \o pendingTrips[e.name]
             /\ pendingTrips' = [pendingTrips EXCEPT ![e.name] = <<>>]
        ELSE UNCHANGED <<announced, pendingTrips>>
     /\ IF e.exact /\ e.name = "suggest_expert" /\ pendingSwitch # NoOne
        THEN toldSwitch' = pendingSwitch /\ pendingSwitch' = NoOne
        ELSE UNCHANGED <<toldSwitch, pendingSwitch>>
  /\ outCh' = Tail(outCh)
  /\ UNCHANGED <<goroutineVars, createdTripID, handler, scope, client, deadline, made, spoilt>>

(* The stream of a client that is gone fails, and the handler returns.       *)
FailForward ==
  /\ handler = "reading" /\ outCh # <<>> /\ client = "gone"
  /\ handler' = "returned"
  /\ UNCHANGED <<goroutineVars, outCh, slots, scope, client, deadline, made, heard, spoilt>>

MutEndStream ==
  /\ handler = "reading" /\ outCh = <<>> /\ goroutine = "closed"
  /\ handler' = IF pendingTrips["create_trip"] # <<>> THEN "moving" ELSE "returned"
  /\ UNCHANGED <<goroutineVars, outCh, slots, scope, client, deadline, made, heard, spoilt>>

EndStream ==
  /\ handler = "reading" /\ outCh = <<>> /\ goroutine = "closed"
  /\ handler' = IF createdTripID # NoOne THEN "moving" ELSE "returned"
  /\ UNCHANGED <<goroutineVars, outCh, slots, scope, client, deadline, made, heard, spoilt>>

(* MoveSessionToTrip: the session must still be in the lobby.  A failure,    *)
(* such as that of a request that is cancelled, is only logged.              *)
MoveSession ==
  /\ handler = "moving"
  /\ \/ /\ client = "there" /\ scope = Lobby
        /\ scope' = createdTripID /\ handler' = "returned"
     \/ handler' = "unmoved" /\ UNCHANGED scope
  /\ UNCHANGED <<goroutineVars, outCh, slots, client, deadline, made, heard, spoilt>>

(* Another request of the session has created a trip and moves it first.     *)
MoveElsewhere ==
  /\ scope = Lobby /\ scope' = "elsewhere"
  /\ UNCHANGED <<goroutineVars, outCh, slots, handler, client, deadline, made, heard, spoilt>>

Leave ==
  /\ client = "there" /\ client' = "gone"
  /\ UNCHANGED <<goroutineVars, outCh, slots, handler, scope, deadline, made, heard, spoilt>>

Expires ==
  /\ goroutine = "tools" /\ ~deadline /\ deadline' = TRUE
  /\ UNCHANGED <<goroutineVars, outCh, slots, handler, scope, client, made, heard, spoilt>>

TurnSteps    == CreateTrip \/ SelectTrip \/ SuggestExpert \/ FailTool \/ SwapPersona \/ EndLoop \/ CloseChannel \/ Send
HandlerSteps == Forward \/ FailForward \/ EndStream \/ MoveSession
RelayNext    == StartTurn \/ TurnSteps \/ HandlerSteps \/ MoveElsewhere \/ Leave \/ Expires

(* No trip is announced twice, however far the tools are ahead of the        *)
(* handler; and a client that stays has been told of every trip and of the   *)
(* expert who answers, unless a result was dropped at the deadline or bore   *)
(* another name (handlers/chat.go:474, chat/service.go:1003).                *)
ClientIsTold ==
  /\ IsInjective(announced)
  /\ handler # "reading" /\ client = "there" /\ ~spoilt =>
       /\ ToSet(announced) = made
       /\ persona # NoOne \/ personaSwitchCh # NoOne =>
            toldSwitch = IF personaSwitchCh # NoOne THEN personaSwitchCh ELSE persona

(* A request that created a trip and returns to its client has moved the     *)
(* conversation to the first trip it created, whatever results were dropped  *)
(* on the way, unless the statement failed, as it does when another request  *)
(* has taken the session (handlers/chat.go:624).                             *)
ConversationFollowsTrip ==
  handler = "returned" /\ createdTripID # NoOne /\ client = "there" => scope = createdTripID

(* The goroutine ends, also when the handler has returned with the channel   *)
(* full (chat/service.go:839).                                               *)
GoroutineEnds == goroutine = "tools" ~> goroutine = "closed"
=============================================================================
