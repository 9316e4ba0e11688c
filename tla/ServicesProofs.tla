---------------------------- MODULE ServicesProofs ----------------------------
(* Proofs about the services of MCServices, each from the specification of   *)
(* them all: a step of one leaves what the others know as it is.             *)
EXTENDS MCServices, FiniteSetTheorems, TLAPS

-----------------------------------------------------------------------------
(* A step of MCServices is a step of one service or of none, for each.       *)
LEMMA OneServiceSteps ==
  [Next]_vars => /\ [Sharing]_<<call, collaboration>>
                 /\ [BudgetNext]_budgetVars
                 /\ [SummaryNext]_summaryVars
                 /\ [AuthNext \/ RestNext \/ BucketNext]_limitVars
                 /\ [AnalysisNext]_bookings
                 /\ [RelayNext]_relayVars
                 /\ [ProviderNext]_providerVars
                 /\ [ShutdownNext]_shutdownVars
                 /\ [CachesNext]_cacheVars
<1> SUFFICES ASSUME Next \/ UNCHANGED vars
             PROVE  /\ Sharing \/ UNCHANGED <<call, collaboration>>
                    /\ BudgetNext \/ UNCHANGED budgetVars
                    /\ SummaryNext \/ UNCHANGED summaryVars
                    /\ AuthNext \/ RestNext \/ BucketNext \/ UNCHANGED limitVars
                    /\ AnalysisNext \/ UNCHANGED bookings
                    /\ RelayNext \/ UNCHANGED relayVars
                    /\ ProviderNext \/ UNCHANGED providerVars
                    /\ ShutdownNext \/ UNCHANGED shutdownVars
                    /\ CachesNext \/ UNCHANGED cacheVars
  OBVIOUS
<1>1. CASE UNCHANGED vars
  BY <1>1 DEF vars
<1>2. CASE Next
  BY <1>2 DEF Next, OnlySharing, OnlyBudget, OnlySummary, OnlyLimits, OnlyAnalysis, OnlyRelay,
     OnlyProvider, OnlyShutdown, OnlyPositions
<1> QED
  BY <1>1, <1>2

(*************************  the relay of a request  **************************)
(* A trip is announced, or in the slot of its tool, and in one place only; a *)
(* slot is filled as long as a result of its tool is on its way, unless one  *)
(* was dropped or misnamed; and the handler is the last to end.              *)
Trips(tool) == ToSet(pendingTrips[tool])

EachTripOnce ==
  /\ IsInjective(announced) /\ \A tool \in TripTools : IsInjective(pendingTrips[tool])
  /\ \A tool \in TripTools : ToSet(announced) \cap Trips(tool) = {}
  /\ Trips("create_trip") \cap Trips("select_trip") = {}
  /\ made = ToSet(announced) \cup Trips("create_trip") \cup Trips("select_trip")

OnItsWay(tool) ==
  LET ofTool == [name |-> tool, exact |-> TRUE] IN result = ofTool \/ \E i \in 1 .. Len(outCh) : outCh[i] = ofTool

ResultsFollow ==
  ~spoilt => /\ \A tool \in TripTools : pendingTrips[tool] # <<>> => OnItsWay(tool)
             /\ pendingSwitch # NoOne => OnItsWay("suggest_expert")

Chosen == IF personaSwitchCh # NoOne THEN personaSwitchCh ELSE persona

SwitchIsKnown == (IF pendingSwitch # NoOne THEN pendingSwitch ELSE toldSwitch) = Chosen

HandlerIsLast ==
  /\ goroutine \in {"none", "closed"} => result = NoOne
  /\ handler # "reading" /\ client = "there" => goroutine = "closed" /\ outCh = <<>>
  /\ handler = "moving" => createdTripID # NoOne

RelayInv ==
  /\ RelayTypeOK /\ EachTripOnce /\ ResultsFollow /\ SwitchIsKnown /\ HandlerIsLast
  /\ ConversationFollowsTrip

(* What Append does to a list without repetitions.                           *)
LEMMA AppendedTrip ==
  ASSUME NEW S, NEW s \in Seq(S), NEW x \in S
  PROVE  /\ ToSet(Append(s, x)) = ToSet(s) \cup {x}
         /\ IsInjective(s) /\ x \notin ToSet(s) => IsInjective(Append(s, x))
<1>1. DOMAIN s = 1 .. Len(s) /\ DOMAIN Append(s, x) = 1 .. Len(s) + 1 /\ Len(s) \in Nat
  OBVIOUS
<1>2. /\ \A i \in 1 .. Len(s) : Append(s, x)[i] = s[i]
      /\ Append(s, x)[Len(s) + 1] = x
  OBVIOUS
<1> QED
  BY <1>1, <1>2 DEF ToSet, IsInjective

(* What joining two such lists does.                                         *)
LEMMA JoinedTrips ==
  ASSUME NEW S, NEW s \in Seq(S), NEW t \in Seq(S)
  PROVE  /\ ToSet(s \o t) = ToSet(s) \cup ToSet(t)
         /\ IsInjective(s) /\ IsInjective(t) /\ ToSet(s) \cap ToSet(t) = {} => IsInjective(s \o t)
<1>1. /\ DOMAIN s = 1 .. Len(s) /\ DOMAIN t = 1 .. Len(t) /\ Len(s) \in Nat /\ Len(t) \in Nat
      /\ DOMAIN (s \o t) = 1 .. Len(s) + Len(t)
  OBVIOUS
<1>2. /\ \A i \in 1 .. Len(s) : (s \o t)[i] = s[i]
      /\ \A i \in Len(s) + 1 .. Len(s) + Len(t) : (s \o t)[i] = t[i - Len(s)]
  OBVIOUS
<1>3. \A i \in 1 .. Len(t) : (s \o t)[Len(s) + i] = t[i]
  BY <1>1, <1>2
<1>4. ToSet(s \o t) = ToSet(s) \cup ToSet(t)
  <2>1. /\ ToSet(s) = {s[i] : i \in 1 .. Len(s)} /\ ToSet(t) = {t[i] : i \in 1 .. Len(t)}
        /\ ToSet(s \o t) = {(s \o t)[i] : i \in 1 .. Len(s) + Len(t)}
    BY <1>1 DEF ToSet
  <2>2. ASSUME NEW i \in 1 .. Len(s) + Len(t) PROVE (s \o t)[i] \in ToSet(s) \cup ToSet(t)
    <3>1. CASE i \in 1 .. Len(s)
      BY <1>2, <2>1, <3>1
    <3>2. CASE i \in Len(s) + 1 .. Len(s) + Len(t)
      <4>1. i - Len(s) \in 1 .. Len(t)
        BY <1>1, <3>2
      <4> QED
        BY <1>2, <2>1, <3>2, <4>1
    <3> QED
      BY <1>1, <3>1, <3>2
  <2>3. ASSUME NEW i \in 1 .. Len(s) PROVE s[i] \in ToSet(s \o t)
    BY <1>1, <1>2, <2>1
  <2>4. ASSUME NEW i \in 1 .. Len(t) PROVE t[i] \in ToSet(s \o t)
    <3>1. Len(s) + i \in 1 .. Len(s) + Len(t)
      BY <1>1
    <3> QED
      BY <1>3, <2>1, <3>1
  <2> QED
    BY <2>1, <2>2, <2>3, <2>4
<1>5. ASSUME IsInjective(s), IsInjective(t), ToSet(s) \cap ToSet(t) = {},
             NEW i \in 1 .. Len(s) + Len(t), NEW j \in 1 .. Len(s) + Len(t), (s \o t)[i] = (s \o t)[j]
      PROVE  i = j
  <2>1. CASE i <= Len(s) /\ j <= Len(s)
    BY <1>1, <1>2, <1>5, <2>1 DEF IsInjective
  <2>2. CASE i > Len(s) /\ j > Len(s)
    BY <1>1, <1>2, <1>5, <2>2, SMTT(30) DEF IsInjective
  <2>3. ASSUME NEW k \in 1 .. Len(s), NEW l \in 1 .. Len(t) PROVE s[k] # t[l]
    BY <1>1, <1>5 DEF ToSet
  <2>4. CASE i <= Len(s) /\ j > Len(s)
    <3>1. i \in 1 .. Len(s) /\ j - Len(s) \in 1 .. Len(t) /\ j \in Len(s) + 1 .. Len(s) + Len(t)
      BY <1>1, <2>4
    <3> QED
      BY <1>2, <1>5, <2>3, <3>1
  <2>5. CASE i > Len(s) /\ j <= Len(s)
    <3>1. j \in 1 .. Len(s) /\ i - Len(s) \in 1 .. Len(t) /\ i \in Len(s) + 1 .. Len(s) + Len(t)
      BY <1>1, <2>5
    <3> QED
      BY <1>2, <1>5, <2>3, <3>1
  <2> QED
    BY <1>1, <2>1, <2>2, <2>4, <2>5
<1> QED
  BY <1>1, <1>4, <1>5 DEF IsInjective

(* Every step of handler and goroutine keeps the types.                      *)
LEMMA RelayTyped ==
  ASSUME RelayInv, [RelayNext]_relayVars
  PROVE  RelayTypeOK'
<1> USE RelayAssumption DEF RelayInv, RelayTypeOK, HandlerIsLast, goroutineVars, slots, heard, Results, Ends, TripTools, Lobby
<1>1. ASSUME StartTurn PROVE RelayTypeOK'
  BY <1>1 DEF StartTurn
<1>2. ASSUME CreateTrip PROVE RelayTypeOK'
  BY <1>2 DEF CreateTrip, Call
<1>3. ASSUME SelectTrip PROVE RelayTypeOK'
  BY <1>3 DEF SelectTrip, Call
<1>4. ASSUME SuggestExpert PROVE RelayTypeOK'
  BY <1>4 DEF SuggestExpert, Call
<1>5. ASSUME FailTool PROVE RelayTypeOK'
  <2>1. PICK tool \in TripTools \cup {"suggest_expert"} : Call(tool)
    BY <1>5 DEF FailTool
  <2>2. PICK exact \in BOOLEAN : result' = [name |-> tool, exact |-> exact]
    BY <2>1 DEF Call
  <2>3. result' \in Results
    BY <2>2
  <2> HIDE DEF Results, Ends
  <2>4. spoilt' \in BOOLEAN /\ toolCalls' \in 0 .. MaxToolCalls
    BY <2>1 DEF Call
  <2> QED
    BY <1>5, <2>1, <2>3, <2>4 DEF FailTool, Call
<1>6. ASSUME SwapPersona PROVE RelayTypeOK'
  BY <1>6 DEF SwapPersona
<1>7. ASSUME EndLoop PROVE RelayTypeOK'
  BY <1>7 DEF EndLoop
<1>8. ASSUME CloseChannel PROVE RelayTypeOK'
  BY <1>8 DEF CloseChannel
<1>9. ASSUME Send PROVE RelayTypeOK'
  <2>1. outCh' \in Seq(Results \cup Ends) /\ Len(outCh') <= Capacity
    <3>1. CASE Len(outCh) < Capacity /\ outCh' = Append(outCh, result)
      <4>1. result \in Results \cup Ends
        BY <1>9 DEF Send
      <4> HIDE DEF Results, Ends
      <4>2. outCh' \in Seq(Results \cup Ends) /\ Len(outCh') = Len(outCh) + 1 /\ Len(outCh) \in Nat
        BY <3>1, <4>1
      <4> QED
        BY <3>1, <4>2
    <3>2. CASE outCh' = outCh
      BY <3>2
    <3> QED
      BY <1>9, <3>1, <3>2 DEF Send
  <2>2. result' = NoOne /\ spoilt' \in BOOLEAN
    BY <1>9 DEF Send
  <2> QED
    BY <1>9, <2>1, <2>2 DEF Send
<1>10. ASSUME Forward PROVE RelayTypeOK'
  <2> HIDE DEF Results, Ends
  <2>1. outCh' \in Seq(Results \cup Ends) /\ Len(outCh') <= Capacity
    <3>1. outCh' = Tail(outCh) /\ outCh # <<>> /\ Len(outCh) \in Nat
      BY <1>10 DEF Forward
    <3>2. Len(outCh') = Len(outCh) - 1 /\ outCh' \in Seq(Results \cup Ends)
      BY <3>1
    <3> QED
      BY <3>1, <3>2
  <2>2. announced' \in Seq(NewTrips) /\ pendingTrips' \in [TripTools -> Seq(NewTrips)]
    <3>1. CASE Head(outCh).name \in TripTools
                 /\ announced' = announced \o pendingTrips[Head(outCh).name]
               /\ pendingTrips' = [pendingTrips EXCEPT ![Head(outCh).name] = <<>>]
      <4>1. <<>> \in Seq(NewTrips)
        OBVIOUS
      <4> QED
        BY <3>1, <4>1
    <3>2. CASE UNCHANGED <<announced, pendingTrips>>
      BY <3>2
    <3> QED
      BY <1>10, <3>1, <3>2 DEF Forward
  <2>3. pendingSwitch' \in Experts \cup {NoOne} /\ toldSwitch' \in Experts \cup {NoOne}
    BY <1>10 DEF Forward
  <2> QED
    BY <1>10, <2>1, <2>2, <2>3 DEF Forward
<1>11. ASSUME FailForward PROVE RelayTypeOK'
  BY <1>11 DEF FailForward
<1>12. ASSUME EndStream PROVE RelayTypeOK'
  BY <1>12 DEF EndStream
<1>13. ASSUME MoveSession PROVE RelayTypeOK'
  BY <1>13 DEF MoveSession
<1>14. ASSUME MoveElsewhere PROVE RelayTypeOK'
  BY <1>14 DEF MoveElsewhere
<1>15. ASSUME Leave PROVE RelayTypeOK'
  BY <1>15 DEF Leave
<1>16. ASSUME Expires PROVE RelayTypeOK'
  BY <1>16 DEF Expires
<1>17. CASE UNCHANGED relayVars
  BY <1>17 DEF relayVars
<1> QED
  BY <1>1, <1>2, <1>3, <1>4, <1>5, <1>6, <1>7, <1>8, <1>9, <1>10, <1>11, <1>12, <1>13, <1>14, <1>15,
     <1>16, <1>17 DEF RelayNext, TurnSteps, HandlerSteps

(* The handler moves on only when the channel is closed and empty.           *)
LEMMA HandlerStaysLast ==
  ASSUME RelayInv, [RelayNext]_relayVars
  PROVE  HandlerIsLast' /\ SwitchIsKnown' /\ ConversationFollowsTrip'
<1> USE RelayAssumption
    DEF RelayInv, RelayTypeOK, HandlerIsLast, SwitchIsKnown, Chosen, ConversationFollowsTrip,
       goroutineVars, slots, heard, Results, Ends, TripTools
<1>1. ASSUME StartTurn PROVE HandlerIsLast' /\ SwitchIsKnown' /\ ConversationFollowsTrip'
  BY <1>1 DEF StartTurn
<1>2. ASSUME CreateTrip PROVE HandlerIsLast' /\ SwitchIsKnown' /\ ConversationFollowsTrip'
  BY <1>2 DEF CreateTrip, Call
<1>3. ASSUME SelectTrip PROVE HandlerIsLast' /\ SwitchIsKnown' /\ ConversationFollowsTrip'
  BY <1>3 DEF SelectTrip, Call
<1>4. ASSUME SuggestExpert PROVE HandlerIsLast' /\ SwitchIsKnown' /\ ConversationFollowsTrip'
  BY <1>4 DEF SuggestExpert, Call
<1>5. ASSUME FailTool PROVE HandlerIsLast' /\ SwitchIsKnown' /\ ConversationFollowsTrip'
  BY <1>5 DEF FailTool, Call
<1>6. ASSUME SwapPersona PROVE HandlerIsLast' /\ SwitchIsKnown' /\ ConversationFollowsTrip'
  BY <1>6 DEF SwapPersona
<1>7. ASSUME EndLoop PROVE HandlerIsLast' /\ SwitchIsKnown' /\ ConversationFollowsTrip'
  BY <1>7 DEF EndLoop
<1>8. ASSUME CloseChannel PROVE HandlerIsLast' /\ SwitchIsKnown' /\ ConversationFollowsTrip'
  BY <1>8 DEF CloseChannel
<1>9. ASSUME Send PROVE HandlerIsLast' /\ SwitchIsKnown' /\ ConversationFollowsTrip'
  BY <1>9 DEF Send
<1>10. ASSUME Forward PROVE HandlerIsLast' /\ SwitchIsKnown' /\ ConversationFollowsTrip'
  BY <1>10 DEF Forward
<1>11. ASSUME FailForward PROVE HandlerIsLast' /\ SwitchIsKnown' /\ ConversationFollowsTrip'
  BY <1>11 DEF FailForward
<1>12. ASSUME EndStream PROVE HandlerIsLast' /\ SwitchIsKnown' /\ ConversationFollowsTrip'
  BY <1>12 DEF EndStream
<1>13. ASSUME MoveSession PROVE HandlerIsLast' /\ SwitchIsKnown' /\ ConversationFollowsTrip'
  BY <1>13 DEF MoveSession
<1>14. ASSUME MoveElsewhere PROVE HandlerIsLast' /\ SwitchIsKnown' /\ ConversationFollowsTrip'
  BY <1>14 DEF MoveElsewhere
<1>15. ASSUME Leave PROVE HandlerIsLast' /\ SwitchIsKnown' /\ ConversationFollowsTrip'
  BY <1>15 DEF Leave
<1>16. ASSUME Expires PROVE HandlerIsLast' /\ SwitchIsKnown' /\ ConversationFollowsTrip'
  BY <1>16 DEF Expires
<1>17. CASE UNCHANGED relayVars
  BY <1>17 DEF relayVars
<1> QED
  BY <1>1, <1>2, <1>3, <1>4, <1>5, <1>6, <1>7, <1>8, <1>9, <1>10, <1>11, <1>12, <1>13, <1>14, <1>15,
     <1>16, <1>17 DEF RelayNext, TurnSteps, HandlerSteps

(* Each trip stays in one place.                                             *)
LEMMA TripsStayOnce ==
  ASSUME RelayInv, [RelayNext]_relayVars
  PROVE  EachTripOnce'
<1> USE DEF RelayInv, RelayTypeOK, EachTripOnce, TripTools, goroutineVars, slots, heard
<1>1. ASSUME StartTurn PROVE EachTripOnce'
  BY <1>1 DEF StartTurn, Trips
<1>2. ASSUME CreateTrip PROVE EachTripOnce'
  <2>1. PICK t \in NewTrips \ made : /\ made' = made \cup {t}
                                    /\ pendingTrips' = [pendingTrips EXCEPT !["create_trip"] = Append(@, t)]
    BY <1>2 DEF CreateTrip, Call
  <2>2. /\ announced' = announced
        /\ pendingTrips'["create_trip"] = Append(pendingTrips["create_trip"], t)
        /\ pendingTrips'["select_trip"] = pendingTrips["select_trip"]
    BY <1>2, <2>1 DEF CreateTrip, Call
  <2>3. pendingTrips["create_trip"] \in Seq(NewTrips)
    OBVIOUS
  <2>4. /\ Trips("create_trip")' = Trips("create_trip") \cup {t} /\ Trips("select_trip")' = Trips("select_trip")
        /\ t \notin Trips("create_trip")
    BY <2>1, <2>2, <2>3, AppendedTrip DEF Trips
  <2>5. IsInjective(pendingTrips'["create_trip"])
    BY <2>2, <2>3, <2>4, AppendedTrip DEF Trips
  <2> QED
    BY <2>1, <2>2, <2>4, <2>5
<1>3. ASSUME SelectTrip PROVE EachTripOnce'
  <2>1. PICK t \in NewTrips \ made : /\ made' = made \cup {t}
                                    /\ pendingTrips' = [pendingTrips EXCEPT !["select_trip"] = Append(@, t)]
    BY <1>3 DEF SelectTrip, Call
  <2>2. /\ announced' = announced
        /\ pendingTrips'["select_trip"] = Append(pendingTrips["select_trip"], t)
        /\ pendingTrips'["create_trip"] = pendingTrips["create_trip"]
    BY <1>3, <2>1 DEF SelectTrip, Call
  <2>3. pendingTrips["select_trip"] \in Seq(NewTrips)
    OBVIOUS
  <2>4. /\ Trips("select_trip")' = Trips("select_trip") \cup {t} /\ Trips("create_trip")' = Trips("create_trip")
        /\ t \notin Trips("select_trip")
    BY <2>1, <2>2, <2>3, AppendedTrip DEF Trips
  <2>5. IsInjective(pendingTrips'["select_trip"])
    BY <2>2, <2>3, <2>4, AppendedTrip DEF Trips
  <2> QED
    BY <2>1, <2>2, <2>4, <2>5
<1>4. ASSUME SuggestExpert PROVE EachTripOnce'
  BY <1>4 DEF SuggestExpert, Call, Trips
<1>5. ASSUME FailTool PROVE EachTripOnce'
  BY <1>5 DEF FailTool, Call, Trips
<1>6. ASSUME SwapPersona PROVE EachTripOnce'
  BY <1>6 DEF SwapPersona, Trips
<1>7. ASSUME EndLoop PROVE EachTripOnce'
  BY <1>7 DEF EndLoop, Trips
<1>8. ASSUME CloseChannel PROVE EachTripOnce'
  BY <1>8 DEF CloseChannel, Trips
<1>9. ASSUME Send PROVE EachTripOnce'
  BY <1>9 DEF Send, Trips
<1>10. ASSUME Forward PROVE EachTripOnce'
  <2>1. CASE /\ Head(outCh).name \in TripTools
               /\ announced' = announced \o pendingTrips[Head(outCh).name]
             /\ pendingTrips' = [pendingTrips EXCEPT ![Head(outCh).name] = <<>>]
    <3>1. PICK k \in TripTools : /\ announced' = announced \o pendingTrips[k]
                                 /\ pendingTrips' = [pendingTrips EXCEPT ![k] = <<>>]
      BY <2>1
    <3>2. /\ ToSet(announced') = ToSet(announced) \cup Trips(k) /\ IsInjective(announced')
      BY <3>1, JoinedTrips DEF Trips
    <3>3. /\ pendingTrips'[k] = <<>> /\ ToSet(<<>>) = {} /\ IsInjective(<<>>)
          /\ \A o \in TripTools \ {k} : pendingTrips'[o] = pendingTrips[o]
      BY <3>1 DEF ToSet, IsInjective
    <3>4. Trips(k)' = {} /\ \A o \in TripTools \ {k} : Trips(o)' = Trips(o)
      BY <3>3 DEF Trips
    <3>5. made' = made /\ \A o \in TripTools : IsInjective(pendingTrips'[o])
      BY <1>10, <3>3 DEF Forward
    <3> QED
      BY <3>2, <3>4, <3>5
  <2>2. CASE UNCHANGED <<announced, pendingTrips>>
    BY <1>10, <2>2 DEF Forward, Trips
  <2> QED
    BY <1>10, <2>1, <2>2 DEF Forward
<1>11. ASSUME FailForward PROVE EachTripOnce'
  BY <1>11 DEF FailForward, Trips
<1>12. ASSUME EndStream PROVE EachTripOnce'
  BY <1>12 DEF EndStream, Trips
<1>13. ASSUME MoveSession PROVE EachTripOnce'
  BY <1>13 DEF MoveSession, Trips
<1>14. ASSUME MoveElsewhere PROVE EachTripOnce'
  BY <1>14 DEF MoveElsewhere, Trips
<1>15. ASSUME Leave PROVE EachTripOnce'
  BY <1>15 DEF Leave, Trips
<1>16. ASSUME Expires PROVE EachTripOnce'
  BY <1>16 DEF Expires, Trips
<1>17. CASE UNCHANGED relayVars
  BY <1>17 DEF relayVars, Trips
<1> QED
  BY <1>1, <1>2, <1>3, <1>4, <1>5, <1>6, <1>7, <1>8, <1>9, <1>10, <1>11, <1>12, <1>13, <1>14, <1>15,
     <1>16, <1>17 DEF RelayNext, TurnSteps, HandlerSteps

(* A result is not the absence of one.                                       *)
LEMMA ToldIsSomething ==
  \A k \in TripTools \cup {"suggest_expert"} : [name |-> k, exact |-> TRUE] # NoOne
<1>1. ASSUME NEW k \in TripTools \cup {"suggest_expert"}
      PROVE  [name |-> k, exact |-> TRUE] \in Results
  BY DEF Results
<1> QED
  BY <1>1, RelayAssumption

(* A result that is sent stays on its way until the handler takes it.        *)
LEMMA ResultsStillFollow ==
  ASSUME RelayInv, [RelayNext]_relayVars
  PROVE  ResultsFollow'
<1> USE RelayAssumption DEF RelayInv, RelayTypeOK, ResultsFollow, OnItsWay, HandlerIsLast, TripTools, goroutineVars, slots, heard
<1>1. ASSUME StartTurn PROVE ResultsFollow'
  BY <1>1 DEF StartTurn
<1>2. ASSUME CreateTrip PROVE ResultsFollow'
  <2>1. PICK tool \in TripTools \cup {"suggest_expert"}, exact \in BOOLEAN :
             /\ result = NoOne /\ result' = [name |-> tool, exact |-> exact] /\ outCh' = outCh
             /\ spoilt' = (spoilt \/ ~exact)
             /\ pendingSwitch' # pendingSwitch => tool = "suggest_expert"
             /\ \A k \in TripTools : pendingTrips'[k] # pendingTrips[k] => k = tool
    BY <1>2 DEF CreateTrip, Call
  <2>2. \A k \in TripTools \cup {"suggest_expert"} : [name |-> k, exact |-> TRUE] # NoOne
    BY ToldIsSomething
  <2>3. CASE exact
    BY <2>1, <2>2, <2>3
  <2>4. CASE ~exact
    BY <2>1, <2>4
  <2> QED
    BY <2>1, <2>3, <2>4
<1>3. ASSUME SelectTrip PROVE ResultsFollow'
  <2>1. PICK tool \in TripTools \cup {"suggest_expert"}, exact \in BOOLEAN :
             /\ result = NoOne /\ result' = [name |-> tool, exact |-> exact] /\ outCh' = outCh
             /\ spoilt' = (spoilt \/ ~exact)
             /\ pendingSwitch' # pendingSwitch => tool = "suggest_expert"
             /\ \A k \in TripTools : pendingTrips'[k] # pendingTrips[k] => k = tool
    BY <1>3 DEF SelectTrip, Call
  <2>2. \A k \in TripTools \cup {"suggest_expert"} : [name |-> k, exact |-> TRUE] # NoOne
    BY ToldIsSomething
  <2>3. CASE exact
    BY <2>1, <2>2, <2>3
  <2>4. CASE ~exact
    BY <2>1, <2>4
  <2> QED
    BY <2>1, <2>3, <2>4
<1>4. ASSUME SuggestExpert PROVE ResultsFollow'
  <2>1. PICK tool \in TripTools \cup {"suggest_expert"}, exact \in BOOLEAN :
             /\ result = NoOne /\ result' = [name |-> tool, exact |-> exact] /\ outCh' = outCh
             /\ spoilt' = (spoilt \/ ~exact)
             /\ pendingSwitch' # pendingSwitch => tool = "suggest_expert"
             /\ \A k \in TripTools : pendingTrips'[k] # pendingTrips[k] => k = tool
    BY <1>4 DEF SuggestExpert, Call
  <2>2. \A k \in TripTools \cup {"suggest_expert"} : [name |-> k, exact |-> TRUE] # NoOne
    BY ToldIsSomething
  <2>3. CASE exact
    BY <2>1, <2>2, <2>3
  <2>4. CASE ~exact
    BY <2>1, <2>4
  <2> QED
    BY <2>1, <2>3, <2>4
<1>5. ASSUME FailTool PROVE ResultsFollow'
  <2>1. PICK tool \in TripTools \cup {"suggest_expert"}, exact \in BOOLEAN :
             /\ result = NoOne /\ result' = [name |-> tool, exact |-> exact] /\ outCh' = outCh
             /\ spoilt' = (spoilt \/ ~exact)
             /\ pendingSwitch' # pendingSwitch => tool = "suggest_expert"
             /\ \A k \in TripTools : pendingTrips'[k] # pendingTrips[k] => k = tool
    BY <1>5 DEF FailTool, Call
  <2>2. \A k \in TripTools \cup {"suggest_expert"} : [name |-> k, exact |-> TRUE] # NoOne
    BY ToldIsSomething
  <2>3. CASE exact
    BY <2>1, <2>2, <2>3
  <2>4. CASE ~exact
    BY <2>1, <2>4
  <2> QED
    BY <2>1, <2>3, <2>4
<1>6. ASSUME SwapPersona PROVE ResultsFollow'
  BY <1>6 DEF SwapPersona
<1>7. ASSUME EndLoop PROVE ResultsFollow'
  <2>1. \A k \in TripTools \cup {"suggest_expert"} : [name |-> k, exact |-> TRUE] # NoOne
    BY ToldIsSomething
  <2> QED
    BY <1>7, <2>1 DEF EndLoop
<1>8. ASSUME CloseChannel PROVE ResultsFollow'
  BY <1>8 DEF CloseChannel
<1>9. ASSUME Send PROVE ResultsFollow'
  <2>1. CASE Len(outCh) < Capacity /\ outCh' = Append(outCh, result) /\ UNCHANGED spoilt
    <3>1. Len(outCh) \in Nat /\ Len(outCh') = Len(outCh) + 1
      BY <2>1
    <3>2. outCh'[Len(outCh) + 1] = result /\ \A i \in 1 .. Len(outCh) : outCh'[i] = outCh[i]
      BY <2>1
    <3>3. ASSUME NEW k, OnItsWay(k) PROVE OnItsWay(k)'
      <4>1. CASE result = [name |-> k, exact |-> TRUE]
        <5>1. Len(outCh) + 1 \in 1 .. Len(outCh')
          BY <3>1
        <5> QED
          BY <3>2, <4>1, <5>1
      <4>2. ASSUME NEW i \in 1 .. Len(outCh), outCh[i] = [name |-> k, exact |-> TRUE]
            PROVE  OnItsWay(k)'
        <5>1. i \in 1 .. Len(outCh')
          BY <3>1
        <5> QED
          BY <3>2, <4>2, <5>1
      <4> QED
        BY <3>3, <4>1, <4>2
    <3> QED
      BY <1>9, <2>1, <3>3 DEF Send
  <2>2. CASE spoilt'
    BY <2>2
  <2> QED
    BY <1>9, <2>1, <2>2 DEF Send
<1>10. ASSUME Forward PROVE ResultsFollow'
  <2> DEFINE e == Head(outCh)
  <2>1. /\ outCh' = Tail(outCh) /\ outCh # <<>> /\ Len(outCh) \in Nat /\ UNCHANGED <<result, spoilt>>
    BY <1>10 DEF Forward
  <2>2. /\ e = outCh[1] /\ Len(outCh') = Len(outCh) - 1
        /\ \A i \in 2 .. Len(outCh) : outCh'[i - 1] = outCh[i]
    BY <2>1
  <2>3. ASSUME NEW k, OnItsWay(k), e # [name |-> k, exact |-> TRUE] PROVE OnItsWay(k)'
    <3>1. CASE result = [name |-> k, exact |-> TRUE]
      BY <2>1, <3>1
    <3>2. ASSUME NEW i \in 1 .. Len(outCh), outCh[i] = [name |-> k, exact |-> TRUE]
          PROVE  OnItsWay(k)'
      <4>1. i # 1
        BY <2>2, <2>3, <3>2
      <4>2. i \in 2 .. Len(outCh) /\ i - 1 \in 1 .. Len(outCh')
        BY <2>1, <2>2, <4>1
      <4> QED
        BY <2>2, <3>2, <4>2
    <3> QED
      BY <2>3, <3>1, <3>2
  <2>4. ASSUME NEW k \in TripTools, ~spoilt, pendingTrips'[k] # <<>> PROVE OnItsWay(k)'
    <3>1. pendingTrips'[k] = pendingTrips[k] /\ e # [name |-> k, exact |-> TRUE]
      BY <1>10, <2>4 DEF Forward
    <3> QED
      BY <2>3, <2>4, <3>1
  <2>5. ASSUME ~spoilt, pendingSwitch' # NoOne PROVE OnItsWay("suggest_expert")'
    <3>1. pendingSwitch' = pendingSwitch /\ e # [name |-> "suggest_expert", exact |-> TRUE]
      BY <1>10, <2>5 DEF Forward
    <3> QED
      BY <2>3, <2>5, <3>1
  <2> QED
    BY <2>1, <2>4, <2>5
<1>11. ASSUME FailForward PROVE ResultsFollow'
  BY <1>11 DEF FailForward
<1>12. ASSUME EndStream PROVE ResultsFollow'
  BY <1>12 DEF EndStream
<1>13. ASSUME MoveSession PROVE ResultsFollow'
  BY <1>13 DEF MoveSession
<1>14. ASSUME MoveElsewhere PROVE ResultsFollow'
  BY <1>14 DEF MoveElsewhere
<1>15. ASSUME Leave PROVE ResultsFollow'
  BY <1>15 DEF Leave
<1>16. ASSUME Expires PROVE ResultsFollow'
  BY <1>16 DEF Expires
<1>17. CASE UNCHANGED relayVars
  BY <1>17 DEF relayVars
<1> QED
  BY <1>1, <1>2, <1>3, <1>4, <1>5, <1>6, <1>7, <1>8, <1>9, <1>10, <1>11, <1>12, <1>13, <1>14, <1>15,
     <1>16, <1>17 DEF RelayNext, TurnSteps, HandlerSteps

(* The handler before the question is sent.                                  *)
LEMMA InitRelay == RelayInit => RelayInv
<1> SUFFICES ASSUME RelayInit PROVE RelayInv
  OBVIOUS
<1> USE RelayAssumption DEF RelayInit
<1>1. /\ announced = <<>> /\ pendingTrips["create_trip"] = <<>> /\ pendingTrips["select_trip"] = <<>>
      /\ \A tool \in TripTools : pendingTrips[tool] = <<>>
  BY DEF TripTools
<1>2. RelayTypeOK
  <2>1. <<>> \in Seq(NewTrips) /\ <<>> \in Seq(Results \cup Ends) /\ Len(<<>>) = 0
    OBVIOUS
  <2>2. pendingTrips \in [TripTools -> Seq(NewTrips)]
    BY <2>1
  <2>3. {pendingSwitch, personaSwitchCh, persona, toldSwitch} \subseteq Experts \cup {NoOne}
    OBVIOUS
  <2>4. scope \in NewTrips \cup {Lobby, "elsewhere"} /\ {deadline, spoilt} \subseteq BOOLEAN /\ made \subseteq NewTrips
    OBVIOUS
  <2> QED
    BY <2>1, <2>2, <2>3, <2>4 DEF RelayTypeOK
<1>3. EachTripOnce
  BY <1>1 DEF EachTripOnce, Trips, ToSet, IsInjective
<1>4. ResultsFollow
  BY <1>1 DEF ResultsFollow
<1>5. SwitchIsKnown /\ HandlerIsLast /\ ConversationFollowsTrip
  BY DEF SwitchIsKnown, Chosen, HandlerIsLast, ConversationFollowsTrip
<1> QED
  BY <1>2, <1>3, <1>4, <1>5 DEF RelayInv

(* RelayInv holds always.                                                    *)
LEMMA RelayAlways == Spec => []RelayInv
<1>1. Init => RelayInv
  BY InitRelay DEF Init
<1>2. RelayInv /\ [Next]_vars => RelayInv'
  BY OneServiceSteps, RelayTyped, HandlerStaysLast, TripsStayOnce, ResultsStillFollow DEF RelayInv
<1> QED
  BY <1>1, <1>2, PTL DEF Spec

(* The conversation of a request that created a trip is in it when the       *)
(* request returns to its client (handlers/chat.go:624), however far the     *)
(* tools were ahead and whatever results were dropped.                       *)
THEOREM ConversationFollowsTripHolds == Spec => []ConversationFollowsTrip
  BY RelayAlways, PTL DEF RelayInv

(* For any number of tool calls and any size of the channel: a client hears  *)
(* of no trip twice (handlers/chat.go:474), and if it stays and no result    *)
(* was dropped or misnamed, of every trip and of the expert who answers.     *)
THEOREM ClientIsToldHolds == Spec => []ClientIsTold
<1>1. RelayInv => ClientIsTold
  <2> SUFFICES ASSUME RelayInv, handler # "reading", client = "there", ~spoilt
               PROVE  /\ ToSet(announced) = made
                      /\ persona # NoOne \/ personaSwitchCh # NoOne =>
                           toldSwitch = IF personaSwitchCh # NoOne THEN personaSwitchCh ELSE persona
    BY DEF RelayInv, EachTripOnce, ClientIsTold
  <2>1. outCh = <<>> /\ result = NoOne
    BY DEF RelayInv, HandlerIsLast
  <2>2. \A k \in TripTools \cup {"suggest_expert"} : ~OnItsWay(k)
    BY <2>1, ToldIsSomething DEF OnItsWay
  <2>3. \A k \in TripTools : pendingTrips[k] = <<>>
    BY <2>2 DEF RelayInv, ResultsFollow
  <2>4. pendingSwitch = NoOne
    BY <2>2 DEF RelayInv, ResultsFollow
  <2>5. Trips("create_trip") = {} /\ Trips("select_trip") = {}
    BY <2>3 DEF Trips, ToSet, TripTools
  <2> QED
    BY <2>4, <2>5 DEF RelayInv, EachTripOnce, SwitchIsKnown, Chosen
<1> QED
  BY <1>1, RelayAlways, PTL

(**************************  the summary of a session  *************************)
(* A summary is made from all but the newest rows of the count it was made   *)
(* at, whichever turn stored it; and a turn that has not failed knows all    *)
(* the rows it counted but those of its window and of less than an interval. *)
CopyIsBounded(t) ==
  /\ count[t] <= messageCount
  /\ phase[t] = "summarising" => count[t] > SummaryThreshold
  /\ phase[t] \in {"loading", "answering"} /\ ~failed[t] =>
       count[t] - RecentWindow - told[t] <= RefreshInterval - 1

SummaryInv ==
  /\ SummaryTypeOK
  /\ summaryCount # 0 => covered = OlderMessageCount(summaryCount)
  /\ \A t \in Turns : CopyIsBounded(t)

(* Every step of a turn, or of another, keeps what a copy of it covers.      *)
LEMMA SummaryStep ==
  ASSUME SummaryInv, [SummaryNext]_summaryVars
  PROVE  SummaryInv'
<1> USE ChatSummaryAssumption
    DEF SummaryInv, SummaryTypeOK, CopyIsBounded, OlderMessageCount, session, copy, Phase
<1>1. ASSUME NEW t \in Turns, StoreQuestion(t) PROVE SummaryInv'
  BY <1>1 DEF StoreQuestion, AddRow
<1>2. ASSUME NEW t \in Turns, ReadSession(t) PROVE SummaryInv'
  BY <1>2 DEF ReadSession, NeedsSummary
<1>3. ASSUME NEW t \in Turns, FailRead(t) PROVE SummaryInv'
  BY <1>3 DEF FailRead
<1>4. ASSUME NEW t \in Turns, Refresh(t) PROVE SummaryInv'
  BY <1>4 DEF Refresh
<1>5. ASSUME NEW t \in Turns, FailRefresh(t) PROVE SummaryInv'
  BY <1>5 DEF FailRefresh
<1>6. ASSUME NEW t \in Turns, LoadRecent(t) PROVE SummaryInv'
  BY <1>6 DEF LoadRecent
<1>7. ASSUME NEW t \in Turns, WriteRow(t) PROVE SummaryInv'
  BY <1>7 DEF WriteRow, AddRow
<1>8. ASSUME NEW t \in Turns, EndTurn(t) PROVE SummaryInv'
  BY <1>8 DEF EndTurn
<1>9. CASE UNCHANGED summaryVars
  BY <1>9 DEF summaryVars
<1> QED
  BY <1>1, <1>2, <1>3, <1>4, <1>5, <1>6, <1>7, <1>8, <1>9 DEF SummaryNext

(* SummaryInv holds always.                                                  *)
LEMMA SummaryAlways == Spec => []SummaryInv
<1>1. Init => SummaryInv
  <2> SUFFICES ASSUME SummaryInit PROVE SummaryInv
    BY DEF Init
  <2> QED
    BY ChatSummaryAssumption DEF SummaryInit, SummaryInv, SummaryTypeOK, CopyIsBounded
<1>2. SummaryInv /\ [Next]_vars => SummaryInv'
  BY OneServiceSteps, SummaryStep
<1> QED
  BY <1>1, <1>2, PTL DEF Spec

(* Whatever refreshes of other turns come between a turn's read of the       *)
(* session and its answer (chat/summarize.go:65, :153), its model misses     *)
(* less than a refresh interval of the messages it had counted.              *)
THEOREM ForgottenBoundedHolds == Spec => []ForgottenBounded
<1>1. SummaryInv => ForgottenBounded
  BY ChatSummaryAssumption DEF SummaryInv, SummaryTypeOK, CopyIsBounded, ForgottenBounded
<1> QED
  BY <1>1, SummaryAlways, PTL

(*****************************  the token budget  ******************************)
(* While no call has overlapped with a reset of today: a call that began     *)
(* before midnight finds no reset of today, one that is about to use the     *)
(* counter finds it reset for its own date, and what was spent today came    *)
(* after the reset.  Then the counter says no less than what was spent.      *)
Admitted == {s \in Streams : stage[s] \in {"turn", "record"}}

CallIsAlone(s) ==
  /\ op[s] \in {"load", "swap", "zero", "use"} /\ today[s] < day => resetDay < day
  /\ op[s] = "swap" => resetDay = last[s] /\ today[s] # resetDay
  /\ op[s] \in {"zero", "use"} /\ today[s] = day => resetDay = day
  /\ op[s] = "zero" => spent = 0

DatesAgree ==
  /\ resetDay <= day /\ \A s \in Streams : today[s] <= day
  /\ ~torn => /\ spent <= used
              /\ spent > 0 => resetDay = day
              /\ \A s \in Streams : CallIsAlone(s)

Charged == torn \/ spent + Cardinality(Admitted) * MaxTurn <= Overshoot

BudgetInv == BudgetTypeOK /\ DatesAgree /\ Charged

(* The bound is a number.                                                    *)
LEMMA OvershootTyped == Overshoot \in Nat
  BY TokenBudgetAssumption, FS_CardinalityType DEF Overshoot

(* Every atomic operation keeps the types.                                   *)
LEMMA BudgetTyped ==
  ASSUME BudgetTypeOK, [BudgetNext]_budgetVars
  PROVE  BudgetTypeOK'
<1> USE TokenBudgetAssumption DEF BudgetTypeOK, counter, read, Goto
<1>2. ASSUME NEW s \in Streams, BeginCall(s) PROVE BudgetTypeOK'
  BY <1>2 DEF BeginCall
<1>3. ASSUME NEW s \in Streams, ReadDate(s) PROVE BudgetTypeOK'
  BY <1>3 DEF ReadDate
<1>4. ASSUME NEW s \in Streams, LoadResetDay(s) PROVE BudgetTypeOK'
  BY <1>4 DEF LoadResetDay
<1>5. ASSUME NEW s \in Streams, SwapResetDay(s) PROVE BudgetTypeOK'
  BY <1>5 DEF SwapResetDay, Overlap, Resetting
<1>6. ASSUME NEW s \in Streams, StoreZero(s) PROVE BudgetTypeOK'
  BY <1>6 DEF StoreZero, Overlap, Resetting
<1>7. ASSUME NEW s \in Streams, Compare(s) PROVE BudgetTypeOK'
  BY <1>7 DEF Compare, Overlap, Resetting
<1>8. ASSUME NEW s \in Streams, Add(s) PROVE BudgetTypeOK'
  <2>1. used' \in Nat /\ spent' \in Nat
    <3>1. PICK n \in 1 .. MaxTurn : /\ used' = used + n
                                    /\ spent' = IF today[s] = day THEN Capped(spent + n) ELSE spent
      BY <1>8 DEF Add
    <3>2. Capped(spent + n) \in Nat
      BY OvershootTyped, <3>1 DEF Capped
    <3> QED
      BY <3>1, <3>2
  <2> QED
    BY <1>8, <2>1 DEF Add, Overlap, Resetting
<1>9. ASSUME NEW s \in Streams, EndUnused(s) PROVE BudgetTypeOK'
  BY <1>9 DEF EndUnused
<1>10. CASE Midnight
  BY <1>10 DEF Midnight, Resetting
<1>11. CASE UNCHANGED budgetVars
  BY <1>11 DEF budgetVars
<1> QED
  BY <1>2, <1>3, <1>4, <1>5, <1>6, <1>7, <1>8, <1>9, <1>10, <1>11 DEF BudgetNext

(* Until a reset is torn, counter and dates fit together.                    *)
LEMMA DatesStayAgreed ==
  ASSUME BudgetTypeOK, DatesAgree, [BudgetNext]_budgetVars
  PROVE  DatesAgree'
<1> USE TokenBudgetAssumption DEF BudgetTypeOK, DatesAgree, CallIsAlone, counter, read, Goto
<1>2. ASSUME NEW s \in Streams, BeginCall(s) PROVE DatesAgree'
  BY <1>2 DEF BeginCall
<1>3. ASSUME NEW s \in Streams, ReadDate(s) PROVE DatesAgree'
  BY <1>3 DEF ReadDate
<1>4. ASSUME NEW s \in Streams, LoadResetDay(s) PROVE DatesAgree'
  BY <1>4 DEF LoadResetDay
<1>5. ASSUME NEW s \in Streams, SwapResetDay(s) PROVE DatesAgree'
  <2>1. CASE torn'
    BY <1>5, <2>1 DEF SwapResetDay
  <2>2. CASE ~torn'
    <3>1. ~torn /\ op[s] = "swap" /\ \A r \in Streams \ {s} : op[r] = "none"
      BY <1>5, <2>2 DEF SwapResetDay, Overlap, Resetting
    <3>2. resetDay = last[s] /\ resetDay' = today[s] /\ op' = [op EXCEPT ![s] = "zero"]
      BY <1>5, <3>1 DEF SwapResetDay
    <3>3. resetDay < day /\ spent = 0
      BY <3>1, <3>2
    <3>4. UNCHANGED <<day, used, today, last, spent>>
      BY <1>5 DEF SwapResetDay
    <3> QED
      BY <3>1, <3>2, <3>3, <3>4
  <2> QED
    BY <2>1, <2>2
<1>6. ASSUME NEW s \in Streams, StoreZero(s) PROVE DatesAgree'
  BY <1>6 DEF StoreZero, Overlap, Resetting
<1>7. ASSUME NEW s \in Streams, Compare(s) PROVE DatesAgree'
  BY <1>7 DEF Compare, Overlap, Resetting
<1>8. ASSUME NEW s \in Streams, Add(s) PROVE DatesAgree'
  <2>1. PICK n \in 1 .. MaxTurn : /\ used' = used + n
                                  /\ spent' = IF today[s] = day THEN Capped(spent + n) ELSE spent
    BY <1>8 DEF Add
  <2>2. Capped(spent + n) <= spent + n /\ Capped(spent + n) \in Nat
    BY OvershootTyped, <2>1 DEF Capped
  <2>3. CASE ~torn'
    <3>1. ~torn /\ op[s] = "use" /\ op' = [op EXCEPT ![s] = "none"] /\ UNCHANGED <<day, resetDay, today, last>>
      BY <1>8, <2>3 DEF Add
    <3>2. \A r \in Streams \ {s} : op[r] \notin {"swap", "zero"}
      BY <1>8, <2>3, <3>1 DEF Add, Overlap, Resetting
    <3>3. spent' <= used'
      BY <2>1, <2>2, <3>1
    <3>4. spent' > 0 => resetDay' = day'
      BY <2>1, <3>1
    <3>5. ASSUME NEW r \in Streams PROVE CallIsAlone(r)'
      BY <3>1, <3>2
    <3> QED
      BY <3>1, <3>3, <3>4, <3>5
  <2>4. CASE torn'
    BY <1>8, <2>4 DEF Add
  <2> QED
    BY <2>3, <2>4
<1>9. ASSUME NEW s \in Streams, EndUnused(s) PROVE DatesAgree'
  BY <1>9 DEF EndUnused
<1>10. CASE Midnight
  <2>1. /\ day' = day + 1 /\ spent' = 0 /\ UNCHANGED <<used, resetDay, op, today, last>>
        /\ ~torn' => \A s \in Streams : op[s] \notin {"swap", "zero"}
    BY <1>10 DEF Midnight, Resetting
  <2>2. resetDay' < day' /\ \A s \in Streams : today'[s] < day'
    BY <2>1
  <2>3. ASSUME NEW s \in Streams, ~torn' PROVE CallIsAlone(s)'
    <3>1. op[s] \notin {"swap", "zero"}
      BY <2>1, <2>3
    <3> QED
      BY <2>1, <2>2, <3>1
  <2> QED
    BY <2>1, <2>2, <2>3
<1>11. CASE UNCHANGED budgetVars
  BY <1>11 DEF budgetVars
<1> QED
  BY <1>2, <1>3, <1>4, <1>5, <1>6, <1>7, <1>8, <1>9, <1>10, <1>11 DEF BudgetNext

(* What Z3 needs of products with a constant.                                *)
LEMMA Products ==
  ASSUME NEW m \in Nat
  PROVE  /\ \A a \in Nat : a * m \in Nat /\ (a + 1) * m = a * m + m
         /\ \A a, b \in Nat : a <= b => a * m <= b * m
<1>1. \A a \in Nat : a * m \in Nat /\ (a + 1) * m = a * m + m
  OBVIOUS
<1>2. ASSUME NEW a \in Nat, NEW b \in Nat, a <= b PROVE a * m <= b * m
  <2>1. PICK d \in Nat : b = a + d
    BY <1>2, b - a \in Nat, b = a + (b - a)
  <2>2. b * m = a * m + d * m /\ d * m \in Nat /\ a * m \in Nat
    BY <2>1
  <2> QED
    BY <2>2
<1> QED
  BY <1>1, <1>2

(* Streams that may still spend are among all streams.                       *)
LEMMA AdmittedBounded ==
  /\ IsFiniteSet(Admitted) /\ Cardinality(Admitted) \in Nat
  /\ Cardinality(Admitted) * MaxTurn \in Nat
  /\ Cardinality(Admitted) * MaxTurn <= Cardinality(Streams) * MaxTurn
  /\ Cardinality(Streams) * MaxTurn \in Nat
<1>1. Admitted \subseteq Streams /\ IsFiniteSet(Streams)
  BY TokenBudgetAssumption DEF Admitted
<1>2. IsFiniteSet(Admitted) /\ Cardinality(Admitted) <= Cardinality(Streams)
  BY <1>1, FS_Subset
<1>3. Cardinality(Admitted) \in Nat /\ Cardinality(Streams) \in Nat
  BY <1>1, <1>2, FS_CardinalityType
<1> QED
  BY <1>2, <1>3, Products, TokenBudgetAssumption

(* Steps that admit nobody and spend nothing keep the charge.                *)
LEMMA FewerAdmitted ==
  ASSUME BudgetTypeOK, Charged, Admitted' \subseteq Admitted, spent' = spent, torn => torn'
  PROVE  Charged'
<1>1. IsFiniteSet(Admitted') /\ Cardinality(Admitted') <= Cardinality(Admitted)
  BY AdmittedBounded, FS_Subset
<1>2. Cardinality(Admitted') \in Nat
  BY <1>1, FS_CardinalityType
<1>3. /\ Cardinality(Admitted') * MaxTurn <= Cardinality(Admitted) * MaxTurn
      /\ Cardinality(Admitted') * MaxTurn \in Nat
  BY <1>1, <1>2, AdmittedBounded, Products, TokenBudgetAssumption
<1> QED
  BY <1>3, AdmittedBounded, OvershootTyped DEF Charged, BudgetTypeOK

(* Who was admitted is charged, spent or not.                                *)
LEMMA StaysCharged ==
  ASSUME BudgetInv, [BudgetNext]_budgetVars
  PROVE  Charged'
<1> USE DEF BudgetInv, BudgetTypeOK, counter, read, Goto
<1>1. ASSUME NEW s \in Streams, BeginCall(s) PROVE Charged'
  <2>1. Admitted' = Admitted /\ UNCHANGED <<spent, torn>>
    BY <1>1 DEF BeginCall, Admitted
  <2> QED
    BY <2>1, FewerAdmitted
<1>2. ASSUME NEW s \in Streams, ReadDate(s) \/ LoadResetDay(s) PROVE Charged'
  <2>1. Admitted' = Admitted /\ UNCHANGED <<spent, torn>>
    BY <1>2 DEF ReadDate, LoadResetDay, Admitted
  <2> QED
    BY <2>1, FewerAdmitted
<1>3. ASSUME NEW s \in Streams, SwapResetDay(s) \/ StoreZero(s) PROVE Charged'
  <2>1. Admitted' = Admitted /\ spent' = spent /\ (torn => torn')
    BY <1>3 DEF SwapResetDay, StoreZero, Admitted
  <2> QED
    BY <2>1, FewerAdmitted
<1>4. ASSUME NEW s \in Streams, Compare(s) PROVE Charged'
  <2>1. CASE used >= DailyLimit
    <3>1. Admitted' \subseteq Admitted /\ spent' = spent /\ (torn => torn')
      BY <1>4, <2>1 DEF Compare, Admitted
    <3> QED
      BY <3>1, FewerAdmitted
  <2>2. CASE used < DailyLimit /\ ~torn'
    <3>1. ~torn /\ spent' = spent
      BY <1>4, <2>2 DEF Compare
    <3>2. spent <= DailyLimit - 1
      BY <2>2, <3>1, TokenBudgetAssumption DEF DatesAgree
    <3>3. /\ (Cardinality(Admitted) * MaxTurn)' <= Cardinality(Streams) * MaxTurn
          /\ (Cardinality(Admitted) * MaxTurn)' \in Nat /\ Cardinality(Streams) * MaxTurn \in Nat
      <4>1. Admitted' \subseteq Streams /\ IsFiniteSet(Streams)
        BY TokenBudgetAssumption DEF Admitted
      <4>2. IsFiniteSet(Admitted') /\ Cardinality(Admitted') <= Cardinality(Streams)
        BY <4>1, FS_Subset
      <4>3. Cardinality(Admitted') \in Nat /\ Cardinality(Streams) \in Nat
        BY <4>1, <4>2, FS_CardinalityType
      <4> QED
        BY <4>2, <4>3, Products, TokenBudgetAssumption
    <3> QED
      BY <3>1, <3>2, <3>3, TokenBudgetAssumption DEF Charged, Overshoot
  <2>3. CASE torn'
    BY <2>3 DEF Charged
  <2> QED
    BY <2>1, <2>2, <2>3, TokenBudgetAssumption
<1>5. ASSUME NEW s \in Streams, Add(s) PROVE Charged'
  <2>1. PICK n \in 1 .. MaxTurn : spent' = IF today[s] = day THEN Capped(spent + n) ELSE spent
    BY <1>5 DEF Add
  <2>2. spent' <= spent + n /\ spent' \in Nat
    BY <2>1, OvershootTyped DEF Capped
  <2>3. Admitted' = Admitted \ {s} /\ s \in Admitted /\ (torn => torn')
    BY <1>5 DEF Add, Admitted
  <2>4. Cardinality(Admitted') = Cardinality(Admitted) - 1
    BY <2>3, AdmittedBounded, FS_RemoveElement
  <2>5. Cardinality(Admitted') \in Nat
    BY <2>3, AdmittedBounded, FS_RemoveElement, FS_CardinalityType
  <2>6. Cardinality(Admitted) = Cardinality(Admitted') + 1
    BY <2>4, <2>5, AdmittedBounded
  <2>7. /\ Cardinality(Admitted) * MaxTurn = Cardinality(Admitted') * MaxTurn + MaxTurn
        /\ Cardinality(Admitted') * MaxTurn \in Nat
    BY <2>5, <2>6, Products, TokenBudgetAssumption
  <2> QED
    BY <2>2, <2>3, <2>7, OvershootTyped, TokenBudgetAssumption DEF Charged
<1>6. ASSUME NEW s \in Streams, EndUnused(s) PROVE Charged'
  <2>1. Admitted' \subseteq Admitted /\ UNCHANGED <<spent, torn>>
    BY <1>6 DEF EndUnused, Admitted
  <2> QED
    BY <2>1, FewerAdmitted
<1>7. CASE Midnight
  <2>1. Admitted' = Admitted /\ spent' = 0
    BY <1>7 DEF Midnight, Admitted
  <2> QED
    BY <2>1, AdmittedBounded, TokenBudgetAssumption DEF Charged, Overshoot
<1>8. CASE UNCHANGED budgetVars
  <2>1. Admitted' = Admitted /\ UNCHANGED <<spent, torn>>
    BY <1>8 DEF budgetVars, Admitted
  <2> QED
    BY <2>1, FewerAdmitted
<1> QED
  BY <1>1, <1>2, <1>3, <1>4, <1>5, <1>6, <1>7, <1>8 DEF BudgetNext

(* BudgetInv holds always.                                                   *)
LEMMA BudgetAlways == Spec => []BudgetInv
<1>1. Init => BudgetInv
  <2> SUFFICES ASSUME BudgetInit PROVE BudgetInv
    BY DEF Init
  <2>1. BudgetTypeOK
    <3>1. stage \in [Streams -> {"idle", "check", "turn", "record"}]
      BY DEF BudgetInit
    <3>2. op \in [Streams -> {"none", "date", "load", "swap", "zero", "use"}]
      BY DEF BudgetInit
    <3>3. 0 \in 0 .. MaxDay
      BY TokenBudgetAssumption
    <3>4. today \in [Streams -> 0 .. MaxDay] /\ last \in [Streams -> 0 .. MaxDay]
      BY <3>3 DEF BudgetInit
    <3> QED
      BY <3>1, <3>2, <3>3, <3>4 DEF BudgetInit, BudgetTypeOK
  <2>2. DatesAgree
    BY DEF BudgetInit, DatesAgree, CallIsAlone
  <2>3. Charged
    BY AdmittedBounded, TokenBudgetAssumption DEF BudgetInit, Charged, Overshoot
  <2> QED
    BY <2>1, <2>2, <2>3 DEF BudgetInv
<1>2. BudgetInv /\ [Next]_vars => BudgetInv'
  BY OneServiceSteps, BudgetTyped, DatesStayAgreed, StaysCharged DEF BudgetInv
<1> QED
  BY <1>1, <1>2, PTL DEF Spec

(* For any number of streams at once: a day is charged no more than the      *)
(* limit and what the admitted turns may use, unless a call overlapped with  *)
(* a reset (ai/budget.go:60).                                                *)
THEOREM SpendBoundedHolds == Spec => []SpendBounded
<1>1. BudgetInv => SpendBounded
  BY AdmittedBounded, OvershootTyped DEF BudgetInv, BudgetTypeOK, Charged, SpendBounded
<1> QED
  BY <1>1, BudgetAlways, PTL

(***************************  the end of the server  ***************************)
(* The pool refuses new statements from the moment it begins to close, and   *)
(* Close returns when the last one has ended; so none runs between that      *)
(* moment and the end of the process, when it comes by that way.             *)

(* What holds from the return of pool.Close on.                              *)
Drained == main = "closed" => \A w \in Work : work[w] # "statement"
WorkTyped == work \in [Work -> {"idle", "between", "statement", "done", "failed", "killed"}]
DrainInv == WorkTyped /\ Drained

(* The invariant holds while nothing has been accepted yet.                  *)
LEMMA InitDrained == ShutdownInit => DrainInv
  BY DEF ShutdownInit, DrainInv, WorkTyped, Drained

(* Only BeginStatement puts work into a statement, and it is refused once    *)
(* the pool is being closed.                                                 *)
LEMMA NextDrained == DrainInv /\ [ShutdownNext]_shutdownVars => DrainInv'
<1> SUFFICES ASSUME DrainInv, [ShutdownNext]_shutdownVars PROVE DrainInv'
  OBVIOUS
<1> USE DEF DrainInv, WorkTyped, Drained, process
<1>1. ASSUME NEW w \in Work, Accept(w) PROVE DrainInv'
  BY <1>1 DEF Accept
<1>2. ASSUME NEW w \in Work, BeginStatement(w) PROVE DrainInv'
  BY <1>2 DEF BeginStatement, Refused
<1>3. ASSUME NEW w \in Work, EndStatement(w) PROVE DrainInv'
  BY <1>3 DEF EndStatement
<1>4. ASSUME NEW w \in Work, FinishWork(w) PROVE DrainInv'
  BY <1>4 DEF FinishWork
<1>5. CASE Terminate \/ ServeReturns \/ ShutdownReturns \/ ClosePool
  BY <1>5 DEF Terminate, ServeReturns, ShutdownReturns, ClosePool
<1>6. CASE PoolCloses
  BY <1>6 DEF PoolCloses
<1>7. CASE Exit
  BY <1>7 DEF Exit
<1>8. CASE ServeFails
  BY <1>8 DEF ServeFails
<1>9. CASE UNCHANGED shutdownVars
  BY <1>9 DEF shutdownVars
<1> QED
  BY <1>1, <1>2, <1>3, <1>4, <1>5, <1>6, <1>7, <1>8, <1>9 DEF ShutdownNext

(* DrainInv holds always.                                                    *)
LEMMA DrainAlways == Spec => []DrainInv
<1>1. Init => DrainInv
  BY InitDrained DEF Init
<1>2. DrainInv /\ [Next]_vars => DrainInv'
  BY OneServiceSteps, NextDrained
<1> QED
  BY <1>1, <1>2, PTL DEF Spec

(* A step that kills something inside a statement of the database is the end *)
(* of a process whose listener has failed (main.go:635), never the end of    *)
(* one that was told to (main.go:97, 593), however many requests and jobs    *)
(* were under way when it came.                                              *)
THEOREM StatementsEndFirstHolds == Spec => StatementsEndFirst
<1>1. DrainInv /\ [ShutdownNext]_shutdownVars
      => [\A w \in Work :
            work[w] = "statement" /\ work'[w] = "killed" => main' = "aborted"]_shutdownVars
  <2> SUFFICES ASSUME DrainInv, ShutdownNext, NEW w \in Work,
                      work[w] = "statement", work'[w] = "killed"
               PROVE  main' = "aborted"
    OBVIOUS
  <2> USE DEF DrainInv, WorkTyped
  <2>1. ASSUME NEW v \in Work, Accept(v) \/ BeginStatement(v) \/ EndStatement(v) \/ FinishWork(v)
        PROVE  FALSE
    BY <2>1 DEF Accept, BeginStatement, EndStatement, FinishWork
  <2>2. ~(Terminate \/ ServeReturns \/ ShutdownReturns \/ ClosePool \/ PoolCloses)
    BY DEF Terminate, ServeReturns, ShutdownReturns, ClosePool, PoolCloses
  <2>3. ~Exit
    BY DEF Exit, Drained
  <2> QED
    BY <2>1, <2>2, <2>3 DEF ShutdownNext, ServeFails
<1>2. DrainInv /\ [Next]_vars
      => [\A w \in Work :
            work[w] = "statement" /\ work'[w] = "killed" => main' = "aborted"]_shutdownVars
  BY <1>1, OneServiceSteps
<1> QED
  BY <1>2, DrainAlways, PTL DEF Spec, StatementsEndFirst

(****************************  the sharing of a trip  **************************)
(* An invitation is counted while its request is still to insert it, so that *)
(* with those on their way there are no more than the maximum and one for    *)
(* each further call.                                                        *)
Inviting == {c \in Calls : pc[c] = "inviting"}

SharingTypeOK == CollaboratorsTypeOK /\ pc \in [Calls -> {"idle", "inviting", "accepting"}]

CallsAreAboutGuests ==
  \A c \in Calls : /\ pc[c] # "idle" => user[c] \in People
                   /\ pc[c] = "accepting" => held[c] # NoInvite

InvitesCounted == Cardinality(Invited) + Cardinality(Inviting) < MaxInvites + Cardinality(Calls)

SharingInv == SharingTypeOK /\ CallsAreAboutGuests /\ InvitesCounted

(* Every step of an invitation keeps the types.                              *)
LEMMA SharingTyped ==
  ASSUME SharingTypeOK, CallsAreAboutGuests, [Sharing]_<<call, collaboration>>
  PROVE  SharingTypeOK' /\ CallsAreAboutGuests'
<1> USE CollaboratorsAssumption
    DEF SharingTypeOK, CollaboratorsTypeOK, CallsAreAboutGuests, Invited, NoInvite, Users, call,
       collaboration, Step
<1>1. ASSUME NEW p \in People, RemoveCollaborator(p) PROVE SharingTypeOK' /\ CallsAreAboutGuests'
  BY <1>1 DEF RemoveCollaborator
<1>2. ASSUME NEW c \in Calls, NEW p \in People, BeginInvite(c, p)
      PROVE  SharingTypeOK' /\ CallsAreAboutGuests'
  BY <1>2 DEF BeginInvite, Start, Running
<1>3. ASSUME NEW c \in Calls, NEW p \in People, BeginAccept(c, p)
      PROVE  SharingTypeOK' /\ CallsAreAboutGuests'
  BY <1>3 DEF BeginAccept, Start, Running
<1>4. ASSUME NEW c \in Calls, AddCollaborator(c) PROVE SharingTypeOK' /\ CallsAreAboutGuests'
  <2>1. /\ pc' \in [Calls -> {"idle", "inviting", "accepting"}] /\ user' \in [Calls -> Users]
        /\ held' \in [Calls -> 0 .. MaxTokens]
    BY <1>4 DEF AddCollaborator, Finish
  <2>2. token' \in [People -> 0 .. MaxTokens] /\ invites' \in 0 .. MaxTokens /\ Invited \subseteq Invited'
    BY <1>4 DEF AddCollaborator
  <2>3. CallsAreAboutGuests'
    BY <1>4 DEF AddCollaborator, Finish
  <2> QED
    BY <1>4, <2>1, <2>2, <2>3 DEF AddCollaborator
<1>5. ASSUME NEW c \in Calls, AcceptInvite(c) PROVE SharingTypeOK' /\ CallsAreAboutGuests'
  BY <1>5 DEF AcceptInvite, Finish
<1>6. CASE UNCHANGED <<call, collaboration>>
  BY <1>6
<1> QED
  BY <1>1, <1>2, <1>3, <1>4, <1>5, <1>6 DEF Sharing

(* Invitations and those who write one are finitely many.                    *)
LEMMA InvitesFinite ==
  /\ IsFiniteSet(Invited) /\ Cardinality(Invited) \in Nat
  /\ IsFiniteSet(Inviting) /\ Cardinality(Inviting) \in Nat /\ Cardinality(Inviting) <= Cardinality(Calls)
  /\ Cardinality(Calls) \in Nat
<1>1. Invited \subseteq People /\ Inviting \subseteq Calls
  BY DEF Invited, Inviting
<1>2. IsFiniteSet(Invited) /\ IsFiniteSet(Inviting) /\ Cardinality(Inviting) <= Cardinality(Calls)
  BY <1>1, CollaboratorsAssumption, FS_Subset
<1> QED
  BY <1>2, CollaboratorsAssumption, FS_CardinalityType

(* Steps that invite nobody keep the count.                                  *)
LEMMA FewerInvites ==
  ASSUME InvitesCounted, Invited' \subseteq Invited, Inviting' \subseteq Inviting
  PROVE  InvitesCounted'
<1>1. Cardinality(Invited') <= Cardinality(Invited) /\ IsFiniteSet(Invited')
  BY InvitesFinite, FS_Subset
<1>2. Cardinality(Inviting') <= Cardinality(Inviting) /\ IsFiniteSet(Inviting')
  BY InvitesFinite, FS_Subset
<1>3. Cardinality(Invited') \in Nat /\ Cardinality(Inviting') \in Nat
  BY <1>1, <1>2, FS_CardinalityType
<1> QED
  BY <1>1, <1>2, <1>3, InvitesFinite, CollaboratorsAssumption DEF InvitesCounted

(* Who is about to insert has counted, and is counted.                       *)
LEMMA InvitesStayCounted ==
  ASSUME SharingInv, [Sharing]_<<call, collaboration>>
  PROVE  InvitesCounted'
<1> USE DEF SharingInv, SharingTypeOK, CollaboratorsTypeOK, CallsAreAboutGuests, NoInvite, call, collaboration, Step
<1>1. ASSUME NEW p \in People, RemoveCollaborator(p) PROVE InvitesCounted'
  <2>1. Invited' \subseteq Invited /\ Inviting' = Inviting
    BY <1>1 DEF RemoveCollaborator, Invited, Inviting
  <2> QED
    BY <2>1, FewerInvites
<1>2. ASSUME NEW c \in Calls, NEW p \in People, BeginInvite(c, p) PROVE InvitesCounted'
  <2>1. Invited' = Invited /\ Cardinality(Invited) < MaxInvites
    BY <1>2 DEF BeginInvite, Invited
  <2>2. Inviting' \subseteq Calls
    BY DEF Inviting
  <2>3. Cardinality(Inviting') <= Cardinality(Calls) /\ IsFiniteSet(Inviting')
    BY <2>2, CollaboratorsAssumption, FS_Subset
  <2>4. Cardinality(Inviting') \in Nat
    BY <2>3, FS_CardinalityType
  <2> QED
    BY <2>1, <2>3, <2>4, InvitesFinite, CollaboratorsAssumption DEF InvitesCounted
<1>3. ASSUME NEW c \in Calls, NEW p \in People, BeginAccept(c, p) PROVE InvitesCounted'
  <2>1. Invited' = Invited /\ Inviting' \subseteq Inviting
    BY <1>3 DEF BeginAccept, Start, Running, Invited, Inviting
  <2> QED
    BY <2>1, FewerInvites
<1>4. ASSUME NEW c \in Calls, AddCollaborator(c) PROVE InvitesCounted'
  <2>1. Invited' \subseteq Invited \cup {user[c]} /\ Inviting' = Inviting \ {c} /\ c \in Inviting
    BY <1>4 DEF AddCollaborator, Finish, Invited, Inviting
  <2>2. Cardinality(Inviting') = Cardinality(Inviting) - 1
    BY <2>1, InvitesFinite, FS_RemoveElement
  <2>3. /\ IsFiniteSet(Invited \cup {user[c]})
        /\ Cardinality(Invited \cup {user[c]}) =
             IF user[c] \in Invited THEN Cardinality(Invited) ELSE Cardinality(Invited) + 1
    BY InvitesFinite, FS_AddElement
  <2>4. Cardinality(Invited') <= Cardinality(Invited \cup {user[c]}) /\ IsFiniteSet(Invited')
    BY <2>1, <2>3, FS_Subset
  <2>5. Cardinality(Invited') \in Nat
    BY <2>4, FS_CardinalityType
  <2>6. Cardinality(Invited') <= Cardinality(Invited) + 1
    BY <2>3, <2>4, <2>5, InvitesFinite
  <2> QED
    BY <2>2, <2>5, <2>6, InvitesFinite, CollaboratorsAssumption DEF InvitesCounted
<1>5. ASSUME NEW c \in Calls, AcceptInvite(c) PROVE InvitesCounted'
  <2>1. Invited' = Invited /\ Inviting' \subseteq Inviting
    BY <1>5 DEF AcceptInvite, Finish, Invited, Inviting
  <2> QED
    BY <2>1, FewerInvites
<1>6. CASE UNCHANGED <<call, collaboration>>
  <2>1. Invited' = Invited /\ Inviting' = Inviting
    BY <1>6 DEF Invited, Inviting
  <2> QED
    BY <2>1, FewerInvites
<1> QED
  BY <1>1, <1>2, <1>3, <1>4, <1>5, <1>6 DEF Sharing

(* SharingInv holds always.                                                  *)
LEMMA SharingAlways == Spec => []SharingInv
<1>1. Init => SharingInv
  <2> SUFFICES ASSUME CollaboratorsInit PROVE SharingInv
    BY DEF Init
  <2>1. SharingTypeOK /\ CallsAreAboutGuests
    BY CollaboratorsAssumption
    DEF CollaboratorsInit, SharingTypeOK, CollaboratorsTypeOK, CallsAreAboutGuests, Invited,
       NoInvite, Users
  <2>2. Invited = {} /\ Inviting = {}
    BY DEF CollaboratorsInit, Invited, Inviting
  <2> QED
    BY <2>1, <2>2, InvitesFinite, FS_EmptySet, CollaboratorsAssumption DEF SharingInv,
       InvitesCounted
<1>2. SharingInv /\ [Next]_vars => SharingInv'
  BY OneServiceSteps, SharingTyped, InvitesStayCounted DEF SharingInv
<1> QED
  BY <1>1, <1>2, PTL DEF Spec

(* For any number of requests at once, each of which counted before the      *)
(* others inserted (handlers/collaborate.go:106).                            *)
THEOREM InvitesBoundedHolds == Spec => []InvitesBounded
<1>1. SharingInv => InvitesBounded
  BY InvitesFinite, CollaboratorsAssumption DEF SharingInv, InvitesCounted, InvitesBounded
<1> QED
  BY <1>1, SharingAlways, PTL

(* Whatever the owner does between the lookup of an invitation and its       *)
(* acceptance (handlers/collaborate.go:245), only the row of that very token *)
(* is accepted.                                                              *)
THEOREM AcceptsOwnInviteHolds == Spec => AcceptsOwnInvite
<1> DEFINE Own == \A p \in accepted' \ accepted : \E c \in Calls : user[c] = p /\ held[c] = token[p]
<1>1. ASSUME Sharing PROVE Own
  <2>1. ASSUME NEW c \in Calls, AcceptInvite(c) PROVE Own
    BY <2>1 DEF AcceptInvite
  <2>2. ASSUME ~ \E c \in Calls : AcceptInvite(c) PROVE accepted' \subseteq accepted
    BY <1>1, <2>2 DEF Sharing, RemoveCollaborator, BeginInvite, BeginAccept, AddCollaborator,
       collaboration
  <2> QED
    BY <2>1, <2>2
<1>2. [Next]_vars => [Own]_<<call, accepted>>
  BY <1>1, OneServiceSteps DEF collaboration
<1> QED
  BY <1>2, PTL DEF Spec, AcceptsOwnInvite

(*******************  what the limiters and the caches forget  *******************)
(* Beside a record that was forgotten stands one that lets everybody in: the *)
(* clean-up takes what has run out, and no block outlasts its record's       *)
(* window.  Two entries of a bucket hold the same tokens, or are both full.  *)
Stamps == Times \cup {Never}

AuthRecordOK(r) ==
  /\ r \in [failures : Nat, firstFail : Stamps, blockedAt : Stamps]
  /\ r # NoAuth => r.firstFail \in 0 .. now
  /\ r.blockedAt # Never => r.blockedAt \in r.firstFail .. now

AuthAgrees ==
  \/ auth = authKept
  \/ auth = NoAuth /\ ~Blocked(authKept) /\ now > authKept.firstFail + LimitWindow

RestRecordOK(r) ==
  /\ r \in [count : Nat, windowStart : Stamps]
  /\ r # NoRest => r.windowStart \in 0 .. now

RestAgrees ==
  \/ rest = restKept
  \/ rest = NoRest /\ now > restKept.windowStart + LimitWindow

EntryOK(e, procedures, burst) ==
  /\ e \in [tokens : [procedures -> 0 .. burst], last : [procedures -> Times], lastSeen : Stamps]
  /\ \A p \in procedures : e.last[p] <= now /\ (e.lastSeen # Never => e.last[p] <= e.lastSeen)

Full(e, p, burst) == e.tokens[p] + (now - e.last[p]) >= burst

EntriesAgree(e, k, procedures, burst) ==
  \A p \in procedures : \/ e.tokens[p] = k.tokens[p] /\ e.last[p] = k.last[p]
                        \/ Full(e, p, burst) /\ Full(k, p, burst)

AuthInv == AuthRecordOK(auth) /\ AuthRecordOK(authKept) /\ AuthAgrees
RestInv == RestRecordOK(rest) /\ RestRecordOK(restKept) /\ RestAgrees
EntryInv(e, k, procedures, burst) ==
  EntryOK(e, procedures, burst) /\ EntryOK(k, procedures, burst) /\ EntriesAgree(e, k, procedures, burst)

LimitsInv ==
  /\ now \in Times /\ AuthInv /\ RestInv
  /\ EntryInv(ofToken, ofTokenKept, {"any"}, IpBurst) /\ EntryInv(ofUser, ofUserKept, Procedures, Burst)

(* The library chooses a minimum; of two numbers, it is this one.            *)
LEMMA MinOfTwo ==
  ASSUME NEW a \in Int, NEW b \in Int
  PROVE  Min({a, b}) = IF a <= b THEN a ELSE b
<1>1. PICK x \in {a, b} : \A y \in {a, b} : x <= y
  OBVIOUS
<1>2. Min({a, b}) \in {a, b} /\ \A y \in {a, b} : Min({a, b}) <= y
  BY <1>1 DEF Min
<1> QED
  BY <1>2

(* A bucket holds what is left and what has come in since, up to its burst.  *)
LEMMA TokensOf ==
  ASSUME now \in Times, NEW procedures, NEW burst \in Nat, NEW e, EntryOK(e, procedures, burst),
         NEW p \in procedures
  PROVE  /\ Tokens(e, p, burst) \in 0 .. burst
         /\ Full(e, p, burst) => Tokens(e, p, burst) = burst
         /\ Tokens(e, p, burst) = IF burst <= e.tokens[p] + (now - e.last[p]) THEN burst
                                  ELSE e.tokens[p] + (now - e.last[p])
<1>1. e.tokens[p] \in 0 .. burst /\ e.last[p] \in 0 .. now /\ now \in Nat
  BY RateLimitsAssumption DEF EntryOK, Times
<1>2. e.tokens[p] + (now - e.last[p]) \in Nat
  BY <1>1
<1> QED
  BY <1>1, <1>2, MinOfTwo DEF Tokens, Full

(* So two buckets that agree give the same.                                  *)
LEMMA SameTokens ==
  ASSUME now \in Times, NEW procedures, NEW burst \in Nat, NEW e, NEW k,
         EntryInv(e, k, procedures, burst), NEW p \in procedures
  PROVE  Tokens(e, p, burst) = Tokens(k, p, burst)
<1>1. EntryOK(e, procedures, burst) /\ EntryOK(k, procedures, burst)
  BY DEF EntryInv
<1>2. CASE Full(e, p, burst) /\ Full(k, p, burst)
  BY <1>1, <1>2, TokensOf
<1>3. CASE e.tokens[p] = k.tokens[p] /\ e.last[p] = k.last[p]
  BY <1>3 DEF Tokens
<1> QED
  BY <1>2, <1>3 DEF EntryInv, EntriesAgree

(* Taking a token of both, or of neither, leaves them alike.                 *)
LEMMA TakenAlike ==
  ASSUME now \in Times, UNCHANGED now, NEW procedures, NEW burst \in Nat \ {0}, NEW e, NEW k,
         EntryInv(e, k, procedures, burst), NEW p \in procedures
  PROVE  EntryInv(Taken(e, p, burst), Taken(k, p, burst), procedures, burst)
<1>1. EntryOK(e, procedures, burst) /\ EntryOK(k, procedures, burst) /\ now \in Nat
  BY RateLimitsAssumption DEF EntryInv, Times
<1>2. Tokens(e, p, burst) = Tokens(k, p, burst)
  BY SameTokens
<1>3. Tokens(e, p, burst) \in 0 .. burst /\ Tokens(k, p, burst) \in 0 .. burst
  BY <1>1, TokensOf
<1>4. ASSUME NEW f, EntryOK(f, procedures, burst)
      PROVE  EntryOK(Taken(f, p, burst), procedures, burst)
  <2>1. Tokens(f, p, burst) \in 0 .. burst
    BY <1>4, TokensOf
  <2> QED
    BY <1>1, <1>4, <2>1 DEF EntryOK, Taken, Grants, Stamps, Never, Times
<1>5. ASSUME NEW q \in procedures
      PROVE  LET e2 == Taken(e, p, burst)  k2 == Taken(k, p, burst)
             IN \/ e2.tokens[q] = k2.tokens[q] /\ e2.last[q] = k2.last[q]
                \/ Full(e2, q, burst) /\ Full(k2, q, burst)
  <2> DEFINE same == e.tokens[q] = k.tokens[q] /\ e.last[q] = k.last[q]
             full == Full(e, q, burst) /\ Full(k, q, burst)
  <2>1. same \/ full
    BY DEF EntryInv, EntriesAgree
  <2>2. CASE Grants(e, p, burst) /\ q = p
    BY <1>1, <1>2, <1>3, <2>2 DEF Taken, Grants, EntryOK
  <2>3. CASE Grants(e, p, burst) /\ q # p
    BY <1>1, <1>2, <2>1, <2>3 DEF Taken, Grants, EntryOK, Full
  <2>4. CASE ~Grants(e, p, burst)
    BY <1>1, <1>2, <2>1, <2>4 DEF Taken, Grants, EntryOK, Full
  <2> QED
    BY <2>2, <2>3, <2>4
<1> QED
  BY <1>1, <1>4, <1>5 DEF EntryInv, EntriesAgree

(* An entry made anew has all its tokens, and one that is idle would too.    *)
LEMMA ForgottenAlike ==
  ASSUME now \in Times, UNCHANGED now, NEW procedures, NEW burst \in Nat, burst <= IdleAfter,
         NEW e, NEW k, EntryInv(e, k, procedures, burst)
  PROVE  /\ EntryInv(NoEntry(procedures, burst), NoEntry(procedures, burst), procedures, burst)
         /\ Idle(e) => EntryInv(NoEntry(procedures, burst), k, procedures, burst)
<1> USE RateLimitsAssumption
<1>1. EntryOK(NoEntry(procedures, burst), procedures, burst)
  BY DEF EntryOK, NoEntry, Stamps, Times
<1>2. ASSUME NEW p \in procedures PROVE Full(NoEntry(procedures, burst), p, burst)
  BY DEF Full, NoEntry, Times
<1>3. ASSUME Idle(e), NEW p \in procedures PROVE Full(k, p, burst)
  <2>1. Full(e, p, burst)
    <3>1. e.tokens[p] \in Nat /\ e.last[p] \in Nat /\ e.lastSeen \in Nat /\ e.last[p] <= e.lastSeen
      BY <1>3 DEF EntryInv, EntryOK, Idle, Times, Stamps
    <3> QED
      BY <1>3, <3>1 DEF Full, Idle, Times
  <2> QED
    BY <2>1 DEF EntryInv, EntriesAgree, Full
<1> QED
  BY <1>1, <1>2, <1>3 DEF EntryInv, EntriesAgree

(* Time adds to both.                                                        *)
LEMMA AlikeLater ==
  ASSUME now \in Times, now' \in Times, now' = now + 1, NEW procedures, NEW burst \in Nat, NEW e, NEW k,
         EntryInv(e, k, procedures, burst)
  PROVE  /\ \A p \in procedures : /\ e.last[p] <= now' /\ k.last[p] <= now'
                                  /\ \/ e.tokens[p] = k.tokens[p] /\ e.last[p] = k.last[p]
                                     \/ /\ e.tokens[p] + (now' - e.last[p]) >= burst
                                        /\ k.tokens[p] + (now' - k.last[p]) >= burst
BY RateLimitsAssumption DEF EntryInv, EntriesAgree, EntryOK, Full, Times

(* The answers of two buckets in a step that asks both, or makes both anew.  *)
LEMMA EntriesStep ==
  ASSUME LimitsInv, BucketNext, UNCHANGED now
  PROVE  /\ EntryInv(ofToken', ofTokenKept', {"any"}, IpBurst)
         /\ EntryInv(ofUser', ofUserKept', Procedures, Burst)
<1> USE RateLimitsAssumption DEF LimitsInv
<1>1. ASSUME NEW p \in Procedures, Request(p)
      PROVE  /\ EntryInv(ofToken', ofTokenKept', {"any"}, IpBurst)
             /\ EntryInv(ofUser', ofUserKept', Procedures, Burst)
  <2>1. EntryInv(ofToken', ofTokenKept', {"any"}, IpBurst)
    BY <1>1, TakenAlike DEF Request
  <2>2. EntryInv(Taken(ofUser, p, Burst), Taken(ofUserKept, p, Burst), Procedures, Burst)
    BY TakenAlike
  <2> QED
    BY <1>1, <2>1, <2>2 DEF Request, CheckUser
<1>2. CASE RenewToken
  BY <1>2, ForgottenAlike DEF RenewToken, NoIp
<1>3. CASE EvictIp
  BY <1>3, ForgottenAlike DEF EvictIp, NoIp
<1>4. CASE EvictUser
  BY <1>4, ForgottenAlike DEF EvictUser, NoUser
<1>5. CASE Tick
  BY <1>5 DEF Tick, Times
<1> QED
  BY <1>1, <1>2, <1>3, <1>4, <1>5 DEF BucketNext

(* Every step of a limiter, and of its copy that forgets nothing.            *)
LEMMA LimitsStep ==
  ASSUME LimitsInv, [AuthNext \/ RestNext \/ BucketNext]_limitVars
  PROVE  LimitsInv'
<1> USE RateLimitsAssumption
<1> DEFINE Alike == /\ EntryInv(ofToken, ofTokenKept, {"any"}, IpBurst)
                    /\ EntryInv(ofUser, ofUserKept, Procedures, Burst)
<1>1. ASSUME UNCHANGED <<now, bucketVars>> PROVE Alike'
  BY <1>1 DEF LimitsInv, bucketVars, EntryInv, EntryOK, EntriesAgree, Full
<1>2. ASSUME UNCHANGED <<now, restVars>> PROVE RestInv'
  BY <1>2 DEF LimitsInv, RestInv, RestRecordOK, RestAgrees, restVars
<1>3. ASSUME UNCHANGED <<now, auth, authKept>> PROVE AuthInv'
  BY <1>3 DEF LimitsInv, AuthInv, AuthRecordOK, AuthAgrees, Blocked
<1>4. CASE BeginLogin
  BY <1>4, <1>1, <1>2, <1>3 DEF BeginLogin, LimitsInv
<1>5. CASE FailLogin
  <2>1. AuthInv'
    <3>1. ASSUME NEW r, AuthRecordOK(r) PROVE AuthRecordOK(Failure(r))
      <4>1. r \in [failures : Nat, firstFail : Stamps, blockedAt : Stamps] /\ now \in Nat /\ now \in Stamps
        BY <3>1 DEF AuthRecordOK, LimitsInv, Times, Stamps
      <4>2. CASE r = NoAuth
        BY <4>1, <4>2 DEF Failure, AuthRecordOK, NoAuth, Never, Stamps
      <4>3. CASE r # NoAuth /\ Blocked(r)
        BY <3>1, <4>3 DEF Failure
      <4>4. CASE r # NoAuth /\ ~Blocked(r) /\ now > r.firstFail + LimitWindow
        BY <4>1, <4>4 DEF Failure, AuthRecordOK, NoAuth, Never, Stamps
      <4>5. CASE r # NoAuth /\ ~Blocked(r) /\ ~(now > r.firstFail + LimitWindow)
        <5>1. Failure(r) = [r EXCEPT !.failures = @ + 1,
                                     !.blockedAt = IF r.failures + 1 >= MaxFailures THEN now ELSE @]
          BY <4>5 DEF Failure
        <5>2. Failure(r) \in [failures : Nat, firstFail : Stamps, blockedAt : Stamps]
          <6>1. IF r.failures + 1 >= MaxFailures THEN now \in Stamps ELSE r.blockedAt \in Stamps
            BY <4>1
          <6>2. r.failures + 1 \in Nat
            BY <4>1
          <6> QED
            BY <4>1, <5>1, <6>1, <6>2
        <5>3. /\ Failure(r).firstFail = r.firstFail /\ r.firstFail \in 0 .. now
              /\ Failure(r).blockedAt = r.blockedAt \/ Failure(r).blockedAt = now
          BY <3>1, <4>1, <4>5, <5>1 DEF AuthRecordOK
        <5> QED
          BY <3>1, <4>1, <5>2, <5>3 DEF AuthRecordOK
      <4> QED
        BY <4>2, <4>3, <4>4, <4>5
    <3>2. AuthRecordOK(auth') /\ AuthRecordOK(authKept')
      BY <1>5, <3>1 DEF FailLogin, LimitsInv, AuthInv
    <3>3. auth' = authKept'
      <4>1. CASE auth = authKept
        BY <1>5, <4>1 DEF FailLogin
      <4>2. CASE auth = NoAuth /\ authKept # NoAuth /\ ~Blocked(authKept)
                   /\ now > authKept.firstFail + LimitWindow
        BY <1>5, <4>2 DEF FailLogin, Failure
      <4> QED
        BY <4>1, <4>2 DEF LimitsInv, AuthInv, AuthAgrees
    <3> QED
      BY <1>5, <3>2, <3>3 DEF FailLogin, AuthInv, AuthAgrees, AuthRecordOK
  <2> QED
    BY <1>5, <2>1, <1>1, <1>2 DEF FailLogin, LimitsInv
<1>6. CASE PassLogin
  <2>1. AuthInv'
    BY <1>6 DEF PassLogin, AuthInv, AuthRecordOK, AuthAgrees, NoAuth, Never, Stamps
  <2> QED
    BY <1>6, <2>1, <1>1, <1>2 DEF PassLogin, LimitsInv
<1>7. CASE CleanAuth
  <2>1. AuthInv'
    BY <1>7 DEF CleanAuth, LimitsInv, AuthInv, AuthRecordOK, AuthAgrees, Blocked, NoAuth, Never,
       Stamps, Times
  <2> QED
    BY <1>7, <2>1, <1>1, <1>2 DEF CleanAuth, LimitsInv
<1>8. CASE Allow
  <2>1. RestInv'
    <3>1. ASSUME NEW r, RestRecordOK(r) PROVE RestRecordOK(Counted(r))
      <4>1. r \in [count : Nat, windowStart : Stamps] /\ now \in Nat /\ now \in Stamps
        BY <3>1 DEF RestRecordOK, LimitsInv, Times, Stamps
      <4>2. CASE r = NoRest \/ now > r.windowStart + LimitWindow
        BY <4>1, <4>2 DEF Counted, RestRecordOK
      <4>3. CASE ~(r = NoRest \/ now > r.windowStart + LimitWindow)
        <5>1. Counted(r) = [r EXCEPT !.count = IF @ < MaxRequests THEN @ + 1 ELSE @]
          BY <4>3 DEF Counted
        <5> QED
          BY <3>1, <4>1, <4>3, <5>1 DEF RestRecordOK
      <4> QED
        BY <4>2, <4>3
    <3>2. RestRecordOK(rest') /\ RestRecordOK(restKept')
      BY <1>8, <3>1 DEF Allow, LimitsInv, RestInv
    <3>3. rest' = restKept'
      BY <1>8 DEF Allow, LimitsInv, RestInv, RestAgrees, Counted
    <3>4. now' = now
      BY <1>8 DEF Allow
    <3> QED
      BY <3>2, <3>3, <3>4 DEF RestInv, RestAgrees, RestRecordOK
  <2> QED
    BY <1>8, <2>1, <1>1, <1>3 DEF Allow, authVars, LimitsInv
<1>9. CASE EvictStale
  <2>1. RestInv'
    BY <1>9 DEF EvictStale, LimitsInv, RestInv, RestRecordOK, RestAgrees, NoRest, Never, Stamps,
       Times
  <2> QED
    BY <1>9, <2>1, <1>1, <1>3 DEF EvictStale, authVars, LimitsInv
<1>10. CASE Tick
  <2>1. now \in Times /\ now' \in Times /\ now' = now + 1
    BY <1>10 DEF Tick, LimitsInv, Times
  <2>2. AuthInv'
    BY <1>10, <2>1 DEF Tick, authVars, LimitsInv, AuthInv, AuthRecordOK, AuthAgrees, Blocked,
       Stamps, Times, Never, NoAuth
  <2>3. RestInv'
    BY <1>10, <2>1 DEF Tick, restVars, LimitsInv, RestInv, RestRecordOK, RestAgrees, Stamps, Times,
       Never, NoRest
  <2>4. /\ EntryOK(ofToken, {"any"}, IpBurst)' /\ EntryOK(ofTokenKept, {"any"}, IpBurst)'
        /\ EntryOK(ofUser, Procedures, Burst)' /\ EntryOK(ofUserKept, Procedures, Burst)'
    BY <1>10, <2>1, AlikeLater DEF Tick, bucketVars, LimitsInv, EntryInv, EntryOK
  <2>5. /\ EntriesAgree(ofToken, ofTokenKept, {"any"}, IpBurst)'
        /\ EntriesAgree(ofUser, ofUserKept, Procedures, Burst)'
    BY <1>10, <2>1, AlikeLater DEF Tick, bucketVars, LimitsInv, EntriesAgree, Full
  <2> QED
    BY <2>1, <2>2, <2>3, <2>4, <2>5 DEF LimitsInv, EntryInv
<1>11. ASSUME BucketNext, UNCHANGED <<now, authVars, restVars>> PROVE LimitsInv'
  <2>1. Alike'
    BY <1>11, EntriesStep DEF LimitsInv, EntryInv, EntryOK, EntriesAgree, Full
  <2> QED
    BY <1>11, <2>1, <1>2, <1>3 DEF authVars, LimitsInv
<1>12. CASE UNCHANGED limitVars
  BY <1>12, <1>1, <1>2, <1>3 DEF limitVars, authVars, LimitsInv
<1>13. BucketNext => Tick \/ UNCHANGED <<now, authVars, restVars>>
  BY DEF BucketNext, Request, RenewToken, EvictIp, EvictUser
<1> QED
  BY <1>4, <1>5, <1>6, <1>7, <1>8, <1>9, <1>10, <1>11, <1>12, <1>13 DEF AuthNext, RestNext

(* The limiters before the first request.                                    *)
LEMMA InitLimits == LimitInit => LimitsInv
<1> USE RateLimitsAssumption
<1> SUFFICES ASSUME LimitInit PROVE LimitsInv
  OBVIOUS
<1>1. now \in Times /\ AuthInv /\ RestInv
  <2>1. NoAuth \in [failures : Nat, firstFail : Stamps, blockedAt : Stamps] /\ NoAuth.blockedAt = Never
    BY DEF NoAuth, Stamps
  <2>2. NoRest \in [count : Nat, windowStart : Stamps]
    BY DEF NoRest, Stamps
  <2>3. AuthRecordOK(NoAuth) /\ RestRecordOK(NoRest)
    BY <2>1, <2>2 DEF AuthRecordOK, RestRecordOK
  <2> QED
    BY <2>3 DEF LimitInit, AuthInv, AuthAgrees, RestInv, RestAgrees, Times
<1>2. /\ EntryOK(NoIp, {"any"}, IpBurst) /\ EntryOK(NoUser, Procedures, Burst)
  BY DEF LimitInit, EntryOK, NoIp, NoUser, NoEntry, Stamps, Times
<1> QED
  BY <1>1, <1>2 DEF LimitInit, LimitsInv, EntryInv, EntriesAgree

(* LimitsInv holds always, and makes limiter and copy answer alike.          *)
LEMMA LimitsAlways == Spec => [](LimitsInv /\ ForgettingIsInvisible)
<1> USE RateLimitsAssumption
<1>1. Init => LimitsInv
  BY InitLimits DEF Init
<1>2. LimitsInv /\ [Next]_vars => LimitsInv'
  BY OneServiceSteps, LimitsStep
<1>3. LimitsInv => ForgettingIsInvisible
  <2> SUFFICES ASSUME LimitsInv PROVE ForgettingIsInvisible
    OBVIOUS
  <2>1. Blocked(auth) = Blocked(authKept)
    BY DEF LimitsInv, AuthInv, AuthAgrees, Blocked, NoAuth
  <2>2. Permits(rest) = Permits(restKept)
    BY DEF LimitsInv, RestInv, RestAgrees, Permits
  <2>3. Tokens(ofToken, "any", IpBurst) = Tokens(ofTokenKept, "any", IpBurst)
    BY SameTokens DEF LimitsInv
  <2>4. \A p \in Procedures : Tokens(ofUser, p, Burst) = Tokens(ofUserKept, p, Burst)
    BY SameTokens DEF LimitsInv
  <2> QED
    BY <2>1, <2>2, <2>3, <2>4 DEF ForgettingIsInvisible
<1> QED
  BY <1>1, <1>2, <1>3, PTL DEF Spec

(* The cache of positions has at most MaxSize, none from the future.         *)
CachesInv ==
  /\ clock \in Nat /\ entries \in [Travellers -> Nat \cup {Absent}]
  /\ \A u \in Travellers : entries[u] <= clock
  /\ Cardinality(Kept(entries)) <= MaxSize

(* Who is in the cache after some are forgotten and one is written.          *)
LEMMA KeptAfter ==
  ASSUME NEW e \in [Travellers -> Nat \cup {Absent}], NEW S \in SUBSET Travellers, clock \in Nat,
         NEW u \in Travellers
  PROVE  LET e2 == [Forget(e, S) EXCEPT ![u] = clock]
         IN /\ e2 \in [Travellers -> Nat \cup {Absent}]
            /\ Kept(e2) = (Kept(e) \ S) \cup {u}
            /\ e2[u] = clock /\ \A v \in Kept(e) \ S : v # u => e2[v] = e[v]
<1> DEFINE e2 == [Forget(e, S) EXCEPT ![u] = clock]
<1>1. \A v \in Travellers : e2[v] = IF v = u THEN clock ELSE IF v \in S THEN Absent ELSE e[v]
  BY DEF Forget
<1>2. e2 \in [Travellers -> Nat \cup {Absent}]
  BY DEF Forget
<1>3. Kept(e2) = (Kept(e) \ S) \cup {u}
  BY <1>1 DEF Kept, Absent
<1>4. \A v \in Kept(e) \ S : v # u => e2[v] = e[v]
  BY <1>1 DEF Kept
<1> QED
  BY <1>1, <1>2, <1>3, <1>4

(* A write loses the stale, or if none is, the oldest.                       *)
LEMMA SetStep ==
  ASSUME CachesInv, NEW u \in Travellers, Set(u)
  PROVE  LosesOldest /\ CachesInv'
<1> USE CachesAssumption
<1> DEFINE K == Kept(entries)
           L == K \ Kept(entries')
<1>1. /\ IsFiniteSet(K) /\ IsFiniteSet(Travellers) /\ Cardinality(K) \in Nat /\ K \subseteq Travellers
      /\ clock \in Nat /\ clock' = clock /\ MaxSize \in Nat \ {0}
  BY FS_Subset, FS_CardinalityType DEF Kept, CachesInv, Set
<1>2. \A v \in K : entries[v] \in Nat /\ entries[v] <= clock
  BY DEF Kept, CachesInv
<1>3. SUFFICES ASSUME NEW S \in SUBSET K,
                      entries' = [Forget(entries, S) EXCEPT ![u] = clock],
                      Cardinality((K \ S) \cup {u}) <= MaxSize,
                      \A v \in S, w \in K \ S : entries[v] <= entries[w],
                      (\A v \in S : Get(v) = Absent)
                        \/ /\ Cardinality(K) - Cardinality(Stale(entries)) >= MaxSize
                           /\ 2 * Cardinality((K \ S) \cup {u}) >= MaxSize
               PROVE  LosesOldest /\ CachesInv'
  <2>1. CASE entries[u] # Absent \/ Cardinality(K) < MaxSize
    <3>1. entries' = [entries EXCEPT ![u] = clock]
      <4>1. ~(entries[u] = Absent /\ Cardinality(K) >= MaxSize)
        BY <1>1, <2>1
      <4> QED
        BY <4>1 DEF Set
    <3>2. entries = Forget(entries, {})
      BY DEF Forget, CachesInv
    <3>3. Cardinality(K \cup {u}) <= MaxSize
      <4>1. CASE u \in K
        <5>1. K \cup {u} = K
          BY <4>1
        <5> QED
          BY <5>1 DEF CachesInv
      <4>2. CASE u \notin K
        <5>1. Cardinality(K \cup {u}) = Cardinality(K) + 1
          BY <1>1, <4>2, FS_AddElement
        <5> QED
          BY <1>1, <2>1, <4>2, <5>1 DEF Kept
      <4> QED
        BY <4>1, <4>2
    <3>4. (K \ {}) \cup {u} = K \cup {u}
      OBVIOUS
    <3> QED
      BY <1>3, <3>1, <3>2, <3>3, <3>4
  <2>2. CASE entries[u] = Absent /\ Cardinality(K) >= MaxSize
    <3> DEFINE old == Stale(entries)
               fresh == Forget(entries, old)
    <3>1. Cardinality(K) = MaxSize /\ u \notin K /\ old \in SUBSET K
      BY <1>1, <2>2 DEF CachesInv, Kept, Stale
    <3>2. Kept(fresh) = K \ old
      BY <3>1 DEF Forget, Kept, Absent
    <3>3. IsFiniteSet(K \ old) /\ Cardinality(K \ old) \in Nat /\ IsFiniteSet(old) /\ Cardinality(old) \in Nat
      BY <1>1, <3>1, FS_Subset, FS_CardinalityType
    <3>4. PICK e \in Evicted : entries' = [e EXCEPT ![u] = clock]
      BY <1>1, <2>2 DEF Set
    <3>5. CASE Cardinality(K \ old) < MaxSize
      <4>1. entries' = [fresh EXCEPT ![u] = clock]
        BY <3>2, <3>4, <3>5 DEF Evicted
      <4>2. Cardinality((K \ old) \cup {u}) = Cardinality(K \ old) + 1
        BY <3>1, <3>3, FS_AddElement
      <4>3. Cardinality((K \ old) \cup {u}) <= MaxSize
        BY <3>3, <3>5, <4>2, <1>1
      <4>4. \A v \in old, w \in K \ old : entries[v] <= entries[w]
        BY <1>1, <1>2, <3>1 DEF Stale
      <4>5. \A v \in old : Get(v) = Absent
        BY DEF Stale, Get
      <4> QED
        BY <1>3, <3>1, <4>1, <4>3, <4>4, <4>5
    <3>6. CASE Cardinality(K \ old) >= MaxSize
      <4>1. old = {}
        <5> SUFFICES ASSUME old # {} PROVE FALSE
          OBVIOUS
        <5>1. PICK x \in old : TRUE
          OBVIOUS
        <5>2. K \ old \subseteq K \ {x} /\ x \in K
          BY <3>1, <5>1
        <5>3. Cardinality(K \ {x}) = Cardinality(K) - 1 /\ IsFiniteSet(K \ {x})
          BY <1>1, <5>2, FS_RemoveElement
        <5>4. Cardinality(K \ old) <= Cardinality(K \ {x})
          BY <5>2, <5>3, FS_Subset
        <5> QED
          BY <1>1, <3>1, <3>3, <3>6, <5>3, <5>4
      <4>2. fresh = entries /\ Kept(fresh) = K
        BY <4>1 DEF Forget, CachesInv
      <4> DEFINE size == IF Cardinality(K) \div 2 = 0 THEN 1 ELSE Cardinality(K) \div 2
      <4>3. PICK S \in Halves(entries) : e = Forget(entries, S)
        <5>1. Evicted = {Forget(entries, S) : S \in Halves(entries)}
          <6>1. ~(Cardinality(K \ old) < MaxSize)
            BY <1>1, <3>3, <3>6
          <6> QED
            BY <3>2, <4>2, <6>1 DEF Evicted
        <5> QED
          BY <3>4, <5>1
      <4>4. S \in SUBSET K /\ Cardinality(S) = size /\ \A v \in S, w \in K \ S : entries[v] <= entries[w]
        BY <4>3 DEF Halves
      <4>5. IsFiniteSet(S) /\ Cardinality(K \ S) = Cardinality(K) - Cardinality(S) /\ IsFiniteSet(K \ S)
        <5>1. K \cap S = S
          BY <4>4
        <5> QED
          <6>1. IsFiniteSet(S)
            BY <1>1, <4>4, FS_Subset
          <6>2. IsFiniteSet(K \ S) /\ Cardinality(K \ S) = Cardinality(K) - Cardinality(K \cap S)
            BY <1>1, FS_Difference
          <6> QED
            BY <5>1, <6>1, <6>2
      <4>6. Cardinality((K \ S) \cup {u}) = MaxSize - size + 1
        BY ZenonT(30), <3>1, <4>4, <4>5, FS_AddElement
      <4>7. size >= 1 /\ 2 * (MaxSize - size + 1) >= MaxSize /\ size \in Nat
        BY <1>1, <3>1
      <4>8. Cardinality(K) - Cardinality(old) >= MaxSize
        BY <3>1, <4>1, FS_EmptySet
      <4> HIDE DEF size
      <4>9. /\ Cardinality((K \ S) \cup {u}) <= MaxSize
            /\ 2 * Cardinality((K \ S) \cup {u}) >= MaxSize
        BY <1>1, <4>6, <4>7
      <4> QED
        BY <1>3, <3>4, <4>3, <4>4, <4>8, <4>9
    <3> QED
      BY <1>1, <3>3, <3>5, <3>6
  <2> QED
    BY <1>1, <2>1, <2>2
<1>4. /\ entries' \in [Travellers -> Nat \cup {Absent}]
      /\ Kept(entries') = (K \ S) \cup {u}
      /\ entries'[u] = clock /\ \A v \in K \ S : v # u => entries'[v] = entries[v]
  BY <1>1, <1>3, KeptAfter DEF CachesInv
<1>5. \A v \in Travellers : entries'[v] <= clock
  BY <1>1, <1>2, <1>4 DEF Kept, Absent
<1>6. CachesInv'
  <2>1. Kept(entries)' = Kept(entries')
    BY DEF Kept
  <2> QED
    BY <1>1, <1>3, <1>4, <1>5, <2>1 DEF CachesInv
<1>7. L \subseteq S
  BY <1>4
<1>8. \A v \in L, w \in Kept(entries') : entries[v] <= entries'[w]
  BY <1>1, <1>2, <1>3, <1>4, <1>7
<1> QED
  BY <1>3, <1>4, <1>6, <1>7, <1>8 DEF LosesOldest

(* Other steps lose only what they were asked to.                            *)
LEMMA CachesStep ==
  ASSUME CachesInv, [CachesNext]_cacheVars
  PROVE  LosesOldest /\ CachesInv'
<1>1. ASSUME NEW u \in Travellers, Set(u) PROVE LosesOldest /\ CachesInv'
  BY <1>1, SetStep
<1>2. ASSUME UNCHANGED entries, clock' \in Nat, clock' >= clock PROVE LosesOldest /\ CachesInv'
  <2>1. CachesInv'
    BY <1>2 DEF CachesInv, Kept, Absent
  <2> QED
    BY <1>2, <2>1 DEF CachesInv, LosesOldest, Kept
<1>3. \/ \E u \in Travellers : Set(u)
      \/ UNCHANGED entries /\ clock' \in Nat /\ clock' >= clock
  BY DEF CachesNext, CacheTick, Miss, FailLookup, Found, cacheVars, CachesInv
<1> QED
  BY <1>1, <1>2, <1>3

(* CachesInv holds always.                                                   *)
LEMMA CachesAlways == Spec => []CachesInv
<1>1. Init => CachesInv
  <2> SUFFICES ASSUME CachesInit PROVE CachesInv
    BY DEF Init
  <2>1. Kept(entries) = {}
    BY DEF CachesInit, Kept
  <2> QED
    BY <2>1, FS_EmptySet, CachesAssumption DEF CachesInit, CachesInv, Absent
<1>2. CachesInv /\ [Next]_vars => CachesInv'
  BY OneServiceSteps, CachesStep
<1> QED
  BY <1>1, <1>2, PTL DEF Spec

(* Whatever is forgotten to stay small, for every limit, window, burst and   *)
(* size: the clean-ups of the limiters change no answer                      *)
(* (ratelimit/authlimiter.go:125, restlimiter.go:95, ratelimit.go:159), and  *)
(* a full cache of positions loses no newer one than it keeps, and none a    *)
(* chat would use while it holds a stale one (location/cache.go:120).        *)
THEOREM ForgettingIsSafeHolds == Spec => ForgettingIsSafe
<1>1. ForgettingIsInvisible' /\ LosesOldest => [ForgettingIsInvisible' /\ LosesOldest]_vars
  OBVIOUS
<1>2. CachesInv /\ [Next]_vars => LosesOldest
  BY OneServiceSteps, CachesStep
<1> QED
  BY <1>1, <1>2, CachesAlways, LimitsAlways, PTL DEF Spec, ForgettingIsSafe

(***********************  the bursts the limiters let through  ******************)
(* What the open windows have had: of the quota now running, all it counts,  *)
(* and at most one whole quota of the one before; of failed logins likewise, *)
(* where a block is charged with what was pending when it began.  A record   *)
(* whose window is over has not been used in this instant.                   *)
Open(t) == t <= now /\ now <= t + LimitWindow
NothingYet(h) == \A t \in Times : t > now => h[t] = 0

Group == MaxFailures + MaxPending - 1

\* A block that ends just as its window does can be renewed by one failure.
GroupStart == IF authKept.failures > MaxFailures THEN authKept.blockedAt ELSE authKept.firstFail
Charge == IF Blocked(authKept) THEN Group - pending
          ELSE IF authKept.failures >= MaxFailures THEN Group ELSE authKept.failures

BlockOK ==
  /\ authKept.blockedAt # Never <=> authKept.failures >= MaxFailures
  /\ authKept.failures > MaxFailures => authKept.blockedAt = authKept.firstFail + LimitWindow
  /\ Blocked(authKept) => pending <= MaxPending - 1

\* The next failure begins a group: the window is over, or ends with its block.
Fresh(r) ==
  LET edge == r.firstFail + LimitWindow IN now > edge \/ (now = edge /\ r.failures >= MaxFailures)

LoginBursts ==
  /\ failuresFrom \in [Times -> Nat] /\ NothingYet(failuresFrom)
  /\ pending \in 0 .. MaxPending /\ BlockOK
  /\ authKept = NoAuth => \A t \in Times : failuresFrom[t] = 0
  /\ ~Blocked(authKept) /\ Fresh(authKept) => failuresFrom[now] = 0
  /\ \A t \in Times : /\ failuresFrom[t] <= 2 * Group
                      /\ Open(t) => failuresFrom[t] <= Charge + (IF t >= GroupStart THEN 0 ELSE Group)

QuotaBursts ==
  /\ allowedFrom \in [Times -> Nat] /\ NothingYet(allowedFrom)
  /\ restKept.count <= MaxRequests
  /\ restKept = NoRest => \A t \in Times : allowedFrom[t] = 0
  /\ now > restKept.windowStart + LimitWindow => allowedFrom[now] = 0
  /\ \A t \in Times : /\ allowedFrom[t] <= 2 * MaxRequests
                      /\ Open(t) => allowedFrom[t] <= restKept.count + (IF t >= restKept.windowStart THEN 0 ELSE MaxRequests)

UserBursts ==
  /\ grantedFrom \in [Procedures -> [Times -> Nat]]
  /\ \A p \in Procedures : /\ NothingYet(grantedFrom[p])
                           /\ \A t \in Times : /\ grantedFrom[p][t] <= Burst + LimitWindow
                                               /\ Open(t) => grantedFrom[p][t] + Tokens(ofUserKept, p, Burst) <= Burst + (now - t)

BurstInv == LoginBursts /\ QuotaBursts /\ UserBursts

(* Counting one more in every window that is open.                           *)
LEMMA OneMoreOf ==
  ASSUME NEW h \in [Times -> Nat], now \in Times
  PROVE  /\ OneMore(h) \in [Times -> Nat]
         /\ NothingYet(h) => NothingYet(OneMore(h))
         /\ \A t \in Times : OneMore(h)[t] = IF Open(t) THEN h[t] + 1 ELSE h[t]
BY RateLimitsAssumption DEF OneMore, Times, Open, NothingYet

(* A window of the observer meets at most two of the quota's.                *)
LEMMA QuotaStep ==
  ASSUME LimitsInv, QuotaBursts, Allow \/ Tick
  PROVE  QuotaBursts'
<1> USE RateLimitsAssumption
<1> DEFINE old == restKept.windowStart
<1>1. /\ now \in Nat /\ now \in Times /\ restKept.count \in Nat /\ old \in Int /\ old <= now /\ LimitWindow \in Nat \ {0}
      /\ MaxRequests \in Nat \ {0}
      /\ \A t \in Times : allowedFrom[t] \in Nat /\ t \in Nat
      /\ restKept = NoRest => restKept.count = 0 /\ old = Never
  BY DEF LimitsInv, RestInv, RestRecordOK, Times, Stamps, Never, QuotaBursts, NoRest
<1>2. CASE Allow
  <2>1. now' = now /\ restKept' = Counted(restKept) /\ allowedFrom' = IF Permits(restKept) THEN OneMore(allowedFrom) ELSE allowedFrom
    BY <1>2 DEF Allow, LimitsInv, RestInv, RestAgrees, Permits
  <2>2. CASE restKept = NoRest \/ now > old + LimitWindow
    <3>1. restKept'.count = 1 /\ restKept'.windowStart = now /\ restKept' # NoRest
      BY <1>1, <2>1, <2>2 DEF Counted, NoRest
    <3>2. allowedFrom' = OneMore(allowedFrom)
      BY <2>1, <2>2 DEF Permits
    <3>3. /\ allowedFrom' \in [Times -> Nat] /\ NothingYet(allowedFrom')
          /\ \A t \in Times : allowedFrom'[t] = IF Open(t) THEN allowedFrom[t] + 1 ELSE allowedFrom[t]
      BY <1>1, <3>2, OneMoreOf DEF QuotaBursts
    <3>4. allowedFrom[now] = 0
      BY <1>1, <2>2 DEF QuotaBursts
    <3>5. ASSUME NEW t \in Times, Open(t) PROVE allowedFrom[t] <= MaxRequests
      BY <1>1, <2>2, <3>5 DEF QuotaBursts, Open
    <3>6. \A t \in Times : Open(t) => allowedFrom'[t] <= 1 + (IF t >= now THEN 0 ELSE MaxRequests)
      BY <1>1, <3>3, <3>4, <3>5 DEF Open
    <3>7. \A t \in Times : allowedFrom'[t] <= 2 * MaxRequests
      BY <1>1, <3>3, <3>5 DEF QuotaBursts
    <3>8. (now > restKept.windowStart + LimitWindow)' => FALSE
      BY <1>1, <2>1, <3>1
    <3> QED
      BY <1>1, <2>1, <3>1, <3>3, <3>6, <3>7, <3>8 DEF QuotaBursts, Open, NothingYet
  <2>3. CASE ~(restKept = NoRest \/ now > old + LimitWindow) /\ restKept.count < MaxRequests
    <3>1. restKept'.count = restKept.count + 1 /\ restKept'.windowStart = old /\ restKept' # NoRest
      BY <1>1, <2>1, <2>3 DEF Counted, NoRest, LimitsInv, RestInv, RestRecordOK
    <3>2. allowedFrom' = OneMore(allowedFrom)
      BY <2>1, <2>3 DEF Permits
    <3>3. /\ allowedFrom' \in [Times -> Nat] /\ NothingYet(allowedFrom')
          /\ \A t \in Times : allowedFrom'[t] = IF Open(t) THEN allowedFrom[t] + 1 ELSE allowedFrom[t]
      BY <1>1, <3>2, OneMoreOf DEF QuotaBursts
    <3>4. \A t \in Times : Open(t) => allowedFrom'[t] <= restKept.count + 1 + (IF t >= old THEN 0 ELSE MaxRequests)
      BY <1>1, <3>3 DEF QuotaBursts
    <3>5. \A t \in Times : allowedFrom'[t] <= 2 * MaxRequests
      BY <1>1, <2>3, <3>3 DEF QuotaBursts
    <3> QED
      BY <1>1, <2>1, <2>3, <3>1, <3>3, <3>4, <3>5 DEF QuotaBursts, Open, NothingYet
  <2>4. CASE ~(restKept = NoRest \/ now > old + LimitWindow) /\ ~(restKept.count < MaxRequests)
    <3>1. restKept' = restKept /\ allowedFrom' = allowedFrom
      BY <1>1, <2>1, <2>4 DEF Counted, Permits, LimitsInv, RestInv, RestRecordOK
    <3> QED
      BY <2>1, <3>1 DEF QuotaBursts, Open, NothingYet
  <2> QED
    BY <2>2, <2>3, <2>4
<1>3. CASE Tick
  <2>1. now' = now + 1 /\ now' \in Times /\ UNCHANGED <<restKept, allowedFrom>>
    BY <1>1, <1>3 DEF Tick, restVars, hits, Times
  <2>2. allowedFrom[now'] = 0
    BY <1>1, <2>1 DEF QuotaBursts, NothingYet
  <2>3. \A t \in Times : Open(t)' => Open(t) \/ t = now'
    BY <1>1, <2>1 DEF Open
  <2> QED
    BY <1>1, <2>1, <2>2, <2>3 DEF QuotaBursts, NothingYet
<1> QED
  BY <1>2, <1>3

(* The buckets: what was granted and what is left came in since.             *)
LEMMA UserStep ==
  ASSUME LimitsInv, UserBursts, BucketNext
  PROVE  UserBursts'
<1> USE RateLimitsAssumption
<1> DEFINE T(p) == Tokens(ofUserKept, p, Burst)
<1>1. /\ now \in Nat /\ now \in Times /\ \A t \in Times : t \in Nat
      /\ EntryInv(ofUser, ofUserKept, Procedures, Burst)
      /\ EntryOK(ofUser, Procedures, Burst) /\ EntryOK(ofUserKept, Procedures, Burst)
  BY DEF LimitsInv, Times, EntryInv
<1>2. ASSUME NEW p \in Procedures PROVE T(p) \in 0 .. Burst /\ grantedFrom[p] \in [Times -> Nat]
  BY <1>1, TokensOf DEF UserBursts
<1>3. ASSUME UNCHANGED <<now, ofUserKept, grantedFrom>> PROVE UserBursts'
  BY <1>3 DEF UserBursts, NothingYet, Open, Tokens
<1>4. ASSUME NEW p \in Procedures, Request(p) PROVE UserBursts'
  <2>1. CASE ~Grants(ofToken, "any", IpBurst)
    BY <1>3, <1>4, <2>1 DEF Request
  <2>2. CASE Grants(ofToken, "any", IpBurst) /\ Grants(ofUser, p, Burst)
    <3>1. /\ now' = now /\ ofUserKept' = Taken(ofUserKept, p, Burst)
          /\ grantedFrom' = [grantedFrom EXCEPT ![p] = OneMore(@)]
      BY <1>4, <2>2 DEF Request, CheckUser
    <3>2. T(p) >= 1 /\ T(p) \in Nat
      BY <1>1, <1>2, <2>2, SameTokens DEF Grants
    <3>3. /\ grantedFrom' \in [Procedures -> [Times -> Nat]]
          /\ NothingYet(grantedFrom'[p])
          /\ \A t \in Times : grantedFrom'[p][t] = IF Open(t) THEN grantedFrom[p][t] + 1 ELSE grantedFrom[p][t]
          /\ \A q \in Procedures \ {p} : grantedFrom'[q] = grantedFrom[q]
      BY <1>1, <1>2, <3>1, OneMoreOf DEF UserBursts
    <3>4. T(p)' = T(p) - 1
      <4>1. /\ ofUserKept'.tokens = [ofUserKept.tokens EXCEPT ![p] = T(p) - 1]
            /\ ofUserKept'.last = [ofUserKept.last EXCEPT ![p] = now]
        BY <3>1, <3>2 DEF Taken, Grants
      <4>2. /\ ofUserKept'.tokens[p] = T(p) - 1 /\ ofUserKept'.last[p] = now
        BY <1>1, <4>1 DEF EntryOK
      <4>3. T(p)' = Min({Burst, T(p) - 1 + (now - now)})
        BY <3>1, <4>2 DEF Tokens
      <4>4. T(p) - 1 + (now - now) \in Int /\ T(p) - 1 + (now - now) = T(p) - 1 /\ T(p) - 1 < Burst
        BY <1>1, <1>2, <3>2
      <4> QED
        BY <1>1, <1>2, <4>3, <4>4, MinOfTwo
    <3>5. ASSUME NEW q \in Procedures, q # p PROVE T(q)' = T(q)
      BY <1>1, <3>1, <3>2, <3>5 DEF Taken, Grants, Tokens, EntryOK
    <3>6. ASSUME NEW q \in Procedures, NEW t \in Times
          PROVE  /\ grantedFrom'[q][t] <= Burst + LimitWindow
                 /\ Open(t) => grantedFrom'[q][t] + T(q)' <= Burst + (now - t)
      <4>1. CASE q # p
        BY <3>3, <3>5, <4>1 DEF UserBursts
      <4>2. CASE q = p
        BY <1>1, <1>2, <3>2, <3>3, <3>4, <4>2 DEF UserBursts, Open
      <4> QED
        BY <4>1, <4>2
    <3>7. ASSUME NEW q \in Procedures PROVE NothingYet(grantedFrom'[q])
      BY <3>3 DEF UserBursts
    <3> QED
      BY <3>1, <3>3, <3>6, <3>7 DEF UserBursts, Open, NothingYet
  <2>3. CASE Grants(ofToken, "any", IpBurst) /\ ~Grants(ofUser, p, Burst)
    <3>1. now' = now /\ grantedFrom' = grantedFrom /\ ofUserKept' = [ofUserKept EXCEPT !.lastSeen = now]
      BY <1>1, <1>4, <2>3, SameTokens DEF Request, CheckUser, Taken, Grants
    <3>2. ASSUME NEW q \in Procedures PROVE T(q)' = T(q)
      BY <1>1, <3>1 DEF Tokens, EntryOK
    <3> QED
      BY <3>1, <3>2 DEF UserBursts, Open, NothingYet
  <2> QED
    BY <2>1, <2>2, <2>3
<1>5. CASE RenewToken \/ EvictIp \/ EvictUser
  BY <1>3, <1>5 DEF RenewToken, EvictIp, EvictUser, hits
<1>6. CASE Tick
  <2>1. now' = now + 1 /\ now' \in Times /\ UNCHANGED <<ofUserKept, grantedFrom>>
    BY <1>1, <1>6 DEF Tick, bucketVars, hits, Times
  <2>2. ASSUME NEW p \in Procedures PROVE T(p)' \in Nat /\ T(p)' <= T(p) + 1 /\ T(p)' <= Burst
    <3>1. ofUserKept.tokens[p] \in Nat /\ ofUserKept.last[p] \in Nat /\ ofUserKept.last[p] <= now
      BY <1>1 DEF EntryOK, Times
    <3>2. T(p)' = IF Burst <= ofUserKept.tokens[p] + (now' - ofUserKept.last[p]) THEN Burst
                  ELSE ofUserKept.tokens[p] + (now' - ofUserKept.last[p])
      <4>1. T(p)' = Min({Burst, ofUserKept.tokens[p] + (now' - ofUserKept.last[p])})
        BY <2>1 DEF Tokens
      <4>2. ofUserKept.tokens[p] + (now' - ofUserKept.last[p]) \in Int
        BY <1>1, <2>1, <3>1
      <4> QED
        BY <4>1, <4>2, MinOfTwo
    <3>3. T(p) = IF Burst <= ofUserKept.tokens[p] + (now - ofUserKept.last[p]) THEN Burst
                 ELSE ofUserKept.tokens[p] + (now - ofUserKept.last[p])
      BY <1>1, TokensOf
    <3> HIDE DEF T
    <3> QED
      BY <1>1, <2>1, <3>1, <3>2, <3>3
  <2>3. ASSUME NEW p \in Procedures, NEW t \in Times, Open(t)'
        PROVE  grantedFrom[p][t] + T(p)' <= Burst + (now' - t)
    <3>1. CASE t = now'
      <4>1. grantedFrom[p][t] = 0
        BY <1>1, <2>1, <3>1 DEF UserBursts, NothingYet
      <4> QED
        BY <1>1, <2>2, <3>1, <4>1
    <3>2. CASE t # now'
      <4>1. Open(t)
        BY <1>1, <2>1, <2>3, <3>2 DEF Open
      <4> HIDE DEF T
      <4>2. grantedFrom[p][t] + T(p) <= Burst + (now - t)
        BY <4>1 DEF UserBursts, T
      <4> QED
        BY <1>1, <1>2, <2>1, <2>2, <4>2
    <3> QED
      BY <3>1, <3>2
  <2> QED
    BY <1>1, <2>1, <2>3 DEF UserBursts, NothingYet
<1> QED
  BY <1>4, <1>5, <1>6 DEF BucketNext

(* The windows of the logins, likewise.                                      *)
LEMMA LoginStep ==
  ASSUME LimitsInv, LoginBursts, AuthNext
  PROVE  LoginBursts'
<1> USE RateLimitsAssumption
<1> DEFINE first == authKept.firstFail
           block == authKept.blockedAt
           n == authKept.failures
           edge == first + LimitWindow
<1>1. /\ now \in Nat /\ now \in Times /\ n \in Nat /\ first \in Int /\ first <= now
      /\ block # Never => block \in Nat /\ first >= 0 /\ first <= block /\ block <= now
      /\ authKept = NoAuth => n = 0 /\ block = Never
      /\ authKept \in [failures : Nat, firstFail : Stamps, blockedAt : Stamps]
  <2>1. /\ now \in Times /\ authKept \in [failures : Nat, firstFail : Stamps, blockedAt : Stamps]
        /\ authKept # NoAuth => first \in 0 .. now
        /\ block # Never => block \in first .. now
    BY DEF LimitsInv, AuthInv, AuthRecordOK
  <2>2. NoAuth.failures = 0 /\ NoAuth.blockedAt = Never /\ NoAuth.firstFail = Never /\ Never = -1
    BY DEF NoAuth, Never
  <2>3. first \in Stamps /\ block \in Stamps /\ n \in Nat
    BY <2>1
  <2>4. CASE authKept = NoAuth
    BY <2>1, <2>2, <2>4 DEF Times
  <2>5. CASE authKept # NoAuth
    BY <2>1, <2>3, <2>5 DEF Times
  <2> QED
    BY <2>4, <2>5
<1>2. /\ pending \in Nat /\ pending <= MaxPending /\ \A t \in Times : t \in Nat /\ failuresFrom[t] \in Nat
      /\ MaxFailures \in Nat \ {0, 1} /\ MaxPending \in Nat /\ LimitWindow \in Nat \ {0} /\ BlockFor \in Nat /\ BlockFor >= LimitWindow
      /\ Never = -1 /\ Group \in Nat /\ Group = MaxFailures + MaxPending - 1
  BY DEF LoginBursts, Never, Group, Times
<1>3. Blocked(authKept) <=> block # Never /\ now < block + BlockFor
  BY DEF Blocked
<1>4. BlockOK /\ Blocked(auth) = Blocked(authKept)
  BY DEF LoginBursts, LimitsInv, AuthInv, AuthAgrees, Blocked, NoAuth
<1>5. /\ Charge \in 0 .. Group
      /\ GroupStart \in Int
  BY <1>1, <1>2, <1>3, <1>4 DEF Charge, GroupStart, BlockOK
<1>6. ASSUME now' = now, UNCHANGED <<failuresFrom, authKept>>, pending' \in 0 .. MaxPending,
             Blocked(authKept) => pending' = pending
      PROVE  LoginBursts'
  BY <1>6, <1>4 DEF LoginBursts, NothingYet, Open, BlockOK, Charge, GroupStart, Blocked, Fresh
<1>7. CASE BeginLogin
  BY <1>2, <1>4, <1>6, <1>7 DEF BeginLogin, hits
<1>8. CASE CleanAuth
  BY <1>2, <1>6, <1>8 DEF CleanAuth, hits
<1>9. CASE PassLogin
  <2>1. /\ now' = now /\ authKept' = NoAuth /\ \A t \in Times : failuresFrom'[t] = 0
        /\ failuresFrom' \in [Times -> Nat] /\ pending' \in 0 .. MaxPending
    BY <1>2, <1>9 DEF PassLogin, NoHits
  <2>2. NoAuth.failures = 0 /\ NoAuth.blockedAt = Never /\ NoAuth.firstFail = Never
    BY DEF NoAuth
  <2>3. ~Blocked(authKept)' /\ Charge' = 0 /\ BlockOK'
    BY <1>2, <2>1, <2>2 DEF Blocked, Charge, BlockOK
  <2> QED
    BY <1>1, <1>2, <2>1, <2>2, <2>3 DEF LoginBursts, NothingYet
<1>10. CASE Tick
  <2>1. now' = now + 1 /\ now' \in Times /\ UNCHANGED <<authKept, pending, failuresFrom>>
    BY <1>1, <1>10 DEF Tick, authVars, hits, Times
  <2>2. failuresFrom[now'] = 0
    BY <1>1, <2>1 DEF LoginBursts, NothingYet
  <2>3. \A t \in Times : Open(t)' => Open(t) \/ t = now'
    BY <1>1, <1>2, <2>1 DEF Open
  <2>4. Blocked(authKept)' => Blocked(authKept)
    BY <1>1, <1>2, <2>1 DEF Blocked
  <2>5. Charge' \in Nat /\ Charge' >= Charge /\ GroupStart' = GroupStart
    BY <1>1, <1>2, <1>4, <2>1, <2>4 DEF Charge, GroupStart, BlockOK, Blocked
  <2>6. BlockOK'
    BY <1>4, <2>1, <2>4 DEF BlockOK
  <2>7. ASSUME NEW t \in Times, Open(t)'
        PROVE  failuresFrom[t] <= Charge' + (IF t >= GroupStart' THEN 0 ELSE Group)
    BY <1>2, <1>5, <2>2, <2>3, <2>5, <2>7 DEF LoginBursts
  <2> QED
    BY <1>1, <1>2, <2>1, <2>2, <2>6, <2>7 DEF LoginBursts, NothingYet
<1>11. CASE FailLogin
  <2>1. /\ now' = now /\ pending > 0 /\ pending' = pending - 1 /\ pending' \in 0 .. MaxPending
        /\ authKept' = Failure(authKept) /\ failuresFrom' = OneMore(failuresFrom)
    BY <1>2, <1>11 DEF FailLogin
  <2>2. /\ failuresFrom' \in [Times -> Nat] /\ NothingYet(failuresFrom)'
        /\ \A t \in Times : failuresFrom'[t] = IF Open(t) THEN failuresFrom[t] + 1 ELSE failuresFrom[t]
    BY <1>1, <2>1, OneMoreOf DEF LoginBursts, NothingYet
  <2>3. \A t \in Times : Open(t) => failuresFrom[t] <= Charge + (IF t >= GroupStart THEN 0 ELSE Group)
    BY DEF LoginBursts
  <2>4. SUFFICES /\ BlockOK' /\ authKept' # NoAuth /\ Charge' \in 0 .. Group
                 /\ ~Blocked(authKept)' => ~Fresh(authKept')
                 /\ \A t \in Times : Open(t) => failuresFrom'[t] <= Charge' + (IF t >= GroupStart' THEN 0 ELSE Group)
    <3>1. ASSUME NEW t \in Times PROVE failuresFrom'[t] <= 2 * Group
      BY <1>2, <2>2, <2>4 DEF LoginBursts
    <3> QED
      BY <2>1, <2>2, <2>4, <3>1 DEF LoginBursts, Open, Fresh
  \* A new record: what is open began within the group that is over.
  <2>5. CASE authKept = NoAuth \/ (~Blocked(authKept) /\ now > edge)
    <3>1. authKept' = [failures |-> 1, firstFail |-> now, blockedAt |-> Never]
      BY <2>1, <2>5 DEF Failure
    <3>2. authKept'.failures = 1 /\ authKept'.firstFail = now /\ authKept'.blockedAt = Never /\ authKept' # NoAuth
      BY <3>1 DEF NoAuth
    <3>3. ~Blocked(authKept)' /\ BlockOK' /\ Charge' = 1 /\ GroupStart' = now /\ ~Fresh(authKept')
      BY <1>1, <1>2, <2>1, <3>2 DEF Blocked, BlockOK, Charge, GroupStart, Fresh
    <3>4. ASSUME NEW t \in Times, Open(t) PROVE failuresFrom[t] <= Group
      <4>1. CASE authKept = NoAuth
        BY <1>2, <4>1 DEF LoginBursts
      <4>2. CASE authKept # NoAuth /\ ~Blocked(authKept) /\ now > edge
        <5>1. t >= GroupStart
          BY <1>1, <1>2, <1>3, <1>4, <3>4, <4>2 DEF GroupStart, BlockOK, Open
        <5> QED
          BY <1>2, <1>5, <2>3, <3>4, <5>1
      <4> QED
        BY <2>5, <4>1, <4>2
    <3>5. failuresFrom[now] = 0
      BY <1>1, <1>2, <2>5 DEF LoginBursts, Fresh
    <3>6. ASSUME NEW t \in Times, Open(t)
          PROVE  failuresFrom'[t] <= 1 + (IF t >= now THEN 0 ELSE Group)
      BY <1>1, <1>2, <2>2, <3>4, <3>5, <3>6 DEF Open
    <3> QED
      BY <1>1, <1>2, <2>4, <3>2, <3>3, <3>6
  \* Pending logins fail during a block, which was charged with them.
  <2>6. CASE authKept # NoAuth /\ Blocked(authKept)
    <3>1. authKept' = authKept
      BY <2>1, <2>6 DEF Failure
    <3>2. Blocked(authKept)' /\ BlockOK' /\ Charge' = Charge + 1 /\ GroupStart' = GroupStart
      BY <1>2, <1>4, <2>1, <2>6, <3>1 DEF Blocked, BlockOK, Charge, GroupStart
    <3>3. Charge' \in 0 .. Group
      BY <1>2, <2>1, <2>6, <3>2 DEF Charge
    <3> QED
      BY <1>2, <1>5, <2>2, <2>3, <2>4, <2>6, <3>1, <3>2, <3>3
  <2>7. CASE authKept # NoAuth /\ ~Blocked(authKept) /\ ~(now > edge)
    <3> DEFINE stops == n + 1 >= MaxFailures
    <3>1. /\ authKept'.failures = n + 1 /\ authKept'.firstFail = first
          /\ authKept'.blockedAt = IF stops THEN now ELSE block
          /\ authKept' # NoAuth
      <4>1. authKept' = [authKept EXCEPT !.failures = @ + 1, !.blockedAt = IF stops THEN now ELSE @]
        BY <2>1, <2>7 DEF Failure
      <4>2. authKept'.failures = n + 1 /\ authKept'.firstFail = first
        BY <1>1, <4>1
      <4>3. authKept'.blockedAt = IF stops THEN now ELSE block
        BY <1>1, <4>1
      <4>4. authKept' # NoAuth
        BY <1>1, <4>2 DEF NoAuth
      <4> QED
        BY <4>2, <4>3, <4>4
    \* One more failure, which does not block.
    <3>2. CASE ~stops
      <4>1. block = Never /\ n < MaxFailures
        BY <1>1, <1>2, <1>4, <3>2 DEF BlockOK
      <4>2. ~Blocked(authKept)' /\ BlockOK' /\ Charge' = n + 1 /\ Charge = n /\ GroupStart' = GroupStart
        BY <1>1, <1>2, <2>7, <3>1, <3>2, <4>1 DEF Blocked, BlockOK, Charge, GroupStart
      <4>3. ~Fresh(authKept')
        BY <1>1, <1>2, <2>7, <3>1, <3>2 DEF Fresh
      <4> QED
        BY <1>1, <1>2, <2>2, <2>3, <2>4, <3>1, <3>2, <4>2, <4>3
    \* The failure that stops, of a record that was not blocked before.
    <3>3. CASE stops /\ n < MaxFailures
      <4>1. Blocked(authKept)' /\ BlockOK' /\ Charge = n /\ GroupStart' = GroupStart /\ Charge' = Group - (pending - 1)
        BY <1>1, <1>2, <1>4, <2>1, <2>7, <3>1, <3>3 DEF Blocked, BlockOK, Charge, GroupStart
      <4>2. Charge' >= Charge + 1 /\ Charge' \in 0 .. Group
        BY <1>1, <1>2, <2>1, <3>3, <4>1
      <4> QED
        BY <1>1, <1>2, <1>5, <2>2, <2>3, <2>4, <3>1, <4>1, <4>2
    \* The one that renews a block at the instant both it and its window end.
    <3>4. CASE n >= MaxFailures
      <4>1. block # Never /\ now = block + BlockFor /\ block = first /\ BlockFor = LimitWindow /\ n = MaxFailures
        BY <1>1, <1>2, <1>3, <1>4, <2>7, <3>4 DEF BlockOK
      <4>2. stops /\ now = edge
        BY <1>1, <1>2, <3>4, <4>1
      <4>3. /\ Blocked(authKept)' /\ BlockOK' /\ GroupStart' = now /\ Charge' = Group - (pending - 1)
            /\ Charge = Group /\ GroupStart = first
        BY <1>1, <1>2, <2>1, <2>7, <3>1, <4>1, <4>2 DEF Blocked, BlockOK, Charge, GroupStart
      <4>4. failuresFrom[now] = 0
        BY <1>1, <2>7, <3>4, <4>2 DEF LoginBursts, Fresh
      <4>5. ASSUME NEW t \in Times, Open(t) PROVE failuresFrom[t] <= Group /\ t <= now
        BY <1>1, <1>2, <2>3, <4>2, <4>3, <4>5 DEF Open
      <4>6. Charge' \in 1 .. Group
        BY <1>2, <2>1, <4>3
      <4>7. ASSUME NEW t \in Times, Open(t)
            PROVE  failuresFrom'[t] <= Charge' + (IF t >= GroupStart' THEN 0 ELSE Group)
        BY <1>1, <1>2, <2>2, <4>3, <4>4, <4>5, <4>6, <4>7
      <4> QED
        BY <2>4, <3>1, <4>3, <4>6, <4>7
    <3> QED
      BY <1>1, <1>2, <3>2, <3>3, <3>4
  <2> QED
    BY <2>5, <2>6, <2>7
<1> QED
  BY <1>7, <1>8, <1>9, <1>10, <1>11 DEF AuthNext

(* Every step of one limiter keeps the bursts of all.                        *)
LEMMA BurstStep ==
  ASSUME LimitsInv, BurstInv, [AuthNext \/ RestNext \/ BucketNext]_limitVars
  PROVE  BurstInv'
<1> USE DEF BurstInv
<1>1. ASSUME UNCHANGED <<now, authKept, pending, failuresFrom>> PROVE LoginBursts'
  BY <1>1 DEF LoginBursts, NothingYet, Open, BlockOK, Charge, GroupStart, Blocked, Fresh
<1>2. ASSUME UNCHANGED <<now, restKept, allowedFrom>> PROVE QuotaBursts'
  BY <1>2 DEF QuotaBursts, NothingYet, Open
<1>3. ASSUME UNCHANGED <<now, ofUserKept, grantedFrom>> PROVE UserBursts'
  BY <1>3 DEF UserBursts, NothingYet, Open, Tokens
<1>4. CASE Tick
  BY <1>4, LoginStep, QuotaStep, UserStep DEF AuthNext, BucketNext
<1>5. CASE BeginLogin \/ FailLogin \/ PassLogin \/ CleanAuth
  <2>1. UNCHANGED <<now, restKept, allowedFrom, ofUserKept, grantedFrom>>
    BY <1>5 DEF BeginLogin, FailLogin, PassLogin, CleanAuth, restVars, bucketVars, hits
  <2> QED
    BY <1>2, <1>3, <1>5, <2>1, LoginStep DEF AuthNext
<1>6. CASE Allow \/ EvictStale
  <2>1. UNCHANGED <<now, authKept, pending, failuresFrom, ofUserKept, grantedFrom>>
    BY <1>6 DEF Allow, EvictStale, authVars, bucketVars, hits
  <2>2. EvictStale => UNCHANGED <<restKept, allowedFrom>>
    BY DEF EvictStale, hits
  <2> QED
    BY <1>1, <1>2, <1>3, <1>6, <2>1, <2>2, QuotaStep
<1>7. CASE (\E p \in Procedures : Request(p)) \/ RenewToken \/ EvictIp \/ EvictUser
  <2>1. UNCHANGED <<now, authKept, pending, failuresFrom, restKept, allowedFrom>>
    BY <1>7 DEF Request, RenewToken, EvictIp, EvictUser, authVars, restVars, hits
  <2> QED
    BY <1>1, <1>2, <1>7, <2>1, UserStep DEF BucketNext
<1>8. CASE UNCHANGED limitVars
  BY <1>1, <1>2, <1>3, <1>8 DEF limitVars, authVars, restVars, bucketVars, hits
<1> QED
  BY <1>4, <1>5, <1>6, <1>7, <1>8 DEF AuthNext, RestNext, BucketNext

(* Nothing was granted yet.                                                  *)
LEMMA InitBurst == LimitInit => BurstInv
<1> USE RateLimitsAssumption
<1> SUFFICES ASSUME LimitInit PROVE BurstInv
  OBVIOUS
<1>1. /\ now = 0 /\ now \in Times /\ pending = 0
      /\ \A t \in Times : t \in Nat /\ NoHits[t] = 0
      /\ NoHits \in [Times -> Nat] /\ NothingYet(NoHits)
  BY DEF LimitInit, Times, NoHits, NothingYet
<1>2. /\ authKept = NoAuth /\ NoAuth.failures = 0 /\ NoAuth.blockedAt = Never /\ NoAuth.firstFail = Never
      /\ restKept = NoRest /\ NoRest.count = 0 /\ NoRest.windowStart = Never /\ Never = -1
  BY DEF LimitInit, NoAuth, NoRest, Never
<1>3. LoginBursts
  <2>1. /\ ~Blocked(authKept) /\ BlockOK /\ GroupStart = Never
        /\ Charge = 0
    BY <1>1, <1>2 DEF Blocked, BlockOK, GroupStart, Charge
  <2>2. Group \in Nat
    BY DEF Group
  <2> QED
    BY <1>1, <1>2, <2>1, <2>2 DEF LimitInit, LoginBursts
<1>4. QuotaBursts
  BY <1>1, <1>2 DEF LimitInit, QuotaBursts
<1>5. UserBursts
  <2>1. ofUserKept = NoUser /\ EntryOK(ofUserKept, Procedures, Burst)
    BY <1>1 DEF LimitInit, NoUser, NoEntry, EntryOK, Stamps, Times
  <2>2. ASSUME NEW p \in Procedures PROVE Tokens(ofUserKept, p, Burst) \in 0 .. Burst
    BY <1>1, <2>1, TokensOf
  <2>3. ASSUME NEW t \in Times, Open(t) PROVE t = 0
    BY <1>1, <2>3 DEF Open
  <2> QED
    BY <1>1, <2>2, <2>3 DEF LimitInit, UserBursts
<1> QED
  BY <1>3, <1>4, <1>5 DEF BurstInv

(* The types of the limiters, and that no stretch as long as a window lets   *)
(* more through than two windows' worth (authlimiter.go:50,                  *)
(* restlimiter.go:42, ratelimit.go:87).                                      *)
LEMMA BurstsAlways == Spec => [](LimitTypeOK /\ BurstsBounded)
<1> USE RateLimitsAssumption
<1>1. Init => LimitsInv /\ BurstInv
  BY InitLimits, InitBurst DEF Init
<1>2. LimitsInv /\ BurstInv /\ [Next]_vars => LimitsInv' /\ BurstInv'
  BY OneServiceSteps, LimitsStep, BurstStep
<1>3. ASSUME LimitsInv, BurstInv PROVE BurstsBounded
  BY <1>3 DEF BurstInv, LoginBursts, QuotaBursts, UserBursts, BurstsBounded, Group
<1>4. ASSUME LimitsInv, BurstInv PROVE LimitTypeOK
  <2>1. /\ now \in Times /\ pending \in 0 .. MaxPending
        /\ {failuresFrom, allowedFrom} \subseteq [Times -> Nat] /\ grantedFrom \in [Procedures -> [Times -> Nat]]
    BY <1>3, <1>4 DEF LimitsInv, BurstInv, LoginBursts, QuotaBursts, UserBursts
  <2>2. \A r \in {auth, authKept} : r.failures \in Nat /\ {r.firstFail, r.blockedAt} \subseteq Times \cup {Never}
    BY <1>4 DEF LimitsInv, AuthInv, AuthRecordOK, Stamps
  <2>3. \A r \in {rest, restKept} : r.count \in 0 .. MaxRequests /\ r.windowStart \in Times \cup {Never}
    <3>1. NoRest.count = 0
      BY DEF NoRest
    <3> QED
      BY <1>4, <3>1 DEF LimitsInv, BurstInv, QuotaBursts, RestInv, RestRecordOK, RestAgrees, Stamps
  <2>4. /\ \A e \in {ofToken, ofTokenKept} : EntryTypeOK(e, {"any"}, IpBurst)
        /\ \A e \in {ofUser, ofUserKept} : EntryTypeOK(e, Procedures, Burst)
    BY <1>4 DEF LimitsInv, EntryInv, EntryOK, EntryTypeOK, Stamps
  <2> QED
    BY <2>1, <2>2, <2>3, <2>4 DEF LimitTypeOK
<1> QED
  BY <1>1, <1>2, <1>3, <1>4, PTL DEF Spec

(***********************************  lists  ***********************************)
(* Induction over a list, by the least number at which something fails: the  *)
(* induction theorems of the library cannot be instantiated here.            *)
Less == {pair \in Nat \X Nat : pair[1] < pair[2]}

(* The library states well-foundedness of a relation on pairs.               *)
LEMMA LessIsWellFounded == IsWellFoundedOn(Less, Nat)
  BY NatLessThanWellFounded DEF OpToRel, Less

(* Any set of numbers has a least one.                                       *)
LEMMA LeastIn ==
  ASSUME NEW S \in SUBSET Nat, S # {}
  PROVE  \E i \in S : \A j \in S : i <= j
<1>1. PICK i \in S : \A j \in S : ~(<<j, i>> \in Less)
  BY LessIsWellFounded, WFMin
<1>2. \A j \in S : ~ (j < i)
  BY <1>1 DEF Less
<1> QED
  BY <1>2

(* What holds at 0 and at the next holds at all: induction, over a set.      *)
LEMMA AllOf ==
  ASSUME NEW n \in Nat, NEW S, 0 \in S, \A i \in 0 .. n - 1 : i \in S => i + 1 \in S
  PROVE  0 .. n \subseteq S
<1> DEFINE Out == {i \in 0 .. n : i \notin S}
<1>1. SUFFICES ASSUME Out # {} PROVE FALSE
  OBVIOUS
<1>a. Out \in SUBSET Nat
  OBVIOUS
<1>2. PICK i \in Out : \A j \in Out : i <= j
  <2> HIDE DEF Out
  <2> QED
    BY <1>1, <1>a, LeastIn
<1>3. i # 0 /\ i \in 0 .. n
  BY <1>2
<1>4. i - 1 \in 0 .. n - 1 /\ i - 1 \notin Out
  BY <1>2, <1>3
<1> QED
  BY <1>2, <1>3, <1>4


(* A recursion over a list: F has its steps, g what they make of a.          *)
StepsOf(m, X, F) == F \in [1 .. m -> [X -> X]]
Takes(m, X, a, F, g) == g \in [0 .. m -> X] /\ g[0] = a /\ \A i \in 1 .. m : g[i] = F[i][g[i - 1]]

(* There is a function that follows the steps.                               *)
LEMMA Recursion ==
  ASSUME NEW m \in Nat, NEW X, NEW a \in X, NEW F, StepsOf(m, X, F)
  PROVE  \E g : Takes(m, X, a, F, g)
<1> USE DEF StepsOf
<1> DEFINE Upto(n, g) == g[0] = a /\ \A i \in 1 .. n : g[i] = F[i][g[i - 1]]
           Some == {n \in 0 .. m : \E g \in [0 .. n -> X] : Upto(n, g)}
<1>1. 0 \in Some
  <2>1. [i \in 0 .. 0 |-> a] \in [0 .. 0 -> X] /\ Upto(0, [i \in 0 .. 0 |-> a])
    OBVIOUS
  <2> HIDE DEF Upto
  <2> QED
    BY <2>1
<1>2. ASSUME NEW n \in 0 .. m - 1, n \in Some PROVE n + 1 \in Some
  <2>1. PICK g \in [0 .. n -> X] : Upto(n, g)
    BY <1>2
  <2> DEFINE next == F[n + 1][g[n]]
             h == [i \in 0 .. n + 1 |-> IF i = n + 1 THEN next ELSE g[i]]
  <2>2. next \in X
    OBVIOUS
  <2>3. h \in [0 .. n + 1 -> X] /\ h[n + 1] = next /\ \A i \in 0 .. n : h[i] = g[i]
    <3> HIDE DEF next
    <3> QED
      BY <2>2
  <2> HIDE DEF h
  <2>4. h[0] = a
    BY <2>1, <2>3
  <2>5. ASSUME NEW i \in 1 .. n + 1 PROVE h[i] = F[i][h[i - 1]]
    <3>1. CASE i = n + 1
      BY <2>3, <3>1
    <3>2. CASE i # n + 1
      <4>1. i \in 1 .. n /\ i \in 0 .. n /\ i - 1 \in 0 .. n
        BY <3>2
      <4> QED
        BY <2>1, <2>3, <4>1
    <3> QED
      BY <3>1, <3>2
  <2>6. Upto(n + 1, h) /\ n + 1 \in 0 .. m
    BY <2>4, <2>5
  <2> HIDE DEF Upto
  <2> QED
    BY <2>3, <2>6
<1>3. m \in Some
  <2>1. \A n \in 0 .. m - 1 : n \in Some => n + 1 \in Some
    BY <1>2
  <2> HIDE DEF Some
  <2>2. 0 .. m \subseteq Some
    BY <1>1, <2>1, AllOf
  <2> QED
    BY <2>2
<1> HIDE DEF Upto
<1>4. PICK g \in [0 .. m -> X] : Upto(m, g)
  BY <1>3
<1> QED
  BY <1>4 DEF Upto, Takes

(* Sublist goes through its list.                                            *)
LEMMA SublistSteps ==
  ASSUME NEW T, NEW list \in Seq(T), NEW S
  PROVE  \E g : /\ g[0] = <<>> /\ g[Len(list)] = Sublist(list, S)
                /\ \A i \in 1 .. Len(list) :
                     g[i] = IF list[i] \in S THEN Append(g[i - 1], list[i]) ELSE g[i - 1]
<1> DEFINE m == Len(list)
           F == [i \in 1 .. m |-> [x \in Seq(T) |-> IF list[i] \in S THEN Append(x, list[i]) ELSE x]]
           Follows(h) == h = [n \in 0 .. Len(list) |-> IF n = 0 THEN <<>>
                  ELSE IF list[n] \in S THEN Append(h[n - 1], list[n]) ELSE h[n - 1]]
           k == CHOOSE h : Follows(h)
<1>1. m \in Nat /\ 0 \in 0 .. m /\ <<>> \in Seq(T) /\ StepsOf(m, Seq(T), F)
  BY DEF StepsOf
<1>2. PICK g : Takes(m, Seq(T), <<>>, F, g)
  <2> HIDE DEF m, F
  <2> QED
    BY <1>1, Recursion
<1>3. \A i \in 1 .. m : i \in 0 .. m /\ i - 1 \in 0 .. m /\ i # 0
  BY <1>1
<1>4. Follows(g)
  <2>1. \A i \in 1 .. m : g[i] = IF list[i] \in S THEN Append(g[i - 1], list[i]) ELSE g[i - 1]
    <3> SUFFICES ASSUME NEW i \in 1 .. m
                 PROVE  g[i] = IF list[i] \in S THEN Append(g[i - 1], list[i]) ELSE g[i - 1]
      OBVIOUS
    <3>1. g[i - 1] \in Seq(T) /\ g[i] = F[i][g[i - 1]]
      BY <1>2, <1>3 DEF Takes
    <3> QED
      BY <3>1
  <2>2. \A n \in 0 .. m : n # 0 => n \in 1 .. m
    BY <1>1
  <2> HIDE DEF F
  <2> QED
    BY <1>2, <2>1, <2>2 DEF Takes
<1>5. Sublist(list, S) = k[Len(list)]
  BY DEF Sublist
<1>6. Follows(k)
  <2> HIDE DEF Follows
  <2> QED
    BY <1>4
<1> HIDE DEF k, F
<1>7. k[0] = <<>> /\ \A n \in 1 .. m : k[n] = IF list[n] \in S THEN Append(k[n - 1], list[n]) ELSE k[n - 1]
  <2> HIDE DEF m
  <2> QED
    BY <1>1, <1>3, <1>6 DEF m
<1> QED
  BY <1>5, <1>7

(* Out is what S has of the first n entries of list: h tells their places.   *)
Picked(list, S, n, out, h) ==
  /\ h \in [1 .. Len(out) -> 1 .. n]
  /\ \A i \in 1 .. Len(out) : out[i] = list[h[i]] /\ out[i] \in S
  /\ \A i, j \in 1 .. Len(out) : i < j => h[i] < h[j]
  /\ \A l \in 1 .. n : list[l] \in S => \E i \in 1 .. Len(out) : h[i] = l

(* Sublist picks the entries that are in the set, in their order.            *)
LEMMA SublistIsPicked ==
  ASSUME NEW T, NEW list \in Seq(T), NEW S
  PROVE  /\ Sublist(list, S) \in Seq(T)
         /\ \E h : Picked(list, S, Len(list), Sublist(list, S), h)
<1> DEFINE m == Len(list)
<1>1. m \in Nat
  OBVIOUS
<1>2. PICK g : /\ g[0] = <<>> /\ g[m] = Sublist(list, S)
               /\ \A i \in 1 .. m :
                    g[i] = IF list[i] \in S THEN Append(g[i - 1], list[i]) ELSE g[i - 1]
  BY SublistSteps
<1> DEFINE Some == {n \in 0 .. m : g[n] \in Seq(T) /\ \E h : Picked(list, S, n, g[n], h)}
<1>3. 0 \in Some
  <2>1. Picked(list, S, 0, g[0], [i \in 1 .. 0 |-> 1])
    BY <1>2 DEF Picked
  <2>2. g[0] \in Seq(T)
    BY <1>2
  <2> QED
    BY <1>1, <2>1, <2>2
<1>4. ASSUME NEW n \in 0 .. m - 1, n \in Some PROVE n + 1 \in Some
  <2> DEFINE a == g[n]
             b == g[n + 1]
             c == Len(a)
  <2>1. /\ n \in 0 .. m /\ n + 1 \in 0 .. m /\ n + 1 \in 1 .. m /\ n \in Nat
        /\ a \in Seq(T) /\ b \in Seq(T) /\ c \in Nat /\ list[n + 1] \in T
        /\ b = IF list[n + 1] \in S THEN Append(a, list[n + 1]) ELSE a
    <3>1. n + 1 \in 1 .. m /\ (n + 1) - 1 = n /\ a \in Seq(T)
      BY <1>1, <1>4
    <3>2. b = IF list[n + 1] \in S THEN Append(a, list[n + 1]) ELSE a
      BY <1>2, <3>1
    <3> HIDE DEF a, b
    <3> QED
      BY <1>1, <3>1, <3>2 DEF m
  <2>2. PICK h : Picked(list, S, n, a, h)
    BY <1>4
  <2>3. \E f : Picked(list, S, n + 1, b, f)
    <3> HIDE DEF a, b, m
    <3>1. CASE list[n + 1] \notin S
      <4>1. Picked(list, S, n + 1, b, h)
        BY <2>1, <2>2, <3>1 DEF Picked
      <4> QED
        BY <4>1
    <3>2. CASE list[n + 1] \in S
      <4> DEFINE f == [i \in 1 .. c + 1 |-> IF i = c + 1 THEN n + 1 ELSE h[i]]
      <4>1. /\ Len(b) = c + 1 /\ b[c + 1] = list[n + 1]
            /\ \A i \in 1 .. c : b[i] = a[i]
        BY <2>1, <3>2
      <4>2. /\ f \in [1 .. c + 1 -> 1 .. n + 1] /\ f[c + 1] = n + 1
            /\ \A i \in 1 .. c : f[i] = h[i] /\ i \in 1 .. c + 1
        BY <2>1, <2>2 DEF Picked
      <4>a. \A i \in 1 .. c + 1 : i = c + 1 \/ i \in 1 .. c
        BY <2>1
      <4> HIDE DEF f, c
      <4>3. \A i \in 1 .. c + 1 : b[i] = list[f[i]] /\ b[i] \in S
        BY <2>2, <3>2, <4>1, <4>2, <4>a DEF Picked, c
      <4>4. \A i, j \in 1 .. c + 1 : i < j => f[i] < f[j]
        <5> SUFFICES ASSUME NEW i \in 1 .. c + 1, NEW j \in 1 .. c + 1, i < j PROVE f[i] < f[j]
          OBVIOUS
        <5>1. i \in 1 .. c /\ c \in Nat
          BY <2>1, <4>a
        <5>2. CASE j = c + 1
          <6>1. f[i] = h[i] /\ h[i] \in 1 .. n /\ f[j] = n + 1
            BY <2>2, <4>2, <5>1, <5>2 DEF Picked, c
          <6> QED
            BY <2>1, <6>1
        <5>3. CASE j \in 1 .. c
          BY <2>2, <4>2, <5>1, <5>3 DEF Picked, c
        <5> QED
          BY <4>a, <5>2, <5>3
      <4>5. \A l \in 1 .. n + 1 : list[l] \in S => \E i \in 1 .. c + 1 : f[i] = l
        <5> SUFFICES ASSUME NEW l \in 1 .. n + 1, list[l] \in S PROVE \E i \in 1 .. c + 1 : f[i] = l
          OBVIOUS
        <5>1. CASE l = n + 1
          BY <2>1, <4>2, <5>1 DEF c
        <5>2. CASE l # n + 1
          <6>1. l \in 1 .. n
            BY <2>1, <5>2
          <6>2. PICK i \in 1 .. c : h[i] = l
            BY <2>2, <6>1 DEF Picked, c
          <6> QED
            BY <4>2, <6>2
        <5> QED
          BY <5>1, <5>2
      <4>6. Picked(list, S, n + 1, b, f)
        BY <4>1, <4>2, <4>3, <4>4, <4>5 DEF Picked
      <4> QED
        BY <4>6
    <3> QED
      BY <3>1, <3>2
  <2> QED
    BY <2>1, <2>3
<1>5. 0 .. m \subseteq Some
  <2>1. \A n \in 0 .. m - 1 : n \in Some => n + 1 \in Some
    BY <1>4
  <2> HIDE DEF Some, m
  <2> QED
    BY <1>1, <1>3, <2>1, AllOf
<1>6. m \in Some /\ g[m] \in Seq(T)
  BY <1>1, <1>5
<1> QED
  BY <1>2, <1>6

(***************************  the list of bookings  ****************************)
Kinds   == {"flight", "hotel", "car_rental", "train"}
Imports == [id : Nat, type : Kinds, start : Clock, end : Clock, from : Places, to : Places]
AnalysisInv == AnalysisTypeOK /\ bookings \in Seq(Imports)

(* A booking keeps its kind when it is given its number.                     *)
LEMMA ImportedBooking ==
  ASSUME NEW n \in Nat, NEW b \in Flights \cup Stays \cup Cars \cup Rides
  PROVE  LET x == [b EXCEPT !.id = n] IN x \in Imports /\ x.id = n
<1>1. b \in Imports
  BY BookingAnalysisAssumption
     DEF Flights, Stays, Cars, Rides, Booking, Imports, Kinds, Clock, Places, Unset
<1> QED
  BY <1>1 DEF Imports

(* AnalysisInv holds always.                                                 *)
LEMMA AnalysisAlways == Spec => []AnalysisInv
<1>1. Init => AnalysisInv
  BY BookingAnalysisAssumption DEF Init, AnalysisInit, AnalysisInv, AnalysisTypeOK
<1>2. AnalysisInv /\ [Next]_vars => AnalysisInv'
  <2> SUFFICES ASSUME AnalysisInv, AnalysisNext PROVE AnalysisInv'
    <3>1. AnalysisInv /\ UNCHANGED bookings => AnalysisInv'
      BY DEF AnalysisInv, AnalysisTypeOK
    <3> QED
      BY <3>1, OneServiceSteps
  <2>1. PICK b \in Flights \cup Stays \cup Cars \cup Rides : Import(b)
    BY DEF AnalysisNext
  <2> DEFINE x == [b EXCEPT !.id = Len(bookings) + 1]
  <2>2. Len(bookings) \in Nat /\ Len(bookings) + 1 \in Nat /\ bookings \in Seq(Imports)
    BY DEF AnalysisInv
  <2>3. x \in Imports /\ x.id = Len(bookings) + 1 /\ x.start \in Clock /\ x.end \in Clock
    <3>1. x \in Imports /\ x.id = Len(bookings) + 1
      BY <2>2, ImportedBooking
    <3> QED
      BY <3>1 DEF Imports
  <2>4. Len(bookings) < MaxBookings /\ bookings' = Append(bookings, x)
    BY <2>1 DEF Import
  <2> HIDE DEF x
  <2>5. bookings' \in Seq(Imports) /\ Len(bookings') = Len(bookings) + 1 /\ Len(bookings') <= MaxBookings
    BY <2>2, <2>3, <2>4, BookingAnalysisAssumption
  <2>6. ASSUME NEW i \in DOMAIN bookings'
        PROVE  bookings'[i].id = i /\ bookings'[i].start \in Clock /\ bookings'[i].end \in Clock
    <3>1. CASE i \in 1 .. Len(bookings)
      <4>1. bookings'[i] = bookings[i]
        BY <2>2, <2>4, <3>1
      <4> QED
        BY <2>2, <3>1, <4>1 DEF AnalysisInv, AnalysisTypeOK
    <3>2. CASE i = Len(bookings) + 1
      <4>1. bookings'[i] = x
        BY <2>2, <2>4, <3>2
      <4> QED
        BY <2>3, <3>2, <4>1
    <3> QED
      BY <2>2, <2>5, <3>1, <3>2
  <2> QED
    BY <2>5, <2>6 DEF AnalysisInv, AnalysisTypeOK
<1> QED
  BY <1>1, <1>2, PTL DEF Spec

(* A list of bookings none of which comes twice, and its bookings.           *)
Once(f) == f \in Seq(Imports) /\ \A i, j \in 1 .. Len(f) : f[i] = f[j] => i = j
Members(f) == {f[i] : i \in 1 .. Len(f)}

(* The earliest arrival is the least of the times there are.                 *)
Earliest(f, n, e) ==
  /\ e \in Clock /\ (e # Unset => \E i \in 1 .. n : f[i].end = e)
  /\ \A i \in 1 .. n : f[i].end # Unset => e # Unset /\ e <= f[i].end

(* EarliestArrival is it.                                                    *)
LEMMA EarliestArrivalIs ==
  ASSUME NEW f \in Seq(Imports)
  PROVE  Earliest(f, Len(f), EarliestArrival(f))
<1> DEFINE m == Len(f)
           Earlier(x, t) == IF x # Unset /\ (t = Unset \/ x < t) THEN x ELSE t
           F == [i \in 1 .. m |-> [t \in Clock |-> Earlier(f[i].end, t)]]
           Follows(h) == h = [n \in 0 .. Len(f) |-> IF n = 0 THEN Unset
                                ELSE IF f[n].end # Unset /\ (h[n - 1] = Unset \/ f[n].end < h[n - 1]) THEN f[n].end
                                ELSE h[n - 1]]
           k == CHOOSE h : Follows(h)
<1>a. Clock = 0 .. MaxClock /\ MaxClock \in Nat /\ Unset = 0
  BY BookingAnalysisAssumption DEF Clock, Unset
<1>b. \A i \in 1 .. m : f[i].end \in Clock
  <2>1. \A i \in 1 .. m : f[i] \in Imports
    OBVIOUS
  <2> QED
    BY <2>1 DEF Imports
<1>1. m \in Nat /\ 0 \in 0 .. m /\ Unset \in Clock /\ StepsOf(m, Clock, F)
  BY <1>a, <1>b DEF StepsOf
<1>2. PICK g : Takes(m, Clock, Unset, F, g)
  <2> HIDE DEF m, F
  <2> QED
    BY <1>1, Recursion
<1>3. \A i \in 1 .. m : i \in 0 .. m /\ i - 1 \in 0 .. m /\ i # 0
  BY <1>1
<1>4. Follows(g)
  <2>1. \A i \in 1 .. m : g[i] = Earlier(f[i].end, g[i - 1])
    <3> SUFFICES ASSUME NEW i \in 1 .. m
                 PROVE  g[i] = Earlier(f[i].end, g[i - 1])
      OBVIOUS
    <3>1. g[i - 1] \in Clock /\ g[i] = F[i][g[i - 1]]
      BY <1>2, <1>3 DEF Takes
    <3> QED
      BY <3>1
  <2>2. \A n \in 0 .. m : n # 0 => n \in 1 .. m
    BY <1>1
  <2> HIDE DEF F
  <2> QED
    BY <1>2, <2>1, <2>2 DEF Takes
<1>5. EarliestArrival(f) = k[Len(f)]
  BY DEF EarliestArrival
<1>6. Follows(k)
  <2> HIDE DEF Follows
  <2> QED
    BY <1>4
<1> HIDE DEF k, F
<1>7. k[0] = Unset /\ \A n \in 1 .. m : k[n] = Earlier(f[n].end, k[n - 1])
  <2> HIDE DEF m
  <2> QED
    BY <1>1, <1>3, <1>6 DEF m
<1> DEFINE Some == {n \in 0 .. m : Earliest(f, n, k[n])}
<1>8. 0 \in Some
  BY <1>1, <1>7 DEF Earliest
<1>9. ASSUME NEW n \in 0 .. m - 1, n \in Some PROVE n + 1 \in Some
  <2> DEFINE t == k[n]
             x == f[n + 1].end
  <2>1. n + 1 \in 1 .. m /\ (n + 1) - 1 = n /\ n \in Nat
    BY <1>1
  <2>2. k[n + 1] = Earlier(x, t) /\ x \in Clock
    BY <1>7, <1>b, <2>1
  <2>3. Earliest(f, n, t)
    BY <1>9
  <2>4. \A i \in 1 .. n + 1 : i \in 1 .. n \/ i = n + 1
    BY <2>1
  <2>5. 1 .. n \subseteq 1 .. n + 1 /\ n + 1 \in 1 .. n + 1
    BY <2>1
  <2>6. \A i \in 1 .. n : f[i].end \in Clock
    BY <1>b, <2>1
  <2> HIDE DEF t, m
  <2>7. Earliest(f, n + 1, k[n + 1])
    <3>1. CASE x # Unset /\ (t = Unset \/ x < t)
      <4>1. k[n + 1] = x
        BY <2>2, <3>1
      <4> QED
        BY <1>a, <2>2, <2>3, <2>4, <2>5, <2>6, <3>1, <4>1 DEF Earliest
    <3>2. CASE ~ (x # Unset /\ (t = Unset \/ x < t))
      <4>1. k[n + 1] = t
        BY <2>2, <3>2
      <4> QED
        BY <1>a, <2>2, <2>3, <2>4, <2>5, <2>6, <3>2, <4>1 DEF Earliest
    <3> QED
      BY <3>1, <3>2
  <2> QED
    BY <1>1, <2>1, <2>7 DEF m
<1>10. m \in Some
  <2>1. \A n \in 0 .. m - 1 : n \in Some => n + 1 \in Some
    BY <1>9
  <2> HIDE DEF Some, m
  <2>2. 0 .. m \subseteq Some
    BY <1>1, <1>8, <2>1, AllOf
  <2> QED
    BY <1>1, <2>2
<1> QED
  BY <1>5, <1>10

(* The latest departure is the greatest of them.                             *)
Latest(f, n, e) ==
  /\ e \in Clock /\ (e # Unset => \E i \in 1 .. n : f[i].start = e)
  /\ \A i \in 1 .. n : f[i].start # Unset => f[i].start <= e

(* LatestDeparture is it.                                                    *)
LEMMA LatestDepartureIs ==
  ASSUME NEW f \in Seq(Imports)
  PROVE  Latest(f, Len(f), LatestDeparture(f))
<1> DEFINE m == Len(f)
           Later(x, t) == IF x # Unset /\ x > t THEN x ELSE t
           F == [i \in 1 .. m |-> [t \in Clock |-> Later(f[i].start, t)]]
           Follows(h) == h = [n \in 0 .. Len(f) |-> IF n = 0 THEN Unset
                                ELSE IF f[n].start # Unset /\ f[n].start > h[n - 1] THEN f[n].start
                                ELSE h[n - 1]]
           k == CHOOSE h : Follows(h)
<1>a. Clock = 0 .. MaxClock /\ MaxClock \in Nat /\ Unset = 0
  BY BookingAnalysisAssumption DEF Clock, Unset
<1>b. \A i \in 1 .. m : f[i].start \in Clock
  <2>1. \A i \in 1 .. m : f[i] \in Imports
    OBVIOUS
  <2> QED
    BY <2>1 DEF Imports
<1>1. m \in Nat /\ 0 \in 0 .. m /\ Unset \in Clock /\ StepsOf(m, Clock, F)
  BY <1>a, <1>b DEF StepsOf
<1>2. PICK g : Takes(m, Clock, Unset, F, g)
  <2> HIDE DEF m, F
  <2> QED
    BY <1>1, Recursion
<1>3. \A i \in 1 .. m : i \in 0 .. m /\ i - 1 \in 0 .. m /\ i # 0
  BY <1>1
<1>4. Follows(g)
  <2>1. \A i \in 1 .. m : g[i] = Later(f[i].start, g[i - 1])
    <3> SUFFICES ASSUME NEW i \in 1 .. m
                 PROVE  g[i] = Later(f[i].start, g[i - 1])
      OBVIOUS
    <3>1. g[i - 1] \in Clock /\ g[i] = F[i][g[i - 1]]
      BY <1>2, <1>3 DEF Takes
    <3> QED
      BY <3>1
  <2>2. \A n \in 0 .. m : n # 0 => n \in 1 .. m
    BY <1>1
  <2> HIDE DEF F
  <2> QED
    BY <1>2, <2>1, <2>2 DEF Takes
<1>5. LatestDeparture(f) = k[Len(f)]
  BY DEF LatestDeparture
<1>6. Follows(k)
  <2> HIDE DEF Follows
  <2> QED
    BY <1>4
<1> HIDE DEF k, F
<1>7. k[0] = Unset /\ \A n \in 1 .. m : k[n] = Later(f[n].start, k[n - 1])
  <2> HIDE DEF m
  <2> QED
    BY <1>1, <1>3, <1>6 DEF m
<1> DEFINE Some == {n \in 0 .. m : Latest(f, n, k[n])}
<1>8. 0 \in Some
  BY <1>1, <1>7 DEF Latest
<1>9. ASSUME NEW n \in 0 .. m - 1, n \in Some PROVE n + 1 \in Some
  <2> DEFINE t == k[n]
             x == f[n + 1].start
  <2>1. n + 1 \in 1 .. m /\ (n + 1) - 1 = n /\ n \in Nat
    BY <1>1
  <2>2. k[n + 1] = Later(x, t) /\ x \in Clock
    BY <1>7, <1>b, <2>1
  <2>3. Latest(f, n, t)
    BY <1>9
  <2>4. \A i \in 1 .. n + 1 : i \in 1 .. n \/ i = n + 1
    BY <2>1
  <2>5. 1 .. n \subseteq 1 .. n + 1 /\ n + 1 \in 1 .. n + 1
    BY <2>1
  <2>6. \A i \in 1 .. n : f[i].start \in Clock
    BY <1>b, <2>1
  <2> HIDE DEF t, m
  <2>7. Latest(f, n + 1, k[n + 1])
    <3>1. CASE x # Unset /\ x > t
      <4>1. k[n + 1] = x
        BY <2>2, <3>1
      <4> QED
        BY <1>a, <2>2, <2>3, <2>4, <2>5, <2>6, <3>1, <4>1 DEF Latest
    <3>2. CASE ~ (x # Unset /\ x > t)
      <4>1. k[n + 1] = t
        BY <2>2, <3>2
      <4> QED
        BY <1>a, <2>2, <2>3, <2>4, <2>5, <2>6, <3>2, <4>1 DEF Latest
    <3> QED
      BY <3>1, <3>2
  <2> QED
    BY <1>1, <2>1, <2>7 DEF m
<1>10. m \in Some
  <2>1. \A n \in 0 .. m - 1 : n \in Some => n + 1 \in Some
    BY <1>9
  <2> HIDE DEF Some, m
  <2>2. 0 .. m \subseteq Some
    BY <1>1, <1>8, <2>1, AllOf
  <2> QED
    BY <1>1, <2>2
<1> QED
  BY <1>5, <1>10

(* A list in which nothing comes twice is as long as its members are many.   *)
LEMMA LengthOfOnce ==
  ASSUME NEW f, Once(f)
  PROVE  IsFiniteSet(Members(f)) /\ Cardinality(Members(f)) = Len(f)
<1>1. Len(f) \in Nat
  BY DEF Once
<1>2. IsFiniteSet(1 .. Len(f)) /\ Cardinality(1 .. Len(f)) = Len(f)
  BY <1>1, FS_Interval, SMTT(30)
<1>3. [i \in 1 .. Len(f) |-> f[i]] \in Bijection(1 .. Len(f), Members(f))
  BY DEF Once, Members, Bijection, Injection, Surjection, IsInjective
<1> QED
  BY <1>2, <1>3, FS_Bijection DEF ExistsBijection

(* The detectors ask only which bookings there are.                          *)
LEMMA SameMembers ==
  ASSUME NEW f, NEW g, Once(f), Once(g), Members(f) = Members(g)
  PROVE  /\ Len(f) = Len(g) /\ TightLayovers(f) = TightLayovers(g)
         /\ EarliestArrival(f) = EarliestArrival(g) /\ LatestDeparture(f) = LatestDeparture(g)
         /\ MissingReturnFlight(f) = MissingReturnFlight(g)
<1>1. Len(f) = Len(g) /\ Len(f) \in Nat
  BY LengthOfOnce DEF Once
<1>2. \A a \in 1 .. Len(f) : \E b \in 1 .. Len(g) : f[a] = g[b]
  BY DEF Members
<1>3. \A a \in 1 .. Len(g) : \E b \in 1 .. Len(f) : g[a] = f[b]
  BY DEF Members
<1>4. ASSUME NEW u, NEW v, Once(u), Once(v), \A a \in 1 .. Len(u) : \E b \in 1 .. Len(v) : u[a] = v[b]
      PROVE  TightLayovers(u) \subseteq TightLayovers(v)
  <2> SUFFICES ASSUME NEW p \in 1 .. Len(u), NEW q \in 1 .. Len(u), p # q, Connects(u[p], u[q])
               PROVE  <<"tight_layover", <<u[p].id, u[q].id>>>> \in TightLayovers(v)
    BY DEF TightLayovers
  <2>1. PICK x \in 1 .. Len(v), y \in 1 .. Len(v) : u[p] = v[x] /\ u[q] = v[y]
    BY <1>4
  <2>2. x # y
    BY <1>4, <2>1 DEF Once
  <2>3. <<x, y>> \in {p1 \in (1 .. Len(v)) \X (1 .. Len(v)) : p1[1] # p1[2] /\ Connects(v[p1[1]], v[p1[2]])}
    BY <2>1, <2>2
  <2> QED
    BY <2>1, <2>3 DEF TightLayovers
<1>5. TightLayovers(f) = TightLayovers(g)
  <2>1. TightLayovers(f) \subseteq TightLayovers(g)
    BY <1>2, <1>4
  <2>2. TightLayovers(g) \subseteq TightLayovers(f)
    BY <1>3, <1>4
  <2> QED
    BY <2>1, <2>2
<1>6. f \in Seq(Imports) /\ g \in Seq(Imports)
  BY DEF Once
<1>7. Clock = 0 .. MaxClock /\ MaxClock \in Nat /\ Unset = 0
  BY BookingAnalysisAssumption DEF Clock, Unset
<1>8. EarliestArrival(f) = EarliestArrival(g)
  <2> DEFINE d == EarliestArrival(f)
             e == EarliestArrival(g)
  <2>1. Earliest(f, Len(f), d) /\ Earliest(g, Len(g), e)
    BY <1>6, EarliestArrivalIs
  <2> HIDE DEF d, e
  <2>2. d \in 0 .. MaxClock /\ e \in 0 .. MaxClock
    BY <1>7, <2>1 DEF Earliest
  <2>3. (e # 0 => d # 0 /\ d <= e) /\ (d # 0 => e # 0 /\ e <= d)
    <3>1. ASSUME NEW u, NEW v, NEW x, NEW y, Earliest(u, Len(u), x), Earliest(v, Len(v), y), y # Unset,
                 \A a \in 1 .. Len(v) : \E b \in 1 .. Len(u) : v[a] = u[b]
          PROVE  x # Unset /\ x <= y
      <4>1. PICK a \in 1 .. Len(v) : v[a].end = y
        BY <3>1 DEF Earliest
      <4>2. PICK b \in 1 .. Len(u) : u[b].end = y
        BY <3>1, <4>1
      <4> QED
        BY <3>1, <4>2 DEF Earliest
    <3> QED
      BY <1>2, <1>3, <1>7, <2>1, <3>1
  <2> QED
    BY <1>7, <2>2, <2>3 DEF d, e
<1>9. LatestDeparture(f) = LatestDeparture(g)
  <2> DEFINE d == LatestDeparture(f)
             e == LatestDeparture(g)
  <2>1. Latest(f, Len(f), d) /\ Latest(g, Len(g), e)
    BY <1>6, LatestDepartureIs
  <2> HIDE DEF d, e
  <2>2. d \in 0 .. MaxClock /\ e \in 0 .. MaxClock
    BY <1>7, <2>1 DEF Latest
  <2>3. (e # 0 => e <= d) /\ (d # 0 => d <= e)
    <3>1. ASSUME NEW u, NEW v, NEW x, NEW y, Latest(u, Len(u), x), Latest(v, Len(v), y), y # Unset,
                 \A a \in 1 .. Len(v) : \E b \in 1 .. Len(u) : v[a] = u[b]
          PROVE  y <= x
      <4>1. PICK a \in 1 .. Len(v) : v[a].start = y
        BY <3>1 DEF Latest
      <4>2. PICK b \in 1 .. Len(u) : u[b].start = y
        BY <3>1, <4>1
      <4> QED
        BY <3>1, <4>2 DEF Latest
    <3> QED
      BY <1>2, <1>3, <1>7, <2>1, <3>1
  <2> QED
    BY <1>7, <2>2, <2>3 DEF d, e
<1>10. Len(f) = 1 => f[1] = g[1]
  BY <1>1, <1>2
<1> QED
  BY <1>1, <1>5, <1>8, <1>9, <1>10 DEF MissingReturnFlight

(* The bookings of one kind, of a list in which nothing comes twice.         *)
LEMMA OfTypeOnce ==
  ASSUME NEW f, Once(f), NEW type
  PROVE  /\ Once(OfType(f, type)) /\ Members(OfType(f, type)) = {b \in Members(f) : b.type = type}
         /\ Range(OfType(f, type)) = Members(OfType(f, type))
<1> DEFINE S == {b \in Range(f) : b.type = type}
           out == Sublist(f, S)
<1>1. f \in Seq(Imports) /\ Len(f) \in Nat /\ Range(f) = Members(f)
  BY DEF Once, Members, Range
<1>2. out \in Seq(Imports) /\ \E h : Picked(f, S, Len(f), out, h)
  <2> HIDE DEF S
  <2> QED
    BY <1>1, SublistIsPicked
<1>3. PICK h : Picked(f, S, Len(f), out, h)
  BY <1>2
<1>4. OfType(f, type) = out /\ Len(out) \in Nat
  BY <1>2 DEF OfType
<1> HIDE DEF out
<1>5. Once(out)
  <2> SUFFICES ASSUME NEW i \in 1 .. Len(out), NEW j \in 1 .. Len(out), out[i] = out[j], i < j
               PROVE  FALSE
    BY <1>2, <1>4 DEF Once
  <2>1. h[i] \in 1 .. Len(f) /\ h[j] \in 1 .. Len(f) /\ h[i] < h[j] /\ f[h[i]] = f[h[j]]
    BY <1>3 DEF Picked
  <2> QED
    BY <1>1, <2>1 DEF Once
<1>6. Members(out) = {b \in Members(f) : b.type = type}
  <2>1. ASSUME NEW i \in 1 .. Len(out) PROVE out[i] \in Members(f) /\ out[i].type = type
    BY <1>1, <1>3 DEF Picked
  <2>2. ASSUME NEW l \in 1 .. Len(f), f[l].type = type PROVE \E i \in 1 .. Len(out) : out[i] = f[l]
    <3>1. f[l] \in S
      BY <1>1, <2>2 DEF Members
    <3>2. PICK i \in 1 .. Len(out) : h[i] = l
      BY <1>3, <3>1 DEF Picked
    <3> QED
      BY <1>3, <3>2 DEF Picked
  <2> QED
    BY <2>1, <2>2 DEF Members
<1>7. Range(out) = Members(out)
  BY <1>2 DEF Range, Members
<1> QED
  BY <1>4, <1>5, <1>6, <1>7

(* What the two analyses say depends on the set of bookings only.            *)
LEMMA SameAnalyses ==
  ASSUME NEW f, NEW g, Once(f), Once(g), Members(f) = Members(g)
  PROVE  /\ DetectConflicts(f) = DetectConflicts(g)
         /\ \A days, items : AnalyzeCoverage(f, days, items) = AnalyzeCoverage(g, days, items)
<1>1. ASSUME NEW type
      PROVE  /\ Once(OfType(f, type)) /\ Once(OfType(g, type))
             /\ Members(OfType(f, type)) = Members(OfType(g, type))
             /\ Range(OfType(f, type)) = Range(OfType(g, type))
             /\ Len(OfType(f, type)) = Len(OfType(g, type))
             /\ (OfType(f, type) # <<>>) = (OfType(g, type) # <<>>)
  <2> DEFINE u == OfType(f, type)
             v == OfType(g, type)
  <2>1. Once(u) /\ Once(v) /\ Members(u) = Members(v) /\ Range(u) = Range(v)
    <3>1. /\ Once(u) /\ Members(u) = {b \in Members(f) : b.type = type} /\ Range(u) = Members(u)
          /\ Once(v) /\ Members(v) = {b \in Members(g) : b.type = type} /\ Range(v) = Members(v)
      BY OfTypeOnce
    <3> HIDE DEF u, v
    <3> QED
      BY <3>1
  <2> HIDE DEF u, v
  <2>2. Len(u) = Len(v) /\ u \in Seq(Imports) /\ v \in Seq(Imports)
    BY <2>1, SameMembers DEF Once
  <2>3. (u # <<>>) = (v # <<>>)
    BY <2>2
  <2> QED
    BY <2>1, <2>2, <2>3 DEF u, v
<1>2. DetectConflicts(f) = DetectConflicts(g)
  <2> DEFINE u == OfType(f, "flight")
             v == OfType(g, "flight")
  <2>1. Once(u) /\ Once(v) /\ Members(u) = Members(v)
    BY <1>1
  <2> HIDE DEF u, v
  <2>2. /\ Len(u) = Len(v) /\ TightLayovers(u) = TightLayovers(v)
        /\ EarliestArrival(u) = EarliestArrival(v) /\ LatestDeparture(u) = LatestDeparture(v)
        /\ MissingReturnFlight(u) = MissingReturnFlight(v)
    BY <2>1, SameMembers
  <2>3. HotelsBeforeArrival(u, OfType(f, "hotel")) = HotelsBeforeArrival(v, OfType(g, "hotel"))
    BY <1>1, <2>2 DEF HotelsBeforeArrival
  <2>4. CarReturnMismatches(u, OfType(f, "car_rental")) = CarReturnMismatches(v, OfType(g, "car_rental"))
    BY <1>1, <2>2 DEF CarReturnMismatches
  <2> QED
    BY <2>2, <2>3, <2>4 DEF DetectConflicts, u, v
<1>3. ASSUME NEW days, NEW items PROVE AnalyzeCoverage(f, days, items) = AnalyzeCoverage(g, days, items)
  <2>1. (f = <<>>) = (g = <<>>)
    BY SameMembers DEF Once
  <2>2. ASSUME NEW u \in Seq(Imports), NEW v \in Seq(Imports)
        PROVE  (u \o v # <<>>) = (u # <<>> \/ v # <<>>)
    BY <2>2
  <2> DEFINE Ground(l) == OfType(l, "car_rental") \o OfType(l, "train") # <<>>
  <2>3. Ground(f) = Ground(g)
    <3>1. \A type : OfType(f, type) \in Seq(Imports) /\ OfType(g, type) \in Seq(Imports)
      BY <1>1 DEF Once
    <3> QED
      BY <1>1, <2>2, <3>1
  <2>4. /\ Len(OfType(f, "flight")) = Len(OfType(g, "flight"))
        /\ (OfType(f, "hotel") # <<>>) = (OfType(g, "hotel") # <<>>)
    BY <1>1
  <2> QED
    BY <2>1, <2>3, <2>4, Zenon DEF AnalyzeCoverage
<1> QED
  BY <1>2, <1>3

(* A gap that wants a way back is beside a flight that wants one.            *)
LEMMA GapHasConflict ==
  ASSUME NEW f, Once(f), NEW days \in Nat, NEW items \in Nat,
         AnalyzeCoverage(f, days, items) = "no_return_transport"
  PROVE  \E c \in DetectConflicts(f) : c[1] = "missing_return_flight"
<1>1. Len(OfType(f, "flight")) = 1
  BY DEF AnalyzeCoverage
<1>2. <<"missing_return_flight", <<OfType(f, "flight")[1].id>>>> \in DetectConflicts(f)
  BY <1>1 DEF DetectConflicts, MissingReturnFlight
<1> QED
  BY <1>2

(* The bookings in another order are the same bookings, and each once.       *)
LEMMA ReorderedOnce ==
  ASSUME AnalysisInv, NEW list \in Reorderings
  PROVE  Once(bookings) /\ Once(list) /\ Members(list) = Members(bookings)
<1> DEFINE n == Len(bookings)
           D == 1 .. n
<1>1. /\ bookings \in Seq(Imports) /\ n \in Nat /\ DOMAIN bookings = D
      /\ \A i \in D : bookings[i].id = i /\ bookings[i] \in Imports
  BY DEF AnalysisInv, AnalysisTypeOK
<1>2. Once(bookings)
  BY <1>1 DEF Once
<1>3. PICK p \in Bijection(D, D) : list = [i \in D |-> bookings[p[i]]]
  BY <1>1 DEF Reorderings
<1>4. p \in [D -> D] /\ \A w \in D : \E v \in D : p[v] = w
  BY DEF Bijection, Injection, Surjection
<1>6. \A i, j \in D : p[i] = p[j] => i = j
  BY <1>4 DEF Bijection, Injection, IsInjective
<1>7. list \in Seq(Imports) /\ Len(list) = n
  <2>1. list \in [1 .. n -> Imports]
    BY <1>1, <1>3, <1>4
  <2> HIDE DEF n
  <2> QED
    BY <1>1, <2>1
<1>8. Once(list)
  <2>1. \A i \in D : p[i] \in D /\ list[i].id = p[i]
    BY <1>1, <1>3, <1>4
  <2> QED
    BY <1>6, <1>7, <2>1 DEF Once
<1>9. Members(list) = Members(bookings)
  <2>1. Members(list) = {list[i] : i \in D} /\ Members(bookings) = {bookings[i] : i \in D}
    BY <1>7 DEF Members
  <2>2. \A i \in D : list[i] = bookings[p[i]] /\ p[i] \in D
    BY <1>3, <1>4
  <2> HIDE DEF D, n
  <2>3. {list[i] : i \in D} \subseteq {bookings[i] : i \in D}
    BY <2>2
  <2>4. {bookings[i] : i \in D} \subseteq {list[i] : i \in D}
    BY <2>2, <1>4
  <2> QED
    BY <2>1, <2>3, <2>4
<1> QED
  BY <1>2, <1>8, <1>9

(* The analyses are independent of the order.                                *)
LEMMA SameInAnyOrder == AnalysisInv => OrderIndependent
<1> SUFFICES ASSUME AnalysisInv, NEW list \in Reorderings
             PROVE  /\ DetectConflicts(list) = DetectConflicts(bookings)
                    /\ \A days \in {0, 4}, items \in {0, 2} :
                         LET gap == AnalyzeCoverage(list, days, items)
                         IN  /\ gap = AnalyzeCoverage(bookings, days, items)
                             /\ gap = "no_return_transport" =>
                                  \E c \in DetectConflicts(list) : c[1] = "missing_return_flight"
  BY DEF OrderIndependent
<1>1. Once(bookings) /\ Once(list) /\ Members(list) = Members(bookings)
  BY ReorderedOnce
<1>2. DetectConflicts(list) = DetectConflicts(bookings)
  BY <1>1, SameAnalyses
<1>3. ASSUME NEW days \in {0, 4}, NEW items \in {0, 2}
      PROVE  /\ AnalyzeCoverage(list, days, items) = AnalyzeCoverage(bookings, days, items)
             /\ AnalyzeCoverage(list, days, items) = "no_return_transport" =>
                  \E c \in DetectConflicts(list) : c[1] = "missing_return_flight"
  BY <1>1, SameAnalyses, GapHasConflict
<1> QED
  BY <1>2, <1>3

(* For every list that imports make, whatever its length, times and          *)
(* airports: in another order it has the same conflicts and the same gap     *)
(* (booking/conflict.go:93, booking/coverage.go).                            *)
THEOREM OrderIndependentHolds == Spec => []OrderIndependent
BY SameInAnyOrder, AnalysisAlways, PTL

(***************************  the answer of a provider  ************************)
(* The calls are numbered in the order in which the upstream server begins   *)
(* them.  Promised counts those sent, or to be sent for the line last read;  *)
(* what it has to be differs by provider: Claude's calls are sent as each is *)
(* whole, Gemini's as they come, OpenAI's all together at the end.           *)
SentCalls == CallsIn(sent, Len(sent))
Promised  == SentCalls + (CASE outbox = <<>> -> 0
                            [] outbox # <<>> /\ outbox[Len(outbox)].type = "call" -> Len(outbox)
                            [] OTHER -> Len(outbox) - 1)

Over    == \E i \in 1 .. Len(sent) : Terminal(sent[i])
Ending  == Over \/ (outbox # <<>> /\ Terminal(outbox[Len(outbox)]))

OutboxOK ==
  /\ \A i \in 1 .. Len(outbox) : outbox[i].type = "call" => outbox[i] = CallOf(SentCalls + i)
  /\ \A i \in 1 .. Len(outbox) - 1 : outbox[i].type = "call"
  /\ Over => outbox = <<>>

SentOK ==
  /\ \A i \in 1 .. Len(sent) : Terminal(sent[i]) => i = Len(sent)
  /\ \A i \in 1 .. Len(sent) : sent[i].type = "call" => sent[i] = CallOf(CallsIn(sent, i))

CallsKept ==
  CASE using = "gemini" -> blocks = {} /\ whole = begun /\ Promised = begun
    [] using = "claude" -> blocks = (whole + 1) .. begun /\ Promised = whole
    [] using = "openai" ->
         \/ blocks = 1 .. begun /\ Promised = 0 /\ (ended = "finished" => begun = 0)
         \/ blocks = {} /\ Promised = begun /\ ended = "finished"
         \/ blocks = 1 .. begun /\ Promised = begun /\ ended = "broken" /\ Ending
    [] OTHER -> FALSE

StopsForTools(e) == e.type = "done" /\ ended = "finished" => (e.stop = "tool_use" <=> begun > 0)

ReasonOK ==
  /\ using # "gemini" /\ ended = "finished" => (stopReason = "tool_use" <=> begun > 0)
  /\ \A i \in 1 .. Len(sent) : StopsForTools(sent[i])
  /\ \A i \in 1 .. Len(outbox) : StopsForTools(outbox[i])

NotYetAsked == conn = "none"
NothingRead ==
  /\ begun = 0 /\ whole = 0 /\ ended = "no" /\ blocks = {} /\ stopReason = "none"
  /\ outbox = <<>> /\ eventCh = <<>> /\ sent = <<>>

StreamOK ==
  /\ conn \notin {"streaming", "closed"} => NothingRead
  /\ conn = "backoff" => attempt < MaxRetries
  /\ conn = "none" \/ using \in Providers
  /\ conn = "closed" => Over
  /\ begun \in {whole, whole + 1} /\ (ended = "finished" => whole = begun)

ProviderInv ==
  /\ ProviderTypeOK /\ SentOK /\ OutboxOK /\ ReasonOK /\ StreamOK
  /\ conn \in {"streaming", "closed"} => CallsKept

(* How many calls are among the first events, one event later.               *)
LEMMA CallsAppended ==
  ASSUME NEW s \in Seq(Events), NEW e \in Events
  PROVE  /\ CallsIn(s, Len(s)) \in Nat
         /\ \A i \in 1 .. Len(s) : CallsIn(Append(s, e), i) = CallsIn(s, i)
         /\ CallsIn(Append(s, e), Len(s) + 1) = CallsIn(s, Len(s)) + (IF e.type = "call" THEN 1 ELSE 0)
<1> DEFINE C(r, n) == {i \in 1 .. n : r[i].type = "call"}
           t == Append(s, e)
           m == Len(s)
<1>1. /\ m \in Nat /\ t[m + 1] = e /\ \A i \in 1 .. m : t[i] = s[i]
  OBVIOUS
<1>2. IsFiniteSet(C(s, m)) /\ Cardinality(C(s, m)) \in Nat
  <2>1. IsFiniteSet(1 .. m)
    BY <1>1, FS_Interval
  <2> QED
    BY <2>1, FS_Subset, FS_CardinalityType
<1>3. \A i \in 1 .. m : C(t, i) = C(s, i)
  BY <1>1
<1>4. C(t, m + 1) = IF e.type = "call" THEN C(s, m) \cup {m + 1} ELSE C(s, m)
  BY <1>1
<1>5. m + 1 \notin C(s, m)
  BY <1>1
<1>6. Cardinality(C(t, m + 1)) = Cardinality(C(s, m)) + (IF e.type = "call" THEN 1 ELSE 0)
  <2>1. CASE e.type = "call"
    <3>1. Cardinality(C(s, m) \cup {m + 1}) = Cardinality(C(s, m)) + 1
      BY <1>2, <1>5, FS_AddElement
    <3> QED
      BY <1>4, <2>1, <3>1
  <2>2. CASE e.type # "call"
    <3>1. C(t, m + 1) = C(s, m)
      BY <1>4, <2>2
    <3> HIDE DEF C
    <3> QED
      BY <1>2, <2>2, <3>1
  <2> QED
    BY <2>1, <2>2
<1> QED
  BY <1>1, <1>2, <1>3, <1>6 DEF CallsIn

(* There are no more of them in a part than in the whole.                    *)
LEMMA FewerCallsBefore ==
  ASSUME NEW s \in Seq(Events), NEW n \in 1 .. Len(s)
  PROVE  CallsIn(s, n) \in Nat /\ CallsIn(s, n) <= CallsIn(s, Len(s))
<1>1. IsFiniteSet(1 .. Len(s))
  BY FS_Interval
<1>2. /\ {i \in 1 .. n : s[i].type = "call"} \subseteq {i \in 1 .. Len(s) : s[i].type = "call"}
      /\ {i \in 1 .. Len(s) : s[i].type = "call"} \subseteq 1 .. Len(s)
  OBVIOUS
<1>3. IsFiniteSet({i \in 1 .. Len(s) : s[i].type = "call"})
  BY <1>1, <1>2, FS_Subset
<1> QED
  BY <1>2, <1>3, FS_Subset, FS_CardinalityType DEF CallsIn

(* There are none before the first event.                                    *)
LEMMA NoCallsYet == CallsIn(<<>>, 0) = 0
<1>1. {i \in 1 .. 0 : <<>>[i].type = "call"} = {}
  OBVIOUS
<1> QED
  BY <1>1, FS_EmptySet DEF CallsIn

(* Sorting the numbers from 1 to n gives the calls in their order.           *)
LEMMA CallsInOrder ==
  ASSUME NEW n \in Nat
  PROVE  InOrder(1 .. n) = [i \in 1 .. n |-> CallOf(i)]
<1>1. Cardinality(1 .. n) = n
  BY FS_Interval
<1>2. ASSUME NEW i \in 1 .. n
      PROVE  (CHOOSE k \in 1 .. n : Cardinality({l \in 1 .. n : l <= k}) = i) = i
  <2>1. ASSUME NEW k \in 1 .. n PROVE Cardinality({l \in 1 .. n : l <= k}) = k
    <3>1. {l \in 1 .. n : l <= k} = 1 .. k
      OBVIOUS
    <3>2. Cardinality(1 .. k) = k
      BY FS_Interval
    <3> QED
      BY <3>1, <3>2
  <2> QED
    BY <2>1
<1>3. InOrder(1 .. n) = [i \in 1 .. Cardinality(1 .. n) |->
                           CallOf(CHOOSE k \in 1 .. n : Cardinality({l \in 1 .. n : l <= k}) = i)]
  BY DEF InOrder
<1> QED
  BY <1>1, <1>2, <1>3

(* What the parsers emit, and that the kinds differ.                         *)
LEMMA EventsTyped ==
  /\ Text \in Events /\ ErrorEvent \in Events /\ \A n \in 1 .. MaxCalls : CallOf(n) \in Events
  /\ \A r \in Reasons : Done(r) \in Events
  /\ Text.type = "text" /\ ErrorEvent.type = "error"
  /\ \A n : CallOf(n).type = "call" /\ CallOf(n).call = n
  /\ \A r : Done(r).type = "done" /\ Done(r).stop = r
BY DEF Events, Text, ErrorEvent, CallOf, Done

(* The calls sent are a number.                                              *)
LEMMA SentCallsTyped == ProviderTypeOK => SentCalls \in Nat
<1> SUFFICES ASSUME ProviderTypeOK PROVE SentCalls \in Nat
  OBVIOUS
<1>1. Text \in Events /\ sent \in Seq(Events)
  BY EventsTyped DEF ProviderTypeOK
<1> QED
  BY <1>1, CallsAppended DEF SentCalls

(* None is sent or promised before the first line was read.                  *)
LEMMA NothingSent == NothingRead => SentCalls = 0 /\ Promised = 0
BY NoCallsYet DEF NothingRead, SentCalls, Promised

(* Steps that only move the reader keep the invariant.                       *)
LEMMA ProviderQuiet ==
  ASSUME ProviderInv, ProviderTypeOK',
         UNCHANGED <<conn, using, attempt, begun, whole, ended, blocks, stopReason, outbox, sent>>,
         conn \in {"streaming", "closed"} \/ UNCHANGED eventCh
  PROVE  ProviderInv'
BY DEF ProviderInv, SentOK, OutboxOK, ReasonOK, StreamOK, NothingRead, CallsKept, Promised,
   SentCalls, Over, Ending,
   StopsForTools

(* A line makes no events, or one that is no call, or the next calls, with   *)
(* perhaps one that is no call behind them.                                  *)
LEMMA OutboxFilled ==
  ASSUME ProviderInv, Reading, UNCHANGED sent,
         NEW n \in Nat, outbox' \in Seq(Events), Len(outbox') \in {n, n + 1},
         \A i \in 1 .. n : outbox'[i] = CallOf(SentCalls + i),
         Len(outbox') # n => outbox'[Len(outbox')].type # "call"
  PROVE  /\ OutboxOK' /\ SentOK'
         /\ Promised' = SentCalls + n /\ SentCalls' = SentCalls
         /\ Ending' <=> Len(outbox') # n /\ Terminal(outbox'[Len(outbox')])
<1>1. /\ SentCalls \in Nat /\ sent \in Seq(Events) /\ sent' = sent /\ ~Over /\ outbox = <<>>
  BY SentCallsTyped, ProviderAssumption DEF ProviderInv, ProviderTypeOK, Reading, Over
<1>2. \A i \in 1 .. n : outbox'[i] = CallOf(SentCalls + i) /\ outbox'[i].type = "call"
  BY EventsTyped
<1>3. SentCalls' = SentCalls /\ ~Over' /\ SentOK'
  BY <1>1 DEF SentCalls, Over, SentOK, ProviderInv
<1>4. \A i \in 1 .. Len(outbox') : outbox'[i].type = "call" => i \in 1 .. n
  BY <1>1
<1>5. OutboxOK'
  BY <1>1, <1>2, <1>3, <1>4 DEF OutboxOK
<1>6. CASE n = 0 /\ Len(outbox') = 0
  <2>1. outbox' = <<>>
    BY <1>6
  <2> QED
    BY <1>1, <1>3, <1>5, <1>6, <2>1 DEF Promised, Ending
<1>7. CASE n > 0 /\ Len(outbox') = n
  <2>1. outbox' # <<>> /\ outbox'[Len(outbox')].type = "call" /\ ~Terminal(outbox'[Len(outbox')])
    BY <1>2, <1>7 DEF Terminal
  <2> QED
    BY <1>1, <1>3, <1>5, <1>7, <2>1 DEF Promised, Ending
<1>8. CASE Len(outbox') = n + 1
  <2>1. outbox' # <<>> /\ outbox'[Len(outbox')].type # "call" /\ Len(outbox') - 1 = n
    BY <1>8
  <2> QED
    BY <1>1, <1>3, <1>5, <1>8, <2>1 DEF Promised, Ending
<1> QED
  BY <1>6, <1>7, <1>8

(* The rest of the invariant, for a line that has been read.                 *)
LEMMA LineRead ==
  ASSUME ProviderInv, Reading, UNCHANGED <<asked, eventCh, sent, reader>>,
         NEW n \in Nat, outbox' \in Seq(Events), Len(outbox') \in {n, n + 1},
         \A i \in 1 .. n : outbox'[i] = CallOf(SentCalls + i),
         Len(outbox') # n => outbox'[Len(outbox')].type # "call" /\ StopsForTools(outbox[Len(outbox)])',
         begun' \in 0 .. MaxCalls, whole' \in 0 .. begun', begun' \in {whole', whole' + 1},
         ended' \in {"no", "finished", "broken"}, ended' = "finished" => whole' = begun',
         blocks' \subseteq 1 .. MaxCalls, stopReason' \in Reasons,
         using # "gemini" /\ ended' = "finished" => (stopReason' = "tool_use" <=> begun' > 0),
         CallsKept'
  PROVE  ProviderInv'
<1>1. OutboxOK' /\ SentOK'
  BY OutboxFilled
<1>2. ProviderTypeOK'
  BY DEF ProviderInv, ProviderTypeOK, asked
<1>3. StreamOK'
  BY DEF ProviderInv, StreamOK, Over, asked, Reading
<1>4. \A i \in 1 .. n : outbox'[i].type = "call"
  BY EventsTyped
<1>5. ASSUME NEW i \in 1 .. Len(outbox') PROVE StopsForTools(outbox[i])'
  <2>1. CASE i \in 1 .. n
    BY <1>4, <2>1 DEF StopsForTools
  <2>2. CASE i = n + 1
    BY <2>2
  <2> QED
    BY <2>1, <2>2
<1>6. ASSUME NEW i \in 1 .. Len(sent) PROVE sent[i].type # "done"
  BY DEF Reading, Terminal
<1>7. ReasonOK'
  BY <1>5, <1>6 DEF ReasonOK, StopsForTools, asked
<1> QED
  BY <1>1, <1>2, <1>3, <1>7 DEF ProviderInv

\* What is known while a line is read.
LEMMA WhileReading ==
  ASSUME ProviderInv, Reading
  PROVE  /\ SentCalls \in Nat /\ Promised = SentCalls /\ outbox = <<>> /\ ~Over /\ ~Ending /\ CallsKept
         /\ using \in {"claude", "gemini", "openai"}
         /\ begun \in 0 .. MaxCalls /\ whole \in Nat /\ begun \in Nat /\ begun \in {whole, whole + 1}
         /\ ended \in {"no", "finished", "broken"} /\ stopReason \in Reasons /\ blocks \subseteq 1 .. MaxCalls
         /\ conn = "streaming" /\ (ended = "finished" => whole = begun) /\ MaxCalls \in Nat
<1>1. SentCalls \in Nat
  BY SentCallsTyped DEF ProviderInv
<1>2. outbox = <<>> /\ ~Over /\ ~Ending
  BY DEF Reading, Over, Ending
<1>3. Promised = SentCalls
  BY <1>1, <1>2 DEF Promised
<1>4. conn = "streaming" /\ CallsKept
  BY DEF Reading, ProviderInv
<1>5. using \in {"claude", "gemini", "openai"} /\ begun \in {whole, whole + 1} /\ (ended = "finished" => whole = begun)
  BY <1>4, ProviderAssumption DEF ProviderInv, StreamOK
<1> QED
  BY <1>1, <1>2, <1>3, <1>4, <1>5, ProviderAssumption DEF ProviderInv, ProviderTypeOK

\* The lines that make no call: they make one other event, or none.
LEMMA NoCallRead ==
  ASSUME ProviderInv, Reading, UNCHANGED <<asked, eventCh, sent, reader>>,
         NEW e \in Events, e.type # "call", outbox' \in {<<>>, <<e>>},
         e.type = "done" /\ ended' = "finished" => (e.stop = "tool_use" <=> begun' > 0),
         begun' \in 0 .. MaxCalls, whole' \in 0 .. begun', begun' \in {whole', whole' + 1},
         ended' \in {"no", "finished", "broken"}, ended' = "finished" => whole' = begun',
         blocks' \subseteq 1 .. MaxCalls, stopReason' \in Reasons,
         using # "gemini" /\ ended' = "finished" => (stopReason' = "tool_use" <=> begun' > 0)
  PROVE  /\ Promised' = SentCalls /\ (Ending' <=> outbox' # <<>> /\ Terminal(e))
         /\ CallsKept' => ProviderInv'
<1>1. /\ outbox' \in Seq(Events) /\ 0 \in Nat /\ Len(outbox') \in {0, 0 + 1}
      /\ \A i \in 1 .. 0 : outbox'[i] = CallOf(SentCalls + i)
      /\ outbox' # <<>> <=> Len(outbox') # 0
      /\ Len(outbox') # 0 => outbox'[Len(outbox')] = e
  <2>1. CASE outbox' = <<>>
    BY <2>1
  <2>2. CASE outbox' = <<e>>
    BY <2>2
  <2> QED
    BY <2>1, <2>2
<1>2. Len(outbox') # 0 => outbox'[Len(outbox')].type # "call" /\ StopsForTools(outbox[Len(outbox)])'
  BY <1>1 DEF StopsForTools
<1>3. UNCHANGED sent
  OBVIOUS
<1>4. Promised' = SentCalls + 0 /\ (Ending' <=> Len(outbox') # 0 /\ Terminal(outbox'[Len(outbox')]))
  BY <1>1, <1>2, <1>3, OutboxFilled
<1>5. CallsKept' => ProviderInv'
  BY <1>1, <1>2, LineRead
<1> QED
  BY <1>1, <1>4, <1>5, WhileReading

(* A line that ends calls: they are promised, in their order.                *)
LEMMA CallsRead ==
  ASSUME ProviderInv, Reading, UNCHANGED <<asked, eventCh, sent, reader>>,
         NEW n \in Nat, outbox' = [i \in 1 .. n |-> CallOf(SentCalls + i)], SentCalls + n <= MaxCalls,
         begun' \in 0 .. MaxCalls, whole' \in 0 .. begun', begun' \in {whole', whole' + 1},
         ended' \in {"no", "finished", "broken"}, ended' = "finished" => whole' = begun',
         blocks' \subseteq 1 .. MaxCalls, stopReason' \in Reasons,
         using # "gemini" /\ ended' = "finished" => (stopReason' = "tool_use" <=> begun' > 0)
  PROVE  /\ Promised' = SentCalls + n /\ ~Ending'
         /\ CallsKept' => ProviderInv'
<1>1. SentCalls \in Nat /\ MaxCalls \in Nat
  BY WhileReading
<1>2. \A i \in 1 .. n : SentCalls + i \in 1 .. MaxCalls
  BY <1>1
<1>3. outbox' \in Seq(Events) /\ Len(outbox') = n /\ \A i \in 1 .. n : outbox'[i] = CallOf(SentCalls + i)
  BY <1>2, EventsTyped
<1>4. UNCHANGED sent
  OBVIOUS
<1>5. Promised' = SentCalls + n /\ (Ending' <=> Len(outbox') # n /\ Terminal(outbox'[Len(outbox')]))
  BY <1>3, <1>4, OutboxFilled
<1>6. CallsKept' => ProviderInv'
  BY <1>3, LineRead
<1> QED
  BY <1>3, <1>5, <1>6

(* The steps of the parsers, by the line they read.                          *)
LEMMA ReadTextStep == ASSUME ProviderInv, ReadText PROVE ProviderInv'
<1>1. Reading /\ UNCHANGED <<asked, eventCh, sent, reader>> /\ outbox' \in {<<>>, <<Text>>} /\ Text \in Events
      /\ Text.type = "text"
  BY EventsTyped DEF ReadText
<1>2. UNCHANGED <<using, begun, whole, ended, blocks, stopReason>> /\ ended = "no"
  BY DEF ReadText, asked, upstream, parser
<1>3. begun' \in 0 .. MaxCalls /\ whole' \in 0 .. begun' /\ begun' \in {whole', whole' + 1}
  BY <1>1, <1>2, WhileReading
<1>4. Promised' = SentCalls /\ (CallsKept' => ProviderInv')
  BY <1>1, <1>2, <1>3, WhileReading, NoCallRead
<1>5. CallsKept'
  BY <1>1, <1>2, <1>4, WhileReading DEF CallsKept
<1> QED
  BY <1>4, <1>5

(* A line of a call, in the three forms.                                     *)
LEMMA ReadCallStep == ASSUME ProviderInv, ReadCallStart \/ ReadCallEnd \/ ReadCallPart
                      PROVE  ProviderInv'
<1> USE ProviderAssumption
<1>1. Reading /\ UNCHANGED <<asked, eventCh, sent, reader>> /\ UNCHANGED <<using, ended, stopReason>> /\ ended = "no"
  BY DEF ReadCallStart, ReadCallEnd, ReadCallPart, channel, parser, asked
<1>2. outbox = <<>> /\ Text \in Events /\ Text.type = "text"
  BY <1>1, EventsTyped DEF Reading
<1>3. CASE ReadCallStart
  <2>1. /\ begun = whole /\ begun < MaxCalls /\ begun' = begun + 1 /\ whole' = whole
        /\ blocks' = blocks \cup {begun + 1} /\ outbox' \in {<<>>, <<Text>>}
        /\ using \in {"claude", "openai"}
    BY <1>2, <1>3 DEF ReadCallStart, channel
  <2>2. /\ begun' \in 0 .. MaxCalls /\ whole' \in 0 .. begun' /\ begun' \in {whole', whole' + 1}
        /\ blocks' \subseteq 1 .. MaxCalls
    BY <1>1, <2>1, WhileReading
  <2>3. Promised' = SentCalls /\ (CallsKept' => ProviderInv')
    BY <1>1, <1>2, <2>1, <2>2, WhileReading, NoCallRead
  <2>4. CASE using = "claude"
    BY <1>1, <2>1, <2>3, <2>4, WhileReading DEF CallsKept
  <2>5. CASE using = "openai"
    <3>1. blocks = 1 .. begun /\ SentCalls = 0 /\ begun \in Nat
      BY <1>1, <2>5, WhileReading DEF CallsKept
    <3>2. blocks' = 1 .. begun'
      BY <2>1, <3>1
    <3> QED
      BY <1>1, <2>3, <2>5, <3>1, <3>2 DEF CallsKept
  <2> QED
    BY <2>1, <2>4, <2>5
<1>4. CASE ReadCallEnd
  <2>1. whole < begun /\ whole' = begun /\ begun' = begun /\ begun = whole + 1
    BY <1>1, <1>4, WhileReading DEF ReadCallEnd
  <2>2. begun' \in 0 .. MaxCalls /\ whole' \in 0 .. begun' /\ begun' \in {whole', whole' + 1}
    BY <1>1, <2>1, WhileReading
  <2>3. CASE using = "claude"
    <3>1. outbox' = <<CallOf(begun)>> /\ blocks' = blocks \ {begun}
      BY <1>4, <2>3 DEF ReadCallEnd
    <3>2. SentCalls = whole /\ blocks = (whole + 1) .. begun
      BY <1>1, <2>3, WhileReading DEF CallsKept
    <3>3. outbox' = [i \in 1 .. 1 |-> CallOf(SentCalls + i)]
      BY <2>1, <3>1, <3>2
    <3>4. blocks' = (whole' + 1) .. begun' /\ blocks' \subseteq 1 .. MaxCalls
      BY <1>1, <2>1, <3>1, <3>2, WhileReading
    <3>5. 1 \in Nat /\ SentCalls + 1 <= MaxCalls
      BY <1>1, <2>1, <3>2, WhileReading
    <3>6. Promised' = SentCalls + 1 /\ (CallsKept' => ProviderInv')
      BY <1>1, <2>2, <3>3, <3>4, <3>5, WhileReading, CallsRead
    <3>7. Promised' = whole'
      BY <2>1, <3>2, <3>6
    <3> QED
      BY <1>1, <2>3, <3>4, <3>6, <3>7 DEF CallsKept
  <2>4. CASE using = "openai"
    <3>1. outbox' \in {<<>>, <<Text>>} /\ blocks' = blocks
      BY <1>2, <1>4, <2>4 DEF ReadCallEnd
    <3>2. Promised' = SentCalls /\ (CallsKept' => ProviderInv')
      BY <1>1, <1>2, <2>2, <3>1, WhileReading, NoCallRead
    <3> QED
      BY <1>1, <2>1, <2>4, <3>1, <3>2, WhileReading DEF CallsKept
  <2>5. CASE using = "gemini"
    BY <1>1, <2>1, <2>5, WhileReading DEF CallsKept
  <2> QED
    BY <1>1, <2>3, <2>4, <2>5, WhileReading
<1>5. CASE ReadCallPart
  <2>1. /\ using = "gemini" /\ begun < MaxCalls /\ begun' = begun + 1 /\ whole' = begun + 1 /\ blocks' = blocks
        /\ outbox' = <<CallOf(begun + 1)>>
    BY <1>5 DEF ReadCallPart, parser
  <2>2. blocks = {} /\ SentCalls = begun
    BY <1>1, <2>1, WhileReading DEF CallsKept
  <2>3. outbox' = [i \in 1 .. 1 |-> CallOf(SentCalls + i)] /\ 1 \in Nat /\ SentCalls + 1 <= MaxCalls
    BY <1>1, <2>1, <2>2, WhileReading
  <2>4. begun' \in 0 .. MaxCalls /\ whole' \in 0 .. begun' /\ begun' \in {whole', whole' + 1}
    BY <1>1, <2>1, WhileReading
  <2>5. Promised' = SentCalls + 1 /\ (CallsKept' => ProviderInv')
    BY <1>1, <2>1, <2>3, <2>4, WhileReading, CallsRead
  <2> QED
    BY <1>1, <2>1, <2>2, <2>5 DEF CallsKept
<1> QED
  BY <1>3, <1>4, <1>5

(* The token limit, and an error on the way.                                 *)
LEMMA ReadLimitStep == ASSUME ProviderInv, ReadLimit \/ ReadError PROVE ProviderInv'
<1>1. /\ Reading /\ UNCHANGED <<asked, eventCh, sent, reader>> /\ UNCHANGED <<using, begun, whole, blocks>>
      /\ outbox = <<>> /\ ErrorEvent \in Events /\ ErrorEvent.type = "error" /\ outbox' \in {<<>>, <<ErrorEvent>>}
      /\ \/ ended' = "broken"
         \/ ended' = ended /\ stopReason' = stopReason
      /\ stopReason' \in Reasons
  BY WhileReading, EventsTyped DEF ReadLimit, ReadError, Reading, upstream, parser, asked, Reasons
<1>2. begun' \in 0 .. MaxCalls /\ whole' \in 0 .. begun' /\ begun' \in {whole', whole' + 1}
  BY <1>1, WhileReading
<1>3. using # "gemini" /\ ended' = "finished" => (stopReason' = "tool_use" <=> begun' > 0)
  BY <1>1 DEF ProviderInv, ReasonOK
<1>4. ended' \in {"no", "finished", "broken"} /\ (ended' = "finished" => whole' = begun') /\ blocks' \subseteq 1 .. MaxCalls
  BY <1>1, WhileReading
<1>5. Promised' = SentCalls /\ (CallsKept' => ProviderInv')
  BY <1>1, <1>2, <1>3, <1>4, NoCallRead
<1>6. ended' = ended \/ (ended' = "broken" /\ ended = "no")
  BY <1>1, WhileReading DEF ReadLimit, ReadError, upstream
<1>7. CallsKept'
  BY <1>1, <1>5, <1>6, WhileReading DEF CallsKept
<1> QED
  BY <1>5, <1>7

(* The line that says why the answer ends.                                   *)
LEMMA ReadFinishStep == ASSUME ProviderInv, ReadFinish PROVE ProviderInv'
<1>1. /\ Reading /\ UNCHANGED <<asked, eventCh, sent, reader>> /\ UNCHANGED <<using, begun, whole>>
      /\ ended = "no" /\ ended' = "finished" /\ begun = whole /\ outbox = <<>>
      /\ UNCHANGED <<eventCh, sent>>
  BY WhileReading DEF ReadFinish, asked
<1>2. /\ begun' \in 0 .. MaxCalls /\ whole' \in 0 .. begun' /\ begun' \in {whole', whole' + 1}
      /\ ended' \in {"no", "finished", "broken"} /\ (ended' = "finished" => whole' = begun')
  BY <1>1, WhileReading
<1>3. CASE using = "gemini"
  <2>1. outbox' = <<Done(GeminiReason)>> /\ UNCHANGED <<blocks, stopReason>>
    BY <1>1, <1>3 DEF ReadFinish, parser
  <2>2. GeminiReason \in Reasons /\ (GeminiReason = "tool_use" <=> begun > 0)
    BY DEF GeminiReason, Reasons
  <2>3. Done(GeminiReason) \in Events /\ Done(GeminiReason).type = "done" /\ Done(GeminiReason).stop = GeminiReason
    BY <2>2, EventsTyped
  <2>4. blocks' \subseteq 1 .. MaxCalls /\ stopReason' \in Reasons
    BY <1>1, <2>1, WhileReading
  <2>5. Promised' = SentCalls /\ (CallsKept' => ProviderInv')
    <3> HIDE DEF GeminiReason, Done
    <3>1. outbox' \in {<<>>, <<Done(GeminiReason)>>} /\ Done(GeminiReason).type # "call"
      BY <2>1, <2>3
    <3>2. Done(GeminiReason).stop = "tool_use" <=> begun' > 0
      BY <1>1, <2>2, <2>3
    <3> QED
      BY <1>1, <1>2, <1>3, <2>3, <2>4, <3>1, <3>2, NoCallRead
  <2> QED
    BY <1>1, <1>3, <2>1, <2>5, WhileReading DEF CallsKept
<1>4. CASE using = "claude"
  <2>1. outbox' = outbox /\ blocks' = blocks /\ stopReason' = IF begun > 0 THEN "tool_use" ELSE "end_turn"
    BY <1>1, <1>4 DEF ReadFinish
  <2>2. blocks' \subseteq 1 .. MaxCalls /\ stopReason' \in Reasons /\ (stopReason' = "tool_use" <=> begun' > 0)
    BY <1>1, <2>1, WhileReading DEF Reasons
  <2>3. Text \in Events /\ Text.type = "text" /\ outbox' \in {<<>>, <<Text>>}
    BY <1>1, <2>1, EventsTyped
  <2>4. Promised' = SentCalls /\ (CallsKept' => ProviderInv')
    BY <1>1, <1>2, <2>2, <2>3, NoCallRead
  <2> QED
    BY <1>1, <1>4, <2>1, <2>4, WhileReading DEF CallsKept
<1>5. CASE using = "openai"
  <2>1. /\ outbox' = InOrder(blocks) /\ blocks' = {}
        /\ stopReason' = IF begun > 0 THEN "tool_use" ELSE "end_turn"
    BY <1>1, <1>5 DEF ReadFinish
  <2>2. blocks = 1 .. begun /\ SentCalls = 0 /\ begun \in Nat
    BY <1>1, <1>5, WhileReading DEF CallsKept
  <2>3. blocks' \subseteq 1 .. MaxCalls /\ stopReason' \in Reasons /\ (stopReason' = "tool_use" <=> begun' > 0)
    BY <1>1, <2>1 DEF Reasons
  <2>4. outbox' = [i \in 1 .. begun |-> CallOf(i)]
    BY <2>1, <2>2, CallsInOrder
  <2>5. outbox' = [i \in 1 .. begun |-> CallOf(SentCalls + i)] /\ SentCalls + begun <= MaxCalls
    BY <2>2, <2>4, <1>1, WhileReading
  <2>6. Promised' = SentCalls + begun /\ (CallsKept' => ProviderInv')
    BY <1>1, <1>2, <2>2, <2>3, <2>5, CallsRead
  <2> QED
    BY <1>1, <1>5, <2>1, <2>2, <2>6 DEF CallsKept
<1> QED
  BY <1>1, <1>3, <1>4, <1>5, WhileReading

(* The end of the body.                                                      *)
LEMMA ReadEndStep == ASSUME ProviderInv, ReadEnd PROVE ProviderInv'
<1>1. /\ Reading /\ UNCHANGED <<asked, eventCh, sent, reader>> /\ UNCHANGED <<using, begun, whole, blocks, stopReason>>
      /\ ended' = IF ended = "no" THEN "broken" ELSE ended
      /\ outbox = <<>> /\ UNCHANGED <<eventCh, sent>>
  BY WhileReading DEF ReadEnd, asked, parser
<1>2. /\ begun' \in 0 .. MaxCalls /\ whole' \in 0 .. begun' /\ begun' \in {whole', whole' + 1}
      /\ ended' \in {"no", "finished", "broken"} /\ (ended' = "finished" => ended = "finished")
      /\ (ended' = "finished" => whole' = begun')
      /\ blocks' \subseteq 1 .. MaxCalls /\ stopReason' \in Reasons
  BY <1>1, WhileReading
<1>3. using # "gemini" /\ ended' = "finished" => (stopReason' = "tool_use" <=> begun' > 0)
  BY <1>1, <1>2 DEF ProviderInv, ReasonOK
<1> DEFINE r == IF using = "gemini" THEN GeminiReason ELSE stopReason
           e == Done(r)
<1>4. r \in Reasons /\ (ended' = "finished" => (r = "tool_use" <=> begun' > 0))
  BY <1>1, <1>3, WhileReading DEF GeminiReason, Reasons
<1>5. e \in Events /\ e.type = "done" /\ e.stop = r
  BY <1>4, EventsTyped
<1>6. CASE using # "openai"
  <2>1. outbox' = <<e>>
    BY <1>1, <1>6, WhileReading DEF ReadEnd
  <2> HIDE DEF e, r
  <2>2. Promised' = SentCalls /\ (CallsKept' => ProviderInv')
    <3>1. outbox' \in {<<>>, <<e>>} /\ e.type # "call"
      BY <2>1, <1>5
    <3> QED
      BY <1>1, <1>2, <1>3, <1>4, <1>5, <3>1, NoCallRead
  <2> QED
    BY <1>1, <1>6, <2>2, WhileReading DEF CallsKept
<1>7. CASE using = "openai"
  <2>1. outbox' = Append(InOrder(blocks), e)
    BY <1>7 DEF ReadEnd
  <2> HIDE DEF e, r
  <2>2. PICK n \in Nat :
             /\ blocks = 1 .. n /\ n <= MaxCalls /\ (n > 0 => SentCalls = 0) /\ SentCalls + n = begun
             /\ ended = "finished" => blocks = {}
    <3>1. begun \in Nat /\ SentCalls \in Nat /\ begun <= MaxCalls /\ MaxCalls \in Nat /\ 0 \in Nat
      BY <1>1, WhileReading
    <3>2. CASE blocks = 1 .. begun /\ SentCalls = 0 /\ (ended = "finished" => begun = 0)
      BY <3>1, <3>2
    <3>3. CASE blocks = {} /\ SentCalls = begun
      <4>1. blocks = 1 .. 0 /\ 0 <= MaxCalls /\ ~(0 > 0) /\ SentCalls + 0 = begun
        BY <3>1, <3>3
      <4> QED
        BY <3>1, <3>3, <4>1
    <3> QED
      BY <1>1, <1>7, <3>2, <3>3, WhileReading DEF CallsKept
  <2>3. InOrder(blocks) = [i \in 1 .. n |-> CallOf(i)]
    BY <2>2, CallsInOrder
  <2>4. InOrder(blocks) \in Seq(Events) /\ Len(InOrder(blocks)) = n
    <3>1. n \in Nat /\ MaxCalls \in Nat /\ \A i \in 1 .. n : i \in 1 .. MaxCalls
      BY <1>1, <2>2, WhileReading
    <3>2. \A i \in 1 .. n : CallOf(i) \in Events
      BY <3>1, EventsTyped
    <3> QED
      BY <2>3, <3>1, <3>2
  <2>5. /\ outbox' \in Seq(Events) /\ Len(outbox') = n + 1 /\ outbox'[n + 1] = e
        /\ \A i \in 1 .. n : outbox'[i] = CallOf(i)
    <3>1. /\ n \in Nat /\ \A i \in 1 .. n : InOrder(blocks)[i] = CallOf(i)
      BY <2>3
    <3> HIDE <2>2
    <3> QED
      BY <1>5, <2>1, <2>4, <3>1
  <2>6. \A i \in 1 .. n : outbox'[i] = CallOf(SentCalls + i)
    <3> SUFFICES ASSUME NEW i \in 1 .. n PROVE outbox'[i] = CallOf(SentCalls + i)
      OBVIOUS
    <3>1. SentCalls + i = i
      BY <2>2
    <3> QED
      BY <2>5, <3>1
  <2>7. outbox'[Len(outbox')].type # "call" /\ StopsForTools(outbox[Len(outbox)])'
    BY <1>4, <1>5, <2>5 DEF StopsForTools
  <2>8. Promised' = SentCalls + n /\ Ending'
    <3>1. n \in Nat /\ UNCHANGED sent /\ Len(outbox') \in {n, n + 1} /\ Len(outbox') # n
      BY <1>1, <2>5
    <3>2. Terminal(outbox'[Len(outbox')])
      BY <1>5, <2>5 DEF Terminal
    <3> QED
      BY <1>1, <2>5, <2>6, <2>7, <3>1, <3>2, OutboxFilled
  <2>9. CallsKept'
    <3>1. using' = "openai" /\ Promised' = begun' /\ blocks' = blocks /\ begun' = begun
      BY <1>1, <1>7, <2>2, <2>8
    <3>2. CASE ended' = "finished"
      BY <1>1, <1>2, <2>2, <3>1, <3>2 DEF CallsKept
    <3>3. CASE ended' = "broken"
      <4>1. blocks = 1 .. begun \/ ~(n > 0)
        BY <2>2, <1>1, WhileReading
      <4> QED
        BY <1>1, <1>7, <2>2, <2>8, <3>1, <3>3, <4>1, WhileReading DEF CallsKept
    <3> QED
      BY <1>1, <3>2, <3>3, WhileReading
  <2> QED
    BY <1>1, <1>2, <1>3, <2>5, <2>6, <2>7, <2>9, LineRead
<1> QED
  BY <1>6, <1>7

(* Asking, waiting, trying again and falling back, before any line.          *)
LEMMA AskedSteps == ASSUME ProviderInv, Ask \/ Asking PROVE ProviderInv'
<1> USE ProviderAssumption
<1>1. UNCHANGED <<upstream, parser, channel, reader>> /\ conn' \in {"asking", "streaming", "backoff", "refused"}
  BY DEF Ask, Asking, Connect, FailTransiently, AskAgain, GiveUpAsking
<1>2. conn \in {"none", "asking", "backoff"}
  BY DEF Ask, Asking, Connect, FailTransiently, AskAgain, GiveUpAsking
<1>3. NothingRead
  BY <1>2 DEF ProviderInv, StreamOK
<1>4. NothingRead'
  BY <1>1, <1>3 DEF NothingRead, upstream, parser, channel
<1>5. ProviderTypeOK' /\ using' \in Providers
  <2>1. CASE Ask
    BY <2>1, <1>1 DEF Ask, ProviderInv, ProviderTypeOK, upstream, parser, channel
  <2>2. CASE Connect
    BY <2>2, <1>1, <1>2 DEF Connect, ProviderInv, ProviderTypeOK, StreamOK, upstream, parser,
       channel
  <2>3. CASE FailTransiently
    BY <2>3, <1>1, <1>2 DEF FailTransiently, ProviderInv, ProviderTypeOK, StreamOK, upstream,
       parser, channel
  <2>4. CASE AskAgain
    BY <2>4, <1>1, <1>2 DEF AskAgain, ProviderInv, ProviderTypeOK, StreamOK, upstream, parser,
       channel
  <2>5. CASE GiveUpAsking
    BY <2>5, <1>1, <1>2 DEF GiveUpAsking, ProviderInv, ProviderTypeOK, StreamOK, upstream, parser,
       channel
  <2> QED
    BY <2>1, <2>2, <2>3, <2>4, <2>5 DEF Asking
<1>6. SentCalls' = 0 /\ Promised' = 0
  BY <1>4, NoCallsYet DEF NothingRead, SentCalls, Promised
<1>7. SentOK' /\ OutboxOK' /\ ReasonOK'
  BY <1>4 DEF NothingRead, SentOK, OutboxOK, ReasonOK, Over
<1>8. StreamOK'
  <2>1. conn' = "backoff" => attempt' < MaxRetries
    BY DEF Ask, Asking, Connect, FailTransiently, AskAgain, GiveUpAsking
  <2> QED
    BY <1>1, <1>4, <1>5, <2>1 DEF StreamOK, NothingRead
<1>9. CallsKept'
  BY <1>4, <1>5, <1>6 DEF CallsKept, NothingRead
<1> QED
  BY <1>5, <1>7, <1>8, <1>9 DEF ProviderInv

(* An event moves from the parser into the channel.                          *)
LEMMA SendStep == ASSUME ProviderInv, SendEvent PROVE ProviderInv'
<1> DEFINE e == Head(outbox)
           N == Len(sent)
<1>1. /\ outbox # <<>> /\ outbox \in Seq(Events) /\ eventCh \in Seq(Events) /\ sent \in Seq(Events)
      /\ e = outbox[1] /\ outbox' = Tail(outbox) /\ sent' = Append(sent, e) /\ eventCh' = Append(eventCh, e)
      /\ Len(eventCh) < Room /\ UNCHANGED <<asked, upstream, parser, reader>>
  BY DEF SendEvent, ProviderInv, ProviderTypeOK
<1>2. e \in Events /\ ~Over
  BY <1>1 DEF ProviderInv, OutboxOK
<1>3. ProviderTypeOK'
  <2>1. outbox' \in Seq(Events) /\ sent' \in Seq(Events) /\ eventCh' \in Seq(Events) /\ Len(eventCh') = Len(eventCh) + 1
    BY <1>1, <1>2
  <2>2. Room \in Nat /\ Len(eventCh') <= Room
    BY <1>1, <2>1, ProviderAssumption
  <2> QED
    BY <1>1, <2>1, <2>2 DEF ProviderInv, ProviderTypeOK, asked, upstream, parser
<1>4. conn \in {"streaming", "closed"} /\ UNCHANGED <<conn, using, begun, whole, ended, blocks, stopReason>>
  BY <1>1 DEF ProviderInv, ProviderTypeOK, StreamOK, NothingRead, asked, upstream, parser
<1>5. /\ N \in Nat /\ Len(sent') = N + 1 /\ sent'[N + 1] = e
      /\ \A i \in 1 .. N : sent'[i] = sent[i]
  BY <1>1, <1>2
<1>6. /\ Len(outbox) \in Nat \ {0} /\ Len(outbox') = Len(outbox) - 1
      /\ \A i \in 1 .. Len(outbox') : outbox'[i] = outbox[i + 1] /\ i + 1 \in 1 .. Len(outbox)
  BY <1>1
<1>7. /\ SentCalls \in Nat
      /\ \A i \in 1 .. N : CallsIn(sent', i) = CallsIn(sent, i)
      /\ CallsIn(sent', N + 1) = SentCalls + (IF e.type = "call" THEN 1 ELSE 0)
  BY <1>1, <1>2, CallsAppended DEF SentCalls
<1>8. SentCalls' = SentCalls + (IF e.type = "call" THEN 1 ELSE 0)
  BY <1>5, <1>7 DEF SentCalls
<1>9. e.type # "call" => Len(outbox) = 1
  BY <1>1, <1>6 DEF ProviderInv, OutboxOK
<1>10. SentOK'
  <2>1. ASSUME NEW i \in 1 .. Len(sent'), Terminal(sent'[i]) PROVE i = Len(sent')
    BY <1>2, <1>5, <2>1 DEF Over
  <2>2. ASSUME NEW i \in 1 .. Len(sent'), sent'[i].type = "call"
        PROVE  sent'[i] = CallOf(CallsIn(sent', i))
    <3>1. CASE i \in 1 .. N
      BY <1>5, <1>7, <2>2, <3>1 DEF ProviderInv, SentOK
    <3>2. CASE i = N + 1
      <4>1. e.type = "call" /\ e = CallOf(SentCalls + 1)
        BY <1>1, <1>5, <1>6, <2>2, <3>2 DEF ProviderInv, OutboxOK
      <4> QED
        BY <1>5, <1>7, <3>2, <4>1
    <3> QED
      BY <1>5, <3>1, <3>2
  <2> QED
    BY <2>1, <2>2 DEF SentOK
<1>11. Over' <=> Terminal(e)
  BY <1>2, <1>5 DEF Over
<1>12. OutboxOK'
  <2>1. ASSUME NEW i \in 1 .. Len(outbox'), outbox'[i].type = "call"
        PROVE  outbox'[i] = CallOf(SentCalls' + i)
    <3>1. outbox[i + 1] = CallOf(SentCalls + (i + 1)) /\ Len(outbox) # 1
      BY <1>6, <2>1 DEF ProviderInv, OutboxOK
    <3>2. SentCalls' = SentCalls + 1
      BY <1>8, <1>9, <3>1
    <3>3. SentCalls + (i + 1) = SentCalls' + i
      BY <1>7, <3>2
    <3> QED
      BY <1>6, <3>1, <3>3
  <2>2. ASSUME NEW i \in 1 .. Len(outbox') - 1 PROVE outbox'[i].type = "call"
    BY <1>6 DEF ProviderInv, OutboxOK
  <2>3. Over' => outbox' = <<>>
    <3>1. Over' => Len(outbox) = 1
      BY <1>9, <1>11 DEF Terminal
    <3> QED
      BY <1>1, <1>6, <3>1
  <2> QED
    BY <2>1, <2>2, <2>3 DEF OutboxOK
<1>13. Promised' = Promised
  <2>1. CASE Len(outbox) = 1
    <3>1. outbox' = <<>> /\ outbox[Len(outbox)] = e
      BY <1>1, <1>6, <2>1
    <3> QED
      BY <1>1, <1>7, <1>8, <2>1, <3>1 DEF Promised
  <2>2. CASE Len(outbox) > 1
    <3>1. outbox' # <<>> /\ outbox'[Len(outbox')] = outbox[Len(outbox)]
      BY <1>6, <2>2
    <3>2. SentCalls' = SentCalls + 1
      <4>1. 1 \in 1 .. Len(outbox) - 1 /\ outbox[1] = e
        BY <1>1, <1>6, <2>2
      <4>2. e.type = "call"
        BY <4>1 DEF ProviderInv, OutboxOK
      <4> QED
        BY <1>8, <4>2
    <3>3. CASE outbox[Len(outbox)].type = "call"
      <4>1. Promised = SentCalls + Len(outbox) /\ Promised' = SentCalls' + Len(outbox')
        BY <1>1, <3>1, <3>3 DEF Promised
      <4> QED
        BY <1>6, <1>7, <3>2, <4>1
    <3>4. CASE outbox[Len(outbox)].type # "call"
      <4>1. Promised = SentCalls + (Len(outbox) - 1) /\ Promised' = SentCalls' + (Len(outbox') - 1)
        BY <1>1, <3>1, <3>4 DEF Promised
      <4> QED
        BY <1>6, <1>7, <3>2, <4>1
    <3> QED
      BY <3>3, <3>4
  <2> QED
    BY <1>6, <2>1, <2>2
<1>14. Ending => Ending'
  <2>1. CASE Len(outbox) = 1
    <3>1. outbox[Len(outbox)] = e
      BY <1>1, <2>1
    <3> QED
      BY <1>2, <1>11, <3>1 DEF Ending
  <2>2. CASE Len(outbox) > 1
    <3>1. outbox' # <<>> /\ outbox'[Len(outbox')] = outbox[Len(outbox)]
      BY <1>6, <2>2
    <3> QED
      BY <1>2, <3>1 DEF Ending
  <2> QED
    BY <1>6, <2>1, <2>2
<1>15. CallsKept'
  BY <1>4, <1>13, <1>14 DEF CallsKept, ProviderInv
<1>16. ReasonOK'
  <2>1. \A i \in 1 .. Len(sent) : StopsForTools(sent[i])
    BY DEF ProviderInv, ReasonOK
  <2>2. \A i \in 1 .. Len(outbox) : StopsForTools(outbox[i])
    BY DEF ProviderInv, ReasonOK
  <2>3. StopsForTools(e)
    BY <1>1, <1>6, <2>2
  <2>4. \A i \in 1 .. Len(sent') : StopsForTools(sent'[i])
    BY <1>5, <2>1, <2>3
  <2>5. \A i \in 1 .. Len(outbox') : StopsForTools(outbox'[i])
    BY <1>6, <2>2
  <2> HIDE DEF e
  <2> QED
    BY <1>4, <2>4, <2>5 DEF ProviderInv, ReasonOK, StopsForTools
<1>17. StreamOK'
  BY <1>1, <1>4, <1>2 DEF ProviderInv, StreamOK, asked
<1> QED
  BY <1>3, <1>10, <1>12, <1>15, <1>16, <1>17 DEF ProviderInv

(* The goroutine ends and closes the channel.                                *)
LEMMA CloseStep == ASSUME ProviderInv, Close PROVE ProviderInv'
<1>1. /\ conn = "streaming" /\ conn' = "closed" /\ Over
      /\ UNCHANGED <<using, spare, attempt, upstream, parser, channel, reader>>
  BY DEF Close, Reading, Over
<1>2. ProviderTypeOK'
  BY <1>1 DEF ProviderInv, ProviderTypeOK, upstream, parser, channel
<1> QED
  BY <1>1, <1>2 DEF ProviderInv, SentOK, OutboxOK, ReasonOK, StreamOK, NothingRead, CallsKept,
     Promised, SentCalls,
     Over, Ending, StopsForTools, upstream, parser, channel

(* The reader takes an event, or leaves.                                     *)
LEMMA ReaderSteps == ASSUME ProviderInv, Taking \/ Abandon PROVE ProviderInv'
<1>1. CASE TakeEvent
  <2>1. eventCh # <<>> /\ eventCh \in Seq(Events) /\ eventCh' = Tail(eventCh)
    BY <1>1 DEF TakeEvent, ProviderInv, ProviderTypeOK
  <2>2. Len(eventCh') <= Room /\ eventCh' \in Seq(Events)
    BY <2>1, ProviderAssumption DEF ProviderInv, ProviderTypeOK
  <2>3. ProviderTypeOK'
    BY <1>1, <2>2 DEF TakeEvent, ProviderInv, ProviderTypeOK, asked, upstream, parser
  <2>4. conn \in {"streaming", "closed"}
    BY <2>1 DEF ProviderInv, ProviderTypeOK, StreamOK, NothingRead
  <2>5. UNCHANGED <<conn, using, attempt, begun, whole, ended, blocks, stopReason, outbox, sent>>
    BY <1>1 DEF TakeEvent, asked, upstream, parser
  <2> QED
    BY <2>3, <2>4, <2>5, ProviderQuiet
<1>2. CASE FinishTool \/ Abandon
  <2>1. UNCHANGED <<asked, upstream, parser, channel>> /\ reader' \in {"waiting", "left"}
    BY <1>2 DEF FinishTool, Abandon
  <2>2. ProviderTypeOK'
    BY <2>1 DEF ProviderInv, ProviderTypeOK, asked, upstream, parser, channel
  <2>3. UNCHANGED <<conn, using, attempt, begun, whole, ended, blocks, stopReason, outbox, sent>> /\ UNCHANGED eventCh
    BY <2>1 DEF asked, upstream, parser, channel
  <2> QED
    BY <2>2, <2>3, ProviderQuiet
<1> QED
  BY <1>1, <1>2 DEF Taking

(* Every step keeps ProviderInv.                                             *)
LEMMA ProviderStep == ProviderInv /\ [ProviderNext]_providerVars => ProviderInv'
<1> SUFFICES ASSUME ProviderInv, ProviderNext \/ UNCHANGED providerVars PROVE ProviderInv'
  OBVIOUS
<1>1. CASE Ask \/ Asking
  BY <1>1, AskedSteps
<1>2. CASE Parsing
  BY <1>2, ReadTextStep, ReadCallStep, ReadFinishStep, ReadLimitStep, ReadEndStep, SendStep,
     CloseStep DEF Parsing
<1>3. CASE Taking \/ Abandon
  BY <1>3, ReaderSteps
<1>4. CASE UNCHANGED providerVars
  <2>1. ProviderTypeOK'
    BY <1>4 DEF ProviderInv, ProviderTypeOK, providerVars, asked, upstream, parser, channel
  <2>2. UNCHANGED <<conn, using, attempt, begun, whole, ended, blocks, stopReason, outbox, sent>> /\ UNCHANGED eventCh
    BY <1>4 DEF providerVars, asked, upstream, parser, channel
  <2> QED
    BY <2>1, <2>2, ProviderQuiet
<1> QED
  BY <1>1, <1>2, <1>3, <1>4 DEF ProviderNext

(* ProviderInv holds always.                                                 *)
LEMMA ProviderAlways == Spec => []ProviderInv
<1>1. Init => ProviderInv
  <2> SUFFICES ASSUME Init PROVE ProviderInv
    OBVIOUS
  <2>1. ProviderInit
    BY DEF Init
  <2>2. NothingRead /\ conn = "none"
    BY <2>1 DEF ProviderInit, NothingRead
  <2>3. ProviderTypeOK
    BY <2>1, ProviderAssumption DEF ProviderInit, ProviderTypeOK, Reasons
  <2> QED
    BY <2>2, <2>3 DEF ProviderInv, SentOK, OutboxOK, ReasonOK, StreamOK, NothingRead, Over
<1>2. ProviderInv /\ [Next]_vars => ProviderInv'
  BY OneServiceSteps, ProviderStep
<1> QED
  BY <1>1, <1>2, PTL DEF Spec

(* For any number of calls, texts and attempts, any size of the channel and  *)
(* whichever providers there are: the stream ends in one terminal event, its *)
(* calls come once, in order and whole unless the answer broke off, and a    *)
(* finished answer has all its calls and stops for tools exactly if it has   *)
(* any (chat/service.go:496 runs the tools only then).                       *)
THEOREM ProviderContractHolds == Spec => []ProviderContract
<1>1. ProviderInv => ProviderContract
  <2> SUFFICES ASSUME ProviderInv PROVE ProviderContract
    OBVIOUS
  <2>1. /\ sent \in Seq(Events) /\ Len(sent) \in Nat /\ SentCalls \in Nat
        /\ whole \in Nat /\ begun \in Nat /\ (sent # <<>> => Len(sent) \in 1 .. Len(sent))
    BY SentCallsTyped, ProviderAssumption DEF ProviderInv, ProviderTypeOK
  <2>2. conn = "closed" => sent # <<>> /\ Terminal(Last(sent))
    BY <2>1 DEF ProviderInv, StreamOK, SentOK, Over, Last
  <2>3. conn \in {"streaming", "closed"} \/ sent = <<>>
    BY DEF ProviderInv, StreamOK, NothingRead
  <2>4. SentCalls <= whole \/ ended = "broken"
    <3>1. CASE conn \in {"streaming", "closed"}
      <4>1. Promised \in Nat /\ SentCalls <= Promised
        <5>1. outbox = <<>> \/ Len(outbox) \in Nat \ {0}
          BY DEF ProviderInv, ProviderTypeOK
        <5> QED
          BY <2>1, <5>1 DEF Promised
      <4>2. Promised <= whole \/ ended = "broken"
        BY <2>1, <3>1 DEF ProviderInv, StreamOK, CallsKept
      <4> QED
        BY <2>1, <4>1, <4>2
    <3>2. CASE conn \notin {"streaming", "closed"}
      BY <3>2, <2>1, NothingSent DEF ProviderInv, StreamOK
    <3> QED
      BY <3>1, <3>2
  <2>5. ASSUME NEW i \in 1 .. Len(sent), sent[i].type = "call"
        PROVE  sent[i] = CallOf(CallsIn(sent, i)) /\ (sent[i].call <= whole \/ ended = "broken")
    <3>1. sent[i] = CallOf(CallsIn(sent, i))
      BY <2>5 DEF ProviderInv, SentOK
    <3>2. sent[i].call = CallsIn(sent, i)
      BY <3>1, EventsTyped
    <3>3. CallsIn(sent, i) \in Nat /\ CallsIn(sent, i) <= SentCalls
      BY <2>1, FewerCallsBefore DEF SentCalls
    <3> QED
      BY <2>1, <2>4, <3>1, <3>2, <3>3
  <2>6. ASSUME sent # <<>>, Last(sent).type = "done", ended = "finished"
        PROVE  CallsIn(sent, Len(sent)) = begun /\ (Last(sent).stop = "tool_use" <=> begun > 0)
    <3>1. Last(sent) = sent[Len(sent)] /\ Len(sent) \in 1 .. Len(sent)
      BY <2>1, <2>6 DEF Last
    <3>2. Over /\ outbox = <<>> /\ conn \in {"streaming", "closed"}
      BY <2>3, <2>6, <3>1 DEF Over, Terminal, ProviderInv, OutboxOK
    <3>3. Promised = SentCalls
      BY <2>1, <3>2 DEF Promised
    <3>4. SentCalls = begun
      BY <2>1, <2>6, <3>2, <3>3 DEF ProviderInv, StreamOK, CallsKept
    <3> QED
      BY <2>6, <3>1, <3>4 DEF ProviderInv, ReasonOK, StopsForTools, SentCalls
  <2>7. \A i \in 1 .. Len(sent) : Terminal(sent[i]) => i = Len(sent)
    BY DEF ProviderInv, SentOK
  <2> QED
    BY <2>2, <2>5, <2>6, <2>7 DEF ProviderContract
<1> QED
  BY <1>1, ProviderAlways, PTL

(*********************************  the bounds  ********************************)
(* For every instance: the services' types; no more invitations than the     *)
(* limit and the calls at once, no more tokens than the limit and a turn of  *)
(* each stream, in no window more than two bursts of a limiter, and never    *)
(* more messages that neither the summary nor the window has than its        *)
(* interval and the turns at once: what each check can still bound that is   *)
(* made first and charged after (collaborate.go:106, ai/budget.go:33,        *)
(* ratelimit/ratelimit.go:84, chat/summarize.go:65).                         *)
THEOREM BoundsHoldHolds == Spec => []BoundsHold
<1>1. /\ RelayInv /\ SummaryInv /\ BudgetInv /\ SharingInv /\ AnalysisInv /\ ProviderInv
      /\ InvitesBounded /\ SpendBounded /\ ForgottenBounded /\ LimitTypeOK /\ BurstsBounded
      => BoundsHold
  BY DEF BoundsHold, ServicesTypeOK, RelayInv, SummaryInv, BudgetInv, SharingInv, SharingTypeOK,
     AnalysisInv, ProviderInv
<1> QED
  BY <1>1, RelayAlways, SummaryAlways, BudgetAlways, SharingAlways, AnalysisAlways, ProviderAlways,
     BurstsAlways,
     InvitesBoundedHolds, SpendBoundedHolds, ForgottenBoundedHolds, PTL
=============================================================================
