--------------------------- MODULE ChatTurnProofs ---------------------------
(***************************************************************************)
(* Proofs about ChatTurn, for any turns, sessions, tools and limits: its   *)
(* types and what one turn may count on, what the stored history of a      *)
(* session is worth whatever its other turns do meanwhile, and what a      *)
(* client can rely on: a stream that ends has told how, and ChatTurn       *)
(* implements StreamContract.                                              *)
(***************************************************************************)
EXTENDS ChatTurnRefines, FiniteSetTheorems, TLAPS

-----------------------------------------------------------------------------
(* Types.  TypeOK alone is not inductive: a fragment is an iteration number, *)
(* so that the text of a turn stays in Frags needs the limit of the loop,  *)
(* and a write goes to a session only once the turn has one.               *)

\* Where a turn stands in its loop, and what it must have by then.
ControlInv ==
  \A t \in Turns :
    /\ pc[t] = "stream" => iter[t] \in 1 .. MaxIter
    /\ pc[t] \in {"ask", "load", "cleanup"} \cup Looping => sid[t] \in Sessions

TypeInv == TypeOK /\ ControlInv

\* Storing a message keeps the store in its type.
LEMMA AppendTyped ==
  ASSUME log \in [Sessions -> Seq(Message)], live \subseteq Sessions,
         NEW s \in Sessions, NEW m \in Message, AddMessage(s, m)
  PROVE  live' \subseteq Sessions /\ log' \in [Sessions -> Seq(Message)]
<1>1. Append(log[s], m) \in Seq(Message)
  OBVIOUS
<1> QED
  BY <1>1 DEF AddMessage

\* Deleting a session keeps the store in its type.
LEMMA DropTyped ==
  ASSUME log \in [Sessions -> Seq(Message)], live \subseteq Sessions,
         NEW s \in Sessions, DropSession(s)
  PROVE  live' \subseteq Sessions /\ log' \in [Sessions -> Seq(Message)]
<1>1. <<>> \in Seq(Message)
  OBVIOUS
<1> QED BY <1>1 DEF DropSession

\* The initial state has the types and the control facts.
LEMMA InitTypeInv == Init => TypeInv
BY ChatTurnAssumption
   DEF Init, TypeInv, TypeOK, ControlInv, PCs, Running, Over, Looping, Frags

\* Every step of every turn keeps them.
LEMMA StepTypeInv == TypeInv /\ [Next]_vars => TypeInv'
<1> SUFFICES ASSUME TypeInv, [Next]_vars PROVE TypeInv'
  OBVIOUS
<1> USE DEF TypeInv
<1>live. live \subseteq Sessions
  BY DEF TypeOK
<1>log. log \in [Sessions -> Seq(Message)]
  BY DEF TypeOK
<1>pc. pc \in [Turns -> PCs]
  BY DEF TypeOK
<1>sid. sid \in [Turns -> Sessions \cup {NoSession}]
  BY DEF TypeOK
<1>iter. iter \in [Turns -> Nat \ {0}]
  BY DEF TypeOK
<1>fab. fab \in [Turns -> 0 .. MaxFab]
  BY DEF TypeOK
<1>fresh. fresh \in [Turns -> BOOLEAN]
  BY DEF TypeOK
<1>gone. gone \in [Turns -> BOOLEAN]
  BY DEF TypeOK
<1>expertRetried. expertRetried \in [Turns -> BOOLEAN]
  BY DEF TypeOK
<1>emptyRetried. emptyRetried \in [Turns -> BOOLEAN]
  BY DEF TypeOK
<1>everItin. everItin \in [Turns -> BOOLEAN]
  BY DEF TypeOK
<1>swap. swap \in [Turns -> BOOLEAN]
  BY DEF TypeOK
<1>full. full \in [Turns -> SUBSET Frags]
  BY DEF TypeOK
<1>complete. complete \in [Turns -> SUBSET Frags]
  BY DEF TypeOK
<1>answer. answer \in [Turns -> SUBSET Frags]
  BY DEF TypeOK
<1>ret. ret \in [Turns -> BOOLEAN]
  BY DEF TypeOK
<1>streamed. streamed \in [Turns -> SUBSET Frags]
  BY DEF TypeOK
<1>shown. shown \in [Turns -> SUBSET Frags]
  BY DEF TypeOK
<1>calls. calls \in [Turns -> SUBSET Tools]
  BY DEF TypeOK
<1>announced. announced \in [Turns -> BOOLEAN]
  BY DEF TypeOK
<1>errors. errors \in [Turns -> Nat]
  BY DEF TypeOK
<1>1. ASSUME NEW t \in Turns, Admit(t) PROVE TypeInv'
  <2>1. pc' \in [Turns -> PCs]
    BY <1>1, <1>pc DEF Admit, Goto, PCs, Running, Looping, Over
  <2>2. sid' \in [Turns -> Sessions \cup {NoSession}]
    BY <1>1, <1>sid DEF Admit, session
  <2>a. TypeOK'
    BY <1>1, <2>1, <2>2 DEF Admit, TypeOK, store, session, guards, texts, tools, client
  <2>b. ControlInv'
    BY <1>1, <1>pc, <1>iter, <1>sid DEF Admit, Goto, ControlInv, Looping, session
  <2> QED BY <2>a, <2>b
<1>2. ASSUME NEW t \in Turns, CreateSession(t) PROVE TypeInv'
  <2>1. pc' \in [Turns -> PCs]
    BY <1>2, <1>pc DEF CreateSession, Goto, PCs, Running, Looping, Over
  <2>2. live' \subseteq Sessions
    BY <1>2, <1>live, <1>sid DEF CreateSession, ControlInv, Looping, store
  <2>3. sid' \in [Turns -> Sessions \cup {NoSession}]
    BY <1>2, <1>sid DEF CreateSession, session
  <2>4. fresh' \in [Turns -> BOOLEAN]
    BY <1>2, <1>fresh DEF CreateSession, session
  <2>a. TypeOK'
    BY <1>2, <2>1, <2>2, <2>3, <2>4 DEF CreateSession, TypeOK, store, session,
       guards, texts, tools, client
  <2>b. ControlInv'
    BY <1>2, <1>pc, <1>iter, <1>sid DEF CreateSession, Goto, ControlInv, Looping, session
  <2> QED BY <2>a, <2>b
<1>3. ASSUME NEW t \in Turns, StoreUserMessage(t) PROVE TypeInv'
  <2>1. pc' \in [Turns -> PCs]
    BY <1>3, <1>pc DEF StoreUserMessage, AddMessage, Goto, PCs, Running, Looping, Over
  <2>2. live' \subseteq Sessions /\ log' \in [Sessions -> Seq(Message)]
    <3>1. sid[t] \in Sessions
      BY <1>3 DEF StoreUserMessage, ControlInv, Looping
    <3>2. [kind |-> "user", turn |-> t, tools |-> {}, text |-> {}] \in Message
      BY SMT DEF Message, Kinds
    <3> QED BY <1>3, <3>1, <3>2, <1>live, <1>log, AppendTyped DEF StoreUserMessage, TryStore, store
  <2>a. TypeOK'
    BY <1>3, <2>1, <2>2 DEF StoreUserMessage, AddMessage, TypeOK, store, session,
       guards, texts, tools, client
  <2>b. ControlInv'
    BY <1>3, <1>pc, <1>iter, <1>sid DEF StoreUserMessage, AddMessage, Goto,
       ControlInv, Looping, session
  <2> QED BY <2>a, <2>b
<1>4. ASSUME NEW t \in Turns, LoadHistory(t) PROVE TypeInv'
  <2>1. pc' \in [Turns -> PCs]
    BY <1>4, <1>pc DEF LoadHistory, Goto, PCs, Running, Looping, Over
  <2>2. complete' \in [Turns -> SUBSET Frags]
    BY <1>4, <1>complete, <1>full, ChatTurnAssumption DEF LoadHistory, Frags,
       NoteFrag, ControlInv, Looping, texts, client
  <2>3. answer' \in [Turns -> SUBSET Frags]
    BY <1>4, <1>answer, <1>full, <1>complete, ChatTurnAssumption DEF LoadHistory,
       Frags, NoteFrag, ControlInv, Looping, texts, client
  <2>4. ret' \in [Turns -> BOOLEAN]
    BY <1>4, <1>ret DEF LoadHistory, texts
  <2>5. streamed' \in [Turns -> SUBSET Frags]
    BY <1>4, <1>streamed, <1>iter, ChatTurnAssumption DEF LoadHistory, Frags,
       NoteFrag, ControlInv, Looping, texts, client
  <2>a. TypeOK'
    BY <1>4, <2>1, <2>2, <2>3, <2>4, <2>5 DEF LoadHistory, TypeOK, store, session,
       guards, texts, tools, client
  <2>b. ControlInv'
    BY <1>4, <1>pc, <1>iter, <1>sid DEF LoadHistory, Goto, ControlInv, Looping, session
  <2> QED BY <2>a, <2>b
<1>5. ASSUME NEW t \in Turns, StopForClient(t) PROVE TypeInv'
  <2>1. pc' \in [Turns -> PCs]
    BY <1>5, <1>pc DEF StopForClient, Goto, PCs, Running, Looping, Over
  <2>2. ret' \in [Turns -> BOOLEAN]
    BY <1>5, <1>ret DEF StopForClient, texts
  <2>a. TypeOK'
    BY <1>5, <2>1, <2>2 DEF StopForClient, TypeOK, store, session, guards, texts,
       tools, client
  <2>b. ControlInv'
    BY <1>5, <1>pc, <1>iter, <1>sid DEF StopForClient, Goto, ControlInv, Looping, session
  <2> QED BY <2>a, <2>b
<1>6. ASSUME NEW t \in Turns, StartIteration(t) PROVE TypeInv'
  <2>1. pc' \in [Turns -> PCs]
    BY <1>6, <1>pc DEF StartIteration, Goto, PCs, Running, Looping, Over
  <2>2. full' \in [Turns -> SUBSET Frags]
    BY <1>6, <1>full, <1>iter, ChatTurnAssumption DEF StartIteration, ControlInv,
       Frags, Looping
  <2>3. calls' \in [Turns -> SUBSET Tools]
    BY <1>6, <1>calls DEF StartIteration
  <2>a. TypeOK'
    BY <1>6, <2>1, <2>2, <2>3 DEF StartIteration, TypeOK, store, session, guards,
       texts, tools, client
  <2>b. ControlInv'
    BY <1>6, <1>pc, <1>iter, <1>sid DEF StartIteration, Goto, ControlInv, Looping, session
  <2> QED BY <2>a, <2>b
<1>7. ASSUME NEW t \in Turns, FailStart(t) PROVE TypeInv'
  <2>1. pc' \in [Turns -> PCs]
    BY <1>7, <1>pc DEF FailStart, GiveUp, TellError, Goto, PCs, Running, Looping, Over
  <2>2. errors' \in [Turns -> Nat]
    BY <1>7, <1>errors DEF FailStart, GiveUp, TellError
  <2>3. ret' \in [Turns -> BOOLEAN]
    BY <1>7, <1>ret DEF FailStart, GiveUp, TellError, texts
  <2>a. TypeOK'
    BY <1>7, <2>1, <2>2, <2>3 DEF FailStart, GiveUp, TellError, TypeOK, store, session,
       guards, texts, tools, client
  <2>b. ControlInv'
    BY <1>7, <1>pc, <1>iter, <1>sid DEF FailStart, GiveUp, TellError, Goto, ControlInv,
       Looping, session
  <2> QED BY <2>a, <2>b
<1>8. ASSUME NEW t \in Turns, ReceiveText(t) PROVE TypeInv'
  <2>1. full' \in [Turns -> SUBSET Frags]
    BY <1>8, <1>full, <1>iter, ChatTurnAssumption DEF ReceiveText, Speak,
       ControlInv, Frags, Looping
  <2>2. streamed' \in [Turns -> SUBSET Frags]
    BY <1>8, <1>streamed, <1>iter, ChatTurnAssumption DEF ReceiveText, Speak, Frags,
       NoteFrag, ControlInv, Looping, texts, client
  <2>a. TypeOK'
    BY <1>8, <2>1, <2>2 DEF ReceiveText, Speak, TypeOK, store, session, guards,
       texts, tools, client
  <2>b. ControlInv'
    BY <1>8, <1>pc, <1>iter, <1>sid DEF ReceiveText, Speak, Goto, ControlInv,
       Looping, session
  <2> QED BY <2>a, <2>b
<1>9. ASSUME NEW t \in Turns, EndStream(t) PROVE TypeInv'
  <2>1. pc' \in [Turns -> PCs]
    BY <1>9, <1>pc DEF EndStream, Goto, PCs, Running, Looping, Over
  <2>2. complete' \in [Turns -> SUBSET Frags]
    BY <1>9, <1>complete, <1>full, ChatTurnAssumption DEF EndStream, Frags,
       NoteFrag, ControlInv, Looping, texts, client
  <2>a. TypeOK'
    BY <1>9, <2>1, <2>2 DEF EndStream, TypeOK, store, session, guards, texts, tools, client
  <2>b. ControlInv'
    BY <1>9, <1>pc, <1>iter, <1>sid DEF EndStream, Goto, ControlInv, Looping, session
  <2> QED BY <2>a, <2>b
<1>10. ASSUME NEW t \in Turns, FailStream(t) PROVE TypeInv'
  <2>1. pc' \in [Turns -> PCs]
    BY <1>10, <1>pc DEF FailStream, GiveUp, TellError, Goto, PCs, Running, Looping, Over
  <2>2. errors' \in [Turns -> Nat]
    BY <1>10, <1>errors DEF FailStream, GiveUp, TellError
  <2>3. ret' \in [Turns -> BOOLEAN]
    BY <1>10, <1>ret DEF FailStream, GiveUp, TellError, texts
  <2>a. TypeOK'
    BY <1>10, <2>1, <2>2, <2>3 DEF FailStream, GiveUp, TellError, TypeOK, store, session,
       guards, texts, tools, client
  <2>b. ControlInv'
    BY <1>10, <1>pc, <1>iter, <1>sid DEF FailStream, GiveUp, TellError, Goto, ControlInv,
       Looping, session
  <2> QED BY <2>a, <2>b
<1>11. ASSUME NEW t \in Turns, ContinueWithTools(t) PROVE TypeInv'
  <2>1. pc' \in [Turns -> PCs]
    BY <1>11, <1>pc DEF ContinueWithTools, TryStore, AddMessage, Goto, PCs, Running,
       Looping, Over
  <2>2. swap' \in [Turns -> BOOLEAN]
    BY <1>11, <1>swap DEF ContinueWithTools, TryStore, AddMessage
  <2>3. fab' \in [Turns -> 0 .. MaxFab]
    BY <1>11, <1>fab, ChatTurnAssumption DEF ContinueWithTools, TryStore, AddMessage, guards
  <2>4. expertRetried' \in [Turns -> BOOLEAN]
    BY <1>11, <1>expertRetried DEF ContinueWithTools, TryStore, AddMessage,
       CalledItinerary, guards
  <2>5. emptyRetried' \in [Turns -> BOOLEAN]
    BY <1>11, <1>emptyRetried DEF ContinueWithTools, TryStore, AddMessage,
       CalledItinerary, guards
  <2>6. everItin' \in [Turns -> BOOLEAN]
    BY <1>11, <1>everItin DEF ContinueWithTools, TryStore, AddMessage,
       CalledItinerary, guards
  <2>7. live' \subseteq Sessions /\ log' \in [Sessions -> Seq(Message)]
    <3>1. sid[t] \in Sessions
      BY <1>11 DEF ContinueWithTools, ControlInv, Looping
    <3>2. [kind |-> "call", turn |-> t, tools |-> calls[t],
            text |-> IF Gemini THEN {} ELSE full[t]] \in Message
      BY <1>calls, <1>full DEF Message, Kinds
    <3> QED BY <1>11, <3>1, <3>2, <1>live, <1>log, AppendTyped DEF ContinueWithTools, TryStore, store
  <2>a. TypeOK'
    BY <1>11, <2>1, <2>2, <2>3, <2>4, <2>5, <2>6, <2>7 DEF ContinueWithTools,
       TryStore, AddMessage, TypeOK, store, session, guards, texts, tools, client
  <2>b. ControlInv'
    BY <1>11, <1>pc, <1>iter, <1>sid DEF ContinueWithTools, TryStore, AddMessage,
       Goto, ControlInv, Looping, session
  <2> QED BY <2>a, <2>b
<1>12. ASSUME NEW t \in Turns, StoreToolResult(t) PROVE TypeInv'
  <2>1. pc' \in [Turns -> PCs]
    BY <1>12, <1>pc DEF StoreToolResult, TryStore, AddMessage, Goto, PCs, Running,
       Looping, Over
  <2>2. iter' \in [Turns -> Nat \ {0}]
    BY <1>12, <1>iter DEF StoreToolResult, TryStore, AddMessage
  <2>3. live' \subseteq Sessions /\ log' \in [Sessions -> Seq(Message)]
    <3>1. sid[t] \in Sessions
      BY <1>12 DEF StoreToolResult, ControlInv, Looping
    <3>2. [kind |-> "result", turn |-> t, tools |-> calls[t], text |-> {}] \in Message
      BY <1>calls DEF Message, Kinds
    <3> QED BY <1>12, <3>1, <3>2, <1>live, <1>log, AppendTyped DEF StoreToolResult, TryStore, store
  <2>a. TypeOK'
    BY <1>12, <2>1, <2>2, <2>3 DEF StoreToolResult, TryStore, AddMessage, TypeOK,
       store, session, guards, texts, tools, client
  <2>b. ControlInv'
    BY <1>12, <1>pc, <1>iter, <1>sid DEF StoreToolResult, TryStore, AddMessage,
       Goto, ControlInv, Looping, session
  <2> QED BY <2>a, <2>b
<1>13. ASSUME NEW t \in Turns, RetrySilence(t) PROVE TypeInv'
  <2>1. pc' \in [Turns -> PCs]
    BY <1>13, <1>pc DEF RetrySilence, Nudge, Goto, PCs, Running, Looping, Over
  <2>2. full' \in [Turns -> SUBSET Frags]
    BY <1>13, <1>full, <1>iter, ChatTurnAssumption DEF RetrySilence, Nudge,
       ControlInv, Frags, Looping
  <2>3. iter' \in [Turns -> Nat \ {0}]
    BY <1>13, <1>iter DEF RetrySilence, Nudge
  <2>4. everItin' \in [Turns -> BOOLEAN]
    BY <1>13, <1>everItin DEF RetrySilence, Nudge, CalledItinerary, guards
  <2>5. emptyRetried' \in [Turns -> BOOLEAN]
    BY <1>13, <1>emptyRetried DEF RetrySilence, Nudge, CalledItinerary, guards
  <2>a. TypeOK'
    BY <1>13, <2>1, <2>2, <2>3, <2>4, <2>5 DEF RetrySilence, Nudge, TypeOK, store,
       session, guards, texts, tools, client
  <2>b. ControlInv'
    BY <1>13, <1>pc, <1>iter, <1>sid DEF RetrySilence, Nudge, Goto, ControlInv,
       Looping, session
  <2> QED BY <2>a, <2>b
<1>14. ASSUME NEW t \in Turns, SuppressSilence(t) PROVE TypeInv'
  <2>1. pc' \in [Turns -> PCs]
    BY <1>14, <1>pc DEF SuppressSilence, GiveUp, TellError, Goto, PCs, Running, Looping, Over
  <2>2. errors' \in [Turns -> Nat]
    BY <1>14, <1>errors DEF SuppressSilence, GiveUp, TellError
  <2>3. ret' \in [Turns -> BOOLEAN]
    BY <1>14, <1>ret DEF SuppressSilence, GiveUp, TellError, texts
  <2>a. TypeOK'
    BY <1>14, <2>1, <2>2, <2>3 DEF SuppressSilence, GiveUp, TellError, TypeOK, store,
       session, guards, texts, tools, client
  <2>b. ControlInv'
    BY <1>14, <1>pc, <1>iter, <1>sid DEF SuppressSilence, GiveUp, TellError, Goto,
       ControlInv, Looping, session
  <2> QED BY <2>a, <2>b
<1>15. ASSUME NEW t \in Turns, RetryFabrication(t) PROVE TypeInv'
  <2>1. pc' \in [Turns -> PCs]
    BY <1>15, <1>pc DEF RetryFabrication, Nudge, Goto, PCs, Running, Looping, Over
  <2>2. full' \in [Turns -> SUBSET Frags]
    BY <1>15, <1>full, <1>iter, ChatTurnAssumption DEF RetryFabrication, Nudge,
       ControlInv, Frags, Looping
  <2>3. iter' \in [Turns -> Nat \ {0}]
    BY <1>15, <1>iter DEF RetryFabrication, Nudge
  <2>4. everItin' \in [Turns -> BOOLEAN]
    BY <1>15, <1>everItin DEF RetryFabrication, Nudge, CalledItinerary, guards
  <2>5. fab' \in [Turns -> 0 .. MaxFab]
    BY <1>15, <1>fab, ChatTurnAssumption DEF RetryFabrication, Nudge, guards
  <2>a. TypeOK'
    BY <1>15, <2>1, <2>2, <2>3, <2>4, <2>5 DEF RetryFabrication, Nudge, TypeOK,
       store, session, guards, texts, tools, client
  <2>b. ControlInv'
    BY <1>15, <1>pc, <1>iter, <1>sid DEF RetryFabrication, Nudge, Goto, ControlInv,
       Looping, session
  <2> QED BY <2>a, <2>b
<1>16. ASSUME NEW t \in Turns, RetryExpert(t) PROVE TypeInv'
  <2>1. pc' \in [Turns -> PCs]
    BY <1>16, <1>pc DEF RetryExpert, Nudge, Goto, PCs, Running, Looping, Over
  <2>2. full' \in [Turns -> SUBSET Frags]
    BY <1>16, <1>full, <1>iter, ChatTurnAssumption DEF RetryExpert, Nudge,
       ControlInv, Frags, Looping
  <2>3. iter' \in [Turns -> Nat \ {0}]
    BY <1>16, <1>iter DEF RetryExpert, Nudge
  <2>4. everItin' \in [Turns -> BOOLEAN]
    BY <1>16, <1>everItin DEF RetryExpert, Nudge, CalledItinerary, guards
  <2>5. expertRetried' \in [Turns -> BOOLEAN]
    BY <1>16, <1>expertRetried DEF RetryExpert, Nudge, CalledItinerary, guards
  <2>a. TypeOK'
    BY <1>16, <2>1, <2>2, <2>3, <2>4, <2>5 DEF RetryExpert, Nudge, TypeOK, store,
       session, guards, texts, tools, client
  <2>b. ControlInv'
    BY <1>16, <1>pc, <1>iter, <1>sid DEF RetryExpert, Nudge, Goto, ControlInv,
       Looping, session
  <2> QED BY <2>a, <2>b
<1>17. ASSUME NEW t \in Turns, AcceptAnswer(t) PROVE TypeInv'
  <2>1. pc' \in [Turns -> PCs]
    BY <1>17, <1>pc DEF AcceptAnswer, Goto, PCs, Running, Looping, Over
  <2>2. answer' \in [Turns -> SUBSET Frags]
    BY <1>17, <1>answer, <1>full, <1>complete, ChatTurnAssumption DEF AcceptAnswer,
       Frags, NoteFrag, ControlInv, Looping, texts, client
  <2>3. ret' \in [Turns -> BOOLEAN]
    BY <1>17, <1>ret DEF AcceptAnswer, texts
  <2>4. everItin' \in [Turns -> BOOLEAN]
    BY <1>17, <1>everItin DEF AcceptAnswer, CalledItinerary, guards
  <2>a. TypeOK'
    BY <1>17, <2>1, <2>2, <2>3, <2>4 DEF AcceptAnswer, TypeOK, store, session,
       guards, texts, tools, client
  <2>b. ControlInv'
    BY <1>17, <1>pc, <1>iter, <1>sid DEF AcceptAnswer, Goto, ControlInv, Looping, session
  <2> QED BY <2>a, <2>b
<1>18. ASSUME NEW t \in Turns, HitLimit(t) PROVE TypeInv'
  <2>1. pc' \in [Turns -> PCs]
    BY <1>18, <1>pc DEF HitLimit, Speak, Goto, PCs, Running, Looping, Over
  <2>2. ret' \in [Turns -> BOOLEAN]
    BY <1>18, <1>ret DEF HitLimit, Speak, texts
  <2>3. answer' \in [Turns -> SUBSET Frags]
    BY <1>18, <1>answer, <1>full, <1>complete, ChatTurnAssumption DEF HitLimit,
       Speak, Frags, NoteFrag, ControlInv, Looping, texts, client
  <2>4. streamed' \in [Turns -> SUBSET Frags]
    BY <1>18, <1>streamed, <1>iter, ChatTurnAssumption DEF HitLimit, Speak, Frags,
       NoteFrag, ControlInv, Looping, texts, client
  <2>a. TypeOK'
    BY <1>18, <2>1, <2>2, <2>3, <2>4 DEF HitLimit, Speak, TypeOK, store, session,
       guards, texts, tools, client
  <2>b. ControlInv'
    BY <1>18, <1>pc, <1>iter, <1>sid DEF HitLimit, Speak, Goto, ControlInv, Looping, session
  <2> QED BY <2>a, <2>b
<1>19. ASSUME NEW t \in Turns, StoreAnswer(t) PROVE TypeInv'
  <2>1. pc' \in [Turns -> PCs]
    BY <1>19, <1>pc DEF StoreAnswer, TryStore, AddMessage, Goto, PCs, Running, Looping, Over
  <2>2. live' \subseteq Sessions /\ log' \in [Sessions -> Seq(Message)]
    <3>1. sid[t] \in Sessions
      BY <1>19 DEF StoreAnswer, ControlInv, Looping
    <3>2. [kind |-> "final", turn |-> t, tools |-> {}, text |-> answer[t]] \in Message
      BY <1>answer DEF Message, Kinds
    <3> QED BY <1>19, <3>1, <3>2, <1>live, <1>log, AppendTyped DEF StoreAnswer, TryStore, store
  <2>a. TypeOK'
    BY <1>19, <2>1, <2>2 DEF StoreAnswer, TryStore, AddMessage, TypeOK, store,
       session, guards, texts, tools, client
  <2>b. ControlInv'
    BY <1>19, <1>pc, <1>iter, <1>sid DEF StoreAnswer, TryStore, AddMessage, Goto,
       ControlInv, Looping, session
  <2> QED BY <2>a, <2>b
<1>20. ASSUME NEW t \in Turns, EmitComplete(t) PROVE TypeInv'
  <2>1. pc' \in [Turns -> PCs]
    BY <1>20, <1>pc DEF EmitComplete, Goto, PCs, Running, Looping, Over
  <2>2. announced' \in [Turns -> BOOLEAN]
    BY <1>20, <1>announced DEF EmitComplete
  <2>3. shown' \in [Turns -> SUBSET Frags]
    BY <1>20, <1>shown, <1>complete, <1>answer DEF EmitComplete, CompleteText
  <2>a. TypeOK'
    BY <1>20, <2>1, <2>2, <2>3 DEF EmitComplete, TypeOK, store, session,
       guards, texts, tools, client
  <2>b. ControlInv'
    BY <1>20, <1>pc, <1>iter, <1>sid DEF EmitComplete, Goto, ControlInv,
       Looping, session
  <2> QED BY <2>a, <2>b
<1>21. ASSUME NEW t \in Turns, CleanUp(t) PROVE TypeInv'
  <2>1. pc' \in [Turns -> PCs]
    BY <1>21, <1>pc DEF CleanUp, DropSession, Goto, PCs, Running, Looping, Over
  <2>2. live' \subseteq Sessions /\ log' \in [Sessions -> Seq(Message)]
    <3>1. sid[t] \in Sessions
      BY <1>21 DEF CleanUp, ControlInv
    <3> QED BY <1>21, <3>1, <1>live, <1>log, DropTyped DEF CleanUp, store
  <2>a. TypeOK'
    BY <1>21, <2>1, <2>2 DEF CleanUp, DropSession, TypeOK, store, session, guards,
       texts, tools, client
  <2>b. ControlInv'
    BY <1>21, <1>pc, <1>iter, <1>sid DEF CleanUp, DropSession, Goto, ControlInv,
       Looping, session
  <2> QED BY <2>a, <2>b
<1>22. ASSUME NEW t \in Turns, Panic(t) PROVE TypeInv'
  <2>1. pc' \in [Turns -> PCs]
    BY <1>22, <1>pc DEF Panic, TellError, Goto, PCs, Running, Looping, Over
  <2>2. errors' \in [Turns -> Nat]
    BY <1>22, <1>errors DEF Panic, TellError
  <2>a. TypeOK'
    BY <1>22, <2>1, <2>2 DEF Panic, TellError, TypeOK, store, session, guards, texts,
       tools, client
  <2>b. ControlInv'
    BY <1>22, <1>pc, <1>iter, <1>sid DEF Panic, TellError, Goto, ControlInv, Looping, session
  <2> QED BY <2>a, <2>b
<1>23. ASSUME NEW t \in Turns, Disconnect(t) PROVE TypeInv'
  <2>1. gone' \in [Turns -> BOOLEAN]
    BY <1>23, <1>gone DEF Disconnect
  <2>a. TypeOK'
    BY <1>23, <2>1 DEF Disconnect, TypeOK, store, session, guards, texts, tools, client
  <2>b. ControlInv'
    BY <1>23, <1>pc, <1>iter, <1>sid DEF Disconnect, Goto, ControlInv, Looping, session
  <2> QED BY <2>a, <2>b
<1>24. ASSUME NEW t \in Turns, NEW tool \in Tools, ExecuteTool(t, tool) PROVE TypeInv'
  <2>1. calls' \in [Turns -> SUBSET Tools]
    BY <1>24, <1>calls DEF ExecuteTool
  <2>2. swap' \in [Turns -> BOOLEAN]
    BY <1>24, <1>swap DEF ExecuteTool
  <2>a. TypeOK'
    BY <1>24, <2>1, <2>2 DEF ExecuteTool, TypeOK, store, session, guards, texts, client
  <2>b. ControlInv'
    BY <1>24 DEF ExecuteTool, ControlInv, session
  <2> QED BY <2>a, <2>b
<1>25. ASSUME Crash PROVE TypeInv'
  <2>1. pc' \in [Turns -> PCs]
    BY <1>25, <1>pc DEF Crash, PCs, Over
  <2>2. gone' \in [Turns -> BOOLEAN]
    BY <1>25, <1>gone DEF Crash
  <2>a. TypeOK'
    BY <1>25, <2>1, <2>2 DEF Crash, TypeOK, store, session, guards, texts, tools, client
  <2>b. ControlInv'
    BY <1>25, <1>pc DEF Crash, ControlInv, Looping, session
  <2> QED BY <2>a, <2>b
<1>26. ASSUME NEW s \in Sessions, DeleteElsewhere(s) PROVE TypeInv'
  <2>1. live' \subseteq Sessions /\ log' \in [Sessions -> Seq(Message)]
    BY <1>26, <1>live, <1>log, DropTyped DEF DeleteElsewhere
  <2>a. TypeOK'
    BY <1>26, <2>1 DEF DeleteElsewhere, TypeOK, session, guards, texts, tools, client
  <2>b. ControlInv'
    BY <1>26 DEF DeleteElsewhere, ControlInv, session
  <2> QED BY <2>a, <2>b
<1>27. ASSUME UNCHANGED vars PROVE TypeInv'
  BY <1>27 DEF vars, TypeOK, ControlInv, store, session, guards, texts, tools, client
<1>28. ASSUME NEW t \in Turns, ReportError(t) PROVE TypeInv'
  <2>1. pc' \in [Turns -> PCs]
    BY <1>28, <1>pc DEF ReportError, GiveUp, TellError, Goto, PCs, Running, Looping, Over
  <2>2. errors' \in [Turns -> Nat]
    BY <1>28, <1>errors DEF ReportError, GiveUp, TellError
  <2>3. ret' \in [Turns -> BOOLEAN]
    BY <1>28, <1>ret DEF ReportError, GiveUp, TellError, texts
  <2>a. TypeOK'
    BY <1>28, <2>1, <2>2, <2>3 DEF ReportError, GiveUp, TellError, TypeOK, store, session,
       guards, texts, tools, client
  <2>b. ControlInv'
    BY <1>28, <1>pc, <1>iter, <1>sid DEF ReportError, GiveUp, TellError, Goto, ControlInv,
       Looping, session
  <2> QED BY <2>a, <2>b
<1>29. ASSUME NEW t \in Turns, ProviderError(t) PROVE TypeInv'
  <2>1. pc' \in [Turns -> PCs]
    BY <1>29, <1>pc DEF ProviderError, Goto, PCs, Running, Looping, Over
  <2>2. errors' \in [Turns -> Nat]
    BY <1>29, <1>errors DEF ProviderError, TellError
  <2>a. TypeOK'
    BY <1>29, <2>1, <2>2 DEF ProviderError, TypeOK, store, session, guards, texts,
       tools, client
  <2>b. ControlInv'
    BY <1>29, <1>pc, <1>iter, <1>sid DEF ProviderError, Goto, ControlInv, Looping, session
  <2> QED BY <2>a, <2>b
<1> QED
  BY <1>1, <1>2, <1>3, <1>4, <1>5, <1>6, <1>7, <1>8, <1>9, <1>10, <1>11, <1>12, <1>13,
     <1>14, <1>15, <1>16, <1>17, <1>18, <1>19, <1>20, <1>21, <1>22, <1>23, <1>24,
     <1>25, <1>26, <1>27, <1>28, <1>29 DEF Next, TurnStep

\* Every variable keeps its type: what TypeOK says, for all constants.
THEOREM TypeCorrect == Spec => []TypeOK
<1>1. TypeInv => TypeOK
  BY DEF TypeInv
<1> QED
  BY InitTypeInv, StepTypeInv, <1>1, PTL DEF Spec

-----------------------------------------------------------------------------
(* How far a turn has come only grows.                                     *)

\* The states before the user's message is stored, and those after the answer.
Early == {"idle", "create", "ask"}
Late  == {"emit", "cleanup", "refused", "closed", "aborted"}

\* What a step may not take back from turn u.
Advances(u) ==
  /\ pc'[u] \in Early => pc[u] \in Early
  /\ pc[u] \in Late => pc'[u] \in Late
  /\ pc[u] \notin {"idle", "create"} => sid'[u] = sid[u] /\ fresh'[u] = fresh[u]
  /\ pc[u] = "closed" => pc'[u] = "closed" /\ ret'[u] = ret[u]

\* No step takes a turn back, whoever makes it.
LEMMA TurnsAdvance ==
  ASSUME TypeInv, [Next]_vars
  PROVE  \A u \in Turns : Advances(u)
<1> USE DEF Advances, Early, Late
<1>pc. pc \in [Turns -> PCs]
  BY DEF TypeInv, TypeOK
<1>sid. sid \in [Turns -> Sessions \cup {NoSession}] /\ fresh \in [Turns -> BOOLEAN]
  BY DEF TypeInv, TypeOK
<1>ret. ret \in [Turns -> BOOLEAN]
  BY DEF TypeInv, TypeOK
<1>1. ASSUME NEW t \in Turns, Admit(t) PROVE \A u \in Turns : Advances(u)
  BY <1>1, <1>pc, <1>sid, <1>ret DEF Admit, Goto, session, texts, Looping, Running
<1>2. ASSUME NEW t \in Turns, CreateSession(t) PROVE \A u \in Turns : Advances(u)
  BY <1>2, <1>pc, <1>sid, <1>ret DEF CreateSession, Goto, session, texts, Looping, Running
<1>3. ASSUME NEW t \in Turns, StoreUserMessage(t) PROVE \A u \in Turns : Advances(u)
  BY <1>3, <1>pc, <1>sid, <1>ret DEF StoreUserMessage, Goto, session, texts, Looping, Running
<1>4. ASSUME NEW t \in Turns, LoadHistory(t) PROVE \A u \in Turns : Advances(u)
  BY <1>4, <1>pc, <1>sid, <1>ret DEF LoadHistory, Goto, session, texts, Looping, Running
<1>5. ASSUME NEW t \in Turns, StopForClient(t) PROVE \A u \in Turns : Advances(u)
  BY <1>5, <1>pc, <1>sid, <1>ret DEF StopForClient, Goto, session, texts, Looping, Running
<1>6. ASSUME NEW t \in Turns, StartIteration(t) PROVE \A u \in Turns : Advances(u)
  BY <1>6, <1>pc, <1>sid, <1>ret DEF StartIteration, Goto, session, texts, Looping, Running
<1>7. ASSUME NEW t \in Turns, FailStart(t) PROVE \A u \in Turns : Advances(u)
  BY <1>7, <1>pc, <1>sid, <1>ret DEF FailStart, GiveUp, TellError, Goto, session, texts, Looping, Running
<1>8. ASSUME NEW t \in Turns, ReceiveText(t) PROVE \A u \in Turns : Advances(u)
  BY <1>8, <1>pc, <1>sid, <1>ret DEF ReceiveText, Goto, session, texts, Looping, Running
<1>9. ASSUME NEW t \in Turns, EndStream(t) PROVE \A u \in Turns : Advances(u)
  BY <1>9, <1>pc, <1>sid, <1>ret DEF EndStream, Goto, session, texts, Looping, Running
<1>10. ASSUME NEW t \in Turns, FailStream(t) PROVE \A u \in Turns : Advances(u)
  BY <1>10, <1>pc, <1>sid, <1>ret DEF FailStream, GiveUp, TellError, Goto, session, texts, Looping,
     Running
<1>11. ASSUME NEW t \in Turns, ContinueWithTools(t) PROVE \A u \in Turns : Advances(u)
  BY <1>11, <1>pc, <1>sid, <1>ret DEF ContinueWithTools, Goto, session, texts, Looping, Running
<1>12. ASSUME NEW t \in Turns, StoreToolResult(t) PROVE \A u \in Turns : Advances(u)
  BY <1>12, <1>pc, <1>sid, <1>ret DEF StoreToolResult, Goto, session, texts, Looping, Running
<1>13. ASSUME NEW t \in Turns, RetrySilence(t) PROVE \A u \in Turns : Advances(u)
  BY <1>13, <1>pc, <1>sid, <1>ret DEF RetrySilence, Nudge, Goto, session, texts, Looping, Running
<1>14. ASSUME NEW t \in Turns, SuppressSilence(t) PROVE \A u \in Turns : Advances(u)
  BY <1>14, <1>pc, <1>sid, <1>ret DEF SuppressSilence, GiveUp, TellError, Goto, session, texts, Looping,
     Running
<1>15. ASSUME NEW t \in Turns, RetryFabrication(t) PROVE \A u \in Turns : Advances(u)
  BY <1>15, <1>pc, <1>sid, <1>ret DEF RetryFabrication, Nudge, Goto, session, texts, Looping,
     Running
<1>16. ASSUME NEW t \in Turns, RetryExpert(t) PROVE \A u \in Turns : Advances(u)
  BY <1>16, <1>pc, <1>sid, <1>ret DEF RetryExpert, Nudge, Goto, session, texts, Looping, Running
<1>17. ASSUME NEW t \in Turns, AcceptAnswer(t) PROVE \A u \in Turns : Advances(u)
  BY <1>17, <1>pc, <1>sid, <1>ret DEF AcceptAnswer, Goto, session, texts, Looping, Running
<1>18. ASSUME NEW t \in Turns, HitLimit(t) PROVE \A u \in Turns : Advances(u)
  BY <1>18, <1>pc, <1>sid, <1>ret DEF HitLimit, Goto, session, texts, Looping, Running
<1>19. ASSUME NEW t \in Turns, StoreAnswer(t) PROVE \A u \in Turns : Advances(u)
  BY <1>19, <1>pc, <1>sid, <1>ret DEF StoreAnswer, Goto, session, texts, Looping, Running
<1>20. ASSUME NEW t \in Turns, EmitComplete(t) PROVE \A u \in Turns : Advances(u)
  BY <1>20, <1>pc, <1>sid, <1>ret DEF EmitComplete, Goto, session, texts, Looping, Running
<1>21. ASSUME NEW t \in Turns, CleanUp(t) PROVE \A u \in Turns : Advances(u)
  BY <1>21, <1>pc, <1>sid, <1>ret DEF CleanUp, Goto, session, texts, Looping, Running
<1>22. ASSUME NEW t \in Turns, Panic(t) PROVE \A u \in Turns : Advances(u)
  BY <1>22, <1>pc, <1>sid, <1>ret DEF Panic, TellError, Goto, session, texts, Looping, Running
<1>23. ASSUME NEW t \in Turns, Disconnect(t) PROVE \A u \in Turns : Advances(u)
  BY <1>23, <1>pc, <1>sid, <1>ret DEF Disconnect, Goto, session, texts, Looping, Running
<1>24. ASSUME NEW t \in Turns, NEW tool \in Tools, ExecuteTool(t, tool)
       PROVE  \A u \in Turns : Advances(u)
  BY <1>24 DEF ExecuteTool, session, texts
<1>25. ASSUME Crash PROVE \A u \in Turns : Advances(u)
  BY <1>25, <1>pc DEF Crash, session, texts, Running, Looping
<1>26. ASSUME NEW s \in Sessions, DeleteElsewhere(s) PROVE \A u \in Turns : Advances(u)
  BY <1>26 DEF DeleteElsewhere, session, texts
<1>27. ASSUME UNCHANGED vars PROVE \A u \in Turns : Advances(u)
  BY <1>27 DEF vars, session, texts
<1>28. ASSUME NEW t \in Turns, ReportError(t) PROVE \A u \in Turns : Advances(u)
  BY <1>28, <1>pc, <1>sid, <1>ret DEF ReportError, GiveUp, TellError, Goto, session, texts, Looping,
     Running
<1>29. ASSUME NEW t \in Turns, ProviderError(t) PROVE \A u \in Turns : Advances(u)
  BY <1>29, <1>pc, <1>sid, <1>ret DEF ProviderError, Goto, session, texts, Looping, Running
<1> QED
  BY <1>1, <1>2, <1>3, <1>4, <1>5, <1>6, <1>7, <1>8, <1>9, <1>10, <1>11, <1>12, <1>13,
     <1>14, <1>15, <1>16, <1>17, <1>18, <1>19, <1>20, <1>21, <1>22, <1>23, <1>24, <1>25,
     <1>26, <1>27, <1>28, <1>29 DEF Next, TurnStep

-----------------------------------------------------------------------------
(* What a step may do to the stored messages.                              *)

\* Turn t adds message m of its own to its session: the question first, then
\* tool messages inside the loop, and the answer with the last step of it.
Adds(t, m) ==
  /\ sid[t] \in Sessions
  /\ log' = [log EXCEPT ![sid[t]] = Append(@, m)]
  /\ m \in Message /\ m.turn = t
  /\ pc'[t] \notin Early /\ sid'[t] = sid[t]
  /\ \/ m.kind = "user" /\ pc[t] = "ask" /\ pc'[t] = "load"
     \/ m.kind \in {"call", "result"} /\ pc[t] \in {"continue", "storeResult"}
     \/ m.kind = "final" /\ pc[t] = "storeAnswer" /\ pc'[t] = "emit"

\* Turn u made session s, got no text and closes: it has dropped the session.
Drops(u, s) == sid[u] = s /\ fresh[u] /\ ~ret[u] /\ pc[u] = "closed"

\* The messages of session s are deleted, by others or by the turn that made it.
Empties(s) ==
  /\ log' = [log EXCEPT ![s] = <<>>]
  /\ OtherDeletes \/ \E u \in Turns : Drops(u, s)'

StoreChange ==
  \/ log' = log
  \/ \E t \in Turns : \E m \in Message : Adds(t, m)
  \/ \E s \in Sessions : Empties(s)

\* A step leaves the messages alone, adds one or empties a session.
LEMMA StoreChanges == TypeInv /\ [Next]_vars => StoreChange
<1> SUFFICES ASSUME TypeInv, [Next]_vars PROVE StoreChange
  OBVIOUS
<1>pc. pc \in [Turns -> PCs] /\ calls \in [Turns -> SUBSET Tools]
  BY DEF TypeInv, TypeOK
<1>tx. full \in [Turns -> SUBSET Frags] /\ answer \in [Turns -> SUBSET Frags]
  BY DEF TypeInv, TypeOK
<1>sid. \A t \in Turns : pc[t] \in {"ask", "load", "cleanup"} \cup Looping => sid[t] \in Sessions
  BY DEF TypeInv, ControlInv
<1>1. ASSUME NEW t \in Turns, CreateSession(t) PROVE StoreChange
  BY <1>1 DEF StoreChange, CreateSession
<1>2. ASSUME NEW t \in Turns, StoreUserMessage(t) PROVE StoreChange
  <2> DEFINE m == [kind |-> "user", turn |-> t, tools |-> {}, text |-> {}]
  <2>1. m \in Message /\ m.turn = t
    BY SMT DEF Message, Kinds
  <2>2. sid[t] \in Sessions
    BY <1>2, <1>sid DEF StoreUserMessage, Looping
  <2>3. log' = log \/ Adds(t, m)
    BY <1>2, <1>pc, <2>1, <2>2
       DEF StoreUserMessage, Adds, TryStore, AddMessage, Goto, Early, store, session
  <2> QED
    BY <2>1, <2>3 DEF StoreChange
<1>3. ASSUME NEW t \in Turns, ContinueWithTools(t) PROVE StoreChange
  <2> DEFINE m == [kind |-> "call", turn |-> t, tools |-> calls[t],
                 text |-> IF Gemini THEN {} ELSE full[t]]
  <2>1. m \in Message /\ m.turn = t
    BY <1>pc, <1>tx DEF Message, Kinds
  <2>2. sid[t] \in Sessions
    BY <1>3, <1>sid DEF ContinueWithTools, Looping
  <2>3. log' = log \/ Adds(t, m)
    BY <1>3, <1>pc, <2>1, <2>2
       DEF ContinueWithTools, Adds, TryStore, AddMessage, Goto, Early, store, session
  <2> QED
    BY <2>1, <2>3 DEF StoreChange
<1>4. ASSUME NEW t \in Turns, StoreToolResult(t) PROVE StoreChange
  <2> DEFINE m == [kind |-> "result", turn |-> t, tools |-> calls[t], text |-> {}]
  <2>1. m \in Message /\ m.turn = t
    BY <1>pc DEF Message, Kinds
  <2>2. sid[t] \in Sessions
    BY <1>4, <1>sid DEF StoreToolResult, Looping
  <2>3. log' = log \/ Adds(t, m)
    BY <1>4, <1>pc, <2>1, <2>2
       DEF StoreToolResult, Adds, TryStore, AddMessage, Goto, Early, store, session
  <2> QED
    BY <2>1, <2>3 DEF StoreChange
<1>5. ASSUME NEW t \in Turns, StoreAnswer(t) PROVE StoreChange
  <2> DEFINE m == [kind |-> "final", turn |-> t, tools |-> {}, text |-> answer[t]]
  <2>1. m \in Message /\ m.turn = t
    BY <1>tx DEF Message, Kinds
  <2>2. sid[t] \in Sessions
    BY <1>5, <1>sid DEF StoreAnswer, Looping
  <2>3. log' = log \/ Adds(t, m)
    BY <1>5, <1>pc, <2>1, <2>2
       DEF StoreAnswer, Adds, TryStore, AddMessage, Goto, Early, store, session
  <2> QED
    BY <2>1, <2>3 DEF StoreChange
<1>6. ASSUME NEW t \in Turns, CleanUp(t) PROVE StoreChange
  <2>1. sid[t] \in Sessions
    BY <1>6, <1>sid DEF CleanUp
  <2>2. log' = log \/ Empties(sid[t])
    BY <1>6, <1>pc DEF CleanUp, DropSession, Empties, Drops, Goto, store, session, texts
  <2> QED
    BY <2>1, <2>2 DEF StoreChange
<1>7. ASSUME NEW s \in Sessions, DeleteElsewhere(s) PROVE StoreChange
  BY <1>7 DEF DeleteElsewhere, DropSession, Empties, StoreChange
<1>8. ASSUME NEW t \in Turns, Admit(t) PROVE StoreChange
  BY <1>8 DEF Admit, StoreChange, store
<1>9. ASSUME NEW t \in Turns, LoadHistory(t) PROVE StoreChange
  BY <1>9 DEF LoadHistory, StoreChange, store
<1>10. ASSUME NEW t \in Turns, StopForClient(t) PROVE StoreChange
  BY <1>10 DEF StopForClient, StoreChange, store
<1>11. ASSUME NEW t \in Turns, StartIteration(t) PROVE StoreChange
  BY <1>11 DEF StartIteration, StoreChange, store
<1>12. ASSUME NEW t \in Turns, FailStart(t) PROVE StoreChange
  BY <1>12 DEF FailStart, GiveUp, StoreChange, store
<1>13. ASSUME NEW t \in Turns, ReceiveText(t) PROVE StoreChange
  BY <1>13 DEF ReceiveText, StoreChange, store
<1>14. ASSUME NEW t \in Turns, EndStream(t) PROVE StoreChange
  BY <1>14 DEF EndStream, StoreChange, store
<1>15. ASSUME NEW t \in Turns, FailStream(t) PROVE StoreChange
  BY <1>15 DEF FailStream, GiveUp, StoreChange, store
<1>16. ASSUME NEW t \in Turns, RetrySilence(t) PROVE StoreChange
  BY <1>16 DEF RetrySilence, Nudge, StoreChange, store
<1>17. ASSUME NEW t \in Turns, SuppressSilence(t) PROVE StoreChange
  BY <1>17 DEF SuppressSilence, GiveUp, StoreChange, store
<1>18. ASSUME NEW t \in Turns, RetryFabrication(t) PROVE StoreChange
  BY <1>18 DEF RetryFabrication, Nudge, StoreChange, store
<1>19. ASSUME NEW t \in Turns, RetryExpert(t) PROVE StoreChange
  BY <1>19 DEF RetryExpert, Nudge, StoreChange, store
<1>20. ASSUME NEW t \in Turns, AcceptAnswer(t) PROVE StoreChange
  BY <1>20 DEF AcceptAnswer, StoreChange, store
<1>21. ASSUME NEW t \in Turns, HitLimit(t) PROVE StoreChange
  BY <1>21 DEF HitLimit, StoreChange, store
<1>22. ASSUME NEW t \in Turns, EmitComplete(t) PROVE StoreChange
  BY <1>22 DEF EmitComplete, StoreChange, store
<1>23. ASSUME NEW t \in Turns, Panic(t) PROVE StoreChange
  BY <1>23 DEF Panic, StoreChange, store
<1>24. ASSUME NEW t \in Turns, Disconnect(t) PROVE StoreChange
  BY <1>24 DEF Disconnect, StoreChange, store
<1>25. ASSUME NEW t \in Turns, NEW tool \in Tools, ExecuteTool(t, tool) PROVE StoreChange
  BY <1>25 DEF ExecuteTool, StoreChange, store
<1>26. CASE Crash
  BY <1>26 DEF Crash, StoreChange, store
<1>27. CASE UNCHANGED vars
  BY <1>27 DEF vars, StoreChange, store
<1>28. ASSUME NEW t \in Turns, ReportError(t) PROVE StoreChange
  BY <1>28 DEF ReportError, GiveUp, StoreChange, store
<1>29. ASSUME NEW t \in Turns, ProviderError(t) PROVE StoreChange
  BY <1>29 DEF ProviderError, StoreChange, store
<1> QED
  BY <1>1, <1>2, <1>3, <1>4, <1>5, <1>6, <1>7, <1>8, <1>9, <1>10, <1>11, <1>12, <1>13, <1>14, <1>15,
     <1>16, <1>17, <1>18, <1>19, <1>20, <1>21, <1>22, <1>23, <1>24, <1>25, <1>26, <1>27,
     <1>28, <1>29 DEF Next, TurnStep

-----------------------------------------------------------------------------
(* What it does to the rows of one turn.                                   *)

\* The fragments in the rows of kind k of a turn.
Texts(t, k) == UNION {log[sid[t]][i].text : i \in Rows(t, k)}

\* A step after which the rows of turn u are what they were.
Same(u) ==
  \A k \in {"user", "call", "final"} : Rows(u, k)' = Rows(u, k) /\ Texts(u, k)' = Texts(u, k)

\* A step after which it has none.
Cleared(u) == \A k \in {"user", "call", "final"} : Rows(u, k)' = {}

\* The rows of a turn depend on the log of its session alone.
LEMMA LogKeepsRows ==
  ASSUME NEW u, sid'[u] = sid[u], log'[sid[u]] = log[sid[u]]
  PROVE  Same(u)
BY DEF Same, Rows, Texts

\* An empty log has no rows.
LEMMA EmptyLogClears ==
  ASSUME NEW u, sid'[u] = sid[u], log'[sid[u]] = <<>>
  PROVE  Cleared(u)
BY DEF Cleared, Rows

\* What a message that turn t adds does to the rows of the turns.
LEMMA AddsRows ==
  ASSUME TypeInv, NEW t \in Turns, NEW m \in Message, Adds(t, m),
         NEW u \in Turns, sid'[u] = sid[u], NEW k
  PROVE  IF u = t /\ k = m.kind
           THEN /\ Rows(u, k)' = Rows(u, k) \cup {Len(log[sid[t]]) + 1}
                /\ Len(log[sid[t]]) + 1 \notin Rows(u, k)
                /\ Texts(u, k)' = Texts(u, k) \cup m.text
           ELSE Rows(u, k)' = Rows(u, k) /\ Texts(u, k)' = Texts(u, k)
<1> DEFINE s == sid[t]
           n == Len(log[s]) + 1
<1>1. s \in Sessions /\ log[s] \in Seq(Message) /\ log \in [Sessions -> Seq(Message)]
  BY DEF Adds, TypeInv, TypeOK
<1>2. /\ Len(log[s]) \in Nat /\ DOMAIN log[s] = 1 .. n - 1 /\ DOMAIN log'[s] = 1 .. n
      /\ log'[s][n] = m /\ \A i \in 1 .. n - 1 : log'[s][i] = log[s][i]
  BY <1>1 DEF Adds
<1>3. m.turn = t
  BY DEF Adds
<1>r. /\ Rows(u, k) = {i \in DOMAIN log[sid[u]] : log[sid[u]][i].turn = u /\ log[sid[u]][i].kind = k}
      /\ Rows(u, k)' = {i \in DOMAIN log'[sid[u]] :
                          log'[sid[u]][i].turn = u /\ log'[sid[u]][i].kind = k}
  BY DEF Rows
<1>n. 1 .. n = (1 .. n - 1) \cup {n} /\ n \notin 1 .. n - 1
  BY <1>2
<1>4. CASE sid[u] # s
  <2>1. log'[sid[u]] = log[sid[u]]
    BY <1>1, <1>4 DEF Adds
  <2> QED
    BY <1>4, <2>1 DEF Rows, Texts
<1>5. CASE sid[u] = s /\ ~(u = t /\ k = m.kind)
  <2>1. Rows(u, k)' = Rows(u, k)
    <3>1. ~(log'[s][n].turn = u /\ log'[s][n].kind = k)
      BY <1>2, <1>3, <1>5
    <3> QED
      BY <1>2, <1>5, <1>r, <1>n, <3>1, SMTT(30)
  <2>2. \A i \in Rows(u, k) : log'[s][i].text = log[s][i].text
    BY <1>2, <1>5 DEF Rows
  <2> QED
    BY <1>5, <2>1, <2>2 DEF Texts
<1>6. CASE u = t /\ k = m.kind
  <2>1. Rows(u, k)' = Rows(u, k) \cup {n} /\ n \notin Rows(u, k)
    BY <1>2, <1>3, <1>6, <1>r, <1>n, SMTT(30)
  <2>2. \A i \in Rows(u, k) : log'[s][i].text = log[s][i].text
    BY <1>2, <1>6 DEF Rows
  <2>3. Texts(u, k)' = UNION {log'[s][i].text : i \in Rows(u, k) \cup {n}}
    BY <1>6, <2>1 DEF Texts
  <2>4. Texts(u, k) = UNION {log[s][i].text : i \in Rows(u, k)} /\ log'[s][n].text = m.text
    BY <1>2, <1>6 DEF Texts
  <2>5. Texts(u, k)' = Texts(u, k) \cup m.text
    BY <2>2, <2>3, <2>4
  <2> QED
    BY <1>6, <2>1, <2>5
<1> QED
  BY <1>4, <1>5, <1>6

-----------------------------------------------------------------------------
(* TurnOrder.                                                              *)

\* A row of a turn is in the turn's session, the turn has stored its question
\* by then, and once its answer is there it is past storing anything.
RowInv ==
  \A s \in Sessions : \A i \in DOMAIN log[s] :
     /\ sid[log[s][i].turn] = s
     /\ pc[log[s][i].turn] \notin Early
     /\ log[s][i].kind = "final" => pc[log[s][i].turn] \in Late

OrderInv == TypeInv /\ RowInv /\ TurnOrder

\* The first state has no rows.
LEMMA InitOrderInv == Init => OrderInv
BY InitTypeInv DEF Init, OrderInv, RowInv, TurnOrder

\* A step that appends appends behind the rows of its turn, and the turn is
\* not early enough for a second question nor late enough to have answered.
LEMMA StepOrderInv == OrderInv /\ [Next]_vars => OrderInv'
<1> SUFFICES ASSUME OrderInv, [Next]_vars PROVE OrderInv'
  OBVIOUS
<1>t. TypeInv /\ TypeInv' /\ RowInv /\ TurnOrder
  BY StepTypeInv DEF OrderInv
<1>l. log \in [Sessions -> Seq(Message)]
  BY <1>t DEF TypeInv, TypeOK
<1>a. \A u \in Turns : Advances(u)
  BY <1>t, TurnsAdvance
<1>r. \A s \in Sessions : \A i \in DOMAIN log[s] :
         LET u == log[s][i].turn IN
           /\ u \in Turns /\ sid'[u] = s /\ pc'[u] \notin Early
           /\ log[s][i].kind = "final" => pc'[u] \in Late
  <2> SUFFICES ASSUME NEW s \in Sessions, NEW i \in DOMAIN log[s]
               PROVE  LET u == log[s][i].turn IN
                        /\ u \in Turns /\ sid'[u] = s /\ pc'[u] \notin Early
                        /\ log[s][i].kind = "final" => pc'[u] \in Late
    OBVIOUS
  <2>1. log[s][i].turn \in Turns
    <3>1. log[s] \in Seq(Message)
      BY <1>l
    <3>2. log[s][i] \in Message
      BY <3>1
    <3> QED
      BY <3>2 DEF Message
  <2> QED
    BY <2>1, <1>a, <1>t DEF RowInv, Advances, Early
<1>1. CASE log' = log
  BY <1>1, <1>r, <1>t DEF OrderInv, RowInv, TurnOrder
<1>2. ASSUME NEW t \in Turns, NEW m \in Message, Adds(t, m) PROVE OrderInv'
  <2> DEFINE s0 == sid[t]
             n == Len(log[s0]) + 1
  <2>1. s0 \in Sessions /\ log[s0] \in Seq(Message) /\ n \in Nat
    BY <1>2, <1>l DEF Adds
  <2>2. DOMAIN log'[s0] = 1 .. n /\ DOMAIN log[s0] = 1 .. n - 1
    BY <1>2, <1>l, <2>1 DEF Adds
  <2>3. log'[s0][n] = m /\ \A i \in 1 .. n - 1 : log'[s0][i] = log[s0][i]
    BY <1>2, <1>l, <2>1 DEF Adds
  <2>4. \A s \in Sessions \ {s0} : log'[s] = log[s]
    BY <1>2, <1>l DEF Adds
  <2>5. \A i \in 1 .. n - 1 : log[s0][i].turn = t =>
           m.kind # "user" /\ log[s0][i].kind # "final"
    <3>1. \A i \in 1 .. n - 1 : log[s0][i].turn = t =>
             pc[t] \notin Early /\ (log[s0][i].kind = "final" => pc[t] \in Late)
      BY <1>t, <2>1, <2>2 DEF RowInv
    <3> QED
      BY <3>1, <1>2 DEF Adds, Early, Late
  <2>6. RowInv'
    <3>1. sid'[t] = s0 /\ pc'[t] \notin Early /\ (m.kind = "final" => pc'[t] \in Late)
      BY <1>2 DEF Adds, Late
    <3> QED
      BY <1>r, <1>2, <2>1, <2>2, <2>3, <2>4, <3>1 DEF RowInv, Adds
  <2>7. TurnOrder'
    <3> SUFFICES ASSUME NEW s \in Sessions, NEW i \in DOMAIN log'[s], NEW j \in DOMAIN log'[s],
                        i < j, log'[s][i].turn = log'[s][j].turn
                 PROVE  log'[s][j].kind # "user" /\ log'[s][i].kind # "final"
      BY DEF TurnOrder
    <3>1. CASE s # s0
      BY <3>1, <2>4, <1>t DEF TurnOrder
    <3>2. CASE s = s0 /\ j = n
      BY <3>2, <1>2, <2>1, <2>2, <2>3, <2>5 DEF Adds
    <3>3. CASE s = s0 /\ j # n
      <4>1. i \in 1 .. n - 1 /\ j \in 1 .. n - 1
        BY <3>3, <2>1, <2>2
      <4> QED
        BY <3>3, <4>1, <2>1, <2>2, <2>3, <1>t DEF TurnOrder
    <3> QED
      BY <3>1, <3>2, <3>3
  <2> QED
    BY <1>t, <2>6, <2>7 DEF OrderInv
<1>3. ASSUME NEW s \in Sessions, Empties(s) PROVE OrderInv'
  <2>1. log'[s] = <<>> /\ \A r \in Sessions \ {s} : log'[r] = log[r]
    BY <1>3, <1>l DEF Empties
  <2>2. RowInv'
    BY <2>1, <1>r DEF RowInv
  <2>3. TurnOrder'
    BY <2>1, <1>t DEF TurnOrder
  <2> QED
    BY <1>t, <2>2, <2>3 DEF OrderInv
<1> QED
  BY <1>t, <1>1, <1>2, <1>3, StoreChanges DEF StoreChange

\* The rows of a turn keep their order, however many turns share the session,
\* whatever fails and whoever deletes: TurnOrder, for all constants.
THEOREM TurnOrderHolds == Spec => []TurnOrder
<1>1. OrderInv => TurnOrder
  BY DEF OrderInv
<1> QED
  BY InitOrderInv, StepOrderInv, <1>1, PTL DEF Spec

-----------------------------------------------------------------------------
(* AnswersHaveQuestions and AnswerKept.                                    *)

\* The states in which the question must be in the store, and those of the
\* turns that have announced their answer or are about to.
Asked         == {"load"} \cup Looping
Announcing(t) == (pc[t] = "emit" /\ ~gone[t]) \/ announced[t]

\* A turn comes to these states only by storing its question, and its answer.
Enters(t) ==
  /\ pc'[t] \in Asked =>
       \/ pc[t] \in Asked
       \/ \E m \in Message : Adds(t, m) /\ m.kind = "user"
  /\ Announcing(t)' =>
       \/ Announcing(t)
       \/ \E m \in Message : Adds(t, m) /\ m.kind = "final"
       \/ StoreFaults
  /\ announced'[t] => announced[t] \/ pc[t] = "emit"

\* A turn reaches the places where it has rows, or has announced them, only from
\* the places where it may write them.
LEMMA TurnsEnter ==
  ASSUME TypeInv, [Next]_vars, NEW u \in Turns
  PROVE  Enters(u)
<1> USE DEF Enters, Announcing, Asked
<1>pc. pc \in [Turns -> PCs] /\ gone \in [Turns -> BOOLEAN]
  BY DEF TypeInv, TypeOK
<1>tx. announced \in [Turns -> BOOLEAN] /\ answer \in [Turns -> SUBSET Frags]
  BY DEF TypeInv, TypeOK
<1>sid. \A t \in Turns : pc[t] \in {"ask", "load", "cleanup"} \cup Looping => sid[t] \in Sessions
  BY DEF TypeInv, ControlInv
<1>1. ASSUME NEW t \in Turns, StoreUserMessage(t) PROVE Enters(u)
  <2> DEFINE m == [kind |-> "user", turn |-> t, tools |-> {}, text |-> {}]
  <2>1. m \in Message /\ m.turn = t /\ m.kind = "user"
    BY DEF Message, Kinds
  <2>2. pc'[t] = "load" => Adds(t, m)
    BY <1>1, <1>pc, <1>sid, <2>1
       DEF StoreUserMessage, Adds, AddMessage, Goto, Early, store, session
  <2>3. announced' = announced /\ gone' = gone /\ pc'[t] \in {"load", "refused"} /\ (u # t => pc'[u] = pc[u])
    BY <1>1, <1>pc DEF StoreUserMessage, Goto, client
  <2> QED
    BY <2>1, <2>2, <2>3, <1>pc, <1>tx DEF Looping
<1>2. ASSUME NEW t \in Turns, StoreAnswer(t) PROVE Enters(u)
  <2> DEFINE m == [kind |-> "final", turn |-> t, tools |-> {}, text |-> answer[t]]
  <2>1. m \in Message /\ m.turn = t /\ m.kind = "final"
    BY <1>tx DEF Message, Kinds
  <2>2. \/ Adds(t, m)
        \/ gone[t] \/ StoreFaults
    BY <1>2, <1>pc, <1>sid, <2>1
       DEF StoreAnswer, Adds, TryStore, MayFail, AddMessage, Goto, Early, session, Looping
  <2>3. /\ announced' = announced /\ gone' = gone /\ pc[t] = "storeAnswer" /\ pc'[t] = "emit"
        /\ u # t => pc'[u] = pc[u]
    BY <1>2, <1>pc DEF StoreAnswer, Goto, client
  <2> QED
    BY <2>1, <2>2, <2>3, <1>pc, <1>tx DEF Looping
<1>3. ASSUME NEW t \in Turns, Admit(t) PROVE Enters(u)
  BY <1>3, <1>pc, <1>tx DEF Admit, Goto, client, Looping
<1>4. ASSUME NEW t \in Turns, CreateSession(t) PROVE Enters(u)
  BY <1>4, <1>pc, <1>tx DEF CreateSession, Goto, client, Looping
<1>5. ASSUME NEW t \in Turns, LoadHistory(t) PROVE Enters(u)
  BY <1>5, <1>pc, <1>tx DEF LoadHistory, Goto, client, Looping
<1>6. ASSUME NEW t \in Turns, StopForClient(t) PROVE Enters(u)
  BY <1>6, <1>pc, <1>tx DEF StopForClient, Goto, client, Looping
<1>7. ASSUME NEW t \in Turns, StartIteration(t) PROVE Enters(u)
  BY <1>7, <1>pc, <1>tx DEF StartIteration, Goto, client, Looping
<1>8. ASSUME NEW t \in Turns, FailStart(t) PROVE Enters(u)
  BY <1>8, <1>pc, <1>tx DEF FailStart, GiveUp, TellError, Goto, client, Looping
<1>9. ASSUME NEW t \in Turns, ReceiveText(t) PROVE Enters(u)
  BY <1>9, <1>pc, <1>tx DEF ReceiveText, Goto, client, Looping
<1>10. ASSUME NEW t \in Turns, EndStream(t) PROVE Enters(u)
  BY <1>10, <1>pc, <1>tx DEF EndStream, Goto, client, Looping
<1>11. ASSUME NEW t \in Turns, FailStream(t) PROVE Enters(u)
  BY <1>11, <1>pc, <1>tx DEF FailStream, GiveUp, TellError, Goto, client, Looping
<1>12. ASSUME NEW t \in Turns, ContinueWithTools(t) PROVE Enters(u)
  BY <1>12, <1>pc, <1>tx DEF ContinueWithTools, Goto, client, Looping
<1>13. ASSUME NEW t \in Turns, StoreToolResult(t) PROVE Enters(u)
  BY <1>13, <1>pc, <1>tx DEF StoreToolResult, Goto, client, Looping
<1>14. ASSUME NEW t \in Turns, RetrySilence(t) PROVE Enters(u)
  BY <1>14, <1>pc, <1>tx DEF RetrySilence, Nudge, Goto, client, Looping
<1>15. ASSUME NEW t \in Turns, SuppressSilence(t) PROVE Enters(u)
  BY <1>15, <1>pc, <1>tx DEF SuppressSilence, GiveUp, TellError, Goto, client, Looping
<1>16. ASSUME NEW t \in Turns, RetryFabrication(t) PROVE Enters(u)
  BY <1>16, <1>pc, <1>tx DEF RetryFabrication, Nudge, Goto, client, Looping
<1>17. ASSUME NEW t \in Turns, RetryExpert(t) PROVE Enters(u)
  BY <1>17, <1>pc, <1>tx DEF RetryExpert, Nudge, Goto, client, Looping
<1>18. ASSUME NEW t \in Turns, AcceptAnswer(t) PROVE Enters(u)
  BY <1>18, <1>pc, <1>tx DEF AcceptAnswer, Goto, client, Looping
<1>19. ASSUME NEW t \in Turns, HitLimit(t) PROVE Enters(u)
  BY <1>19, <1>pc, <1>tx DEF HitLimit, Goto, client, Looping
<1>20. ASSUME NEW t \in Turns, EmitComplete(t) PROVE Enters(u)
  BY <1>20, <1>pc, <1>tx DEF EmitComplete, Goto, client, Looping
<1>21. ASSUME NEW t \in Turns, CleanUp(t) PROVE Enters(u)
  BY <1>21, <1>pc, <1>tx DEF CleanUp, Goto, client, Looping
<1>22. ASSUME NEW t \in Turns, Panic(t) PROVE Enters(u)
  BY <1>22, <1>pc, <1>tx DEF Panic, TellError, Goto, client, Looping
<1>23. ASSUME NEW t \in Turns, Disconnect(t) PROVE Enters(u)
  BY <1>23, <1>pc, <1>tx DEF Disconnect, Goto, client, Looping
<1>24. ASSUME NEW t \in Turns, NEW tool \in Tools, ExecuteTool(t, tool) PROVE Enters(u)
  BY <1>24 DEF ExecuteTool, client
<1>25. CASE Crash
  BY <1>25, <1>pc DEF Crash, client, Looping
<1>26. ASSUME NEW s \in Sessions, DeleteElsewhere(s) PROVE Enters(u)
  BY <1>26 DEF DeleteElsewhere, client
<1>27. CASE UNCHANGED vars
  BY <1>27 DEF vars, client
<1>28. ASSUME NEW t \in Turns, ReportError(t) PROVE Enters(u)
  BY <1>28, <1>pc, <1>tx DEF ReportError, GiveUp, TellError, Goto, client, Looping
<1>29. ASSUME NEW t \in Turns, ProviderError(t) PROVE Enters(u)
  BY <1>29, <1>pc, <1>tx DEF ProviderError, Goto, client, Looping
<1> QED
  BY <1>1, <1>2, <1>3, <1>4, <1>5, <1>6, <1>7, <1>8, <1>9, <1>10, <1>11, <1>12, <1>13,
     <1>14, <1>15, <1>16, <1>17, <1>18, <1>19, <1>20, <1>21, <1>22, <1>23, <1>24, <1>25,
     <1>26, <1>27, <1>28, <1>29 DEF Next, TurnStep

\* A session that was dropped under turn t stays one, once t keeps to it.
LEMMA DroppedStays ==
  ASSUME TypeInv, [Next]_vars, NEW t \in Turns, sid'[t] = sid[t]
  PROVE  DroppedUnder(t) => DroppedUnder(t)'
BY TurnsAdvance DEF DroppedUnder, Advances

\* The question of a turn that may still write is stored, unless another turn
\* dropped the session, and beside a question stands the answer of the turn
\* that announces one.
RowsThere ==
  \A t \in Turns :
    /\ announced[t] => pc[t] \in Late /\ sid[t] \in Sessions
    /\ ~OtherDeletes /\ pc[t] \in Asked /\ ~DroppedUnder(t) => Rows(t, "user") # {}
    /\ ~StoreFaults /\ Announcing(t) /\ Rows(t, "user") # {} => Rows(t, "final") # {}

HistoryInv == OrderInv /\ RowsThere /\ AnswersHaveQuestions

\* The first state has no rows and announces nothing.
LEMMA InitHistoryInv == Init => HistoryInv
BY InitOrderInv
   DEF Init, HistoryInv, RowsThere, AnswersHaveQuestions, Announcing, Asked, Looping

\* Rows go only with the whole session, and a turn that comes to a state that
\* needs a row adds it on the way.
LEMMA StepRowsThere == TypeInv /\ RowsThere /\ [Next]_vars => RowsThere'
<1> SUFFICES ASSUME TypeInv, RowsThere, [Next]_vars, NEW t \in Turns
             PROVE  /\ announced'[t] => pc'[t] \in Late /\ sid'[t] \in Sessions
                    /\ ~OtherDeletes /\ pc'[t] \in Asked /\ ~DroppedUnder(t)' =>
                          Rows(t, "user")' # {}
                    /\ ~StoreFaults /\ Announcing(t)' /\ Rows(t, "user")' # {} =>
                          Rows(t, "final")' # {}
  BY DEF RowsThere
<1>e. Enters(t) /\ Advances(t)
  BY TurnsEnter, TurnsAdvance
<1>l. log \in [Sessions -> Seq(Message)]
  BY DEF TypeInv, TypeOK
<1>c. pc[t] \in Asked \/ Announcing(t) => sid'[t] = sid[t] /\ sid[t] \in Sessions
  BY <1>e DEF RowsThere, Advances, Announcing, Asked, Looping, Late, TypeInv, ControlInv
<1>1. announced'[t] => pc'[t] \in Late /\ sid'[t] \in Sessions
  <2>1. announced'[t] => pc[t] \in Late /\ (pc[t] \in Asked \/ Announcing(t))
    BY <1>e DEF Enters, RowsThere, Late, Asked, Announcing, Looping
  <2> QED
    BY <2>1, <1>c, <1>e DEF Advances
<1>own. ASSUME NEW m \in Message, Adds(t, m) PROVE Rows(t, m.kind)' # {}
  <2>1. sid'[t] = sid[t]
    BY <1>own DEF Adds
  <2> QED
    BY <1>own, <2>1, AddsRows
<1>2. ASSUME ~OtherDeletes, pc'[t] \in Asked, ~DroppedUnder(t)' PROVE Rows(t, "user")' # {}
  <2>1. CASE \E m \in Message : Adds(t, m) /\ m.kind = "user"
    BY <2>1, <1>own
  <2>2. CASE pc[t] \in Asked
    <3>1. sid'[t] = sid[t] /\ sid[t] \in Sessions
      BY <2>2, <1>c
    <3>2. Rows(t, "user") # {}
      BY <1>2, <2>2, <3>1, DroppedStays DEF RowsThere
    <3>3. CASE log' = log
      BY <3>1, <3>2, <3>3, LogKeepsRows DEF Same
    <3>4. ASSUME NEW v \in Turns, NEW m \in Message, Adds(v, m) PROVE Rows(t, "user")' # {}
      BY <3>1, <3>2, <3>4, AddsRows
    <3>5. ASSUME NEW z \in Sessions, Empties(z) PROVE Rows(t, "user")' # {}
      <4>1. z # sid[t]
        BY <1>2, <3>1, <3>5 DEF Empties, Drops, DroppedUnder, Asked, Looping
      <4>2. log'[sid[t]] = log[sid[t]]
        BY <3>1, <3>5, <4>1, <1>l DEF Empties
      <4> QED
        BY <3>1, <3>2, <4>2, LogKeepsRows DEF Same
    <3> QED
      BY <3>3, <3>4, <3>5, StoreChanges DEF StoreChange
  <2> QED
    BY <1>2, <1>e, <2>1, <2>2 DEF Enters
<1>3. ASSUME ~StoreFaults, Announcing(t)', Rows(t, "user")' # {} PROVE Rows(t, "final")' # {}
  <2>1. CASE \E m \in Message : Adds(t, m) /\ m.kind = "final"
    BY <2>1, <1>own
  <2>2. CASE Announcing(t)
    <3>1. sid'[t] = sid[t] /\ sid[t] \in Sessions
      BY <2>2, <1>c
    <3>2. Rows(t, "user") # {} => Rows(t, "final") # {}
      BY <1>3, <2>2 DEF RowsThere
    <3>3. CASE log' = log
      BY <1>3, <3>1, <3>2, <3>3, LogKeepsRows DEF Same
    <3>4. ASSUME NEW v \in Turns, NEW m \in Message, Adds(v, m) PROVE Rows(t, "final")' # {}
      <4>1. ~(v = t /\ m.kind = "user")
        BY <2>2, <3>4 DEF Adds, Announcing, RowsThere, Late
      <4>2. Rows(t, "user")' = Rows(t, "user") /\ Rows(t, "final") \subseteq Rows(t, "final")'
        BY <3>1, <3>4, <4>1, AddsRows
      <4> QED
        BY <1>3, <3>2, <4>2
    <3>5. ASSUME NEW z \in Sessions, Empties(z) PROVE Rows(t, "final")' # {}
      <4>1. CASE z = sid[t]
        BY <1>3, <3>1, <3>5, <4>1, <1>l, EmptyLogClears DEF Empties, Cleared
      <4>2. CASE z # sid[t]
        <5>1. log'[sid[t]] = log[sid[t]]
          BY <3>1, <3>5, <4>2, <1>l DEF Empties
        <5> QED
          BY <1>3, <3>1, <3>2, <5>1, LogKeepsRows DEF Same
      <4> QED
        BY <4>1, <4>2
    <3> QED
      BY <3>3, <3>4, <3>5, StoreChanges DEF StoreChange
  <2> QED
    BY <1>3, <1>e, <2>1, <2>2 DEF Enters
<1> QED
  BY <1>1, <1>2, <1>3

\* A row that is appended belongs to a turn that may still write.
LEMMA StepAnswersHaveQuestions == HistoryInv /\ [Next]_vars => AnswersHaveQuestions'
<1> SUFFICES ASSUME HistoryInv, [Next]_vars, ~OtherDeletes, NEW s \in Sessions,
                    NEW i \in DOMAIN log'[s], log'[s][i].kind # "user",
                    NEW t, log'[s][i].turn = t, ~DroppedUnder(t)'
             PROVE  \E j \in 1 .. i - 1 : log'[s][j].turn = t /\ log'[s][j].kind = "user"
  BY DEF AnswersHaveQuestions, DroppedUnder
<1>t. TypeInv /\ OrderInv /\ RowInv /\ RowsThere /\ AnswersHaveQuestions
  BY DEF HistoryInv, OrderInv
<1>l. log \in [Sessions -> Seq(Message)]
  BY <1>t DEF TypeInv, TypeOK
<1>o. log[s] \in Seq(Message) /\ DOMAIN log[s] = 1 .. Len(log[s]) /\ Len(log[s]) \in Nat
  BY <1>l
<1>old. ASSUME i \in DOMAIN log[s], log'[s][i] = log[s][i]
        PROVE  \E j \in 1 .. i - 1 : log[s][j].turn = t /\ log[s][j].kind = "user"
  <2>1. t \in Turns
    <3>1. log[s][i] \in Message
      BY <1>old, <1>o
    <3> QED
      BY <1>old, <3>1 DEF Message
  <2>2. pc[t] \notin Early
    BY <1>old, <1>t DEF RowInv
  <2>3. sid'[t] = sid[t]
    BY <1>t, <2>1, <2>2, TurnsAdvance DEF Advances, Early
  <2>4. ~DroppedUnder(t)
    BY <1>t, <2>1, <2>3, DroppedStays
  <2> QED
    BY <1>old, <1>t, <2>4 DEF AnswersHaveQuestions
<1>1. CASE log'[s] = log[s]
  BY <1>1, <1>old
<1>2. ASSUME NEW v \in Turns, NEW m \in Message, Adds(v, m), sid[v] = s
      PROVE  \E j \in 1 .. i - 1 : log'[s][j].turn = t /\ log'[s][j].kind = "user"
  <2>1. /\ log'[s] = Append(log[s], m)
        /\ \A k \in 1 .. Len(log[s]) : log'[s][k] = log[s][k]
        /\ i \in 1 .. Len(log[s]) \/ (i = Len(log[s]) + 1 /\ log'[s][i] = m)
    BY <1>2, <1>l, <1>o DEF Adds
  <2>2. CASE i \in 1 .. Len(log[s])
    <3>1. PICK j \in 1 .. i - 1 : log[s][j].turn = t /\ log[s][j].kind = "user"
      BY <1>old, <2>1, <2>2, <1>o
    <3>2. log'[s][j] = log[s][j]
      BY <2>1, <2>2, <1>o
    <3> QED
      BY <3>1, <3>2
  <2>3. CASE i = Len(log[s]) + 1 /\ log'[s][i] = m
    <3>1. t = v /\ pc[t] \in Asked /\ sid'[t] = sid[t] /\ sid[t] = s
      BY <1>2, <2>3 DEF Adds, Asked, Looping
    <3>2. ~DroppedUnder(t)
      BY <1>t, <3>1, DroppedStays
    <3>3. PICK j \in DOMAIN log[s] : log[s][j].turn = t /\ log[s][j].kind = "user"
      BY <3>1, <3>2, <1>t DEF RowsThere, Rows
    <3>4. j \in 1 .. i - 1 /\ log'[s][j] = log[s][j]
      BY <2>1, <2>3, <3>3, <1>o
    <3> QED
      BY <3>3, <3>4
  <2> QED
    BY <2>1, <2>2, <2>3
<1>3. ASSUME NEW v \in Turns, NEW m \in Message, Adds(v, m), sid[v] # s
      PROVE  log'[s] = log[s]
  BY <1>3, <1>l DEF Adds
<1>4. ASSUME NEW z \in Sessions, Empties(z) PROVE log'[s] = log[s]
  <2>1. z # s
    BY <1>4, <1>l DEF Empties
  <2> QED
    BY <1>4, <2>1, <1>l DEF Empties
<1> QED
  BY <1>t, <1>1, <1>2, <1>3, <1>4, StoreChanges DEF StoreChange

\* Every step keeps the whole of the history invariant.
LEMMA StepHistoryInv == HistoryInv /\ [Next]_vars => HistoryInv'
BY StepOrderInv, StepRowsThere, StepAnswersHaveQuestions DEF HistoryInv, OrderInv

\* No answer, tool call or result without its question, but where the clean-up
\* of another turn took the question away: for all constants.
THEOREM AnswersHaveQuestionsHolds == Spec => []AnswersHaveQuestions
<1>1. HistoryInv => AnswersHaveQuestions
  BY DEF HistoryInv
<1> QED
  BY InitHistoryInv, StepHistoryInv, <1>1, PTL DEF Spec

\* An announced answer is stored wherever its question is, for all constants.
THEOREM AnswerKeptHolds == Spec => []AnswerKept
<1>1. HistoryInv => AnswerKept
  BY DEF HistoryInv, RowsThere, AnswerKept, Announcing
<1> QED
  BY InitHistoryInv, StepHistoryInv, <1>1, PTL DEF Spec

-----------------------------------------------------------------------------
(* The stream of one turn.                                                 *)

\* Terminal events are sent only on the way out of the loop, and all that was
\* streamed is kept for the final text, the note apart.
StreamInvOf(t) ==
  /\ pc[t] = "idle" => ~gone[t]
  /\ pc[t] \in {"idle", "create", "ask", "load", "refused"} \cup Looping => ~announced[t]
  /\ pc[t] \in {"idle", "create", "ask", "load", "refused"} \cup (Looping \ {"report"}) =>
       errors[t] = 0
  /\ pc[t] = "report" => errors[t] <= 1
  /\ pc[t] \in {"idle", "create", "ask", "load"} =>
       streamed[t] = {} /\ complete[t] = {} /\ full[t] = {}
  /\ pc[t] \in {"cleanup", "closed"} =>
       /\ errors[t] <= (IF announced[t] THEN 0 ELSE 2)
       /\ gone[t] \/ announced[t] \/ errors[t] >= 1
  /\ pc[t] \in Looping \ {"report"} =>
       streamed[t] \subseteq complete[t] \cup {NoteFrag}
                               \cup (IF pc[t] = "stream" THEN full[t] ELSE {})

StreamInv == TypeInv /\ \A t \in Turns : StreamInvOf(t)

\* Nothing has been sent at first.
LEMMA InitStreamInv == Init => StreamInv
BY InitTypeInv DEF Init, StreamInv, StreamInvOf, Looping

\* Every step keeps it.
LEMMA StepStreamInv == StreamInv /\ [Next]_vars => StreamInv'
<1> SUFFICES ASSUME StreamInv, [Next]_vars, NEW u \in Turns PROVE StreamInvOf(u)'
  BY StepTypeInv DEF StreamInv
<1> USE DEF StreamInvOf
<1>u. \A t \in Turns : StreamInvOf(t)
  BY DEF StreamInv
<1>pc. pc \in [Turns -> PCs] /\ gone \in [Turns -> BOOLEAN]
  BY DEF StreamInv, TypeInv, TypeOK
<1>tx. /\ full \in [Turns -> SUBSET Frags] /\ complete \in [Turns -> SUBSET Frags]
       /\ streamed \in [Turns -> SUBSET Frags]
       /\ announced \in [Turns -> BOOLEAN] /\ errors \in [Turns -> Nat]
  BY DEF StreamInv, TypeInv, TypeOK
<1>1. ASSUME NEW t \in Turns, Admit(t) PROVE StreamInvOf(u)'
  BY <1>1, <1>u, <1>pc, <1>tx DEF Admit, Goto, client, texts, Looping, Running
<1>2. ASSUME NEW t \in Turns, CreateSession(t) PROVE StreamInvOf(u)'
  BY <1>2, <1>u, <1>pc, <1>tx DEF CreateSession, Goto, client, texts, Looping, Running
<1>3. ASSUME NEW t \in Turns, StoreUserMessage(t) PROVE StreamInvOf(u)'
  BY <1>3, <1>u, <1>pc, <1>tx DEF StoreUserMessage, Goto, client, texts, Looping, Running
<1>4. ASSUME NEW t \in Turns, LoadHistory(t) PROVE StreamInvOf(u)'
  BY <1>4, <1>u, <1>pc, <1>tx DEF LoadHistory, Goto, client, texts, Looping, Running
<1>5. ASSUME NEW t \in Turns, StopForClient(t) PROVE StreamInvOf(u)'
  BY <1>5, <1>u, <1>pc, <1>tx DEF StopForClient, Goto, client, texts, Looping, Running
<1>6. ASSUME NEW t \in Turns, StartIteration(t) PROVE StreamInvOf(u)'
  BY <1>6, <1>u, <1>pc, <1>tx DEF StartIteration, Goto, client, texts, Looping, Running
<1>7. ASSUME NEW t \in Turns, FailStart(t) PROVE StreamInvOf(u)'
  BY <1>7, <1>u, <1>pc, <1>tx DEF FailStart, GiveUp, TellError, Goto, client, texts, Looping, Running
<1>8. ASSUME NEW t \in Turns, ReceiveText(t) PROVE StreamInvOf(u)'
  BY <1>8, <1>u, <1>pc, <1>tx DEF ReceiveText, Speak, Goto, client, texts, Looping, Running
<1>9. ASSUME NEW t \in Turns, EndStream(t) PROVE StreamInvOf(u)'
  BY <1>9, <1>u, <1>pc, <1>tx DEF EndStream, Goto, client, texts, Looping, Running
<1>10. ASSUME NEW t \in Turns, FailStream(t) PROVE StreamInvOf(u)'
  BY <1>10, <1>u, <1>pc, <1>tx DEF FailStream, GiveUp, TellError, Goto, client, texts, Looping, Running
<1>11. ASSUME NEW t \in Turns, ContinueWithTools(t) PROVE StreamInvOf(u)'
  BY <1>11, <1>u, <1>pc, <1>tx DEF ContinueWithTools, Goto, client, texts, Looping, Running
<1>12. ASSUME NEW t \in Turns, StoreToolResult(t) PROVE StreamInvOf(u)'
  BY <1>12, <1>u, <1>pc, <1>tx DEF StoreToolResult, Goto, client, texts, Looping, Running
<1>13. ASSUME NEW t \in Turns, RetrySilence(t) PROVE StreamInvOf(u)'
  BY <1>13, <1>u, <1>pc, <1>tx DEF RetrySilence, Nudge, Goto, client, texts, Looping, Running
<1>14. ASSUME NEW t \in Turns, SuppressSilence(t) PROVE StreamInvOf(u)'
  BY <1>14, <1>u, <1>pc, <1>tx DEF SuppressSilence, GiveUp, TellError, Goto, client, texts, Looping,
     Running
<1>15. ASSUME NEW t \in Turns, RetryFabrication(t) PROVE StreamInvOf(u)'
  BY <1>15, <1>u, <1>pc, <1>tx DEF RetryFabrication, Nudge, Goto, client, texts, Looping, Running
<1>16. ASSUME NEW t \in Turns, RetryExpert(t) PROVE StreamInvOf(u)'
  BY <1>16, <1>u, <1>pc, <1>tx DEF RetryExpert, Nudge, Goto, client, texts, Looping, Running
<1>17. ASSUME NEW t \in Turns, AcceptAnswer(t) PROVE StreamInvOf(u)'
  BY <1>17, <1>u, <1>pc, <1>tx DEF AcceptAnswer, Goto, client, texts, Looping, Running
<1>18. ASSUME NEW t \in Turns, HitLimit(t) PROVE StreamInvOf(u)'
  BY <1>18, <1>u, <1>pc, <1>tx DEF HitLimit, Speak, Goto, client, texts, Looping, Running
<1>19. ASSUME NEW t \in Turns, StoreAnswer(t) PROVE StreamInvOf(u)'
  BY <1>19, <1>u, <1>pc, <1>tx DEF StoreAnswer, Goto, client, texts, Looping, Running
<1>20. ASSUME NEW t \in Turns, EmitComplete(t) PROVE StreamInvOf(u)'
  BY <1>20, <1>u, <1>pc, <1>tx DEF EmitComplete, Goto, client, texts, Looping, Running
<1>21. ASSUME NEW t \in Turns, CleanUp(t) PROVE StreamInvOf(u)'
  BY <1>21, <1>u, <1>pc, <1>tx DEF CleanUp, Goto, client, texts, Looping, Running
<1>22. ASSUME NEW t \in Turns, Panic(t) PROVE StreamInvOf(u)'
  BY <1>22, <1>u, <1>pc, <1>tx DEF Panic, TellError, Goto, client, texts, Looping, Running
<1>23. ASSUME NEW t \in Turns, Disconnect(t) PROVE StreamInvOf(u)'
  BY <1>23, <1>u, <1>pc, <1>tx DEF Disconnect, Goto, client, texts, Looping, Running
<1>24. ASSUME NEW t \in Turns, NEW tool \in Tools, ExecuteTool(t, tool) PROVE StreamInvOf(u)'
  BY <1>24, <1>u DEF ExecuteTool, client, texts
<1>25. CASE Crash
  BY <1>25, <1>u, <1>pc DEF Crash, client, texts, Looping, Running
<1>26. ASSUME NEW s \in Sessions, DeleteElsewhere(s) PROVE StreamInvOf(u)'
  BY <1>26, <1>u DEF DeleteElsewhere, client, texts
<1>27. CASE UNCHANGED vars
  BY <1>27, <1>u DEF vars, client, texts
<1>28. ASSUME NEW t \in Turns, ReportError(t) PROVE StreamInvOf(u)'
  BY <1>28, <1>u, <1>pc, <1>tx DEF ReportError, GiveUp, TellError, Goto, client, texts, Looping, Running
<1>29. ASSUME NEW t \in Turns, ProviderError(t) PROVE StreamInvOf(u)'
  <2>1. errors'[u] = errors[u] \/ (u = t /\ errors'[u] = errors[u] + 1)
    BY <1>29, <1>tx DEF ProviderError, TellError
  <2>2. CASE u = t
    <3>1. pc[u] = "stream" /\ pc'[u] = "report" /\ errors[u] = 0 /\ ~announced[u]
      BY <1>29, <2>2, <1>u, <1>pc DEF ProviderError, Goto, Looping
    <3>2. errors'[u] <= 1
      BY <2>1, <3>1
    <3> QED
      BY <1>29, <3>1, <3>2, <1>u DEF ProviderError, texts, Looping
  <2>3. CASE u # t
    BY <1>29, <2>1, <2>3, <1>u, <1>pc DEF ProviderError, Goto, texts
  <2> QED
    BY <2>2, <2>3
<1> QED
  BY <1>1, <1>2, <1>3, <1>4, <1>5, <1>6, <1>7, <1>8, <1>9, <1>10, <1>11, <1>12, <1>13,
     <1>14, <1>15, <1>16, <1>17, <1>18, <1>19, <1>20, <1>21, <1>22, <1>23, <1>24, <1>25,
     <1>26, <1>27, <1>28, <1>29 DEF Next, TurnStep

\* A client that stayed is told how its turn ended, one way, for all constants.
THEOREM OneEndingHolds == Spec => []OneEnding
<1>1. StreamInv => OneEnding
  <2> SUFFICES ASSUME StreamInv, NEW t \in Turns, pc[t] = "closed", ~gone[t]
               PROVE  IF announced[t] THEN errors[t] = 0 ELSE errors[t] \in 1 .. 2
    BY DEF OneEnding
  <2>1. StreamInvOf(t) /\ errors[t] \in Nat
    BY DEF StreamInv, TypeInv, TypeOK
  <2> QED
    BY <2>1 DEF StreamInvOf
<1> QED
  BY InitStreamInv, StepStreamInv, <1>1, PTL DEF Spec

-----------------------------------------------------------------------------
(* The refinement.                                                         *)

\* A step after which every client sees the same.
Quiet == (\A u \in Turns : PhaseOf(u)' = PhaseOf(u)) /\ UNCHANGED <<streamed, shown, errors>>

\* A step after which turn t's stream is at phase p and the rest as before.
Moves(t, p) == \A u \in Turns : PhaseOf(u)' = IF u = t THEN p ELSE PhaseOf(u)

ContractStep == [Contract!Next]_(Contract!vars)

\* A step that leaves alone what the client can tell is a stutter.
LEMMA QuietStutters == Quiet => ContractStep
BY DEF Quiet, ContractStep, Contract!vars

\* Every step of a turn is a step of its stream, or none.
LEMMA StepRefines == StreamInv /\ [Next]_vars => ContractStep
<1> SUFFICES ASSUME StreamInv, [Next]_vars PROVE ContractStep
  OBVIOUS
<1>u. \A t \in Turns : StreamInvOf(t)
  BY DEF StreamInv
<1>pc. pc \in [Turns -> PCs] /\ gone \in [Turns -> BOOLEAN]
  BY DEF StreamInv, TypeInv, TypeOK
<1>tx. /\ full \in [Turns -> SUBSET Frags] /\ complete \in [Turns -> SUBSET Frags]
       /\ streamed \in [Turns -> SUBSET Frags] /\ answer \in [Turns -> SUBSET Frags]
       /\ announced \in [Turns -> BOOLEAN] /\ errors \in [Turns -> Nat]
       /\ shown \in [Turns -> SUBSET Frags]
  BY DEF StreamInv, TypeInv, TypeOK
<1>cut. ASSUME NEW t \in Turns, PhaseOf(t) = "open", Moves(t, "cut"), UNCHANGED <<streamed, shown, errors>>
        PROVE  ContractStep
  <2>1. {t} \in SUBSET {u \in Turns : PhaseOf(u) = "open"}
    BY <1>cut
  <2>2. [u \in Turns |-> PhaseOf(u)]' =
          [u \in Turns |-> IF u \in {t} THEN "cut" ELSE [v \in Turns |-> PhaseOf(v)][u]]
    BY <1>cut DEF Moves
  <2> QED
    BY <1>cut, <2>1, <2>2 DEF ContractStep, Contract!Next, Contract!Cut
<1>fail. ASSUME NEW t \in Turns, PhaseOf(t) \in {"open", "failed"}, errors[t] < 3,
                Moves(t, "failed"), errors' = [errors EXCEPT ![t] = @ + 1],
                UNCHANGED <<streamed, shown>>
         PROVE  ContractStep
  <2>1. [u \in Turns |-> PhaseOf(u)]' = [[u \in Turns |-> PhaseOf(u)] EXCEPT ![t] = "failed"]
    BY <1>fail DEF Moves
  <2> QED
    BY <1>fail, <2>1 DEF ContractStep, Contract!Next, Contract!Fail, Contract!MaxErrors
<1>late. ASSUME NEW t \in Turns, PhaseOf(t) = "answered", errors[t] < 1,
                \A u \in Turns : PhaseOf(u)' = PhaseOf(u), errors' = [errors EXCEPT ![t] = @ + 1],
                UNCHANGED <<streamed, shown>>
         PROVE  ContractStep
  <2>1. [u \in Turns |-> PhaseOf(u)]' = [[u \in Turns |-> PhaseOf(u)] EXCEPT ![t] = "answered"]
    BY <1>late
  <2> QED
    BY <1>late, <2>1 DEF ContractStep, Contract!Next, Contract!Fail, Contract!MaxErrors
<1>open. ASSUME NEW t \in Turns, PhaseOf(t) = "idle", Moves(t, "open"), UNCHANGED <<streamed, shown, errors>>
         PROVE  ContractStep
  BY <1>open DEF ContractStep, Contract!Next, Contract!Open, Moves
<1>refuse. ASSUME NEW t \in Turns, PhaseOf(t) = "idle", Moves(t, "cut"), UNCHANGED <<streamed, shown, errors>>
           PROVE  ContractStep
  BY <1>refuse DEF ContractStep, Contract!Next, Contract!Refuse, Moves
<1>speak. ASSUME NEW t \in Turns, NEW f \in Frags, PhaseOf(t) = "open",
                 \A u \in Turns : PhaseOf(u)' = PhaseOf(u),
                 streamed' = [streamed EXCEPT ![t] = @ \cup {f}], UNCHANGED <<shown, errors>>
          PROVE  ContractStep
  BY <1>speak DEF ContractStep, Contract!Next, Contract!Speak, Contract!Frags, Frags
<1>answer. ASSUME NEW t \in Turns, NEW x \in SUBSET Frags, PhaseOf(t) = "open", Moves(t, "answered"),
                  streamed[t] \ {NoteFrag} \subseteq x,
                  shown' = [shown EXCEPT ![t] = x], UNCHANGED <<streamed, errors>>
           PROVE  ContractStep
  BY <1>answer DEF ContractStep, Contract!Next, Contract!Answer, Contract!Frags, Frags,
                   Contract!NoteFrag, NoteFrag, Moves
<1>1. ASSUME NEW t \in Turns, StopForClient(t) PROVE ContractStep
  <2> Quiet
    BY <1>1, <1>u, <1>pc DEF StopForClient, Goto, client, Quiet, PhaseOf, StreamInvOf
  <2> QED
    BY QuietStutters
<1>2. ASSUME NEW t \in Turns, StartIteration(t) PROVE ContractStep
  <2> Quiet
    BY <1>2, <1>u, <1>pc DEF StartIteration, Goto, client, Quiet, PhaseOf, StreamInvOf
  <2> QED
    BY QuietStutters
<1>3. ASSUME NEW t \in Turns, EndStream(t) PROVE ContractStep
  <2> Quiet
    BY <1>3, <1>u, <1>pc DEF EndStream, Goto, client, Quiet, PhaseOf, StreamInvOf
  <2> QED
    BY QuietStutters
<1>4. ASSUME NEW t \in Turns, ContinueWithTools(t) PROVE ContractStep
  <2> Quiet
    BY <1>4, <1>u, <1>pc DEF ContinueWithTools, Goto, client, Quiet, PhaseOf, StreamInvOf
  <2> QED
    BY QuietStutters
<1>5. ASSUME NEW t \in Turns, StoreToolResult(t) PROVE ContractStep
  <2> Quiet
    BY <1>5, <1>u, <1>pc DEF StoreToolResult, Goto, client, Quiet, PhaseOf, StreamInvOf
  <2> QED
    BY QuietStutters
<1>6. ASSUME NEW t \in Turns, RetrySilence(t) PROVE ContractStep
  <2> Quiet
    BY <1>6, <1>u, <1>pc DEF RetrySilence, Nudge, Goto, client, Quiet, PhaseOf, StreamInvOf
  <2> QED
    BY QuietStutters
<1>7. ASSUME NEW t \in Turns, RetryFabrication(t) PROVE ContractStep
  <2> Quiet
    BY <1>7, <1>u, <1>pc DEF RetryFabrication, Nudge, Goto, client, Quiet, PhaseOf, StreamInvOf
  <2> QED
    BY QuietStutters
<1>8. ASSUME NEW t \in Turns, RetryExpert(t) PROVE ContractStep
  <2> Quiet
    BY <1>8, <1>u, <1>pc DEF RetryExpert, Nudge, Goto, client, Quiet, PhaseOf, StreamInvOf
  <2> QED
    BY QuietStutters
<1>9. ASSUME NEW t \in Turns, AcceptAnswer(t) PROVE ContractStep
  <2> Quiet
    BY <1>9, <1>u, <1>pc DEF AcceptAnswer, Goto, client, Quiet, PhaseOf, StreamInvOf
  <2> QED
    BY QuietStutters
<1>10. ASSUME NEW t \in Turns, StoreAnswer(t) PROVE ContractStep
  <2> Quiet
    BY <1>10, <1>u, <1>pc DEF StoreAnswer, Goto, client, Quiet, PhaseOf, StreamInvOf
  <2> QED
    BY QuietStutters
<1>11. ASSUME NEW t \in Turns, CleanUp(t) PROVE ContractStep
  <2> Quiet
    BY <1>11, <1>u, <1>pc DEF CleanUp, Goto, client, Quiet, PhaseOf, StreamInvOf
  <2> QED
    BY QuietStutters
<1>12. ASSUME NEW t \in Turns, Admit(t) PROVE ContractStep
  <2>1. PhaseOf(t) = "idle" /\ UNCHANGED <<streamed, shown, errors>>
    BY <1>12, <1>u DEF Admit, PhaseOf, StreamInvOf, client
  <2>2. Moves(t, "open") \/ Moves(t, "cut")
    BY <1>12, <1>u, <1>pc DEF Admit, Goto, PhaseOf, StreamInvOf, client, Moves
  <2> QED
    BY <2>1, <2>2, <1>open, <1>refuse
<1>13. ASSUME NEW t \in Turns, CreateSession(t) PROVE ContractStep
  <2>1. Quiet \/ (PhaseOf(t) = "open" /\ Moves(t, "cut") /\ UNCHANGED <<streamed, shown, errors>>)
    BY <1>13, <1>u, <1>pc
       DEF CreateSession, Goto, client, Quiet, PhaseOf, StreamInvOf, Moves
  <2> QED
    BY <2>1, <1>cut, QuietStutters
<1>14. ASSUME NEW t \in Turns, StoreUserMessage(t) PROVE ContractStep
  <2>1. Quiet \/ (PhaseOf(t) = "open" /\ Moves(t, "cut") /\ UNCHANGED <<streamed, shown, errors>>)
    BY <1>14, <1>u, <1>pc
       DEF StoreUserMessage, Goto, client, Quiet, PhaseOf, StreamInvOf, Moves
  <2> QED
    BY <2>1, <1>cut, QuietStutters
<1>15. ASSUME NEW t \in Turns, LoadHistory(t) PROVE ContractStep
  <2>1. CASE UNCHANGED client
    <3>1. Quiet \/ (PhaseOf(t) = "open" /\ Moves(t, "cut") /\ UNCHANGED <<streamed, shown, errors>>)
      BY <1>15, <2>1, <1>u, <1>pc
         DEF LoadHistory, Goto, client, Quiet, PhaseOf, StreamInvOf, Moves
    <3> QED
      BY <3>1, <1>cut, QuietStutters
  <2>2. CASE ~UNCHANGED client
    <3>1. 1 \in Frags
      BY ChatTurnAssumption DEF Frags
    <3>2. /\ PhaseOf(t) = "open" /\ \A u \in Turns : PhaseOf(u)' = PhaseOf(u)
          /\ streamed' = [streamed EXCEPT ![t] = {1}] /\ UNCHANGED <<shown, errors>>
      BY <1>15, <2>2, <1>u, <1>pc DEF LoadHistory, Goto, client, PhaseOf, StreamInvOf, MaySucceed
    <3>3. streamed[t] = {}
      BY <1>15, <1>u DEF LoadHistory, StreamInvOf
    <3> QED
      BY <3>1, <3>2, <3>3, <1>tx, <1>speak
  <2> QED
    BY <2>1, <2>2
<1>tell. ASSUME NEW t \in Turns, pc[t] \in Looping \cup {"cleanup"},
                pc'[t] \in {"report", "cleanup", "aborted"}, \A u \in Turns \ {t} : pc'[u] = pc[u],
                TellError(t), UNCHANGED <<gone, streamed, shown, announced>>
         PROVE  ContractStep
  <2>1. CASE gone[t]
    <3> Quiet
      BY <2>1, <1>tell DEF TellError, Quiet, PhaseOf, Looping
    <3> QED
      BY QuietStutters
  <2>2. CASE ~gone[t]
    <3>1. errors' = [errors EXCEPT ![t] = @ + 1] /\ errors[t] \in Nat /\ errors'[t] > 0
          /\ \A u \in Turns \ {t} : errors'[u] = errors[u]
      BY <2>2, <1>tell, <1>tx DEF TellError
    <3>2. CASE announced[t]
      <4>1. pc[t] = "cleanup"
        BY <3>2, <1>tell, <1>u DEF StreamInvOf, Looping
      <4>3. errors[t] <= 0
        BY <3>2, <4>1, <1>u DEF StreamInvOf
      <4>4. PhaseOf(t) = "answered" /\ errors[t] < 1
        BY <3>1, <3>2, <4>3 DEF PhaseOf
      <4>2. \A u \in Turns : PhaseOf(u)' = PhaseOf(u)
        BY <3>1, <3>2, <1>tell DEF PhaseOf
      <4> QED
        BY <3>1, <4>4, <4>2, <1>tell, <1>late
    <3>3. CASE ~announced[t]
      <4>1. PhaseOf(t) \in {"open", "failed"} /\ errors[t] < 3
        BY <2>2, <3>1, <3>3, <1>tell, <1>u DEF PhaseOf, StreamInvOf, Looping
      <4>2. Moves(t, "failed")
        BY <3>1, <3>3, <1>tell DEF PhaseOf, Moves
      <4> QED
        BY <3>1, <4>1, <4>2, <1>tell, <1>fail
    <3> QED
      BY <3>2, <3>3
  <2> QED
    BY <2>1, <2>2
<1>give. ASSUME NEW t \in Turns, GiveUp(t), pc[t] \in Looping PROVE ContractStep
  BY <1>give, <1>tell, <1>pc DEF GiveUp, Goto
<1>16. ASSUME NEW t \in Turns, FailStart(t) PROVE ContractStep
  BY <1>16, <1>give DEF FailStart, Looping
<1>17. ASSUME NEW t \in Turns, FailStream(t) PROVE ContractStep
  BY <1>17, <1>give DEF FailStream, Looping
<1>18. ASSUME NEW t \in Turns, SuppressSilence(t) PROVE ContractStep
  BY <1>18, <1>give DEF SuppressSilence, Looping
<1>say. ASSUME NEW t \in Turns, NEW f \in Frags, Speak(t, f), pc[t] \in {"stream", "top"},
               pc'[t] \in Looping, \A u \in Turns \ {t} : pc'[u] = pc[u],
               UNCHANGED <<gone, announced, errors, shown>>
        PROVE  ContractStep
  <2>1. \A u \in Turns : PhaseOf(u)' = PhaseOf(u)
    BY <1>say DEF PhaseOf, Looping
  <2>2. CASE gone[t]
    BY <2>1, <2>2, <1>say, QuietStutters DEF Quiet, Speak
  <2>3. CASE ~gone[t]
    <3>1. PhaseOf(t) = "open"
      BY <2>3, <1>say, <1>u, <1>tx DEF PhaseOf, StreamInvOf, Looping
    <3> QED
      BY <3>1, <2>1, <2>3, <1>say, <1>speak DEF Speak
  <2> QED
    BY <2>2, <2>3
<1>19. ASSUME NEW t \in Turns, ReceiveText(t) PROVE ContractStep
  <2>1. iter[t] \in Frags
    BY <1>19 DEF ReceiveText, StreamInv, TypeInv, ControlInv, Frags
  <2> QED
    BY <2>1, <1>19, <1>say DEF ReceiveText, Looping
<1>20. ASSUME NEW t \in Turns, HitLimit(t) PROVE ContractStep
  <2>1. NoteFrag \in Frags
    BY ChatTurnAssumption DEF Frags, NoteFrag
  <2>2. pc[t] = "top" /\ pc' = [pc EXCEPT ![t] = "storeAnswer"] /\ UNCHANGED <<gone, announced, errors, shown>>
    BY <1>20 DEF HitLimit, Goto
  <2>3. CASE UNCHANGED streamed
    <3> Quiet
      BY <2>2, <2>3, <1>pc DEF Quiet, PhaseOf
    <3> QED
      BY QuietStutters
  <2>4. CASE Speak(t, NoteFrag)
    BY <2>1, <2>2, <2>4, <1>pc, <1>say DEF Looping
  <2> QED
    BY <1>20, <2>3, <2>4 DEF HitLimit
<1>21. ASSUME NEW t \in Turns, EmitComplete(t) PROVE ContractStep
  <2>1. CASE gone[t]
    <3> Quiet
      BY <1>21, <2>1, <1>u, <1>pc DEF EmitComplete, Goto, Quiet, PhaseOf, StreamInvOf
    <3> QED
      BY QuietStutters
  <2>2. CASE ~gone[t]
    <3>1. CompleteText(t) \in SUBSET Frags
      BY <1>tx DEF CompleteText
    <3>2. streamed[t] \ {NoteFrag} \subseteq CompleteText(t)
      BY <1>21, <1>u DEF EmitComplete, StreamInvOf, CompleteText, Looping
    <3>3. PhaseOf(t) = "open" /\ Moves(t, "answered")
      BY <1>21, <2>2, <1>u, <1>pc, <1>tx
         DEF EmitComplete, Goto, PhaseOf, StreamInvOf, Moves, Looping
    <3> QED
      BY <3>1, <3>2, <3>3, <2>2, <1>21, <1>answer DEF EmitComplete
  <2> QED
    BY <2>1, <2>2
<1>hush. ASSUME NEW t \in Turns, pc[t] \in Looping \cup {"cleanup"},
                pc'[t] \in {"report", "aborted"}, \A u \in Turns \ {t} : pc'[u] = pc[u],
                UNCHANGED <<gone, streamed, shown, announced, errors>>
         PROVE  ContractStep
  <2>1. Quiet \/ (PhaseOf(t) = "open" /\ Moves(t, "cut") /\ UNCHANGED <<streamed, shown, errors>>)
    BY <1>hush DEF Quiet, PhaseOf, Moves, Looping
  <2> QED
    BY <2>1, <1>cut, QuietStutters
<1>22. ASSUME NEW t \in Turns, Panic(t) PROVE ContractStep
  <2>1. /\ pc[t] \in Looping \cup {"cleanup"} /\ pc'[t] = "aborted"
        /\ \A u \in Turns \ {t} : pc'[u] = pc[u]
        /\ UNCHANGED <<gone, streamed, shown, announced>>
        /\ TellError(t) \/ UNCHANGED errors
    BY <1>22, <1>pc DEF Panic, Goto, Looping
  <2> QED
    BY <2>1, <1>tell, <1>hush
<1>23. ASSUME NEW t \in Turns, Disconnect(t) PROVE ContractStep
  <2>1. Quiet \/ (PhaseOf(t) = "open" /\ Moves(t, "cut") /\ UNCHANGED <<streamed, shown, errors>>)
    BY <1>23, <1>u, <1>pc
       DEF Disconnect, client, Quiet, PhaseOf, StreamInvOf, Moves, Running, Looping
  <2> QED
    BY <2>1, <1>cut, QuietStutters
<1>24. ASSUME NEW t \in Turns, NEW tool \in Tools, ExecuteTool(t, tool) PROVE ContractStep
  <2> Quiet
    BY <1>24 DEF ExecuteTool, client, Quiet, PhaseOf
  <2> QED
    BY QuietStutters
<1>25. CASE Crash
  <2> DEFINE S == {t \in Turns : PhaseOf(t) = "open" /\ pc[t] \in Running}
  <2>1. S \in SUBSET {t \in Turns : PhaseOf(t) = "open"}
    OBVIOUS
  <2>2. \A u \in Turns : PhaseOf(u)' = IF u \in S THEN "cut" ELSE PhaseOf(u)
    BY <1>25, <1>u, <1>pc DEF Crash, client, PhaseOf, StreamInvOf, Running, Looping
  <2>3. [u \in Turns |-> PhaseOf(u)]' =
          [u \in Turns |-> IF u \in S THEN "cut" ELSE [v \in Turns |-> PhaseOf(v)][u]]
    BY <2>2
  <2>4. UNCHANGED <<streamed, shown, errors>>
    BY <1>25 DEF Crash, client
  <2> QED
    BY <2>1, <2>3, <2>4 DEF ContractStep, Contract!Next, Contract!Cut
<1>26. ASSUME NEW s \in Sessions, DeleteElsewhere(s) PROVE ContractStep
  <2> Quiet
    BY <1>26 DEF DeleteElsewhere, client, Quiet, PhaseOf
  <2> QED
    BY QuietStutters
<1>27. CASE UNCHANGED vars
  <2> Quiet
    BY <1>27 DEF vars, client, Quiet, PhaseOf
  <2> QED
    BY QuietStutters
<1>28. ASSUME NEW t \in Turns, ReportError(t) PROVE ContractStep
  BY <1>28, <1>give DEF ReportError, Looping
<1>29. ASSUME NEW t \in Turns, ProviderError(t) PROVE ContractStep
  <2>1. /\ pc[t] = "stream" /\ pc'[t] = "report"
        /\ \A u \in Turns \ {t} : pc'[u] = pc[u]
        /\ UNCHANGED <<gone, streamed, shown, announced>>
        /\ TellError(t) \/ UNCHANGED errors
    BY <1>29, <1>pc DEF ProviderError, Goto
  <2> QED
    BY <2>1, <1>tell, <1>hush DEF Looping
<1> QED
  BY <1>1, <1>2, <1>3, <1>4, <1>5, <1>6, <1>7, <1>8, <1>9, <1>10, <1>11, <1>12, <1>13,
     <1>14, <1>15, <1>16, <1>17, <1>18, <1>19, <1>20, <1>21, <1>22, <1>23, <1>24, <1>25,
     <1>26, <1>27, <1>28, <1>29 DEF Next, TurnStep

\* ChatTurn implements StreamContract, for all constants.
THEOREM KeepsContractHolds == Spec => KeepsContract
<1>1. Init => Contract!Init
  BY DEF Init, Contract!Init, PhaseOf
<1>2. StreamInv /\ [Next]_vars => [Contract!Next]_(Contract!vars)
  BY StepRefines DEF ContractStep
<1> QED
  BY InitStreamInv, StepStreamInv, <1>1, <1>2, PTL DEF Spec, KeepsContract, Contract!Spec

-----------------------------------------------------------------------------
(* ShownIsStored.  Every iteration that ends in a tool call stores at most *)
(* one row of kind "call"; when there are as many rows as iterations, none *)
(* is missing, and together they hold the text of all of them.             *)

\* The number of a turn's tool calls.
Count(t) == Cardinality(Rows(t, "call"))

ShownInvOf(t) ==
  LET before == iter[t] - 1
      told   == Texts(t, "call")
  IN
  /\ pc[t] = "load" => Count(t) = 0 /\ iter[t] = 1
  /\ pc[t] \in {"idle", "create", "ask"} => iter[t] = 1
  /\ pc[t] \in {"top", "stream"} =>
       /\ Count(t) <= before /\ (iter[t] = 1 => complete[t] = {})
       /\ ~Gemini /\ Count(t) = before => complete[t] \subseteq told
  /\ pc[t] \in {"continue", "decide"} =>
       /\ Count(t) <= before /\ (iter[t] = 1 => complete[t] \subseteq full[t])
       /\ ~Gemini /\ Count(t) = before => complete[t] \subseteq told \cup full[t]
  /\ pc[t] = "storeResult" =>
       /\ Count(t) <= iter[t]
       /\ ~Gemini /\ Count(t) = iter[t] => complete[t] \subseteq told
  /\ pc[t] \in {"storeAnswer", "emit"} =>
       /\ iter[t] = 1 => CompleteText(t) \subseteq answer[t]
       /\ ~Gemini /\ Count(t) = before => CompleteText(t) \subseteq told \cup answer[t]
  /\ pc[t] = "emit" /\ Rows(t, "final") # {} => answer[t] \subseteq Texts(t, "final")
  /\ announced[t] =>
       /\ sid[t] \in Sessions /\ pc[t] \in {"cleanup", "closed", "aborted"}
       /\ ~Gemini /\ Count(t) = before /\ Rows(t, "final") # {} =>
            shown[t] \subseteq told \cup Texts(t, "final")

ShownInv == OrderInv /\ StreamInv /\ \A t \in Turns : ShownInvOf(t)

\* A step in which turn u itself does nothing.
Rests(u) == UNCHANGED <<pc[u], iter[u], full[u], complete[u], answer[u], shown[u], announced[u], sid[u]>>

\* The number of calls is one, and zero without rows.
LEMMA CountTyped ==
  ASSUME TypeInv, NEW u \in Turns, sid[u] \in Sessions
  PROVE  /\ IsFiniteSet(Rows(u, "call")) /\ Count(u) \in Nat
         /\ Rows(u, "call") = {} <=> Count(u) = 0
<1>1. log[sid[u]] \in Seq(Message)
  BY DEF TypeInv, TypeOK
<1>2. IsFiniteSet(DOMAIN log[sid[u]])
  <2>1. DOMAIN log[sid[u]] = 1 .. Len(log[sid[u]]) /\ Len(log[sid[u]]) \in Nat
    BY <1>1
  <2> QED
    BY <2>1, FS_Interval
<1>3. Rows(u, "call") \in SUBSET DOMAIN log[sid[u]]
  BY DEF Rows
<1>4. IsFiniteSet(Rows(u, "call"))
  BY <1>2, <1>3, FS_Subset
<1> QED
  BY <1>4, FS_CardinalityType, FS_EmptySet DEF Count

\* A turn that does nothing keeps its invariant, whatever becomes of its rows.
LEMMA RestingKeeps ==
  ASSUME TypeInv, NEW u \in Turns, ShownInvOf(u), Rests(u), Same(u) \/ Cleared(u)
  PROVE  ShownInvOf(u)'
<1>i. iter[u] \in Nat \ {0} /\ iter'[u] = iter[u]
  BY DEF TypeInv, TypeOK, Rests
<1>c. CompleteText(u)' = CompleteText(u)
  BY DEF Rests, CompleteText
<1>1. CASE Same(u)
  <2>1. Count(u)' = Count(u) /\ Texts(u, "call")' = Texts(u, "call")
        /\ Texts(u, "final")' = Texts(u, "final") /\ Rows(u, "final")' = Rows(u, "final")
    BY <1>1 DEF Same, Count
  <2> QED
    BY <1>i, <1>c, <2>1 DEF ShownInvOf, Rests
<1>2. CASE Cleared(u)
  <2>1. Count(u)' = 0 /\ Rows(u, "final")' = {}
    BY <1>2, FS_EmptySet DEF Cleared, Count
  <2> QED
    BY <1>i, <1>c, <2>1 DEF ShownInvOf, Rests
<1> QED
  BY <1>1, <1>2

\* Every step keeps it: a tool iteration adds its text with its row, a nudge
\* moves the count of iterations ahead of the rows for good, and a deleted
\* session has too few rows for any text but the answer's.
LEMMA StepShownInv == ShownInv /\ [Next]_vars => ShownInv'
<1> SUFFICES ASSUME ShownInv, [Next]_vars, NEW u \in Turns PROVE ShownInvOf(u)'
  BY StepOrderInv, StepStreamInv DEF ShownInv
<1>t. TypeInv /\ RowInv /\ StreamInvOf(u) /\ ShownInvOf(u)
  BY DEF ShownInv, OrderInv, StreamInv
<1>pc. pc \in [Turns -> PCs]
  BY <1>t DEF TypeInv, TypeOK
<1>ty. /\ full \in [Turns -> SUBSET Frags] /\ complete \in [Turns -> SUBSET Frags]
       /\ answer \in [Turns -> SUBSET Frags] /\ shown \in [Turns -> SUBSET Frags]
       /\ announced \in [Turns -> BOOLEAN]
  BY <1>t DEF TypeInv, TypeOK
<1>it. iter \in [Turns -> Nat \ {0}] /\ iter[u] \in Nat \ {0}
  BY <1>t DEF TypeInv, TypeOK
<1>sd. pc[u] \in {"ask", "load", "cleanup"} \cup Looping => sid[u] \in Sessions
  BY <1>t DEF TypeInv, ControlInv
<1>ct. pc[u] \in {"ask", "load", "cleanup"} \cup Looping => Count(u) \in Nat
  BY <1>t, <1>sd, CountTyped
<1>en. /\ pc[u] \in {"idle", "create", "ask", "load", "refused"} \cup Looping => ~announced[u]
       /\ pc[u] = "load" => complete[u] = {} /\ full[u] = {}
  BY <1>t DEF StreamInvOf
<1>fin. pc[u] \in Looping \ {"emit"} => Rows(u, "final") = {}
  BY <1>t, <1>sd DEF RowInv, Rows, Late, Looping
<1>rest. ASSUME Rests(u), log' = log
         PROVE  ShownInvOf(u)'
  BY <1>t, <1>rest, RestingKeeps, LogKeepsRows DEF Rests
<1>same. ASSUME log' = log, sid'[u] = sid[u]
         PROVE  /\ Count(u)' = Count(u) /\ Texts(u, "call")' = Texts(u, "call")
                /\ Texts(u, "final")' = Texts(u, "final") /\ Rows(u, "final")' = Rows(u, "final")
  <2>1. Same(u)
    BY <1>same, LogKeepsRows
  <2> QED
    BY <2>1 DEF Same, Count
<1>adds. ASSUME NEW t \in Turns, NEW m \in Message, Adds(t, m), t # u, Rests(u)
         PROVE  ShownInvOf(u)'
  <2>1. sid'[u] = sid[u]
    BY <1>adds DEF Rests
  <2>2. Same(u)
    BY <1>t, <1>adds, <2>1, AddsRows DEF Same
  <2> QED
    BY <1>t, <1>adds, <2>2, RestingKeeps
<1>1. ASSUME NEW t \in Turns, LoadHistory(t) PROVE ShownInvOf(u)'
  <2>1. log' = log /\ sid' = sid
    BY <1>1 DEF LoadHistory, store, session
  <2>2. CASE u # t
    BY <1>1, <1>rest, <2>1, <2>2, <1>pc, <1>ty, <1>it
       DEF LoadHistory, Goto, Rests, texts, client
  <2>3. CASE u = t
    BY <1>1, <1>t, <1>pc, <1>ty, <1>it, <1>sd, <1>ct, <1>en, <1>fin, <1>same, <2>1, <2>3
       DEF LoadHistory, Goto, ShownInvOf, CompleteText, Looping, texts, client
  <2> QED
    BY <2>2, <2>3
<1>2. ASSUME NEW t \in Turns, StopForClient(t) PROVE ShownInvOf(u)'
  <2>1. log' = log /\ sid' = sid
    BY <1>2 DEF StopForClient, store, session
  <2>2. CASE u # t
    BY <1>2, <1>rest, <2>1, <2>2, <1>pc, <1>ty, <1>it
       DEF StopForClient, Goto, Rests, texts, client
  <2>3. CASE u = t
    BY <1>2, <1>t, <1>pc, <1>ty, <1>it, <1>sd, <1>ct, <1>en, <1>fin, <1>same, <2>1, <2>3
       DEF StopForClient, Goto, ShownInvOf, CompleteText, Looping, texts, client
  <2> QED
    BY <2>2, <2>3
<1>3. ASSUME NEW t \in Turns, StartIteration(t) PROVE ShownInvOf(u)'
  <2>1. log' = log /\ sid' = sid
    BY <1>3 DEF StartIteration, store, session
  <2>2. CASE u # t
    BY <1>3, <1>rest, <2>1, <2>2, <1>pc, <1>ty, <1>it
       DEF StartIteration, Goto, Rests, texts, client
  <2>3. CASE u = t
    BY <1>3, <1>t, <1>pc, <1>ty, <1>it, <1>sd, <1>ct, <1>en, <1>fin, <1>same, <2>1, <2>3
       DEF StartIteration, Goto, ShownInvOf, CompleteText, Looping, texts, client
  <2> QED
    BY <2>2, <2>3
<1>4. ASSUME NEW t \in Turns, FailStart(t) PROVE ShownInvOf(u)'
  <2>1. log' = log /\ sid' = sid
    BY <1>4 DEF FailStart, GiveUp, TellError, store, session
  <2>2. CASE u # t
    BY <1>4, <1>rest, <2>1, <2>2, <1>pc, <1>ty, <1>it
       DEF FailStart, GiveUp, TellError, Goto, Rests, texts, client
  <2>3. CASE u = t
    BY <1>4, <1>t, <1>pc, <1>ty, <1>it, <1>sd, <1>ct, <1>en, <1>fin, <1>same, <2>1, <2>3
       DEF FailStart, GiveUp, TellError, Goto, ShownInvOf, CompleteText, Looping, texts, client
  <2> QED
    BY <2>2, <2>3
<1>5. ASSUME NEW t \in Turns, ReceiveText(t) PROVE ShownInvOf(u)'
  <2>1. log' = log /\ sid' = sid
    BY <1>5 DEF ReceiveText, store, session
  <2>2. CASE u # t
    BY <1>5, <1>rest, <2>1, <2>2, <1>pc, <1>ty, <1>it
       DEF ReceiveText, Goto, Rests, texts, client
  <2>3. CASE u = t
    BY <1>5, <1>t, <1>pc, <1>ty, <1>it, <1>sd, <1>ct, <1>en, <1>fin, <1>same, <2>1, <2>3
       DEF ReceiveText, Goto, ShownInvOf, CompleteText, Looping, texts, client
  <2> QED
    BY <2>2, <2>3
<1>6. ASSUME NEW t \in Turns, EndStream(t) PROVE ShownInvOf(u)'
  <2>1. log' = log /\ sid' = sid
    BY <1>6 DEF EndStream, store, session
  <2>2. CASE u # t
    BY <1>6, <1>rest, <2>1, <2>2, <1>pc, <1>ty, <1>it
       DEF EndStream, Goto, Rests, texts, client
  <2>3. CASE u = t
    BY <1>6, <1>t, <1>pc, <1>ty, <1>it, <1>sd, <1>ct, <1>en, <1>fin, <1>same, <2>1, <2>3
       DEF EndStream, Goto, ShownInvOf, CompleteText, Looping, texts, client
  <2> QED
    BY <2>2, <2>3
<1>7. ASSUME NEW t \in Turns, FailStream(t) PROVE ShownInvOf(u)'
  <2>1. log' = log /\ sid' = sid
    BY <1>7 DEF FailStream, GiveUp, TellError, store, session
  <2>2. CASE u # t
    BY <1>7, <1>rest, <2>1, <2>2, <1>pc, <1>ty, <1>it
       DEF FailStream, GiveUp, TellError, Goto, Rests, texts, client
  <2>3. CASE u = t
    BY <1>7, <1>t, <1>pc, <1>ty, <1>it, <1>sd, <1>ct, <1>en, <1>fin, <1>same, <2>1, <2>3
       DEF FailStream, GiveUp, TellError, Goto, ShownInvOf, CompleteText, Looping, texts, client
  <2> QED
    BY <2>2, <2>3
<1>8. ASSUME NEW t \in Turns, RetrySilence(t) PROVE ShownInvOf(u)'
  <2>1. log' = log /\ sid' = sid
    BY <1>8 DEF RetrySilence, Nudge, store, session
  <2>2. CASE u # t
    BY <1>8, <1>rest, <2>1, <2>2, <1>pc, <1>ty, <1>it
       DEF RetrySilence, Nudge, Goto, Rests, texts, client
  <2>3. CASE u = t
    BY <1>8, <1>t, <1>pc, <1>ty, <1>it, <1>sd, <1>ct, <1>en, <1>fin, <1>same, <2>1, <2>3
       DEF RetrySilence, Nudge, Goto, ShownInvOf, CompleteText, Looping, texts, client
  <2> QED
    BY <2>2, <2>3
<1>9. ASSUME NEW t \in Turns, SuppressSilence(t) PROVE ShownInvOf(u)'
  <2>1. log' = log /\ sid' = sid
    BY <1>9 DEF SuppressSilence, GiveUp, TellError, store, session
  <2>2. CASE u # t
    BY <1>9, <1>rest, <2>1, <2>2, <1>pc, <1>ty, <1>it
       DEF SuppressSilence, GiveUp, TellError, Goto, Rests, texts, client
  <2>3. CASE u = t
    BY <1>9, <1>t, <1>pc, <1>ty, <1>it, <1>sd, <1>ct, <1>en, <1>fin, <1>same, <2>1, <2>3
       DEF SuppressSilence, GiveUp, TellError, Goto, ShownInvOf, CompleteText, Looping, texts, client
  <2> QED
    BY <2>2, <2>3
<1>10. ASSUME NEW t \in Turns, RetryFabrication(t) PROVE ShownInvOf(u)'
  <2>1. log' = log /\ sid' = sid
    BY <1>10 DEF RetryFabrication, Nudge, store, session
  <2>2. CASE u # t
    BY <1>10, <1>rest, <2>1, <2>2, <1>pc, <1>ty, <1>it
       DEF RetryFabrication, Nudge, Goto, Rests, texts, client
  <2>3. CASE u = t
    BY <1>10, <1>t, <1>pc, <1>ty, <1>it, <1>sd, <1>ct, <1>en, <1>fin, <1>same, <2>1, <2>3
       DEF RetryFabrication, Nudge, Goto, ShownInvOf, CompleteText, Looping, texts, client
  <2> QED
    BY <2>2, <2>3
<1>11. ASSUME NEW t \in Turns, RetryExpert(t) PROVE ShownInvOf(u)'
  <2>1. log' = log /\ sid' = sid
    BY <1>11 DEF RetryExpert, Nudge, store, session
  <2>2. CASE u # t
    BY <1>11, <1>rest, <2>1, <2>2, <1>pc, <1>ty, <1>it
       DEF RetryExpert, Nudge, Goto, Rests, texts, client
  <2>3. CASE u = t
    BY <1>11, <1>t, <1>pc, <1>ty, <1>it, <1>sd, <1>ct, <1>en, <1>fin, <1>same, <2>1, <2>3
       DEF RetryExpert, Nudge, Goto, ShownInvOf, CompleteText, Looping, texts, client
  <2> QED
    BY <2>2, <2>3
<1>12. ASSUME NEW t \in Turns, AcceptAnswer(t) PROVE ShownInvOf(u)'
  <2>1. log' = log /\ sid' = sid
    BY <1>12 DEF AcceptAnswer, store, session
  <2>2. CASE u # t
    BY <1>12, <1>rest, <2>1, <2>2, <1>pc, <1>ty, <1>it
       DEF AcceptAnswer, Goto, Rests, texts, client
  <2>3. CASE u = t
    BY <1>12, <1>t, <1>pc, <1>ty, <1>it, <1>sd, <1>ct, <1>en, <1>fin, <1>same, <2>1, <2>3
       DEF AcceptAnswer, Goto, ShownInvOf, CompleteText, Looping, texts, client
  <2> QED
    BY <2>2, <2>3
<1>13. ASSUME NEW t \in Turns, HitLimit(t) PROVE ShownInvOf(u)'
  <2>1. log' = log /\ sid' = sid
    BY <1>13 DEF HitLimit, store, session
  <2>2. CASE u # t
    BY <1>13, <1>rest, <2>1, <2>2, <1>pc, <1>ty, <1>it
       DEF HitLimit, Goto, Rests, texts, client
  <2>3. CASE u = t
    BY <1>13, <1>t, <1>pc, <1>ty, <1>it, <1>sd, <1>ct, <1>en, <1>fin, <1>same, <2>1, <2>3
       DEF HitLimit, Goto, ShownInvOf, CompleteText, Looping, texts, client
  <2> QED
    BY <2>2, <2>3
<1>14. ASSUME NEW t \in Turns, EmitComplete(t) PROVE ShownInvOf(u)'
  <2>1. log' = log /\ sid' = sid
    BY <1>14 DEF EmitComplete, store, session
  <2>2. CASE u # t
    BY <1>14, <1>rest, <2>1, <2>2, <1>pc, <1>ty, <1>it
       DEF EmitComplete, Goto, Rests, texts, client
  <2>3. CASE u = t
    BY <1>14, <1>t, <1>pc, <1>ty, <1>it, <1>sd, <1>ct, <1>en, <1>fin, <1>same, <2>1, <2>3
       DEF EmitComplete, Goto, ShownInvOf, CompleteText, Looping, texts, client
  <2> QED
    BY <2>2, <2>3
<1>15. ASSUME NEW t \in Turns, Panic(t) PROVE ShownInvOf(u)'
  <2>1. log' = log /\ sid' = sid
    BY <1>15 DEF Panic, TellError, store, session
  <2>2. CASE u # t
    BY <1>15, <1>rest, <2>1, <2>2, <1>pc, <1>ty, <1>it
       DEF Panic, TellError, Goto, Rests, texts, client
  <2>3. CASE u = t
    BY <1>15, <1>t, <1>pc, <1>ty, <1>it, <1>sd, <1>ct, <1>en, <1>fin, <1>same, <2>1, <2>3
       DEF Panic, TellError, Goto, ShownInvOf, CompleteText, Looping, texts, client
  <2> QED
    BY <2>2, <2>3
<1>16. ASSUME NEW t \in Turns, Disconnect(t) PROVE ShownInvOf(u)'
  BY <1>16, <1>rest DEF Disconnect, Rests, store, session, texts, client
<1>17. ASSUME NEW t \in Turns, NEW tool \in Tools, ExecuteTool(t, tool) PROVE ShownInvOf(u)'
  BY <1>17, <1>rest DEF ExecuteTool, Rests, store, session, texts, client
<1>18. CASE Crash
  <2>1. log' = log /\ sid' = sid /\ iter' = iter /\ UNCHANGED <<texts, client>>
    BY <1>18 DEF Crash, store, session
  <2>2. pc'[u] = IF pc[u] \in Running THEN "aborted" ELSE pc[u]
    BY <1>18 DEF Crash
  <2> QED
    BY <1>t, <1>same, <2>1, <2>2, <1>pc DEF ShownInvOf, CompleteText, Running, Looping, texts,
       client
<1>19. ASSUME NEW t \in Turns, Admit(t) \/ CreateSession(t) PROVE ShownInvOf(u)'
  <2>1. log' = log /\ iter' = iter /\ UNCHANGED <<texts, client>>
    BY <1>19 DEF Admit, CreateSession, store
  <2>2. CASE u # t
    <3>1. sid \in [Turns -> Sessions \cup {NoSession}]
      BY <1>t DEF TypeInv, TypeOK
    <3> QED
      BY <1>19, <1>rest, <2>1, <2>2, <3>1, <1>pc
         DEF Admit, CreateSession, Goto, Rests, session, texts, client
  <2>3. CASE u = t
    BY <1>19, <1>t, <1>pc, <1>en, <2>1, <2>3
       DEF Admit, CreateSession, Goto, ShownInvOf, Looping, texts, client
  <2> QED
    BY <2>2, <2>3
<1>20. ASSUME NEW t \in Turns, StoreUserMessage(t) PROVE ShownInvOf(u)'
  <2> DEFINE m == [kind |-> "user", turn |-> t, tools |-> {}, text |-> {}]
  <2>1. m \in Message /\ m.turn = t
    BY SMT DEF Message, Kinds
  <2>2. sid' = sid /\ sid[t] \in Sessions
    BY <1>20, <1>t DEF StoreUserMessage, session, TypeInv, ControlInv, Looping
  <2>3. \/ log' = log /\ pc'[t] = "refused"
        \/ Adds(t, m) /\ pc'[t] = "load"
    BY <1>20, <1>pc, <2>1, <2>2 DEF StoreUserMessage, Adds, TryStore, AddMessage, Goto, Early, store
  <2>4. CASE u # t
    <3>1. Rests(u)
      BY <1>20, <2>4, <1>pc, <1>it DEF StoreUserMessage, Goto, Rests, session, texts, client
    <3> QED
      BY <2>1, <2>3, <2>4, <3>1, <1>rest, <1>adds
  <2>5. CASE u = t /\ log' = log /\ pc'[t] = "refused"
    BY <1>20, <1>t, <1>en, <2>5
       DEF StoreUserMessage, ShownInvOf, Looping, client
  <2>6. CASE u = t /\ Adds(t, m) /\ pc'[t] = "load"
    <3>1. Rows(u, "call") = {}
      BY <1>20, <1>t, <2>2, <2>6 DEF StoreUserMessage, RowInv, Rows, Early
    <3>2. Rows(u, "call")' = {}
      BY <1>t, <2>1, <2>2, <2>6, <3>1, AddsRows
    <3>3. Count(u)' = 0
      BY <3>2, FS_EmptySet DEF Count
    <3> QED
      BY <1>20, <1>t, <1>pc, <1>en, <1>it, <2>6, <3>3
         DEF StoreUserMessage, ShownInvOf, Looping, client
  <2> QED
    BY <2>3, <2>4, <2>5, <2>6
<1>21. ASSUME NEW t \in Turns, ContinueWithTools(t) PROVE ShownInvOf(u)'
  <2> DEFINE m == [kind |-> "call", turn |-> t, tools |-> calls[t], text |-> IF Gemini THEN {} ELSE full[t]]
  <2>1. m \in Message /\ m.turn = t
    BY <1>t DEF TypeInv, TypeOK, Message, Kinds
  <2>2. sid' = sid /\ sid[t] \in Sessions
    BY <1>21, <1>t DEF ContinueWithTools, session, TypeInv, ControlInv, Looping
  <2>3. log' = log \/ Adds(t, m)
    BY <1>21, <1>pc, <2>1, <2>2 DEF ContinueWithTools, Adds, TryStore, AddMessage, Goto, Early,
       store
  <2>4. CASE u # t
    <3>1. Rests(u)
      BY <1>21, <2>4, <1>pc, <1>it DEF ContinueWithTools, Goto, Rests, session, texts, client
    <3> QED
      BY <2>1, <2>3, <2>4, <3>1, <1>rest, <1>adds
  <2>5. CASE u = t /\ log' = log
    BY <1>21, <1>t, <1>pc, <1>it, <1>en, <1>ct, <1>same, <2>2, <2>5
       DEF ContinueWithTools, Goto, ShownInvOf, Looping, texts, client
  <2>6. CASE u = t /\ Adds(t, m)
    <3>1. /\ Rows(u, "call")' = Rows(u, "call") \cup {Len(log[sid[t]]) + 1}
          /\ Len(log[sid[t]]) + 1 \notin Rows(u, "call")
          /\ Texts(u, "call")' = Texts(u, "call") \cup m.text
      BY <1>t, <2>1, <2>2, <2>6, AddsRows
    <3>2. Count(u)' = Count(u) + 1
      BY <1>t, <2>2, <2>6, <3>1, CountTyped, FS_AddElement DEF Count
    <3>3. pc[u] = "continue" /\ pc'[u] = "storeResult" /\ UNCHANGED <<iter, texts, client>>
      BY <1>21, <1>pc, <2>6 DEF ContinueWithTools, Goto
    <3>4. ~Gemini => full[u] \subseteq Texts(u, "call")'
      BY <2>6, <3>1
    <3> QED
      BY <1>t, <1>pc, <1>it, <1>en, <1>ct, <3>1, <3>2, <3>3, <3>4
         DEF ShownInvOf, Looping, texts, client
  <2> QED
    BY <2>3, <2>4, <2>5, <2>6
<1>22. ASSUME NEW t \in Turns, StoreToolResult(t) PROVE ShownInvOf(u)'
  <2> DEFINE m == [kind |-> "result", turn |-> t, tools |-> calls[t], text |-> {}]
  <2>1. m \in Message /\ m.turn = t
    BY <1>t DEF TypeInv, TypeOK, Message, Kinds
  <2>2. sid' = sid /\ sid[t] \in Sessions
    BY <1>22, <1>t DEF StoreToolResult, session, TypeInv, ControlInv, Looping
  <2>3. log' = log \/ Adds(t, m)
    BY <1>22, <1>pc, <2>1, <2>2 DEF StoreToolResult, Adds, TryStore, AddMessage, Goto, Early, store
  <2>4. CASE u # t
    <3>1. Rests(u)
      BY <1>22, <2>4, <1>pc, <1>it DEF StoreToolResult, Goto, Rests, session, texts, client
    <3> QED
      BY <2>1, <2>3, <2>4, <3>1, <1>rest, <1>adds
  <2>5. CASE u = t /\ log' = log
    BY <1>22, <1>t, <1>pc, <1>it, <1>en, <1>ct, <1>same, <2>2, <2>5
       DEF StoreToolResult, Goto, ShownInvOf, Looping, texts, client
  <2>6. CASE u = t /\ Adds(t, m)
    <3>1. Rows(u, "call")' = Rows(u, "call") /\ Texts(u, "call")' = Texts(u, "call")
      BY <1>t, <2>1, <2>2, <2>6, AddsRows
    <3>2. Count(u)' = Count(u)
      BY <3>1 DEF Count
    <3>3. /\ pc[u] = "storeResult" /\ pc'[u] = "top" /\ iter'[u] = iter[u] + 1
          /\ UNCHANGED <<texts, client>>
      BY <1>22, <1>pc, <1>it, <2>6 DEF StoreToolResult, Goto
    <3> QED
      BY <1>t, <1>pc, <1>it, <1>en, <1>ct, <3>1, <3>2, <3>3 DEF ShownInvOf, Looping, texts, client
  <2> QED
    BY <2>3, <2>4, <2>5, <2>6
<1>23. ASSUME NEW t \in Turns, StoreAnswer(t) PROVE ShownInvOf(u)'
  <2> DEFINE m == [kind |-> "final", turn |-> t, tools |-> {}, text |-> answer[t]]
  <2>1. m \in Message /\ m.turn = t
    BY <1>t DEF TypeInv, TypeOK, Message, Kinds
  <2>2. sid' = sid /\ sid[t] \in Sessions
    BY <1>23, <1>t DEF StoreAnswer, session, TypeInv, ControlInv, Looping
  <2>3. log' = log \/ Adds(t, m)
    BY <1>23, <1>pc, <2>1, <2>2 DEF StoreAnswer, Adds, TryStore, AddMessage, Goto, Early, store
  <2>4. CASE u # t
    <3>1. Rests(u)
      BY <1>23, <2>4, <1>pc, <1>it DEF StoreAnswer, Goto, Rests, session, texts, client
    <3> QED
      BY <2>1, <2>3, <2>4, <3>1, <1>rest, <1>adds
  <2>5. CASE u = t /\ log' = log
    BY <1>23, <1>t, <1>pc, <1>it, <1>en, <1>ct, <1>fin, <1>same, <2>2, <2>5
       DEF StoreAnswer, Goto, ShownInvOf, CompleteText, Looping, texts, client
  <2>6. CASE u = t /\ Adds(t, m)
    <3>1. Rows(u, "call")' = Rows(u, "call") /\ Texts(u, "call")' = Texts(u, "call")
      BY <1>t, <2>1, <2>2, <2>6, AddsRows
    <3>2. Texts(u, "final")' = Texts(u, "final") \cup m.text
      BY <1>t, <2>1, <2>2, <2>6, AddsRows
    <3>3. Count(u)' = Count(u)
      BY <3>1 DEF Count
    <3>4. /\ pc[u] = "storeAnswer" /\ pc'[u] = "emit" /\ UNCHANGED <<iter, texts, client>>
      BY <1>23, <1>pc, <2>6 DEF StoreAnswer, Goto
    <3>5. answer[u] \subseteq Texts(u, "final")'
      BY <2>6, <3>2
    <3> QED
      BY <1>t, <1>pc, <1>it, <1>en, <1>ct, <3>1, <3>3, <3>4, <3>5
         DEF ShownInvOf, CompleteText, Looping, texts, client
  <2> QED
    BY <2>3, <2>4, <2>5, <2>6
<1>drop. ASSUME NEW s \in Sessions, log' = [log EXCEPT ![s] = <<>>], sid' = sid, sid[u] \in Sessions
         PROVE  Same(u) \/ Cleared(u)
  <2>1. log \in [Sessions -> Seq(Message)]
    BY <1>t DEF TypeInv, TypeOK
  <2>2. CASE sid[u] = s
    BY <1>drop, <2>1, <2>2, EmptyLogClears
  <2>3. CASE sid[u] # s
    BY <1>drop, <2>1, <2>3, LogKeepsRows
  <2> QED
    BY <2>2, <2>3
<1>none. ASSUME Rests(u), sid[u] \notin Sessions
         PROVE  ShownInvOf(u)'
  BY <1>t, <1>sd, <1>none DEF ShownInvOf, Rests, Looping
<1>24. ASSUME NEW t \in Turns, CleanUp(t) PROVE ShownInvOf(u)'
  <2>1. /\ sid' = sid /\ sid[t] \in Sessions
        /\ log' = log \/ log' = [log EXCEPT ![sid[t]] = <<>>]
        /\ pc[t] = "cleanup" /\ pc'[t] = "closed" /\ UNCHANGED <<iter, texts, client>>
    BY <1>24, <1>t, <1>pc DEF CleanUp, DropSession, Goto, store, session, TypeInv, ControlInv
  <2>2. sid[u] \in Sessions => Same(u) \/ Cleared(u)
    BY <2>1, <1>drop, LogKeepsRows
  <2>3. CASE u # t
    <3>1. Rests(u)
      BY <1>24, <2>1, <2>3, <1>pc DEF CleanUp, Goto, Rests, texts, client
    <3> QED
      BY <2>2, <3>1, <1>t, <1>none, RestingKeeps
  <2>4. CASE u = t /\ Same(u)
    BY <1>t, <2>1, <2>4 DEF ShownInvOf, Same, Count, Looping, texts, client
  <2>5. CASE u = t /\ Cleared(u)
    BY <1>t, <2>1, <2>5 DEF ShownInvOf, Cleared, Looping, texts, client
  <2> QED
    BY <2>1, <2>2, <2>3, <2>4, <2>5
<1>25. ASSUME NEW s \in Sessions, DeleteElsewhere(s) PROVE ShownInvOf(u)'
  <2>1. log' = [log EXCEPT ![s] = <<>>] /\ sid' = sid /\ Rests(u)
    BY <1>25 DEF DeleteElsewhere, DropSession, Rests, session, texts, client
  <2> QED
    BY <1>t, <2>1, <1>drop, <1>none, RestingKeeps
<1>26. CASE UNCHANGED vars
  BY <1>26, <1>rest DEF vars, Rests, store, session, texts, client
<1>27. ASSUME NEW t \in Turns, ReportError(t) PROVE ShownInvOf(u)'
  <2>1. log' = log /\ sid' = sid
    BY <1>27 DEF ReportError, GiveUp, TellError, store, session
  <2>2. CASE u # t
    BY <1>27, <1>rest, <2>1, <2>2, <1>pc, <1>ty, <1>it
       DEF ReportError, GiveUp, TellError, Goto, Rests, texts, client
  <2>3. CASE u = t
    BY <1>27, <1>t, <1>pc, <1>ty, <1>it, <1>sd, <1>ct, <1>en, <1>fin, <1>same, <2>1, <2>3
       DEF ReportError, GiveUp, TellError, Goto, ShownInvOf, CompleteText, Looping, texts, client
  <2> QED
    BY <2>2, <2>3
<1>28. ASSUME NEW t \in Turns, ProviderError(t) PROVE ShownInvOf(u)'
  <2>1. log' = log /\ sid' = sid
    BY <1>28 DEF ProviderError, store, session
  <2>2. CASE u # t
    BY <1>28, <1>rest, <2>1, <2>2, <1>pc, <1>ty, <1>it
       DEF ProviderError, Goto, Rests, texts, client
  <2>3. CASE u = t
    BY <1>28, <1>t, <1>pc, <1>ty, <1>it, <1>sd, <1>ct, <1>en, <1>fin, <1>same, <2>1, <2>3
       DEF ProviderError, Goto, ShownInvOf, CompleteText, Looping, texts, client
  <2> QED
    BY <2>2, <2>3
<1> QED
  BY <1>1, <1>2, <1>3, <1>4, <1>5, <1>6, <1>7, <1>8, <1>9, <1>10, <1>11, <1>12, <1>13, <1>14,
     <1>15, <1>16, <1>17, <1>18, <1>19, <1>20, <1>21, <1>22, <1>23, <1>24, <1>25, <1>26,
     <1>27, <1>28 DEF Next, TurnStep

\* What a client was shown is stored, for all constants: the note at the limit
\* and the text of every iteration, whatever else happens to the session.
THEOREM ShownIsStoredHolds == Spec => []ShownIsStored
<1>1. Init => ShownInv
  BY InitOrderInv, InitStreamInv
     DEF Init, ShownInv, ShownInvOf, Looping
<1>2. ShownInv => ShownIsStored
  <2> SUFFICES ASSUME ShownInv, NEW t \in Turns, ~Gemini, announced[t],
                      Rows(t, "final") # {}, Cardinality(Rows(t, "call")) = iter[t] - 1,
                      NEW f \in shown[t]
               PROVE  \E i \in Rows(t, "call") \cup Rows(t, "final") : f \in log[sid[t]][i].text
    BY DEF ShownIsStored
  <2>1. f \in Texts(t, "call") \cup Texts(t, "final")
    BY DEF ShownInv, ShownInvOf, Count
  <2> QED
    BY <2>1 DEF Texts
<1> QED
  BY <1>1, <1>2, StepShownInv, PTL DEF Spec
=============================================================================
