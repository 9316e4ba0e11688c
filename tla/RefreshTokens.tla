---------------------------- MODULE RefreshTokens ----------------------------
(* Refresh token rotation: the transaction of AuthHandler.RefreshToken and   *)
(* OAuthHandler.HandleRefresh, the logout, the hourly clean-up, and the      *)
(* browser that keeps the token: tabs that share one storage, each with a    *)
(* single refresh in flight (lib/transport.tsx, lib/auth.tsx).  With cookies *)
(* the browser is told what to keep by the answer's Set-Cookie.              *)
(* A token is the number of its issue; the family of a token is the token    *)
(* its login issued; tokens run out in the order of their issue.  A request  *)
(* goes on at the server when its tab has given up on the answer.            *)
EXTENDS Integers, FiniteSets

CONSTANTS Tabs, Requests, MaxTokens

ASSUME TokensAssumption == MaxTokens \in Nat /\ Tabs \in Nat

NoToken == 0
Legacy  == -1                         \* a token from before rotation: no JTI
Tokens  == 1 .. MaxTokens

VARIABLES
  cookies,    \* the browser uses HandleRefresh and HandleLogout, not the RPC
  stored,     \* tokenStorage's or the cookie jar's refresh token
  pc, tok, seen,  \* requests: step, the token sent or answered, the UPDATE's snapshot
  awaited,        \* the requests whose tab still waits: a refresh here is some
                  \* tab's refreshInFlightRef
  row, family, issued, expired,   \* refresh_tokens, and the last token past its 30 days
  session,    \* "in" from a login to the user's logout, then "leaving" or "out"
  faulted, overlapped     \* history, since the login: an answer was lost or was
                          \* an error, or a token ran out; two requests overlapped

browser == <<cookies, stored>>
server  == <<row, family, issued, expired>>
request == <<pc, awaited, tok, seen>>
history == <<session, faulted, overlapped>>
vars    == <<browser, server, request, history>>

Idle(q)   == pc[q] = "idle"
Busy      == {q \in Requests : ~Idle(q)}
Locks(q)  == IF pc[q] \in {"rotating", "revoking"} THEN {tok[q]} ELSE {}
Free(q,t) == \A r \in Requests \ {q} : t \notin Locks(r)
Family(f) == {t \in Tokens : row[t] # "none" /\ family[t] = f}

TypeOK ==
  /\ cookies \in BOOLEAN /\ stored \in -1 .. MaxTokens
  /\ pc \in [Requests -> {"idle", "sent", "valid", "rotating", "revoking", "leaving",
                          "ok", "denied", "error", "left"}]
  /\ awaited \subseteq Requests
  /\ tok \in [Requests -> -1 .. MaxTokens]
  /\ seen \in [Requests -> SUBSET Tokens]
  /\ row \in [Tokens -> {"none", "live", "revoked"}]
  /\ family \in [Tokens -> 0 .. MaxTokens]
  /\ issued \in 0 .. MaxTokens /\ expired \in 0 .. MaxTokens
  /\ session \in {"in", "leaving", "out"} /\ faulted \in BOOLEAN /\ overlapped \in BOOLEAN

Init ==
  /\ cookies \in BOOLEAN /\ stored \in {NoToken, Legacy}
  /\ pc = [q \in Requests |-> "idle"] /\ awaited = {}
  /\ tok = [q \in Requests |-> NoToken] /\ seen = [q \in Requests |-> {}]
  /\ row = [t \in Tokens |-> "none"] /\ family = [t \in Tokens |-> 0]
  /\ issued = 0 /\ expired = 0
  /\ session = (IF stored = Legacy THEN "in" ELSE "out")
  /\ faulted = FALSE /\ overlapped = FALSE

(* Bound: whoever may still be issued a token finds one.                     *)
Exchangeable(t) == t = Legacy \/ (t \in Tokens /\ row[t] = "live")
Claims == {q \in Requests : pc[q] \in {"sent", "valid", "rotating"} /\ Exchangeable(tok[q])}
Room   == issued + Cardinality(Claims) < MaxTokens

(* CreateRefreshToken: the next token, in family f or, with f = 0, its own.  *)
Issue(f) ==
  /\ issued < MaxTokens
  /\ issued' = issued + 1
  /\ family' = [family EXCEPT ![issued + 1] = IF f = 0 THEN issued + 1 ELSE f]

(*****************************  the browser  *****************************)
Login ==
  /\ stored = NoToken /\ Room
  /\ Issue(0)
  /\ row' = [row EXCEPT ![issued + 1] = "live"]
  /\ stored' = issued + 1
  /\ session' = "in" /\ faulted' = (Busy # {}) /\ overlapped' = (Busy # {})
  /\ UNCHANGED <<cookies, request, expired>>

Begin(q, step) ==
  /\ Idle(q) /\ stored # NoToken
  /\ pc' = [pc EXCEPT ![q] = step]
  /\ awaited' = awaited \cup {q}
  /\ tok' = [tok EXCEPT ![q] = stored]
  /\ overlapped' = (overlapped \/ Busy # {})
  /\ UNCHANGED <<seen, server, cookies, stored, faulted>>

(* A call of a tab answered 401: the tab refreshes unless it does already.   *)
InFlight == {q \in awaited : pc[q] \notin {"leaving", "left"}}

Refresh(q) ==
  /\ Cardinality(InFlight) < Tabs
  /\ Exchangeable(stored) => Room
  /\ Begin(q, "sent")
  /\ UNCHANGED session

(* logout of lib/auth.tsx only empties the storage.                          *)
LocalLogout ==
  /\ ~cookies /\ session = "in"
  /\ stored' = NoToken /\ session' = "out"
  /\ overlapped' = (overlapped \/ Busy # {})
  /\ UNCHANGED <<cookies, server, request, faulted>>

CookieLogout(q) ==
  /\ cookies
  /\ Begin(q, "leaving")
  /\ session' = "leaving"

MutKept(q) ==
  CASE pc[q] \in {"denied", "left"} -> NoToken
    [] pc[q] \in {"ok", "error"} -> IF cookies THEN stored ELSE NoToken

(* The answer arrives.  refreshTokens drops what is stored on any error, a   *)
(* cookie is cleared by a 401 only.                                          *)
Kept(q) ==
  CASE pc[q] = "ok" -> tok[q]
    [] pc[q] \in {"denied", "left"} -> NoToken
    [] OTHER -> IF cookies THEN stored ELSE NoToken

Answered(q) == pc[q] \in {"ok", "denied", "error", "left"}
Leave(q) ==
  /\ awaited' = awaited \ {q}
  /\ pc' = IF Answered(q) THEN [pc EXCEPT ![q] = "idle"] ELSE pc
  /\ tok' = IF Answered(q) THEN [tok EXCEPT ![q] = NoToken] ELSE tok

Receive(q) ==
  /\ q \in awaited /\ Answered(q)
  /\ Leave(q)
  /\ stored' = Kept(q)
  /\ session' = IF pc[q] = "left" THEN "out" ELSE session
  /\ UNCHANGED <<cookies, seen, server, faulted, overlapped>>

(* The request or its answer is lost; the tab sees a network error.          *)
Lose(q) ==
  /\ q \in awaited
  /\ Leave(q)
  /\ stored' = IF cookies THEN stored ELSE NoToken
  /\ faulted' = TRUE
  /\ UNCHANGED <<cookies, seen, server, session, overlapped>>

(******************************  the server  ******************************)
(* The end of a request, with token t in its answer if anyone still waits.   *)
Answer(q, step, t) ==
  /\ pc' = [pc EXCEPT ![q] = IF q \in awaited THEN step ELSE "idle"]
  /\ tok' = [tok EXCEPT ![q] = IF q \in awaited THEN t ELSE NoToken]
  /\ seen' = [seen EXCEPT ![q] = {}]
  /\ UNCHANGED <<awaited, browser, expired, session, overlapped>>

(* ValidateRefreshToken: the signature and the token's own expiry.           *)
Validate(q) ==
  /\ pc[q] = "sent" /\ tok[q] \notin 1 .. expired
  /\ pc' = [pc EXCEPT ![q] = "valid"]
  /\ UNCHANGED <<awaited, tok, seen, browser, server, history>>

MutDeny(q) ==
  /\ pc[q] = "sent" /\ tok[q] \in 1 .. expired
  /\ Answer(q, "denied", NoToken) /\ UNCHANGED <<row, family, issued, faulted>>

(* A token that ran out, or that has no row.                                 *)
Deny(q) ==
  /\ \/ pc[q] = "sent" /\ tok[q] \in 1 .. expired
     \/ pc[q] = "valid" /\ tok[q] \in Tokens /\ row[tok[q]] = "none"
  /\ Answer(q, "denied", NoToken) /\ UNCHANGED <<row, family, issued, faulted>>

MutTakeUnlocked(q) ==
  /\ pc[q] = "valid" /\ tok[q] \in Tokens /\ row[tok[q]] # "none"
  /\ LET t == tok[q] IN
     \/ /\ row[t] = "live"
        /\ pc' = [pc EXCEPT ![q] = "rotating"] /\ UNCHANGED seen
     \/ /\ row[t] = "revoked" /\ Free(q, t)
        /\ pc' = [pc EXCEPT ![q] = "revoking"]
        /\ seen' = [seen EXCEPT ![q] = Family(family[t])]
  /\ UNCHANGED <<awaited, tok, browser, server, history>>

(* SELECT ... FOR UPDATE waits for the row and reads what was committed.  A  *)
(* revoked token starts the UPDATE of its family: its snapshot is taken here. *)
Take(q) ==
  /\ pc[q] = "valid" /\ tok[q] \in Tokens /\ Free(q, tok[q])
  /\ LET t == tok[q] IN
     \/ /\ row[t] = "live"
        /\ pc' = [pc EXCEPT ![q] = "rotating"] /\ UNCHANGED seen
     \/ /\ row[t] = "revoked"
        /\ pc' = [pc EXCEPT ![q] = "revoking"]
        /\ seen' = [seen EXCEPT ![q] = Family(family[t])]
  /\ UNCHANGED <<awaited, tok, browser, server, history>>

(* RevokeRefreshToken, CreateRefreshToken, commit.                           *)
Rotate(q) ==
  /\ pc[q] = "rotating"
  /\ Issue(family[tok[q]])
  /\ row' = [row EXCEPT ![tok[q]] = "revoked", ![issued + 1] = "live"]
  /\ Answer(q, "ok", issued + 1) /\ UNCHANGED faulted

(* A token without a JTI gets a new token, of a new family, each time.       *)
RotateLegacy(q) ==
  /\ pc[q] = "valid" /\ tok[q] = Legacy
  /\ Issue(0)
  /\ row' = [row EXCEPT ![issued + 1] = "live"]
  /\ Answer(q, "ok", issued + 1) /\ UNCHANGED faulted

(* RevokeRefreshTokenFamily waits for every row it saw that another          *)
(* transaction holds, and revokes the rows it saw.                           *)
RevokeFamily(q) ==
  /\ pc[q] = "revoking" /\ \A t \in seen[q] : Free(q, t)
  /\ row' = [t \in Tokens |-> IF t \in seen[q] /\ row[t] # "none" THEN "revoked" ELSE row[t]]
  /\ Answer(q, "denied", NoToken) /\ UNCHANGED <<family, issued, faulted>>

(* Two revocations that hold each other's row: the database aborts one, and  *)
(* the handler only logs that.                                               *)
Aborted(q) ==
  /\ pc[q] = "revoking"
  /\ \E r \in Requests \ {q} : pc[r] = "revoking" /\ tok[r] \in seen[q] /\ tok[q] \in seen[r]
  /\ Answer(q, "denied", NoToken) /\ UNCHANGED <<row, family, issued, faulted>>

(* The limiter blocks the address, or a statement fails and the transaction  *)
(* rolls back; a failed SELECT ... FOR UPDATE answers as if there were no    *)
(* row, and a failed revocation of a family like a completed one.            *)
Fail(q) ==
  /\ \/ pc[q] \in {"sent", "valid", "rotating"} /\ Answer(q, "error", NoToken)
     \/ pc[q] = "valid" /\ tok[q] \in Tokens /\ Answer(q, "denied", NoToken)
     \/ pc[q] = "revoking" /\ Answer(q, "denied", NoToken)
     \/ pc[q] = "leaving" /\ Answer(q, "left", NoToken)
  /\ faulted' = TRUE
  /\ UNCHANGED <<row, family, issued>>

MutRevoke(q) ==
  /\ pc[q] = "leaving"
  /\ Answer(q, "left", NoToken) /\ UNCHANGED <<row, family, issued, faulted>>

(* HandleLogout revokes the one token of the cookie.                         *)
Revoke(q) ==
  /\ pc[q] = "leaving"
  /\ tok[q] \in Tokens => Free(q, tok[q])
  /\ row' = [t \in Tokens |-> IF t = tok[q] /\ t > expired /\ row[t] = "live"
                              THEN "revoked" ELSE row[t]]
  /\ Answer(q, "left", NoToken) /\ UNCHANGED <<family, issued, faulted>>

Expire ==
  /\ expired < issued
  /\ expired' = expired + 1
  /\ faulted' = (faulted \/ stored = expired' \/ \E q \in Busy : tok[q] = expired')
  /\ UNCHANGED <<row, family, issued, browser, request, session, overlapped>>

(* DeleteExpiredRefreshTokens, hourly.                                       *)
Purge ==
  /\ \E t \in 1 .. expired : row[t] # "none"
  /\ \A t \in 1 .. expired, q \in Requests : t \notin Locks(q)
  /\ row' = [t \in Tokens |-> IF t <= expired THEN "none" ELSE row[t]]
  /\ UNCHANGED <<family, issued, expired, browser, request, history>>

Serve(q) ==
  Validate(q) \/ Deny(q) \/ Take(q) \/ Rotate(q) \/ RotateLegacy(q) \/ RevokeFamily(q)
    \/ Aborted(q) \/ Revoke(q)

Next ==
  \/ Login \/ LocalLogout \/ Expire \/ Purge
  \/ \E q \in Requests : Refresh(q) \/ CookieLogout(q) \/ Receive(q) \/ Lose(q)
  \/ \E q \in Requests : Serve(q) \/ Fail(q)

Spec == Init /\ [][Next]_vars

(* The server goes on with a request it has, and the database serves those   *)
(* who wait for a row in turn (hence SF); an answer arrives or is lost.  The *)
(* user, the clock and the faults owe nothing.                               *)
FairSpec ==
  /\ Spec
  /\ \A q \in Requests : SF_vars(Serve(q)) /\ WF_vars(Receive(q))

(* A family never has two tokens that the server would both exchange:        *)
(* rotation revokes the one and inserts the other in one transaction behind  *)
(* the row lock (handlers/auth.go:159-239).  *)
OneLivePerFamily ==
  \A t, u \in Tokens : row[t] = "live" /\ row[u] = "live" /\ family[t] = family[u] => t = u

(* Whatever requests meet at a family, it is one session that ends once:     *)
(* and one without a live token stays so, neither a refresh that waits for a *)
(* row of it nor one that is under way brings it back                        *)
(* (handlers/auth.go:159-239).                                               *)
Dead(f) == Family(f) # {} /\ \A t \in Family(f) : row[t] = "revoked"
FamiliesAreSessions ==
  [][/\ OneLivePerFamily'
     /\ \A f \in Tokens : Dead(f) => \A t \in Tokens : family'[t] = f => row'[t] # "live"]_vars

(* What the browser keeps is a token the server would exchange, or that was  *)
(* just exchanged by the refresh whose answer is on its way.                 *)
Usable ==
  \/ stored \in 1 .. expired \cup {Legacy}
  \/ stored \in Tokens /\ row[stored] = "live"
  \/ \E q \in Requests : /\ q \in awaited /\ pc[q] = "ok"
                         /\ row[tok[q]] = "live"

(* A user who did not log out keeps a usable token as long as every answer   *)
(* arrives and is none of the errors of a failing server, and no two         *)
(* requests of the browser overlap.                                          *)
SessionKept == session = "in" /\ ~faulted /\ ~overlapped => Usable

(* A logout under the same conditions is final: the browser keeps no token,  *)
(* and with cookies the server would not exchange the last one either.       *)
LogoutIsFinal ==
  session = "out" /\ ~faulted /\ ~overlapped =>
    /\ stored = NoToken
    /\ cookies /\ issued > 0 => row[issued] # "live"

(* Every refresh a tab waits for ends, so that the calls queued behind its   *)
(* single flight go on.                                                      *)
EveryRefreshEnds == \A q \in Requests : q \in awaited ~> q \notin awaited

(* lib/auth.tsx:17-18: "localStorage persists across browser sessions so     *)
(* users stay logged in between visits"; lib/transport.tsx:40-42: one        *)
(* refresh for all concurrent 401s.                                          *)
StaysLoggedIn == session = "in" /\ ~faulted => Usable
=============================================================================
