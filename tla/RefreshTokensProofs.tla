-------------------------- MODULE RefreshTokensProofs --------------------------
(* Refresh-token rotation for any number of tabs, requests and tokens: that  *)
(* a family is one session that ends once, whatever requests meet at it, and *)
(* that a user whose answers arrive stays signed in until a logout, which is *)
(* then final.                                                               *)
EXTENDS RefreshTokens, TLAPS

-----------------------------------------------------------------------------
(* What the rows, the locks and the requests have to do with each other.     *)

(* A row is that of an issued token, whose family is no younger.             *)
RowsIssued ==
  /\ expired <= issued
  /\ \A t \in Tokens : row[t] # "none" => t <= issued
  /\ \A t \in Tokens : t <= issued => family[t] \in 1 .. t

(* A token that is kept, sent or answered was issued, or is a legacy one.    *)
Known(t) == t \in {NoToken, Legacy} \cup 1 .. issued
TokensKnown == Known(stored) /\ \A q \in Requests : Known(tok[q])

(* Who holds the lock of a row is alone, and a row held to be rotated stays  *)
(* live under the lock.                                                      *)
LocksHold ==
  /\ \A q \in Requests : pc[q] \in {"rotating", "revoking"} => tok[q] \in Tokens
  /\ \A q \in Requests : pc[q] = "rotating" => row[tok[q]] = "live"
  /\ \A q, r \in Requests : q # r => Locks(q) \cap Locks(r) = {}

RotationInv == TypeOK /\ RowsIssued /\ TokensKnown /\ LocksHold /\ OneLivePerFamily

-----------------------------------------------------------------------------
(* As long as nothing is lost and no two requests overlap, what the browser  *)
(* keeps and what its one request holds follow from each other.              *)
Quiet == ~faulted /\ ~overlapped

(* What a browser that is signed in keeps, between its requests: the token   *)
(* issued last, or the legacy token before any was issued.                   *)
KeepsLast == \/ stored = Legacy /\ issued = 0
             \/ stored \in Tokens /\ stored = issued /\ row[issued] = "live"

(* The last refresh token is out of use, if there ever was one.              *)
LastOut == issued > 0 => row[issued] # "live"

OneRequest ==
  /\ \A q, r \in Requests : ~Idle(q) /\ ~Idle(r) => q = r
  /\ \A q \in Requests : ~Idle(q) => q \in awaited
NothingExpired ==
  /\ stored \notin 1 .. expired
  /\ \A q \in Requests : ~Idle(q) => tok[q] \notin 1 .. expired
SignedIn ==
  \/ /\ KeepsLast
     /\ \A q \in Requests : ~Idle(q) => pc[q] \in {"sent", "valid", "rotating"} /\ tok[q] = stored
  \/ \E q \in Requests : pc[q] = "ok" /\ tok[q] = issued /\ issued \in Tokens /\ row[issued] = "live"
SigningOut ==
  /\ cookies
  /\ \E q \in Requests : \/ pc[q] = "leaving" /\ tok[q] = stored /\ KeepsLast
                         \/ pc[q] = "left" /\ LastOut
SignedOut ==
  /\ stored = NoToken
  /\ \A q \in Requests : Idle(q)
  /\ cookies => LastOut

Undisturbed ==
  /\ OneRequest /\ NothingExpired
  /\ session = "in" => SignedIn
  /\ session = "leaving" => SigningOut
  /\ session = "out" => SignedOut

QuietInv == Quiet => Undisturbed

-----------------------------------------------------------------------------
(* Types.                                                                    *)
Step == {"idle", "sent", "valid", "rotating", "revoking", "leaving", "ok", "denied", "error", "left"}

(* The end of a request leaves its variables what they are.                  *)
LEMMA AnswerTyped ==
  ASSUME TypeOK, NEW q \in Requests, NEW step \in Step, NEW t \in -1 .. MaxTokens, Answer(q, step, t)
  PROVE  /\ pc' \in [Requests -> Step] /\ awaited' \subseteq Requests
         /\ tok' \in [Requests -> -1 .. MaxTokens] /\ seen' \in [Requests -> SUBSET Tokens]
         /\ UNCHANGED <<cookies, stored, expired, session, overlapped>>
  BY TokensAssumption DEF TypeOK, Answer, Step, NoToken, browser

(* Every step keeps the types: a request past its lock holds an issued token. *)
LEMMA TokensTyped == TypeOK /\ LocksHold /\ [Next]_vars => TypeOK'
<1> SUFFICES ASSUME TypeOK, LocksHold, [Next]_vars PROVE TypeOK'
  OBVIOUS
<1> USE TokensAssumption DEF TypeOK, Tokens, NoToken, Legacy, server, request, browser, history
<1>1. CASE Login
  BY <1>1 DEF Login, Issue
<1>2. CASE LocalLogout
  BY <1>2 DEF LocalLogout
<1>3. CASE Expire
  BY <1>3 DEF Expire
<1>4. CASE Purge
  BY <1>4 DEF Purge, Locks
<1>5. ASSUME NEW q \in Requests, Refresh(q) PROVE TypeOK'
  BY <1>5 DEF Refresh, Begin
<1>6. ASSUME NEW q \in Requests, CookieLogout(q) PROVE TypeOK'
  BY <1>6 DEF CookieLogout, Begin
<1>7. ASSUME NEW q \in Requests, Receive(q) PROVE TypeOK'
  BY <1>7 DEF Receive, Leave, Answered, Kept
<1>8. ASSUME NEW q \in Requests, Lose(q) PROVE TypeOK'
  BY <1>8 DEF Lose, Leave, Answered
<1>9. ASSUME NEW q \in Requests, Validate(q) PROVE TypeOK'
  BY <1>9 DEF Validate
<1>10. ASSUME NEW q \in Requests, Deny(q) PROVE TypeOK'
  BY <1>10 DEF Deny, Answer
<1>11. ASSUME NEW q \in Requests, Take(q) PROVE TypeOK'
  BY ZenonT(30), <1>11 DEF Take, Free, Locks, Family
<1>12. ASSUME NEW q \in Requests, Rotate(q) PROVE TypeOK'
  <2>a. tok[q] \in Tokens /\ pc[q] = "rotating" /\ issued + 1 \in Tokens /\ issued' = issued + 1
    BY <1>12 DEF Rotate, Issue, LocksHold
  <2>b. row' \in [Tokens -> {"none", "live", "revoked"}]
    BY <1>12, <2>a DEF Rotate
  <2>c. family' \in [Tokens -> 0 .. MaxTokens]
    BY <1>12, <2>a DEF Rotate, Issue
  <2>1. row' \in [Tokens -> {"none", "live", "revoked"}] /\ family' \in [Tokens -> 0 .. MaxTokens] /\ issued' \in 0 .. MaxTokens
    BY <2>a, <2>b, <2>c
  <2>2. issued + 1 \in -1 .. MaxTokens /\ Answer(q, "ok", issued + 1) /\ faulted' = faulted
    BY <1>12 DEF Rotate, Issue, LocksHold
  <2> QED
    BY <2>1, <2>2, AnswerTyped DEF Step
<1>13. ASSUME NEW q \in Requests, RotateLegacy(q) PROVE TypeOK'
  BY <1>13 DEF RotateLegacy, Issue, Answer
<1>14. ASSUME NEW q \in Requests, RevokeFamily(q) PROVE TypeOK'
  BY <1>14 DEF RevokeFamily, Answer, Free, Locks
<1>15. ASSUME NEW q \in Requests, Aborted(q) PROVE TypeOK'
  BY <1>15 DEF Aborted, Answer
<1>16. ASSUME NEW q \in Requests, Revoke(q) PROVE TypeOK'
  BY <1>16 DEF Revoke, Answer, Free, Locks
<1>17. ASSUME NEW q \in Requests, Fail(q) PROVE TypeOK'
  <2>1. \E step \in {"error", "denied", "left"} : Answer(q, step, NoToken)
    BY <1>17 DEF Fail
  <2>2. NoToken \in -1 .. MaxTokens
    OBVIOUS
  <2> QED
    BY <1>17, <2>1, <2>2, AnswerTyped DEF Fail, Step
<1>18. CASE UNCHANGED vars
  BY <1>18 DEF vars
<1> QED
  BY <1>1, <1>2, <1>3, <1>4, <1>5, <1>6, <1>7, <1>8, <1>9, <1>10, <1>11, <1>12, <1>13, <1>14, <1>15, <1>16, <1>17, <1>18 DEF Next, Serve

(* Rows of the table are of tokens that were issued.                         *)
LEMMA RowsStayIssued == RotationInv /\ [Next]_vars => RowsIssued'
<1> SUFFICES ASSUME RotationInv, [Next]_vars PROVE RowsIssued'
  OBVIOUS
<1> USE TokensAssumption DEF RotationInv, TypeOK, Tokens, NoToken, Legacy, server, request, browser, history, RowsIssued, LocksHold
<1>1. CASE Login
  BY <1>1 DEF Login, Issue
<1>2. CASE LocalLogout
  BY <1>2 DEF LocalLogout
<1>3. CASE Expire
  BY <1>3 DEF Expire
<1>4. CASE Purge
  BY <1>4 DEF Purge, Locks
<1>5. ASSUME NEW q \in Requests, Refresh(q) PROVE RowsIssued'
  BY <1>5 DEF Refresh, Begin
<1>6. ASSUME NEW q \in Requests, CookieLogout(q) PROVE RowsIssued'
  BY <1>6 DEF CookieLogout, Begin
<1>7. ASSUME NEW q \in Requests, Receive(q) PROVE RowsIssued'
  BY <1>7 DEF Receive, Leave, Answered, Kept
<1>8. ASSUME NEW q \in Requests, Lose(q) PROVE RowsIssued'
  BY <1>8 DEF Lose, Leave, Answered
<1>9. ASSUME NEW q \in Requests, Validate(q) PROVE RowsIssued'
  BY <1>9 DEF Validate
<1>10. ASSUME NEW q \in Requests, Deny(q) PROVE RowsIssued'
  BY <1>10 DEF Deny, Answer
<1>11. ASSUME NEW q \in Requests, Take(q) PROVE RowsIssued'
  BY <1>11 DEF Take, Free, Locks, Family
<1>12. ASSUME NEW q \in Requests, Rotate(q) PROVE RowsIssued'
  BY <1>12 DEF Rotate, Issue, Answer
<1>13. ASSUME NEW q \in Requests, RotateLegacy(q) PROVE RowsIssued'
  BY <1>13 DEF RotateLegacy, Issue, Answer
<1>14. ASSUME NEW q \in Requests, RevokeFamily(q) PROVE RowsIssued'
  BY <1>14 DEF RevokeFamily, Answer, Free, Locks
<1>15. ASSUME NEW q \in Requests, Aborted(q) PROVE RowsIssued'
  BY <1>15 DEF Aborted, Answer
<1>16. ASSUME NEW q \in Requests, Revoke(q) PROVE RowsIssued'
  BY <1>16 DEF Revoke, Answer, Free, Locks
<1>17. ASSUME NEW q \in Requests, Fail(q) PROVE RowsIssued'
  BY <1>17 DEF Fail, Answer
<1>18. CASE UNCHANGED vars
  BY <1>18 DEF vars
<1> QED
  BY <1>1, <1>2, <1>3, <1>4, <1>5, <1>6, <1>7, <1>8, <1>9, <1>10, <1>11, <1>12, <1>13, <1>14, <1>15, <1>16, <1>17, <1>18 DEF Next, Serve

(* So is all that requests and tabs hold.                                    *)
LEMMA TokensStayKnown == RotationInv /\ [Next]_vars => TokensKnown'
<1> SUFFICES ASSUME RotationInv, [Next]_vars PROVE TokensKnown'
  OBVIOUS
<1> USE TokensAssumption DEF RotationInv, TypeOK, Tokens, NoToken, Legacy, server, request, browser, history, RowsIssued, TokensKnown, Known, LocksHold
<1>1. CASE Login
  BY <1>1 DEF Login, Issue
<1>2. CASE LocalLogout
  BY <1>2 DEF LocalLogout
<1>3. CASE Expire
  BY <1>3 DEF Expire
<1>4. CASE Purge
  BY <1>4 DEF Purge, Locks
<1>5. ASSUME NEW q \in Requests, Refresh(q) PROVE TokensKnown'
  BY <1>5 DEF Refresh, Begin
<1>6. ASSUME NEW q \in Requests, CookieLogout(q) PROVE TokensKnown'
  BY <1>6 DEF CookieLogout, Begin
<1>7. ASSUME NEW q \in Requests, Receive(q) PROVE TokensKnown'
  BY <1>7 DEF Receive, Leave, Answered, Kept
<1>8. ASSUME NEW q \in Requests, Lose(q) PROVE TokensKnown'
  BY <1>8 DEF Lose, Leave, Answered
<1>9. ASSUME NEW q \in Requests, Validate(q) PROVE TokensKnown'
  BY <1>9 DEF Validate
<1>10. ASSUME NEW q \in Requests, Deny(q) PROVE TokensKnown'
  BY <1>10 DEF Deny, Answer
<1>11. ASSUME NEW q \in Requests, Take(q) PROVE TokensKnown'
  BY <1>11 DEF Take, Free, Locks, Family
<1>12. ASSUME NEW q \in Requests, Rotate(q) PROVE TokensKnown'
  BY <1>12 DEF Rotate, Issue, Answer
<1>13. ASSUME NEW q \in Requests, RotateLegacy(q) PROVE TokensKnown'
  BY <1>13 DEF RotateLegacy, Issue, Answer
<1>14. ASSUME NEW q \in Requests, RevokeFamily(q) PROVE TokensKnown'
  BY <1>14 DEF RevokeFamily, Answer, Free, Locks
<1>15. ASSUME NEW q \in Requests, Aborted(q) PROVE TokensKnown'
  BY <1>15 DEF Aborted, Answer
<1>16. ASSUME NEW q \in Requests, Revoke(q) PROVE TokensKnown'
  BY <1>16 DEF Revoke, Answer, Free, Locks
<1>17. ASSUME NEW q \in Requests, Fail(q) PROVE TokensKnown'
  BY <1>17 DEF Fail, Answer
<1>18. CASE UNCHANGED vars
  BY <1>18 DEF vars
<1> QED
  BY <1>1, <1>2, <1>3, <1>4, <1>5, <1>6, <1>7, <1>8, <1>9, <1>10, <1>11, <1>12, <1>13, <1>14, <1>15, <1>16, <1>17, <1>18 DEF Next, Serve

(* A request past Take holds the lock of its family's row.                   *)
LEMMA LocksStay == RotationInv /\ [Next]_vars => LocksHold'
<1> SUFFICES ASSUME RotationInv, [Next]_vars PROVE LocksHold'
  OBVIOUS
<1> USE TokensAssumption DEF RotationInv, TypeOK, Tokens, NoToken, Legacy, server, request, browser, history, RowsIssued, TokensKnown, Known, LocksHold, Locks, Free
<1>1. CASE Login
  BY <1>1 DEF Login, Issue
<1>2. CASE LocalLogout
  BY <1>2 DEF LocalLogout
<1>3. CASE Expire
  BY <1>3 DEF Expire
<1>4. CASE Purge
  BY <1>4 DEF Purge, Locks
<1>5. ASSUME NEW q \in Requests, Refresh(q) PROVE LocksHold'
  BY <1>5 DEF Refresh, Begin
<1>6. ASSUME NEW q \in Requests, CookieLogout(q) PROVE LocksHold'
  BY <1>6 DEF CookieLogout, Begin
<1>7. ASSUME NEW q \in Requests, Receive(q) PROVE LocksHold'
  BY <1>7 DEF Receive, Leave, Answered, Kept
<1>8. ASSUME NEW q \in Requests, Lose(q) PROVE LocksHold'
  BY <1>8 DEF Lose, Leave, Answered
<1>9. ASSUME NEW q \in Requests, Validate(q) PROVE LocksHold'
  BY <1>9 DEF Validate
<1>10. ASSUME NEW q \in Requests, Deny(q) PROVE LocksHold'
  BY <1>10 DEF Deny, Answer
<1>11. ASSUME NEW q \in Requests, Take(q) PROVE LocksHold'
  <2>1. /\ UNCHANGED <<row, tok>> /\ tok[q] \in Tokens /\ Free(q, tok[q])
        /\ pc' = [pc EXCEPT ![q] = pc'[q]]
        /\ (pc'[q] = "rotating" /\ row[tok[q]] = "live") \/ pc'[q] = "revoking"
    BY <1>11 DEF Take
  <2>2. \A r \in Requests : r # q => Locks(r)' = Locks(r) /\ tok[q] \notin Locks(r)
    BY <2>1
  <2> QED
    BY ZenonT(30), <2>1, <2>2
<1>12. ASSUME NEW q \in Requests, Rotate(q) PROVE LocksHold'
  BY <1>12 DEF Rotate, Issue, Answer
<1>13. ASSUME NEW q \in Requests, RotateLegacy(q) PROVE LocksHold'
  BY <1>13 DEF RotateLegacy, Issue, Answer
<1>14. ASSUME NEW q \in Requests, RevokeFamily(q) PROVE LocksHold'
  BY <1>14 DEF RevokeFamily, Answer, Free, Locks
<1>15. ASSUME NEW q \in Requests, Aborted(q) PROVE LocksHold'
  BY <1>15 DEF Aborted, Answer
<1>16. ASSUME NEW q \in Requests, Revoke(q) PROVE LocksHold'
  BY <1>16 DEF Revoke, Answer, Free, Locks
<1>17. ASSUME NEW q \in Requests, Fail(q) PROVE LocksHold'
  <2>1. /\ UNCHANGED row
        /\ pc' = [pc EXCEPT ![q] = pc'[q]] /\ pc'[q] \notin {"rotating", "revoking"}
        /\ tok' = [tok EXCEPT ![q] = tok'[q]]
    BY <1>17 DEF Fail, Answer
  <2>2. Locks(q)' = {} /\ \A r \in Requests : r # q => pc'[r] = pc[r] /\ tok'[r] = tok[r] /\ Locks(r)' = Locks(r)
    BY <2>1
  <2> QED
    BY ZenonT(30), <2>1, <2>2
<1>18. CASE UNCHANGED vars
  BY <1>18 DEF vars
<1> QED
  BY <1>1, <1>2, <1>3, <1>4, <1>5, <1>6, <1>7, <1>8, <1>9, <1>10, <1>11, <1>12, <1>13, <1>14, <1>15, <1>16, <1>17, <1>18 DEF Next, Serve

(* A family has one token that the server would exchange, at most.           *)
LEMMA OneStaysLive == RotationInv /\ [Next]_vars => OneLivePerFamily'
<1> SUFFICES ASSUME RotationInv, [Next]_vars PROVE OneLivePerFamily'
  OBVIOUS
<1> USE TokensAssumption DEF RotationInv, TypeOK, Tokens, NoToken, Legacy, server, request, browser, history, RowsIssued, LocksHold, OneLivePerFamily
<1>1. CASE Login
  BY <1>1 DEF Login, Issue
<1>2. CASE LocalLogout
  BY <1>2 DEF LocalLogout
<1>3. CASE Expire
  BY <1>3 DEF Expire
<1>4. CASE Purge
  BY <1>4 DEF Purge, Locks
<1>5. ASSUME NEW q \in Requests, Refresh(q) PROVE OneLivePerFamily'
  BY <1>5 DEF Refresh, Begin
<1>6. ASSUME NEW q \in Requests, CookieLogout(q) PROVE OneLivePerFamily'
  BY <1>6 DEF CookieLogout, Begin
<1>7. ASSUME NEW q \in Requests, Receive(q) PROVE OneLivePerFamily'
  BY <1>7 DEF Receive, Leave, Answered, Kept
<1>8. ASSUME NEW q \in Requests, Lose(q) PROVE OneLivePerFamily'
  BY <1>8 DEF Lose, Leave, Answered
<1>9. ASSUME NEW q \in Requests, Validate(q) PROVE OneLivePerFamily'
  BY <1>9 DEF Validate
<1>10. ASSUME NEW q \in Requests, Deny(q) PROVE OneLivePerFamily'
  BY <1>10 DEF Deny, Answer
<1>11. ASSUME NEW q \in Requests, Take(q) PROVE OneLivePerFamily'
  BY <1>11 DEF Take, Free, Locks, Family
<1>12. ASSUME NEW q \in Requests, Rotate(q) PROVE OneLivePerFamily'
  <2>1. /\ tok[q] \in Tokens /\ row[tok[q]] = "live" /\ tok[q] <= issued
        /\ family[tok[q]] # 0 /\ issued + 1 \in Tokens
    BY <1>12 DEF Rotate, Issue
  <2>2. /\ row' = [row EXCEPT ![tok[q]] = "revoked", ![issued + 1] = "live"]
        /\ family' = [family EXCEPT ![issued + 1] = family[tok[q]]]
    BY <1>12, <2>1 DEF Rotate, Issue
  <2>3. ASSUME NEW t \in Tokens, row'[t] = "live"
        PROVE  t = issued + 1 \/ (t # tok[q] /\ t # issued + 1 /\ row[t] = "live" /\ family'[t] = family[t])
    BY <2>1, <2>2, <2>3
  <2> QED
    BY <2>1, <2>2, <2>3
<1>13. ASSUME NEW q \in Requests, RotateLegacy(q) PROVE OneLivePerFamily'
  BY <1>13 DEF RotateLegacy, Issue, Answer
<1>14. ASSUME NEW q \in Requests, RevokeFamily(q) PROVE OneLivePerFamily'
  BY <1>14 DEF RevokeFamily, Answer, Free, Locks
<1>15. ASSUME NEW q \in Requests, Aborted(q) PROVE OneLivePerFamily'
  BY <1>15 DEF Aborted, Answer
<1>16. ASSUME NEW q \in Requests, Revoke(q) PROVE OneLivePerFamily'
  BY <1>16 DEF Revoke, Answer, Free, Locks
<1>17. ASSUME NEW q \in Requests, Fail(q) PROVE OneLivePerFamily'
  BY <1>17 DEF Fail, Answer
<1>18. CASE UNCHANGED vars
  BY <1>18 DEF vars
<1> QED
  BY <1>1, <1>2, <1>3, <1>4, <1>5, <1>6, <1>7, <1>8, <1>9, <1>10, <1>11, <1>12, <1>13, <1>14, <1>15, <1>16, <1>17, <1>18 DEF Next, Serve

(* Nothing is issued, sent or locked at first.                               *)
LEMMA InitRotation == Init => RotationInv
<1> SUFFICES ASSUME Init PROVE RotationInv
  OBVIOUS
<1> USE TokensAssumption DEF Init, Tokens, NoToken, Legacy
<1>1. TypeOK
  <2>1. 0 \in 0 .. MaxTokens /\ {0, -1} \subseteq -1 .. MaxTokens
    OBVIOUS
  <2> QED
    BY <2>1 DEF TypeOK
<1>2. RowsIssued /\ OneLivePerFamily
  BY DEF RowsIssued, OneLivePerFamily
<1>3. TokensKnown
  BY DEF TokensKnown, Known
<1>4. LocksHold
  BY DEF LocksHold, Locks
<1> QED
  BY <1>1, <1>2, <1>3, <1>4 DEF RotationInv

(* A row that is live after a step was live before it, in the same family,   *)
(* or is the next one, in a family of its own or in one that has a live row. *)
LiveRowsFollow ==
  \A t \in Tokens : row'[t] = "live" =>
    \/ row[t] = "live" /\ family'[t] = family[t]
    \/ t = issued + 1 /\ family'[t] = t
    \/ \E u \in Tokens : row[u] = "live" /\ family'[t] = family[u]

(* Whatever a step does, the live rows are those the action names.           *)
LEMMA LiveRows == RotationInv /\ [Next]_vars => LiveRowsFollow
<1> SUFFICES ASSUME RotationInv, [Next]_vars PROVE LiveRowsFollow
  OBVIOUS
<1> USE TokensAssumption DEF RotationInv, TypeOK, Tokens, NoToken, Legacy, server, request, browser, history, RowsIssued, LocksHold, LiveRowsFollow
<1>1. CASE Login
  BY <1>1 DEF Login, Issue
<1>2. CASE LocalLogout
  BY <1>2 DEF LocalLogout
<1>3. CASE Expire
  BY <1>3 DEF Expire
<1>4. CASE Purge
  BY <1>4 DEF Purge, Locks
<1>5. ASSUME NEW q \in Requests, Refresh(q) PROVE LiveRowsFollow
  BY <1>5 DEF Refresh, Begin
<1>6. ASSUME NEW q \in Requests, CookieLogout(q) PROVE LiveRowsFollow
  BY <1>6 DEF CookieLogout, Begin
<1>7. ASSUME NEW q \in Requests, Receive(q) PROVE LiveRowsFollow
  BY <1>7 DEF Receive, Leave, Answered, Kept
<1>8. ASSUME NEW q \in Requests, Lose(q) PROVE LiveRowsFollow
  BY <1>8 DEF Lose, Leave, Answered
<1>9. ASSUME NEW q \in Requests, Validate(q) PROVE LiveRowsFollow
  BY <1>9 DEF Validate
<1>10. ASSUME NEW q \in Requests, Deny(q) PROVE LiveRowsFollow
  BY <1>10 DEF Deny, Answer
<1>11. ASSUME NEW q \in Requests, Take(q) PROVE LiveRowsFollow
  BY <1>11 DEF Take, Free, Locks, Family
<1>12. ASSUME NEW q \in Requests, Rotate(q) PROVE LiveRowsFollow
  <2>1. /\ tok[q] \in Tokens /\ row[tok[q]] = "live" /\ tok[q] <= issued
        /\ family[tok[q]] # 0 /\ issued + 1 \in Tokens
    BY <1>12 DEF Rotate, Issue
  <2>2. /\ row' = [row EXCEPT ![tok[q]] = "revoked", ![issued + 1] = "live"]
        /\ family' = [family EXCEPT ![issued + 1] = family[tok[q]]]
    BY <1>12, <2>1 DEF Rotate, Issue
  <2> QED
    BY <2>1, <2>2
<1>13. ASSUME NEW q \in Requests, RotateLegacy(q) PROVE LiveRowsFollow
  BY <1>13 DEF RotateLegacy, Issue, Answer
<1>14. ASSUME NEW q \in Requests, RevokeFamily(q) PROVE LiveRowsFollow
  BY <1>14 DEF RevokeFamily, Answer, Free, Locks
<1>15. ASSUME NEW q \in Requests, Aborted(q) PROVE LiveRowsFollow
  BY <1>15 DEF Aborted, Answer
<1>16. ASSUME NEW q \in Requests, Revoke(q) PROVE LiveRowsFollow
  BY <1>16 DEF Revoke, Answer, Free, Locks
<1>17. ASSUME NEW q \in Requests, Fail(q) PROVE LiveRowsFollow
  BY <1>17 DEF Fail, Answer
<1>18. CASE UNCHANGED vars
  BY <1>18 DEF vars
<1> QED
  BY <1>1, <1>2, <1>3, <1>4, <1>5, <1>6, <1>7, <1>8, <1>9, <1>10, <1>11, <1>12, <1>13, <1>14, <1>15, <1>16, <1>17, <1>18 DEF Next, Serve

(* Every step keeps RotationInv.                                             *)
LEMMA RotationStep == RotationInv /\ [Next]_vars => RotationInv'
  BY TokensTyped, RowsStayIssued, TokensStayKnown, LocksStay, OneStaysLive DEF RotationInv

(* RotationInv holds always.                                                 *)
LEMMA RotationAlways == Spec => []RotationInv
  BY InitRotation, RotationStep, PTL DEF Spec

(* Types, for any number of tabs, requests and tokens.                       *)
THEOREM TokensAreTyped == Spec => []TypeOK
<1>1. RotationInv => TypeOK
  BY DEF RotationInv
<1> QED
  BY <1>1, RotationAlways, PTL

(* Every family is one session that ends once (handlers/auth.go:159-239):    *)
(* the row lock keeps one live token in it, and no request that waits for a  *)
(* row, or is under way, brings back a family that has none.                 *)
THEOREM FamiliesAreSessionsHolds == Spec => FamiliesAreSessions
<1> DEFINE Ends == \A f \in Tokens : Dead(f) => \A t \in Tokens : family'[t] = f => row'[t] # "live"
<1>1. RotationInv /\ [Next]_vars => Ends
  <2> SUFFICES ASSUME RotationInv, [Next]_vars,
                      NEW f \in Tokens, Dead(f), NEW t \in Tokens, family'[t] = f, row'[t] = "live"
               PROVE  FALSE
    OBVIOUS
  <2>1. CASE row[t] = "live" /\ family'[t] = family[t]
    BY <2>1 DEF Dead, Family
  <2>2. CASE t = issued + 1 /\ family'[t] = t
    <3>1. PICK u \in Tokens : row[u] # "none" /\ family[u] = f
      BY DEF Dead, Family
    <3>2. u <= issued /\ family[u] \in 1 .. u /\ u \in Nat /\ issued \in Nat
      BY <3>1 DEF RotationInv, RowsIssued, TypeOK, Tokens
    <3> QED
      BY <2>2, <3>1, <3>2
  <2>3. CASE \E u \in Tokens : row[u] = "live" /\ family'[t] = family[u]
    BY <2>3 DEF Dead, Family
  <2> QED
    BY <2>1, <2>2, <2>3, LiveRows DEF LiveRowsFollow
<1>2. RotationInv => OneLivePerFamily
  BY DEF RotationInv
<1>3. RotationInv /\ RotationInv' /\ [Next]_vars => [OneLivePerFamily' /\ Ends]_vars
  BY <1>1, <1>2 DEF RotationInv
<1> QED
  BY <1>3, RotationAlways, PTL DEF Spec, FamiliesAreSessions

-----------------------------------------------------------------------------
(* The second invariant.                                                     *)
LEMMA QuietStep == RotationInv /\ QuietInv /\ [Next]_vars => QuietInv'
<1> SUFFICES ASSUME RotationInv, QuietInv, [Next]_vars, Quiet' PROVE Undisturbed'
  BY DEF QuietInv
<1> USE TokensAssumption DEF RotationInv, TypeOK, Tokens, NoToken, Legacy, server, request, browser, history, RowsIssued, TokensKnown, Known,
    QuietInv, Quiet, Undisturbed, OneRequest, NothingExpired, SignedIn, SigningOut, SignedOut, KeepsLast, LastOut, Idle, Busy
<1>1. CASE Login
  <2>1. \A r \in Requests : Idle(r) /\ Idle(r)'
    BY <1>1 DEF Login
  <2>2. KeepsLast' /\ session' = "in" /\ stored' = issued + 1 /\ issued + 1 > expired
    BY <1>1 DEF Login, Issue
  <2> QED
    BY <1>1, <2>1, <2>2 DEF Login
<1>2. CASE LocalLogout
  <2>1. \A r \in Requests : Idle(r)'
    BY <1>2 DEF LocalLogout
  <2> QED
    BY <1>2, <2>1 DEF LocalLogout
<1>3. CASE Expire
  <2>3. Quiet /\ expired' = expired + 1 /\ stored # expired + 1 /\ \A r \in Requests : ~Idle(r) => tok[r] # expired + 1
    BY <1>3 DEF Expire
  <2>1. NothingExpired'
    BY <1>3, <2>3 DEF Expire
  <2>2. UNCHANGED <<cookies, stored, pc, tok, row, issued, session, awaited>> /\ Quiet
    BY <1>3 DEF Expire
  <2> QED
    BY <2>1, <2>2
<1>4. CASE Purge
  <2>1. UNCHANGED <<cookies, stored, pc, tok, issued, expired, session, awaited>> /\ Quiet
    BY <1>4 DEF Purge
  <2>2. ASSUME issued \in Tokens PROVE /\ row[issued] # "live" => row'[issued] # "live"
                                       /\ issued \notin 1 .. expired => row'[issued] = row[issued]
    BY <1>4, <2>2 DEF Purge
  <2>3. NothingExpired' /\ OneRequest'
    BY <2>1
  <2>4. KeepsLast => KeepsLast'
    BY <2>1, <2>2
  <2>6. (session = "in" => SignedIn)'
    BY <2>1, <2>2, <2>4
  <2>7. (session = "leaving" => SigningOut)'
    BY <2>1, <2>2, <2>4
  <2>5. (session = "out" => SignedOut)'
    BY <2>1, <2>2
  <2> QED
    BY <2>3, <2>5, <2>6, <2>7
<1>5. ASSUME NEW q \in Requests, Refresh(q) PROVE Undisturbed'
  BY ZenonT(30), <1>5 DEF Refresh, Begin
<1>6. ASSUME NEW q \in Requests, CookieLogout(q) PROVE Undisturbed'
  BY ZenonT(30), <1>6 DEF CookieLogout, Begin
<1>7. ASSUME NEW q \in Requests, Receive(q) PROVE Undisturbed'
  <2>1. Quiet /\ pc[q] \in {"ok", "denied", "error", "left"} /\ q \in awaited /\ UNCHANGED <<cookies, row, issued, expired>>
    BY <1>7 DEF Receive, Answered
  <2>2. \A r \in Requests : Idle(r)'
    BY <1>7, <2>1 DEF Receive, Leave, Answered
  <2>3. CASE session = "in"
    <3>1. pc[q] = "ok" /\ tok[q] = issued /\ issued \in Tokens /\ row[issued] = "live"
      BY <2>1, <2>3
    <3>2. session' = "in" /\ stored' = issued
      BY <1>7, <2>3, <3>1 DEF Receive, Kept
    <3> QED
      BY <2>1, <2>2, <3>1, <3>2
  <2>4. CASE session = "leaving"
    <3>1. cookies /\ pc[q] = "left" /\ LastOut
      BY <2>1, <2>4
    <3>2. session' = "out" /\ stored' = NoToken
      BY <1>7, <3>1 DEF Receive, Kept
    <3> QED
      BY <2>1, <2>2, <3>1, <3>2
  <2>5. CASE session = "out"
    BY <2>1, <2>5
  <2> QED
    BY <2>3, <2>4, <2>5
<1>8. ASSUME NEW q \in Requests, Lose(q) PROVE Undisturbed'
  BY <1>8 DEF Lose, Leave, Answered
<1>9. ASSUME NEW q \in Requests, Validate(q) PROVE Undisturbed'
  BY <1>9 DEF Validate
<1>10. ASSUME NEW q \in Requests, Deny(q) PROVE Undisturbed'
  <2>1. /\ Quiet
        /\ \/ pc[q] = "sent" /\ tok[q] \in 1 .. expired
           \/ pc[q] = "valid" /\ tok[q] \in Tokens /\ row[tok[q]] = "none"
    BY <1>10 DEF Deny, Answer
  <2>2. session = "in" /\ KeepsLast /\ tok[q] = stored
    BY <2>1
  <2> QED
    BY <2>1, <2>2
<1>11. ASSUME NEW q \in Requests, Take(q) PROVE Undisturbed'
  <2>1. /\ Quiet /\ pc[q] = "valid" /\ tok[q] \in Tokens
        /\ UNCHANGED <<cookies, stored, row, tok, issued, expired, session, awaited>>
        /\ \/ row[tok[q]] = "live" /\ pc' = [pc EXCEPT ![q] = "rotating"]
           \/ row[tok[q]] = "revoked"
    BY <1>11 DEF Take
  <2>2. session = "in" /\ KeepsLast /\ tok[q] = stored
    BY <2>1
  <2>3. \A r \in Requests : ~Idle(r) => r = q
    BY <2>1
  <2> QED
    BY <2>1, <2>2, <2>3
<1>12. ASSUME NEW q \in Requests, Rotate(q) PROVE Undisturbed'
  <2>a. Quiet /\ pc[q] = "rotating" /\ tok[q] \in Tokens
    BY <1>12 DEF Rotate, Answer, LocksHold
  <2>b. session = "in" /\ KeepsLast /\ tok[q] = stored
    BY <2>a
  <2>1. Quiet /\ pc[q] = "rotating" /\ session = "in" /\ tok[q] = stored /\ stored = issued /\ issued \in Tokens
    BY <2>a, <2>b
  <2>2. q \in awaited /\ \A r \in Requests : ~Idle(r) => r = q
    BY <2>1
  <2>3. /\ pc' = [pc EXCEPT ![q] = "ok"] /\ tok' = [tok EXCEPT ![q] = issued + 1]
        /\ issued' = issued + 1 /\ issued + 1 \in Tokens /\ row'[issued + 1] = "live"
        /\ UNCHANGED <<cookies, stored, expired, session, awaited>>
    BY <1>12, <2>1, <2>2 DEF Rotate, Issue, Answer
  <2>4. OneRequest' /\ NothingExpired'
    BY <2>1, <2>2, <2>3
  <2>5. SignedIn'
    BY <2>1, <2>2, <2>3
  <2> QED
    BY <2>1, <2>3, <2>4, <2>5
<1>13. ASSUME NEW q \in Requests, RotateLegacy(q) PROVE Undisturbed'
  BY SMTT(30), <1>13 DEF RotateLegacy, Issue, Answer
<1>14. ASSUME NEW q \in Requests, RevokeFamily(q) PROVE Undisturbed'
  BY <1>14 DEF RevokeFamily, Answer, Free, Locks
<1>15. ASSUME NEW q \in Requests, Aborted(q) PROVE Undisturbed'
  BY <1>15 DEF Aborted, Answer
<1>16. ASSUME NEW q \in Requests, Revoke(q) PROVE Undisturbed'
  <2>1. Quiet /\ pc[q] = "leaving" /\ session = "leaving" /\ tok[q] = stored /\ KeepsLast /\ cookies
    BY <1>16 DEF Revoke, Answer
  <2>2. q \in awaited /\ \A r \in Requests : ~Idle(r) => r = q
    BY <2>1
  <2>3. /\ pc' = [pc EXCEPT ![q] = "left"] /\ tok' = [tok EXCEPT ![q] = NoToken]
        /\ UNCHANGED <<cookies, stored, issued, expired, session, awaited>>
    BY <1>16, <2>2 DEF Revoke, Answer
  <2>4. LastOut'
    <3>1. issued > 0 => row'[issued] = "revoked"
      BY <1>16, <2>1 DEF Revoke
    <3> QED
      BY <2>3, <3>1
  <2>5. NothingExpired'
    BY <2>1, <2>2, <2>3
  <2>6. OneRequest'
    BY <2>2, <2>3
  <2> QED
    BY <2>1, <2>3, <2>4, <2>5, <2>6
<1>17. ASSUME NEW q \in Requests, Fail(q) PROVE Undisturbed'
  BY <1>17 DEF Fail, Answer
<1>18. CASE UNCHANGED vars
  BY <1>18 DEF vars
<1> QED
  BY <1>1, <1>2, <1>3, <1>4, <1>5, <1>6, <1>7, <1>8, <1>9, <1>10, <1>11, <1>12, <1>13, <1>14, <1>15, <1>16, <1>17, <1>18 DEF Next, Serve

(* The browser before any login.                                             *)
LEMMA InitQuiet == Init => QuietInv
  BY DEF Init, QuietInv, Undisturbed, OneRequest, NothingExpired, SignedIn, SigningOut, SignedOut, KeepsLast,
         LastOut, Idle, Quiet, NoToken, Legacy

(* Both invariants hold always: QuietInv needs the server's.                 *)
LEMMA QuietAlways == Spec => [](RotationInv /\ QuietInv)
<1>1. RotationInv /\ QuietInv /\ [Next]_vars => (RotationInv /\ QuietInv)'
  BY RotationStep, QuietStep
<1> QED
  BY <1>1, InitRotation, InitQuiet, PTL DEF Spec

(* A user who did not log out keeps a token that the server would exchange,  *)
(* or is about to receive one, while no answer is lost and no two requests   *)
(* overlap (handlers/auth.go:236, lib/transport.tsx:46).                     *)
THEOREM SessionKeptHolds == Spec => []SessionKept
<1>1. RotationInv /\ QuietInv => SessionKept
  <2> SUFFICES ASSUME RotationInv, QuietInv, session = "in", Quiet PROVE Usable
    BY DEF SessionKept, Quiet
  <2>1. SignedIn /\ OneRequest
    BY DEF QuietInv, Undisturbed
  <2>2. CASE KeepsLast
    BY <2>2 DEF KeepsLast, Usable
  <2>3. CASE \E q \in Requests : pc[q] = "ok" /\ tok[q] = issued /\ row[issued] = "live"
    BY <2>1, <2>3 DEF OneRequest, Idle, Usable
  <2> QED
    BY <2>1, <2>2, <2>3 DEF SignedIn
<1> QED
  BY <1>1, QuietAlways, PTL

(* A logout under the same conditions is final, in the browser and, with     *)
(* cookies, at the server (lib/auth.tsx:216).                                *)
THEOREM LogoutIsFinalHolds == Spec => []LogoutIsFinal
<1>1. RotationInv /\ QuietInv => LogoutIsFinal
  BY DEF QuietInv, Undisturbed, SignedOut, LastOut, LogoutIsFinal, Quiet
<1> QED
  BY <1>1, QuietAlways, PTL
=============================================================================
