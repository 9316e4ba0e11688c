------------------------------ MODULE RateLimits ------------------------------
(* The limiters, each seen at one key and held under its mutex: AuthLimiter, *)
(* which blocks an address after failed logins (ratelimit/authlimiter.go),   *)
(* RESTLimiter, a fixed window per key (ratelimit/restlimiter.go), and the   *)
(* token buckets a request passes, IPRateLimiter's by access token and then  *)
(* the interceptor's by user (ratelimit/ipmiddleware.go, ratelimit.go).      *)
(* Time is an integer, in which a bucket gains a token.  Beside each record  *)
(* stands the one a limiter would have that forgets nothing.                 *)
EXTENDS Integers, FiniteSetsExt

CONSTANTS
  MaxFailures, MaxRequests, LimitWindow, BlockFor, MaxPending,
  Procedures, Burst, IpBurst, IdleAfter,
  MaxTime

ASSUME RateLimitsAssumption ==
  /\ MaxFailures \in Nat \ {0, 1} /\ MaxRequests \in Nat \ {0}
  /\ LimitWindow \in Nat \ {0} /\ BlockFor \in Nat /\ BlockFor >= LimitWindow
  /\ MaxPending \in Nat /\ MaxTime \in Nat
  /\ Burst \in Nat \ {0} /\ IpBurst \in Nat \ {0}
  /\ IdleAfter \in Nat /\ IdleAfter >= Burst /\ IdleAfter >= IpBurst

VARIABLES
  now,
  auth, authKept,   \* the record of the address, with and without clean-up
  pending,          \* logins that have passed IsBlocked and not ended
  rest, restKept,   \* the record of the key
  ofToken, ofTokenKept,   \* the entry of the access token
  ofUser, ofUserKept,     \* the entry of the user, a bucket for each procedure
  failuresFrom, allowedFrom, grantedFrom   \* history: how many failed logins, and
                    \* requests let through, the window that begins at each time has had

authVars == <<auth, authKept, pending>>
restVars == <<rest, restKept>>
hits == <<failuresFrom, allowedFrom, grantedFrom>>
bucketVars == <<ofToken, ofTokenKept, ofUser, ofUserKept>>
limitVars == <<now, authVars, restVars, bucketVars, hits>>

Never   == 0 - 1                       \* no record, or no blockedAt
Times   == 0 .. MaxTime
NoHits  == [t \in Times |-> 0]
NoAuth  == [failures |-> 0, firstFail |-> Never, blockedAt |-> Never]
NoRest  == [count |-> 0, windowStart |-> Never]

(* A missing entry is one whose buckets are full: getOrCreate makes it so.   *)
NoEntry(procedures, burst) ==
  [tokens |-> [p \in procedures |-> burst], last |-> [p \in procedures |-> 0], lastSeen |-> Never]
NoIp    == NoEntry({"any"}, IpBurst)
NoUser  == NoEntry(Procedures, Burst)

EntryTypeOK(e, procedures, burst) ==
  /\ e.tokens \in [procedures -> 0 .. burst] /\ e.last \in [procedures -> Times]
  /\ e.lastSeen \in Times \cup {Never}

LimitTypeOK ==
  /\ now \in Times /\ pending \in 0 .. MaxPending 
  /\ {failuresFrom, allowedFrom} \subseteq [Times -> Nat] /\ grantedFrom \in [Procedures -> [Times -> Nat]]
  /\ \A r \in {auth, authKept} : r.failures \in Nat /\ {r.firstFail, r.blockedAt} \subseteq Times \cup {Never}
  /\ \A r \in {rest, restKept} : r.count \in 0 .. MaxRequests /\ r.windowStart \in Times \cup {Never}
  /\ \A e \in {ofToken, ofTokenKept} : EntryTypeOK(e, {"any"}, IpBurst)
  /\ \A e \in {ofUser, ofUserKept} : EntryTypeOK(e, Procedures, Burst)

LimitInit ==
  /\ now = 0 /\ pending = 0
  /\ failuresFrom = NoHits /\ allowedFrom = NoHits /\ grantedFrom = [p \in Procedures |-> NoHits]
  /\ auth = NoAuth /\ authKept = NoAuth /\ rest = NoRest /\ restKept = NoRest
  /\ ofToken = NoIp /\ ofTokenKept = NoIp /\ ofUser = NoUser /\ ofUserKept = NoUser

Blocked(r) == r.blockedAt # Never /\ now < r.blockedAt + BlockFor

(* RecordFailure on a record.                                                *)
Failure(r) ==
  CASE r = NoAuth -> [failures |-> 1, firstFail |-> now, blockedAt |-> Never]
    [] r # NoAuth /\ Blocked(r) -> r
    [] r # NoAuth /\ ~Blocked(r) /\ now > r.firstFail + LimitWindow ->
         [failures |-> 1, firstFail |-> now, blockedAt |-> Never]
    [] OTHER -> [r EXCEPT !.failures = @ + 1,
                          !.blockedAt = IF r.failures + 1 >= MaxFailures THEN now ELSE @]

(* One more in each window that is open.                                     *)
OneMore(h) == [t \in Times |-> IF t <= now /\ now <= t + LimitWindow THEN h[t] + 1 ELSE h[t]]

BeginLogin ==
  /\ ~Blocked(auth) /\ pending < MaxPending
  /\ pending' = pending + 1
  /\ UNCHANGED <<now, auth, authKept, restVars, bucketVars, hits>>

FailLogin ==
  /\ pending > 0
  /\ pending' = pending - 1
  /\ auth' = Failure(auth) /\ authKept' = Failure(authKept)
  /\ failuresFrom' = OneMore(failuresFrom)
  /\ UNCHANGED <<now, restVars, bucketVars, allowedFrom, grantedFrom>>

(* ClearFailures, which any user of the address can bring about.               *)
PassLogin ==
  /\ pending > 0
  /\ pending' = pending - 1
  /\ auth' = NoAuth /\ authKept' = NoAuth
  /\ failuresFrom' = NoHits
  /\ UNCHANGED <<now, restVars, bucketVars, allowedFrom, grantedFrom>>

MutCleanAuth ==
  /\ now > auth.firstFail + LimitWindow \/ (auth.blockedAt # Never /\ now > auth.blockedAt + BlockFor)
  /\ auth' = NoAuth
  /\ UNCHANGED <<now, authKept, pending, restVars, bucketVars, hits>>

CleanAuth ==
  /\ auth # NoAuth
  /\ \/ auth.blockedAt = Never /\ now > auth.firstFail + LimitWindow
     \/ auth.blockedAt # Never /\ now > auth.blockedAt + BlockFor
  /\ auth' = NoAuth
  /\ UNCHANGED <<now, authKept, pending, restVars, bucketVars, hits>>

(* Whether Allow lets a request through, and what it leaves.                 *)
Permits(r) == r = NoRest \/ now > r.windowStart + LimitWindow \/ r.count < MaxRequests
Counted(r) ==
  IF r = NoRest \/ now > r.windowStart + LimitWindow
  THEN [count |-> 1, windowStart |-> now]
  ELSE [r EXCEPT !.count = IF @ < MaxRequests THEN @ + 1 ELSE @]

Allow ==
  /\ rest' = Counted(rest) /\ restKept' = Counted(restKept)
  /\ allowedFrom' = IF Permits(rest) THEN OneMore(allowedFrom) ELSE allowedFrom
  /\ UNCHANGED <<now, authVars, bucketVars, failuresFrom, grantedFrom>>

EvictStale ==
  /\ rest # NoRest /\ now > rest.windowStart + 2 * LimitWindow
  /\ rest' = NoRest
  /\ UNCHANGED <<now, authVars, restKept, bucketVars, hits>>

(* The bucket of one procedure: the tokens it has by now, whether Allow      *)
(* takes one, and the entry afterwards.                                      *)
Tokens(e, p, burst) == Min({burst, e.tokens[p] + (now - e.last[p])})
Grants(e, p, burst) == Tokens(e, p, burst) >= 1
Taken(e, p, burst) ==
  IF Grants(e, p, burst)
  THEN [tokens   |-> [e.tokens EXCEPT ![p] = Tokens(e, p, burst) - 1],
        last     |-> [e.last EXCEPT ![p] = now],
        lastSeen |-> now]
  ELSE [e EXCEPT !.lastSeen = now]

(* The interceptor's check, for the user of the token.                       *)
CheckUser(p) ==
  /\ ofUser' = Taken(ofUser, p, Burst) /\ ofUserKept' = Taken(ofUserKept, p, Burst)
  /\ grantedFrom' = IF Grants(ofUser, p, Burst) THEN [grantedFrom EXCEPT ![p] = OneMore(@)] ELSE grantedFrom

(* A request: Middleware, and what it lets through comes to the interceptor. *)
Request(p) ==
  /\ ofToken' = Taken(ofToken, "any", IpBurst) /\ ofTokenKept' = Taken(ofTokenKept, "any", IpBurst)
  /\ IF Grants(ofToken, "any", IpBurst) THEN CheckUser(p) ELSE UNCHANGED <<ofUser, ofUserKept, grantedFrom>>
  /\ UNCHANGED <<now, authVars, restVars, failuresFrom, allowedFrom>>

(* A refreshed access token is another key of the outer limiter.             *)
RenewToken ==
  /\ ofToken' = NoIp /\ ofTokenKept' = NoIp
  /\ UNCHANGED <<now, authVars, restVars, ofUser, ofUserKept, hits>>

Idle(e) == e.lastSeen # Never /\ now > e.lastSeen + IdleAfter

EvictIp ==
  /\ Idle(ofToken) /\ ofToken' = NoIp
  /\ UNCHANGED <<now, authVars, restVars, ofTokenKept, ofUser, ofUserKept, hits>>

EvictUser ==
  /\ Idle(ofUser) /\ ofUser' = NoUser
  /\ UNCHANGED <<now, authVars, restVars, ofToken, ofTokenKept, ofUserKept, hits>>

Tick ==
  /\ now < MaxTime
  /\ now' = now + 1
  /\ UNCHANGED <<authVars, restVars, bucketVars, hits>>

AuthNext == BeginLogin \/ FailLogin \/ PassLogin \/ CleanAuth \/ Tick
RestNext == Allow \/ EvictStale \/ Tick
BucketNext == (\E p \in Procedures : Request(p)) \/ RenewToken \/ EvictIp \/ EvictUser \/ Tick

(* Forgetting a record changes no answer: no clean-up lets anybody in whom   *)
(* the limiter would have kept out, now or later (authlimiter.go:136,        *)
(* restlimiter.go:95, ratelimit.go:159, ipmiddleware.go:167).                *)
ForgettingIsInvisible ==
  /\ Blocked(auth) = Blocked(authKept) /\ Permits(rest) = Permits(restKept)
  /\ Tokens(ofToken, "any", IpBurst) = Tokens(ofTokenKept, "any", IpBurst)
  /\ \A p \in Procedures : Tokens(ofUser, p, Burst) = Tokens(ofUserKept, p, Burst)

(* However the attempts fall about the windows, no stretch as long as a      *)
(* window has more than two windows' worth, and for logins those that had    *)
(* passed IsBlocked before the block (authlimiter.go:50, restlimiter.go:42); *)
(* and whatever tokens the client renews and entries are evicted, a user has *)
(* no more of a procedure than the burst and what was gained meanwhile       *)
(* (ratelimit.go:87).                                                        *)
BurstsBounded ==
  \A t \in Times :
    /\ failuresFrom[t] <= 2 * (MaxFailures + MaxPending - 1)
    /\ allowedFrom[t] <= 2 * MaxRequests
    /\ \A p \in Procedures : grantedFrom[p][t] <= Burst + LimitWindow
=============================================================================
