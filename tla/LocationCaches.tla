---------------------------- MODULE LocationCaches ----------------------------
(* The server's caches of positions: the last one of each user               *)
(* (location/cache.go) and the places found near one (location/service.go).  *)
EXTENDS Integers, FiniteSets

CONSTANTS
  Travellers, MaxSize, Ttl,        \* the positions
  Areas, MaxEntries, NearbyTtl, \* the places; an area is a position, a category and a radius
  Lookups,                    \* bound: lookups at once
  MaxClockTicks,                     \* bound: time
  NoArea

ASSUME CachesAssumption ==
  /\ MaxSize \in Nat \ {0} /\ MaxEntries \in Nat \ {0} /\ Ttl \in Nat /\ NearbyTtl \in Nat
  /\ IsFiniteSet(Travellers)

VARIABLES
  clock,
  entries,      \* UpdatedAt of each cached position, -1 if there is none
  nearbyCache,  \* expiresAt of each cached area, -1 if there is none
  lookup        \* the area each lookup asks the service for

cacheVars == <<clock, entries, nearbyCache, lookup>>
Absent == -1

CachesInit ==
  /\ clock = 0
  /\ entries = [u \in Travellers |-> Absent]
  /\ nearbyCache = [a \in Areas |-> Absent]
  /\ lookup = [l \in Lookups |-> NoArea]

CacheTick ==
  /\ clock < MaxClockTicks /\ clock' = clock + 1
  /\ UNCHANGED <<entries, nearbyCache, lookup>>

Kept(e)  == {u \in Travellers : e[u] # Absent}
Stale(e) == {u \in Kept(e) : clock - e[u] >= Ttl}
Forget(e, S) == [u \in Travellers |-> IF u \in S THEN Absent ELSE e[u]]

(* An older half of what is kept; of equal times the sort may put any first. *)
Halves(e) ==
  LET size == IF Cardinality(Kept(e)) \div 2 = 0 THEN 1 ELSE Cardinality(Kept(e)) \div 2
  IN {S \in SUBSET Kept(e) : Cardinality(S) = size /\ \A u \in S, v \in Kept(e) \ S : e[u] <= e[v]}

Evicted ==
  LET fresh == Forget(entries, Stale(entries))
  IN IF Cardinality(Kept(fresh)) < MaxSize THEN {fresh} ELSE {Forget(fresh, S) : S \in Halves(fresh)}

Set(u) ==
  /\ \E e \in IF entries[u] = Absent /\ Cardinality(Kept(entries)) >= MaxSize THEN Evicted ELSE {entries} :
       entries' = [e EXCEPT ![u] = clock]
  /\ UNCHANGED <<clock, nearbyCache, lookup>>

Get(u) == IF entries[u] = Absent \/ clock - entries[u] >= Ttl THEN Absent ELSE entries[u]

(* GetNearby: the cache is read, then the service is asked, without a lock.  *)
Miss(l, a) ==
  /\ lookup[l] = NoArea
  /\ nearbyCache[a] = Absent \/ clock > nearbyCache[a]
  /\ lookup' = [lookup EXCEPT ![l] = a]
  /\ UNCHANGED <<clock, entries, nearbyCache>>

FailLookup(l) ==
  /\ lookup[l] # NoArea
  /\ lookup' = [lookup EXCEPT ![l] = NoArea]
  /\ UNCHANGED <<clock, entries, nearbyCache>>

Cached(c) == {a \in Areas : c[a] # Absent}
Found(l) ==
  /\ lookup[l] # NoArea
  /\ LET full == Cardinality(Cached(nearbyCache)) >= MaxEntries
         kept == [a \in Areas |-> IF full /\ clock > nearbyCache[a] THEN Absent ELSE nearbyCache[a]]
     IN nearbyCache' = [kept EXCEPT ![lookup[l]] = clock + NearbyTtl]
  /\ lookup' = [lookup EXCEPT ![l] = NoArea]
  /\ UNCHANGED <<clock, entries>>

CachesNext ==
  \/ CacheTick
  \/ \E u \in Travellers : Set(u)
  \/ \E l \in Lookups : FailLookup(l) \/ Found(l) \/ \E a \in Areas : Miss(l, a)

CachesSpec == CachesInit /\ [][CachesNext]_cacheVars

(* What an eviction may lose: the cache of positions stays within its size,  *)
(* and no write loses a position that is newer than one it keeps, nor, while *)
(* something stale is there, one that a chat would still have used           *)
(* (location/cache.go:120-163).                                              *)
LosesOldest ==
  LET lost == Kept(entries) \ Kept(entries') IN
    /\ Cardinality(Kept(entries')) <= MaxSize
    /\ \A u \in lost, v \in Kept(entries') : entries[u] <= entries'[v]
    /\ (\E u \in lost : Get(u) # Absent) =>
         /\ Cardinality(Kept(entries)) - Cardinality(Stale(entries)) >= MaxSize
         /\ 2 * Cardinality(Kept(entries')) >= MaxSize
=============================================================================
