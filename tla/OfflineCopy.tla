----------------------------- MODULE OfflineCopy -----------------------------
(* The copy of a trip that the app keeps for use without a connection: the   *)
(* syncs of lib/offline/useOfflineSync.ts, which the screens of the trip     *)
(* start and which outlive them, and the handler of the bundle they fetch    *)
(* (handlers/bundle.go).  Time is the number of changes the trip has seen,   *)
(* and a copy is the time of the data it holds.                              *)
EXTENDS Naturals, FiniteSets

CONSTANTS
  Screens,
  Syncs,         \* bound: syncs under way at once
  MaxChanges,    \* bound: changes of the trip
  MaxFaults,     \* bound: failed fetches and reads, lost connections
  NoTime

ASSUME OfflineAssumption ==
  /\ MaxChanges \in Nat /\ MaxFaults \in Nat /\ NoTime \notin Nat

VARIABLES
  changes, stamp,   \* the trip: its changes, and updated_at of its own row
  online, faults,
  mounted,          \* the screens of the trip
  sync,             \* each sync: its step, the time it names, the answer it has got
  copy, meta        \* the storage: the bundle, and lastModified beside it

offlineVars == <<changes, stamp, online, faults, mounted, sync, copy, meta>>
tripVars    == <<changes, stamp>>
network     == <<online, faults>>
storage     == <<copy, meta>>

Idle   == [step |-> "idle", since |-> NoTime, stamp |-> NoTime, data |-> NoTime]
Times  == 0 .. MaxChanges
Partial == MaxChanges + 1   \* a bundle of which a part is missing is of no time

OfflineInit ==
  /\ changes = 0 /\ stamp = 0
  /\ online = TRUE /\ faults = 0
  /\ mounted = {}
  /\ sync = [k \in Syncs |-> Idle]
  /\ copy = NoTime /\ meta = NoTime

(* Items, bookings and messages change without touching the trip's row.      *)
Change ==
  /\ changes < MaxChanges
  /\ changes' = changes + 1
  /\ stamp' \in {stamp, changes'}
  /\ UNCHANGED <<network, mounted, sync, storage>>

Connection ==
  /\ \/ online /\ faults < MaxFaults /\ online' = FALSE /\ faults' = faults + 1
     \/ ~online /\ online' = TRUE /\ UNCHANGED faults
  /\ UNCHANGED <<tripVars, mounted, sync, storage>>

OpenScreen(s) ==
  /\ s \notin mounted
  /\ mounted' = mounted \cup {s}
  /\ UNCHANGED <<tripVars, network, sync, storage>>

CloseScreen(s) ==
  /\ s \in mounted
  /\ mounted' = mounted \ {s}
  /\ UNCHANGED <<tripVars, network, sync, storage>>

Step(k, from, new) ==
  /\ sync[k].step = from
  /\ sync' = [sync EXCEPT ![k] = new]
  /\ UNCHANGED <<tripVars, network, mounted>>

(* performSync, when a screen is opened, every five minutes and when the     *)
(* connection is back: it reads the time beside the copy.                    *)
BeginSync(k) ==
  /\ mounted # {} /\ online
  /\ Step(k, "idle", [Idle EXCEPT !.step = "asked", !.since = meta])
  /\ UNCHANGED storage

(* The app names the time in the query parameter last_modified; the handler *)
(* looks for the header If-Modified-Since, which the app never sends.        *)
MutIfModifiedSince(k) == sync[k].since
IfModifiedSince(k)    == NoTime

(* The trip's row is read first; it decides on the answer 304 and dates the  *)
(* bundle.                                                                   *)
NotModified(k) == IfModifiedSince(k) # NoTime /\ stamp <= IfModifiedSince(k)
LoadTrip(k) ==
  /\ online
  /\ Step(k, "asked", IF NotModified(k) THEN Idle ELSE [sync[k] EXCEPT !.step = "dated", !.stamp = stamp])
  /\ UNCHANGED storage

(* Then its items, bookings and messages.                                    *)
Assemble(k) ==
  /\ online
  /\ Step(k, "dated", [sync[k] EXCEPT !.step = "answered", !.data = changes])
  /\ UNCHANGED storage

(* If the places of the items, the bookings or the messages cannot be read,  *)
(* the bundle is sent without them, as if they were none.                    *)
AssemblePart(k) ==
  /\ online /\ faults < MaxFaults /\ faults' = faults + 1
  /\ sync[k].step = "dated"
  /\ sync' = [sync EXCEPT ![k].step = "answered", ![k].data = Partial]
  /\ UNCHANGED <<tripVars, online, mounted, storage>>

StoreBundle(k) ==
  /\ Step(k, "answered", [sync[k] EXCEPT !.step = "copied"])
  /\ copy' = sync[k].data
  /\ UNCHANGED meta

(* The bundle has no field lastModified, in whose place the app takes its    *)
(* own clock.                                                                *)
StoreMeta(k) ==
  /\ Step(k, "copied", Idle)
  /\ meta' = changes
  /\ UNCHANGED copy

(* An error of the server or the connection, at any time; the next sync      *)
(* starts over.                                                              *)
FailSync(k) ==
  /\ sync[k].step \in {"asked", "dated"} /\ (online => faults < MaxFaults)
  /\ sync' = [sync EXCEPT ![k] = Idle]
  /\ faults' = IF online THEN faults + 1 ELSE faults
  /\ UNCHANGED <<tripVars, online, mounted, storage>>

(* The app is closed between two steps; the storage stays.                   *)
Close ==
  /\ faults < MaxFaults /\ faults' = faults + 1
  /\ sync' = [k \in Syncs |-> Idle]
  /\ mounted' = {}
  /\ UNCHANGED <<tripVars, online, storage>>

SyncStep(k) ==
  \/ BeginSync(k) \/ LoadTrip(k) \/ Assemble(k) \/ AssemblePart(k) \/ StoreBundle(k) \/ StoreMeta(k)
  \/ FailSync(k)

OfflineNext ==
  \/ Change \/ Connection \/ Close
  \/ \E s \in Screens : OpenScreen(s) \/ CloseScreen(s)
  \/ \E k \in Syncs : SyncStep(k)

(* Timers fire, requests end, and the connection comes back.                 *)
OfflineFair == \A k \in Syncs : WF_offlineVars(SyncStep(k))
OfflineSpec == OfflineInit /\ [][OfflineNext]_offlineVars /\ OfflineFair

(* With the types: where a time is noted there is a copy, also if the app    *)
(* was closed between its two writes (useOfflineSync.ts:96-105).             *)
OfflineTypeOK ==
  /\ changes \in Times /\ stamp \in 0 .. changes /\ online \in BOOLEAN /\ faults \in 0 .. MaxFaults
  /\ mounted \subseteq Screens
  /\ \A k \in Syncs : sync[k].step \in {"idle", "asked", "dated", "answered", "copied"}
  /\ copy \in Times \cup {NoTime, Partial} /\ meta \in Times \cup {NoTime}
  /\ meta # NoTime => copy # NoTime

(* While a screen of the trip is open and there is a connection, the copy    *)
(* catches up with the last change, although syncs of several screens and    *)
(* periods overlap and an older or an incomplete answer may be stored last   *)
(* (useOfflineSync.ts:115-140).                                              *)
CopyCatchesUp ==
  \A s \in Screens : <>[](online /\ s \in mounted) => <>[](copy = changes)
=============================================================================
