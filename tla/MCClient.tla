------------------------------- MODULE MCClient -------------------------------
(* An instance of the app: the messages of a chat in one trip, its moves     *)
(* between two trips, the offline copy, and the tracking of the position.  A *)
(* behaviour is one of them, chosen at the start, so that the states are     *)
(* added and not multiplied.                                                 *)
EXTENDS ChatHook, OfflineCopy, LocationHook

CONSTANTS lisbon, kyoto, index, noTime

VARIABLE focus

vars == <<focus, hookVars, offlineVars, locationVars>>

TwoTrips  == {lisbon, kyoto}
OneScreen == {index}
TwoSyncs  == {1, 2}

Init ==
  /\ focus \in {"messages", "trips", "copy", "position"}
  /\ HookInit /\ OfflineInit /\ LocationInit
  /\ focus # "position" => web

(* A screen that is left before anything was sent leaves nothing behind.     *)
Used == moves' = 2 => \E k \in Sends : pc[k] # "idle"

(* The first screen has no history to wait for; what is said makes no        *)
(* difference to how streams, trips and screens meet, nor does a second      *)
(* error.  The provider fails the first message with the two errors of the   *)
(* server, and the second with one; a third would be that of a panic.        *)
Told(n)  == \A k \in Sends : errors'[k] <= IF k = 1 THEN n ELSE n - 1
Messages == HookNext /\ Used /\ Told(2) /\ trip' \in {lisbon, NoTrip} /\ (early' => moves = 2)
Moves    == /\ HookNext /\ Used /\ Told(1) /\ (\A k \in Sends : said'[k] = NoText)
            /\ (moves' = 1 => trip' = lisbon)

Next ==
  \/ focus = "messages" /\ Messages /\ UNCHANGED <<focus, offlineVars, locationVars>>
  \/ focus = "trips" /\ Moves /\ UNCHANGED <<focus, offlineVars, locationVars>>
  \/ focus = "copy" /\ OfflineNext /\ UNCHANGED <<focus, hookVars, locationVars>>
  \/ focus = "position" /\ LocationNext /\ UNCHANGED <<focus, hookVars, offlineVars>>

Spec == Init /\ [][Next]_vars /\ HookFair /\ OfflineFair
=============================================================================
