----------------------------- MODULE LocationHook -----------------------------
(* The companion screen's tracking of the position, useLocation of           *)
(* lib/hooks/useLocation.ts with the buttons of app/(tabs)/companion.tsx, on *)
(* the web and on a phone.  A tab that the user leaves stays mounted.        *)
EXTENDS Naturals

CONSTANT MaxMounts   \* bound: times the screen is mounted

ASSUME LocationAssumption == MaxMounts \in Nat

Mounts == 1 .. MaxMounts
NoMount == 0

VARIABLES
  web,
  mounts, open, focused,   \* screens so far, the one that is mounted, whether its tab is shown
  tracking, permission, located,
  asked,                   \* a position of the browser is or was asked for
  interval, timers,        \* intervalRef of the mounted screen; the timers that run, by their screen
  starting                 \* startNativeTracking, by its screen: the await it has come to

hookScreen    == <<mounts, open, focused>>
locationState == <<tracking, permission, located>>
locationVars  == <<web, hookScreen, locationState, asked, interval, timers, starting>>

LocationInit ==
  /\ web \in BOOLEAN
  /\ mounts = 0 /\ open = NoMount /\ focused = FALSE
  /\ tracking = FALSE /\ permission = "prompt" /\ located = FALSE
  /\ asked = FALSE /\ interval = NoMount /\ timers = {}
  /\ starting = [m \in Mounts |-> "none"]

MountCompanion ==
  /\ open = NoMount /\ mounts < MaxMounts
  /\ mounts' = mounts + 1 /\ open' = mounts' /\ focused' = TRUE
  /\ tracking' = FALSE /\ permission' = "prompt" /\ located' = FALSE
  /\ asked' = FALSE /\ interval' = NoMount
  /\ UNCHANGED <<web, timers, starting>>

SwitchTab ==
  /\ open # NoMount
  /\ focused' = ~focused
  /\ UNCHANGED <<web, mounts, open, locationState, asked, interval, timers, starting>>

ClearTracking == timers' = timers \ {interval} /\ interval' = NoMount

(* The clean-up functions, of the hook and of the screen.                    *)
UnmountCompanion ==
  /\ open # NoMount
  /\ open' = NoMount /\ focused' = FALSE
  /\ ClearTracking
  /\ UNCHANGED <<web, mounts, locationState, asked, starting>>

(* The browser's answer to the query, and later changes.                     *)
BrowserSays(p) ==
  /\ web /\ open # NoMount
  /\ permission' = p
  /\ UNCHANGED <<web, hookScreen, tracking, located, asked, interval, timers, starting>>

(* The banner is shown while the permission is not known.                    *)
StartTracking ==
  /\ focused /\ permission = "prompt" /\ ~tracking
  /\ tracking' = TRUE
  /\ IF web THEN /\ asked' = TRUE /\ interval' = open /\ timers' = timers \cup {open}
                 /\ UNCHANGED starting
            ELSE /\ starting' = [starting EXCEPT ![open] = "permission"]
                 /\ UNCHANGED <<asked, interval, timers>>
  /\ UNCHANGED <<web, hookScreen, permission, located>>

WebPosition ==
  /\ asked /\ open # NoMount
  /\ located' = TRUE /\ permission' = "granted"
  /\ UNCHANGED <<web, hookScreen, tracking, asked, interval, timers, starting>>

MutWebDenied ==
  /\ asked /\ open # NoMount
  /\ permission' = "denied" /\ tracking' = FALSE
  /\ UNCHANGED <<web, hookScreen, located, asked, interval, timers, starting>>

WebDenied ==
  /\ asked /\ open # NoMount
  /\ permission' = "denied" /\ tracking' = FALSE
  /\ ClearTracking
  /\ UNCHANGED <<web, hookScreen, located, asked, starting>>

(* The await of the permission ends; states of a screen that is gone are not *)
(* set any more.                                                             *)
NativePermission(m) ==
  /\ starting[m] = "permission"
  /\ \E answer \in {"granted", "denied", "failed"} :
       /\ starting' = [starting EXCEPT ![m] = IF answer = "granted" THEN "position" ELSE "none"]
       /\ permission' = IF m = open /\ answer # "failed" THEN answer ELSE permission
       /\ tracking' = (tracking /\ (m = open => answer = "granted"))
  /\ UNCHANGED <<web, hookScreen, located, asked, interval, timers>>

(* The first position has come or has failed; the timer is set either way.   *)
NativePosition(m) ==
  /\ starting[m] = "position"
  /\ starting' = [starting EXCEPT ![m] = "none"]
  /\ located' \in IF m = open THEN {located, TRUE} ELSE {located}
  /\ timers' = timers \cup {m} /\ interval' = IF m = open THEN m ELSE interval
  /\ UNCHANGED <<web, hookScreen, tracking, permission, asked>>

(* Later positions of a phone.                                               *)
NativeTick ==
  /\ ~web /\ open \in timers
  /\ located' = TRUE
  /\ UNCHANGED <<web, hookScreen, tracking, permission, asked, interval, timers, starting>>

(* The indicator that is also the button.                                    *)
StopTracking ==
  /\ focused /\ tracking /\ located
  /\ tracking' = FALSE
  /\ ClearTracking
  /\ UNCHANGED <<web, hookScreen, permission, located, asked, starting>>

LocationNext ==
  \/ MountCompanion \/ SwitchTab \/ UnmountCompanion
  \/ \E p \in {"prompt", "granted", "denied"} : BrowserSays(p)
  \/ StartTracking \/ WebPosition \/ WebDenied \/ NativeTick \/ StopTracking
  \/ \E m \in Mounts : NativePermission(m) \/ NativePosition(m)

LocationSpec == LocationInit /\ [][LocationNext]_locationVars

(* With the types: the ref of a mounted screen is its running timer or       *)
(* nothing, and without a screen it is nothing (useLocation.ts:97-102).     *)
LocationTypeOK ==
  /\ {web, focused, tracking, located, asked} \subseteq BOOLEAN
  /\ mounts \in 0 .. MaxMounts /\ open \in {NoMount, mounts}
  /\ permission \in {"prompt", "granted", "denied"}
  /\ starting \in [Mounts -> {"none", "permission", "position"}]
  /\ timers \subseteq Mounts /\ interval \in {NoMount} \cup (timers \cap {open})

(* The screen says that it follows the position exactly while it does, or is *)
(* about to, whatever the permission, the browser and the buttons do         *)
(* (useLocation.ts:148-237).                                                 *)
IndicatorIsTrue ==
  open # NoMount => (tracking <=> open \in timers \/ starting[open] # "none")
=============================================================================
