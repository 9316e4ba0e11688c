----------------------------- MODULE ClientProofs -----------------------------
(* Proofs about the app, of the specification of MCClient: a step of the     *)
(* whole is a step of one part, and each part has an invariant of its own:   *)
(* LocationInv of the tracked position, HookInv of the chat, OfflineInv of   *)
(* the offline copy.  What the chat filters and merges are lists, so that    *)
(* facts about lists come before it.                                         *)
EXTENDS MCClient, FiniteSetTheorems, TLAPS

(***************************  the tracked position  **************************)
(* A screen has at most one of an await and a timer, the timer is the one    *)
(* its ref names, and only screens that were mounted have either.  A phone   *)
(* is asked for its permission once: after a timer or a position the banner  *)
(* that starts the tracking is gone.                                         *)
OnlyMounted == \A m \in Mounts : m \in timers \/ starting[m] # "none" => m <= mounts

MountedScreen ==
  /\ interval = IF open \in timers THEN open ELSE NoMount
  /\ open \in timers => starting[open] = "none"
  /\ IF web THEN starting[open] = "none"
     ELSE /\ starting[open] = "position" \/ open \in timers \/ located => permission = "granted"
          /\ located => starting[open] = "none"

LocationInv ==
  /\ LocationTypeOK /\ OnlyMounted /\ IndicatorIsTrue
  /\ open # NoMount => MountedScreen
  /\ (asked => web) /\ (focused => open # NoMount)
  /\ web => \A m \in Mounts : starting[m] = "none"

(* The hook before the first screen is mounted.                              *)
LEMMA InitLocation == LocationInit => LocationInv
<1> SUFFICES ASSUME LocationInit PROVE LocationInv
  OBVIOUS
<1> USE LocationAssumption DEF LocationInit, NoMount, Mounts
<1>1. LocationTypeOK
  <2>1. {web, focused, tracking, located, asked} \subseteq BOOLEAN
    BY Zenon
  <2>2. /\ mounts \in 0 .. MaxMounts /\ open \in {NoMount, mounts} /\ timers \subseteq Mounts
        /\ interval \in {NoMount} \cup (timers \cap {open})
        /\ permission \in {"prompt", "granted", "denied"}
        /\ starting \in [Mounts -> {"none", "permission", "position"}]
    OBVIOUS
  <2> QED
    BY <2>1, <2>2 DEF LocationTypeOK
<1>2. OnlyMounted /\ IndicatorIsTrue
  BY DEF OnlyMounted, IndicatorIsTrue
<1> QED
  BY <1>1, <1>2 DEF LocationInv

(* Each step of the hook, and of the two awaits of a phone, keeps it.        *)
LEMMA LocationStep == LocationInv /\ [LocationNext]_locationVars => LocationInv'
<1> SUFFICES ASSUME LocationInv, LocationNext \/ UNCHANGED locationVars PROVE LocationInv'
  OBVIOUS
<1> USE LocationAssumption DEF LocationInv, LocationTypeOK, OnlyMounted, MountedScreen, IndicatorIsTrue, NoMount, Mounts,
    hookScreen, locationState, ClearTracking
<1>1. CASE MountCompanion
  <2>1. /\ mounts \in Nat /\ open = NoMount /\ mounts < MaxMounts /\ mounts' = mounts + 1
        /\ open' = mounts + 1
        /\ open' \in Mounts /\ open' \notin timers /\ starting[open'] = "none"
    BY <1>1 DEF MountCompanion
  <2>2. LocationTypeOK'
    <3>1. {web, focused, tracking, located, asked}' \subseteq BOOLEAN
      BY <1>1 DEF MountCompanion
    <3>2. mounts' \in 0 .. MaxMounts /\ open' \in {NoMount, mounts'} /\ interval' = NoMount /\ permission' = "prompt"
      BY <1>1, <2>1 DEF MountCompanion
    <3> QED
      BY <1>1, <3>1, <3>2 DEF MountCompanion
  <2>3. OnlyMounted' /\ IndicatorIsTrue' /\ MountedScreen'
    BY <1>1, <2>1 DEF MountCompanion
  <2> QED
    BY <1>1, <2>2, <2>3 DEF MountCompanion
<1>2. CASE SwitchTab
  BY <1>2 DEF SwitchTab
<1>3. CASE UnmountCompanion
  BY <1>3 DEF UnmountCompanion
<1>4. ASSUME NEW p \in {"prompt", "granted", "denied"}, BrowserSays(p) PROVE LocationInv'
  BY <1>4 DEF BrowserSays
<1>5. CASE StartTracking
  <2>1. open \in Mounts /\ open # NoMount /\ open \notin timers /\ starting[open] = "none" /\ mounts \in Nat /\ open = mounts
    <3>1. open # NoMount
      BY <1>5 DEF StartTracking
    <3> QED
      BY <1>5, <3>1 DEF StartTracking
  <2>2. /\ tracking' = TRUE /\ permission = "prompt" /\ (web \/ ~located)
        /\ UNCHANGED <<web, mounts, open, focused, permission, located>>
    <3>1. web \in BOOLEAN /\ located \in BOOLEAN
      OBVIOUS
    <3> QED
      BY <1>5, <2>1, <3>1 DEF StartTracking
  <2>3. CASE web
    <3>1. asked' = TRUE /\ interval' = open /\ timers' = timers \cup {open} /\ starting' = starting
      BY <1>5, <2>3 DEF StartTracking
    <3>2. LocationTypeOK'
      BY <2>1, <2>2, <3>1
    <3>3. OnlyMounted' /\ MountedScreen' /\ IndicatorIsTrue'
      BY <2>1, <2>2, <2>3, <3>1
    <3> QED
      BY <2>1, <2>2, <2>3, <3>1, <3>2, <3>3
  <2>4. CASE ~web
    <3>1. /\ starting' = [starting EXCEPT ![open] = "permission"]
          /\ asked' = asked /\ interval' = interval /\ timers' = timers
      BY <1>5, <2>4 DEF StartTracking
    <3>2. LocationTypeOK'
      BY <2>1, <2>2, <3>1
    <3>3. OnlyMounted' /\ MountedScreen' /\ IndicatorIsTrue'
      BY <2>1, <2>2, <2>4, <3>1
    <3> QED
      BY <2>1, <2>2, <2>4, <3>1, <3>2, <3>3
  <2> QED
    BY <2>3, <2>4
<1>6. CASE WebPosition
  BY <1>6 DEF WebPosition
<1>7. CASE WebDenied
  <2>1. /\ web /\ web' = web /\ open \in Mounts /\ mounts' = mounts /\ open' = open
        /\ starting' = starting
        /\ interval' = NoMount /\ timers' = timers \ {interval} /\ permission' = "denied"
        /\ tracking' = FALSE
        /\ located' = located /\ focused' = focused /\ asked' = asked
    BY <1>7 DEF WebDenied
  <2>2. open \notin timers' /\ timers' \subseteq timers /\ starting[open] = "none"
    BY <2>1
  <2> QED
    BY <2>1, <2>2
<1>8. CASE NativeTick
  BY <1>8 DEF NativeTick
<1>9. CASE StopTracking
  BY <1>9 DEF StopTracking
<1>10. ASSUME NEW m \in Mounts, NativePermission(m) PROVE LocationInv'
  BY <1>10 DEF NativePermission
<1>11. ASSUME NEW m \in Mounts, NativePosition(m) PROVE LocationInv'
  <2>1. ~web /\ m \in 1 .. mounts /\ open \in {NoMount, mounts} /\ mounts \in Nat
    BY <1>11 DEF NativePosition
  <2>2. CASE m = open
    BY <1>11, <2>1, <2>2 DEF NativePosition
  <2>3. CASE m # open
    BY <1>11, <2>1, <2>3 DEF NativePosition
  <2> QED
    BY <2>2, <2>3
<1>12. CASE UNCHANGED locationVars
  BY <1>12 DEF locationVars
<1> QED
  BY <1>1, <1>2, <1>3, <1>4, <1>5, <1>6, <1>7, <1>8, <1>9, <1>10, <1>11, <1>12 DEF LocationNext

(**********************************  lists  **********************************)
(* Induction over a list, by the least number at which something fails: the  *)
(* induction theorems of the library cannot be instantiated here.            *)
Less == {pair \in Nat \X Nat : pair[1] < pair[2]}

(* The library states well-foundedness of a relation on pairs.               *)
LEMMA LessIsWellFounded == IsWellFoundedOn(Less, Nat)
  BY NatLessThanWellFounded DEF OpToRel, Less

(* Any set of numbers has a least one.                                       *)
LEMMA LeastIn ==
  ASSUME NEW S \in SUBSET Nat, S # {}
  PROVE  \E i \in S : \A j \in S : i <= j
<1>1. PICK i \in S : \A j \in S : ~(<<j, i>> \in Less)
  BY LessIsWellFounded, WFMin
<1>2. \A j \in S : ~ (j < i)
  BY <1>1 DEF Less
<1> QED
  BY <1>2

(* What holds at 0 and at the next holds at all: induction, over a set.      *)
LEMMA AllOf ==
  ASSUME NEW n \in Nat, NEW S, 0 \in S, \A i \in 0 .. n - 1 : i \in S => i + 1 \in S
  PROVE  0 .. n \subseteq S
<1> DEFINE Out == {i \in 0 .. n : i \notin S}
<1>1. SUFFICES ASSUME Out # {} PROVE FALSE
  OBVIOUS
<1>a. Out \in SUBSET Nat
  OBVIOUS
<1>2. PICK i \in Out : \A j \in Out : i <= j
  <2> HIDE DEF Out
  <2> QED
    BY <1>1, <1>a, LeastIn
<1>3. i # 0 /\ i \in 0 .. n
  BY <1>2
<1>4. i - 1 \in 0 .. n - 1 /\ i - 1 \notin Out
  BY <1>2, <1>3
<1> QED
  BY <1>2, <1>3, <1>4


(* A recursion over a list: F has its steps, g what they make of a.          *)
StepsOf(m, X, F) == F \in [1 .. m -> [X -> X]]
Takes(m, X, a, F, g) == g \in [0 .. m -> X] /\ g[0] = a /\ \A i \in 1 .. m : g[i] = F[i][g[i - 1]]

(* There is a function that follows the steps.                               *)
LEMMA Recursion ==
  ASSUME NEW m \in Nat, NEW X, NEW a \in X, NEW F, StepsOf(m, X, F)
  PROVE  \E g : Takes(m, X, a, F, g)
<1> USE DEF StepsOf
<1> DEFINE Upto(n, g) == g[0] = a /\ \A i \in 1 .. n : g[i] = F[i][g[i - 1]]
           Some == {n \in 0 .. m : \E g \in [0 .. n -> X] : Upto(n, g)}
<1>1. 0 \in Some
  <2>1. [i \in 0 .. 0 |-> a] \in [0 .. 0 -> X] /\ Upto(0, [i \in 0 .. 0 |-> a])
    OBVIOUS
  <2> HIDE DEF Upto
  <2> QED
    BY <2>1
<1>2. ASSUME NEW n \in 0 .. m - 1, n \in Some PROVE n + 1 \in Some
  <2>1. PICK g \in [0 .. n -> X] : Upto(n, g)
    BY <1>2
  <2> DEFINE next == F[n + 1][g[n]]
             h == [i \in 0 .. n + 1 |-> IF i = n + 1 THEN next ELSE g[i]]
  <2>2. next \in X
    OBVIOUS
  <2>3. h \in [0 .. n + 1 -> X] /\ h[n + 1] = next /\ \A i \in 0 .. n : h[i] = g[i]
    <3> HIDE DEF next
    <3> QED
      BY <2>2
  <2> HIDE DEF h
  <2>4. h[0] = a
    BY <2>1, <2>3
  <2>5. ASSUME NEW i \in 1 .. n + 1 PROVE h[i] = F[i][h[i - 1]]
    <3>1. CASE i = n + 1
      BY <2>3, <3>1
    <3>2. CASE i # n + 1
      <4>1. i \in 1 .. n /\ i \in 0 .. n /\ i - 1 \in 0 .. n
        BY <3>2
      <4> QED
        BY <2>1, <2>3, <4>1
    <3> QED
      BY <3>1, <3>2
  <2>6. Upto(n + 1, h) /\ n + 1 \in 0 .. m
    BY <2>4, <2>5
  <2> HIDE DEF Upto
  <2> QED
    BY <2>3, <2>6
<1>3. m \in Some
  <2>1. \A n \in 0 .. m - 1 : n \in Some => n + 1 \in Some
    BY <1>2
  <2> HIDE DEF Some
  <2>2. 0 .. m \subseteq Some
    BY <1>1, <2>1, AllOf
  <2> QED
    BY <2>2
<1> HIDE DEF Upto
<1>4. PICK g \in [0 .. m -> X] : Upto(m, g)
  BY <1>3
<1> QED
  BY <1>4 DEF Upto, Takes

(* Sublist goes through its list.                                            *)
LEMMA SublistSteps ==
  ASSUME NEW T, NEW list \in Seq(T), NEW S
  PROVE  \E g : /\ g[0] = <<>> /\ g[Len(list)] = Sublist(list, S)
                /\ \A i \in 1 .. Len(list) :
                     g[i] = IF list[i] \in S THEN Append(g[i - 1], list[i]) ELSE g[i - 1]
<1> DEFINE m == Len(list)
           F == [i \in 1 .. m |-> [x \in Seq(T) |-> IF list[i] \in S THEN Append(x, list[i]) ELSE x]]
           Follows(h) == h = [n \in 0 .. Len(list) |-> IF n = 0 THEN <<>>
                  ELSE IF list[n] \in S THEN Append(h[n - 1], list[n]) ELSE h[n - 1]]
           k == CHOOSE h : Follows(h)
<1>1. m \in Nat /\ 0 \in 0 .. m /\ <<>> \in Seq(T) /\ StepsOf(m, Seq(T), F)
  BY DEF StepsOf
<1>2. PICK g : Takes(m, Seq(T), <<>>, F, g)
  <2> HIDE DEF m, F
  <2> QED
    BY <1>1, Recursion
<1>3. \A i \in 1 .. m : i \in 0 .. m /\ i - 1 \in 0 .. m /\ i # 0
  BY <1>1
<1>4. Follows(g)
  <2>1. \A i \in 1 .. m : g[i] = IF list[i] \in S THEN Append(g[i - 1], list[i]) ELSE g[i - 1]
    <3> SUFFICES ASSUME NEW i \in 1 .. m
                 PROVE  g[i] = IF list[i] \in S THEN Append(g[i - 1], list[i]) ELSE g[i - 1]
      OBVIOUS
    <3>1. g[i - 1] \in Seq(T) /\ g[i] = F[i][g[i - 1]]
      BY <1>2, <1>3 DEF Takes
    <3> QED
      BY <3>1
  <2>2. \A n \in 0 .. m : n # 0 => n \in 1 .. m
    BY <1>1
  <2> HIDE DEF F
  <2> QED
    BY <1>2, <2>1, <2>2 DEF Takes
<1>5. Sublist(list, S) = k[Len(list)]
  BY DEF Sublist
<1>6. Follows(k)
  <2> HIDE DEF Follows
  <2> QED
    BY <1>4
<1> HIDE DEF k, F
<1>7. k[0] = <<>> /\ \A n \in 1 .. m : k[n] = IF list[n] \in S THEN Append(k[n - 1], list[n]) ELSE k[n - 1]
  <2> HIDE DEF m
  <2> QED
    BY <1>1, <1>3, <1>6 DEF m
<1> QED
  BY <1>5, <1>7

(* Out is what S has of the first n entries of list: h tells their places.   *)
Picked(list, S, n, out, h) ==
  /\ h \in [1 .. Len(out) -> 1 .. n]
  /\ \A i \in 1 .. Len(out) : out[i] = list[h[i]] /\ out[i] \in S
  /\ \A i, j \in 1 .. Len(out) : i < j => h[i] < h[j]
  /\ \A l \in 1 .. n : list[l] \in S => \E i \in 1 .. Len(out) : h[i] = l

(* Sublist picks the entries that are in the set, in their order.            *)
LEMMA SublistIsPicked ==
  ASSUME NEW T, NEW list \in Seq(T), NEW S
  PROVE  /\ Sublist(list, S) \in Seq(T)
         /\ \E h : Picked(list, S, Len(list), Sublist(list, S), h)
<1> DEFINE m == Len(list)
<1>1. m \in Nat
  OBVIOUS
<1>2. PICK g : /\ g[0] = <<>> /\ g[m] = Sublist(list, S)
               /\ \A i \in 1 .. m :
                    g[i] = IF list[i] \in S THEN Append(g[i - 1], list[i]) ELSE g[i - 1]
  BY SublistSteps
<1> DEFINE Some == {n \in 0 .. m : g[n] \in Seq(T) /\ \E h : Picked(list, S, n, g[n], h)}
<1>3. 0 \in Some
  <2>1. Picked(list, S, 0, g[0], [i \in 1 .. 0 |-> 1])
    BY <1>2 DEF Picked
  <2>2. g[0] \in Seq(T)
    BY <1>2
  <2> QED
    BY <1>1, <2>1, <2>2
<1>4. ASSUME NEW n \in 0 .. m - 1, n \in Some PROVE n + 1 \in Some
  <2> DEFINE a == g[n]
             b == g[n + 1]
             c == Len(a)
  <2>1. /\ n \in 0 .. m /\ n + 1 \in 0 .. m /\ n + 1 \in 1 .. m /\ n \in Nat
        /\ a \in Seq(T) /\ b \in Seq(T) /\ c \in Nat /\ list[n + 1] \in T
        /\ b = IF list[n + 1] \in S THEN Append(a, list[n + 1]) ELSE a
    <3>1. n + 1 \in 1 .. m /\ (n + 1) - 1 = n /\ a \in Seq(T)
      BY <1>1, <1>4
    <3>2. b = IF list[n + 1] \in S THEN Append(a, list[n + 1]) ELSE a
      BY <1>2, <3>1
    <3> HIDE DEF a, b
    <3> QED
      BY <1>1, <3>1, <3>2 DEF m
  <2>2. PICK h : Picked(list, S, n, a, h)
    BY <1>4
  <2>3. \E f : Picked(list, S, n + 1, b, f)
    <3> HIDE DEF a, b, m
    <3>1. CASE list[n + 1] \notin S
      <4>1. Picked(list, S, n + 1, b, h)
        BY <2>1, <2>2, <3>1 DEF Picked
      <4> QED
        BY <4>1
    <3>2. CASE list[n + 1] \in S
      <4> DEFINE f == [i \in 1 .. c + 1 |-> IF i = c + 1 THEN n + 1 ELSE h[i]]
      <4>1. /\ Len(b) = c + 1 /\ b[c + 1] = list[n + 1]
            /\ \A i \in 1 .. c : b[i] = a[i]
        BY <2>1, <3>2
      <4>2. /\ f \in [1 .. c + 1 -> 1 .. n + 1] /\ f[c + 1] = n + 1
            /\ \A i \in 1 .. c : f[i] = h[i] /\ i \in 1 .. c + 1
        BY <2>1, <2>2 DEF Picked
      <4>a. \A i \in 1 .. c + 1 : i = c + 1 \/ i \in 1 .. c
        BY <2>1
      <4> HIDE DEF f, c
      <4>3. \A i \in 1 .. c + 1 : b[i] = list[f[i]] /\ b[i] \in S
        BY <2>2, <3>2, <4>1, <4>2, <4>a DEF Picked, c
      <4>4. \A i, j \in 1 .. c + 1 : i < j => f[i] < f[j]
        <5> SUFFICES ASSUME NEW i \in 1 .. c + 1, NEW j \in 1 .. c + 1, i < j PROVE f[i] < f[j]
          OBVIOUS
        <5>1. i \in 1 .. c /\ c \in Nat
          BY <2>1, <4>a
        <5>2. CASE j = c + 1
          <6>1. f[i] = h[i] /\ h[i] \in 1 .. n /\ f[j] = n + 1
            BY <2>2, <4>2, <5>1, <5>2 DEF Picked, c
          <6> QED
            BY <2>1, <6>1
        <5>3. CASE j \in 1 .. c
          BY <2>2, <4>2, <5>1, <5>3 DEF Picked, c
        <5> QED
          BY <4>a, <5>2, <5>3
      <4>5. \A l \in 1 .. n + 1 : list[l] \in S => \E i \in 1 .. c + 1 : f[i] = l
        <5> SUFFICES ASSUME NEW l \in 1 .. n + 1, list[l] \in S PROVE \E i \in 1 .. c + 1 : f[i] = l
          OBVIOUS
        <5>1. CASE l = n + 1
          BY <2>1, <4>2, <5>1 DEF c
        <5>2. CASE l # n + 1
          <6>1. l \in 1 .. n
            BY <2>1, <5>2
          <6>2. PICK i \in 1 .. c : h[i] = l
            BY <2>2, <6>1 DEF Picked, c
          <6> QED
            BY <4>2, <6>2
        <5> QED
          BY <5>1, <5>2
      <4>6. Picked(list, S, n + 1, b, f)
        BY <4>1, <4>2, <4>3, <4>4, <4>5 DEF Picked
      <4> QED
        BY <4>6
    <3> QED
      BY <3>1, <3>2
  <2> QED
    BY <2>1, <2>3
<1>5. 0 .. m \subseteq Some
  <2>1. \A n \in 0 .. m - 1 : n \in Some => n + 1 \in Some
    BY <1>4
  <2> HIDE DEF Some, m
  <2> QED
    BY <1>1, <1>3, <2>1, AllOf
<1>6. m \in Some /\ g[m] \in Seq(T)
  BY <1>1, <1>5
<1> QED
  BY <1>2, <1>6

(* Out is what S has of list: the same entries, in the same order.           *)
PicksOf(list, S, out) ==
  /\ \A i \in 1 .. Len(out) : out[i] \in S /\ \E k \in 1 .. Len(list) : out[i] = list[k]
  /\ \A k \in 1 .. Len(list) : list[k] \in S => \E i \in 1 .. Len(out) : out[i] = list[k]
  /\ \A i, j \in 1 .. Len(out) : i < j =>
       \E k, l \in 1 .. Len(list) : k < l /\ out[i] = list[k] /\ out[j] = list[l]

(* Sublist returns it.                                                       *)
LEMMA SublistPicks ==
  ASSUME NEW T, NEW list \in Seq(T), NEW S
  PROVE  Sublist(list, S) \in Seq(T) /\ PicksOf(list, S, Sublist(list, S))
<1> DEFINE out == Sublist(list, S)
<1>1. out \in Seq(T) /\ \E h : Picked(list, S, Len(list), out, h)
  BY SublistIsPicked
<1> HIDE DEF out
<1>2. PICK h : Picked(list, S, Len(list), out, h)
  BY <1>1
<1>3. \A i \in 1 .. Len(out) : h[i] \in 1 .. Len(list) /\ out[i] = list[h[i]] /\ out[i] \in S
  BY <1>2 DEF Picked
<1>4. \A i, j \in 1 .. Len(out) : i < j =>
        \E k, l \in 1 .. Len(list) : k < l /\ out[i] = list[k] /\ out[j] = list[l]
  <2> SUFFICES ASSUME NEW i \in 1 .. Len(out), NEW j \in 1 .. Len(out), i < j
               PROVE  \E k, l \in 1 .. Len(list) : k < l /\ out[i] = list[k] /\ out[j] = list[l]
    OBVIOUS
  <2>1. h[i] < h[j]
    BY <1>2 DEF Picked
  <2> QED
    BY <1>3, <2>1
<1>5. \A k \in 1 .. Len(list) : list[k] \in S => \E i \in 1 .. Len(out) : out[i] = list[k]
  BY <1>2, <1>3 DEF Picked
<1> QED
  BY <1>1, <1>3, <1>4, <1>5 DEF PicksOf, out

(***************************  what the chat shows  ***************************)
(* A list shows history, what the hook made itself, and bubbles of deltas.   *)
ServerRows == [who : {"user", "assistant"}, of : Sends, origin : {FromServer}, text : SUBSET Frags]
HookNotes  == [who : {"user", "error"}, of : Sends, origin : {FromHook}, text : {NoText}]
Bubbles    == {m \in [who : {"assistant"}, of : Sends, origin : Sends \X Nat, text : SUBSET Frags] :
                 m.of = m.origin[1]}
Entries    == ServerRows \cup HookNotes \cup Bubbles

(* The trip's screen sent k; deltas of k fill its bubble; k's text is final. *)
Here(k)  == trip # NoTrip /\ pc[k] # "idle" /\ sent[k].move = moves
Live(k)  == pc[k] = "listening" \/ (pc[k] = "told" /\ phase[k] = "failed")
Ended(k) == pc[k] = "done" \/ (pc[k] \in {"told", "failed"} /\ phase[k] = "answered")

(* What may stand behind what.                                               *)
Follows(m, n) == ~Same(m, n) /\ (m.of = n.of => n.who # "user")
Mine(m)       == m.origin # FromServer

ScreenTypes ==
  /\ trip \in Trips \cup {NoTrip} /\ moves \in 0 .. MaxMoves /\ mount \in 0 .. moves
  /\ trip # NoTrip => mount >= 1
  /\ hydration = Unread \/ load # "none" \/ historyError => trip # NoTrip
  /\ hydration \in 0 .. Settled /\ load \in {"none", "asked", "answered"}
StreamTypes ==
  /\ phase \in [Sends -> {"idle", "open", "answered", "failed", "cut"}]
  /\ said \in [Sends -> SUBSET Frags] /\ shown \in [Sends -> SUBSET Frags]
  /\ errors \in [Sends -> Nat]
StoreTypes ==
  /\ rows \in [Sends -> Seq(ServerRows)]
  /\ latest \in [Trips -> 0 .. MaxSends] /\ persisted \in [Trips -> 0 .. MaxSends]
SendTypes ==
  /\ pc \in [Sends -> {"idle", "sent", "opened", "listening", "told", "done", "failed"}]
  /\ sent \in [Sends -> [trip : Trips \cup {NoTrip}, session : 0 .. MaxSends, move : 0 .. moves]]
GuardTypes ==
  /\ sessionId \in 0 .. MaxSends /\ controller \in 0 .. MaxSends /\ lastFailed \in 0 .. MaxSends
  /\ {isSending, isStreaming, historyError, early, disturbed} \subseteq BOOLEAN
  /\ isSending = isStreaming
ListTypes ==
  /\ bubble \in {NoBubble} \cup (Sends \X Nat)
  /\ page \in Seq(ServerRows) /\ messages \in Seq(Entries)
HookTypes == ScreenTypes /\ StreamTypes /\ StoreTypes /\ SendTypes /\ GuardTypes /\ ListTypes

(* A message that was not sent is nowhere; the steps of the client follow    *)
(* the steps of the server.                                                  *)
StepsHold ==
  /\ controller # NoSend => pc[controller] # "idle"
  /\ \A k \in Sends :
       /\ pc[k] = "idle" => phase[k] = "idle" /\ sent[k].move = 0
       /\ pc[k] # "idle" => sent[k].trip \in Trips
       /\ pc[k] \in {"idle", "sent", "opened"} => said[k] = NoText
       /\ pc[k] = "sent" => phase[k] \in {"idle", "cut"}
       /\ pc[k] = "opened" => phase[k] \in {"open", "answered"}
       /\ pc[k] = "listening" => phase[k] \in {"open", "answered", "cut"}
       /\ pc[k] = "told" => phase[k] \in {"answered", "failed"}
       /\ pc[k] \in {"idle", "sent", "opened", "listening"} => errors[k] = 0
       /\ pc[k] = "done" => phase[k] \in {"answered", "failed", "cut"}

(* A question is the first row of its turn, and later answers go on from     *)
(* earlier ones.                                                             *)
RowFollows(m, n) ==
  m.of = n.of => n.who # "user" /\ (m.who = "assistant" => m.text \subseteq n.text)
RowsGrow(list) == \A i, j \in 1 .. Len(list) : i < j => RowFollows(list[i], list[j])
RowsHold ==
  /\ \A s \in Sends : /\ RowsGrow(rows[s])
                      /\ \A i \in 1 .. Len(rows[s]) : LET m == rows[s][i] IN
                           /\ phase[m.of] # "idle"
                           /\ m.who = "assistant" /\ phase[m.of] = "open" => m.text \subseteq said[m.of]
  /\ RowsGrow(page) /\ \A i \in 1 .. Len(page) : pc[page[i].of] # "idle"

(* While no change of trip disturbs it: the button and the guards belong to  *)
(* the stream that runs, and so does the bubble.                             *)
GuardsHold ==
  /\ \A k \in Sends : Running(k) /\ Alive(k) => sent[k].move = moves /\ controller = k
  /\ controller # NoSend => Running(controller) /\ Alive(controller)
  /\ isStreaming = (controller # NoSend)
  /\ bubble # NoBubble => controller # NoSend /\ bubble[1] = controller /\ Live(controller)

(* What the hook made, and what it loaded.                                   *)
Own == {m \in ToSet(messages) : Mine(m)}
Old == {m \in ToSet(messages) : ~Mine(m)}

(* What the hook shows is of this visit: of each message its question, and   *)
(* the text as far as it is known.                                           *)
Fits(m) ==
  /\ Here(m.of)
  /\ m.who = "assistant" => /\ m.text # NoText
                            /\ \/ Live(m.of) /\ m.origin = bubble /\ m.text = said[m.of]
                               \/ Ended(m.of) /\ m.text = Full(m.of)
HookFits == \A m \in Own : Fits(m)
Showing(k, who) == \E m \in Own : m.of = k /\ m.who = who
Shows(k) ==
  /\ Showing(k, "user")
  /\ Live(k) => (bubble # NoBubble \/ said[k] = NoText)
  /\ Live(k) /\ bubble # NoBubble => Showing(k, "assistant")
  /\ pc[k] = "done" \/ (pc[k] = "told" /\ phase[k] = "answered") => Full(k) = NoText \/ Showing(k, "assistant")
HookShows == \A k \in Sends : Here(k) => Shows(k)

(* And an apology for each error that was told of, and one for the end.      *)
Apologies(list, k) == {i \in DOMAIN list : list[i].of = k /\ list[i].who = "error" /\ Mine(list[i])}
Due(k)     == errors[k] + (IF pc[k] = "failed" THEN 1 ELSE 0)
CountsHold == \A k \in Sends : Here(k) => Cardinality(Apologies(messages, k)) = Due(k)

(* History stands first; each is shown once, and after its question.         *)
Ordered(m, n) ==
  /\ ~Mine(n) => ~Mine(m)
  /\ ~disturbed /\ Mine(m) /\ Mine(n) => Follows(m, n)
  /\ ~disturbed /\ ~early /\ ~Mine(m) /\ ~Mine(n) => Follows(m, n)
AllOrdered == \A i, j \in 1 .. Len(messages) : i < j => Ordered(messages[i], messages[j])

(* To a user who waits for it, history is of other messages.                 *)
HistoryHolds ==
  /\ load # "none" \/ historyError => messages = <<>> /\ \A k \in Sends : ~Here(k)
  /\ \A m \in Old : ~Here(m.of) /\ pc[m.of] # "idle"

HookInv ==
  /\ HookTypes /\ StepsHold /\ RowsHold /\ AllOrdered
  /\ ~disturbed => GuardsHold /\ HookFits /\ HookShows /\ CountsHold
  /\ ~disturbed /\ ~early => HistoryHolds

(* The list is made of the first n rows, and each message is in it once.     *)
Reads(list, rs, n) ==
  /\ list \in Seq(ServerRows)
  /\ \A i \in 1 .. Len(list) : \E k \in 1 .. n : list[i] = rs[k]
  /\ \A i, j \in 1 .. Len(list) : i < j => Follows(list[i], list[j])

(* One more row is merged into the list.                                     *)
LEMMA MergedReads ==
  ASSUME NEW rs \in Seq(ServerRows), RowsGrow(rs), NEW n \in 0 .. Len(rs) - 1, NEW list,
         Reads(list, rs, n)
  PROVE  Reads(Merged(list, rs[n + 1]), rs, n + 1)
<1> DEFINE r == rs[n + 1]
           m == Len(list)
           twins == {i \in 1 .. m : Begins(list[i], r) \/ Begins(r, list[i])}
<1>1. /\ n \in Nat /\ n + 1 \in 1 .. Len(rs) /\ r \in ServerRows
      /\ list \in Seq(ServerRows) /\ m \in Nat /\ DOMAIN list = 1 .. m
  BY DEF Reads
<1>2. \A i \in 1 .. m : list[i] \in ServerRows /\ RowFollows(list[i], r)
  <2> SUFFICES ASSUME NEW i \in 1 .. m PROVE list[i] \in ServerRows /\ RowFollows(list[i], r)
    OBVIOUS
  <2>1. PICK k \in 1 .. n : list[i] = rs[k]
    BY DEF Reads
  <2>2. k \in 1 .. Len(rs) /\ k < n + 1
    BY <1>1
  <2> QED
    BY <1>1, <2>1, <2>2 DEF RowsGrow
<1>3. 1 .. n \subseteq 1 .. n + 1 /\ n + 1 \in 1 .. n + 1
  BY <1>1
<1>4. /\ \A i \in 1 .. m : \E k \in 1 .. n + 1 : list[i] = rs[k]
      /\ \A i, j \in 1 .. m : i < j => Follows(list[i], list[j])
  BY <1>3 DEF Reads
<1> HIDE DEF m, r
<1>5. CASE twins = {}
  <2>1. Merged(list, r) = Append(list, r)
    BY <1>1, <1>5 DEF Merged
  <2> DEFINE out == Append(list, r)
  <2>2. out \in Seq(ServerRows) /\ Len(out) = m + 1 /\ out[m + 1] = r /\ \A i \in 1 .. m : out[i] = list[i]
    BY <1>1 DEF m
  <2>3. \A i \in 1 .. m + 1 : i \in 1 .. m \/ i = m + 1
    BY <1>1
  <2> HIDE DEF out
  <2>4. ASSUME NEW i \in 1 .. m PROVE Follows(list[i], r)
    <3>1. ~Begins(list[i], r)
      BY <1>5
    <3>2. list[i].who \in {"user", "assistant"} /\ r.who \in {"user", "assistant"} /\ RowFollows(list[i], r)
      BY <1>1, <1>2 DEF ServerRows
    <3> QED
      BY <3>1, <3>2 DEF Begins, RowFollows, Follows, Same
  <2>5. \A i, j \in 1 .. m + 1 : i < j => Follows(out[i], out[j])
    <3> SUFFICES ASSUME NEW i \in 1 .. m + 1, NEW j \in 1 .. m + 1, i < j
                 PROVE  Follows(out[i], out[j])
      OBVIOUS
    <3>1. i \in 1 .. m
      BY <1>1
    <3> QED
      BY <1>4, <2>2, <2>3, <2>4, <3>1
  <2>6. \A i \in 1 .. m + 1 : \E k \in 1 .. n + 1 : out[i] = rs[k]
    BY <1>3, <1>4, <2>2, <2>3 DEF r
  <2> QED
    BY <2>1, <2>2, <2>5, <2>6 DEF Reads, out, r
<1>6. CASE twins # {}
  <2> DEFINE t == Min(twins)
             out == [list EXCEPT ![t] = r]
  <2>1. t \in twins
    <3>1. twins \in SUBSET Nat
      BY <1>1
    <3> HIDE DEF twins
    <3>2. \E x \in twins : \A y \in twins : x <= y
      BY <1>6, <3>1, LeastIn
    <3> QED
      BY <3>2 DEF Min
  <2>2. Merged(list, r) = IF Begins(list[t], r) THEN out ELSE list
    BY <1>1, <1>6 DEF Merged
  <2> HIDE DEF t
  <2>3. t \in 1 .. m /\ list[t].of = r.of /\ list[t].who = r.who
    BY <2>1 DEF Begins
  <2>4. out \in Seq(ServerRows) /\ Len(out) = m /\ \A i \in 1 .. m : out[i] = IF i = t THEN r ELSE list[i]
    BY <1>1, <2>3 DEF m
  <2> HIDE DEF out
  <2>5. \A i \in 1 .. m : out[i].of = list[i].of /\ out[i].who = list[i].who
    BY <2>3, <2>4
  <2>6. \A i, j \in 1 .. m : i < j => Follows(out[i], out[j])
    BY <1>4, <2>5 DEF Follows, Same
  <2>7. \A i \in 1 .. m : \E k \in 1 .. n + 1 : out[i] = rs[k]
    <3>1. r = rs[n + 1]
      BY DEF r
    <3>2. \A i \in 1 .. m : out[i] = r \/ out[i] = list[i]
      BY <2>4
    <3> QED
      BY <1>3, <1>4, <3>1, <3>2
  <2>8. Reads(out, rs, n + 1)
    BY <2>4, <2>6, <2>7 DEF Reads
  <2>9. Reads(list, rs, n + 1)
    BY <1>1, <1>4 DEF Reads, m
  <2> QED
    BY <2>2, <2>8, <2>9 DEF r
<1> QED
  BY <1>5, <1>6

(* Deduped goes through the rows.                                            *)
LEMMA DedupedReads ==
  ASSUME NEW rs \in Seq(ServerRows), RowsGrow(rs)
  PROVE  Reads(Deduped(rs), rs, Len(rs))
<1> DEFINE m == Len(rs)
           Follow(h) == h = [n \in 0 .. Len(rs) |-> IF n = 0 THEN <<>> ELSE Merged(h[n - 1], rs[n])]
           k == CHOOSE h : Follow(h)
           F == [i \in 1 .. m |-> [x \in Seq(ServerRows) |-> Merged(x, rs[i])]]
<1>1. m \in Nat /\ 0 \in 0 .. m /\ <<>> \in Seq(ServerRows)
  OBVIOUS
<1>2. ASSUME NEW x \in Seq(ServerRows), NEW r \in ServerRows PROVE Merged(x, r) \in Seq(ServerRows)
  <2> DEFINE out(t) == [x EXCEPT ![t] = r]
  <2>1. Append(x, r) \in Seq(ServerRows)
    OBVIOUS
  <2>2. \A t : out(t) \in Seq(ServerRows)
    <3> SUFFICES ASSUME NEW t PROVE out(t) \in Seq(ServerRows)
      OBVIOUS
    <3>1. Len(x) \in Nat /\ x \in [1 .. Len(x) -> ServerRows]
      OBVIOUS
    <3>2. out(t) \in [1 .. Len(x) -> ServerRows]
      BY <3>1
    <3> HIDE DEF out
    <3> QED
      BY <3>1, <3>2
  <2> HIDE DEF out
  <2> QED
    BY <2>1, <2>2 DEF Merged, out
<1>3. StepsOf(m, Seq(ServerRows), F)
  <2>1. \A i \in 1 .. m : [x \in Seq(ServerRows) |-> Merged(x, rs[i])] \in [Seq(ServerRows) -> Seq(ServerRows)]
    BY <1>2
  <2> QED
    BY <2>1 DEF StepsOf
<1>4. PICK g : Takes(m, Seq(ServerRows), <<>>, F, g)
  <2> HIDE DEF m, F
  <2> QED
    BY <1>1, <1>3, Recursion
<1>5. \A i \in 1 .. m : i \in 0 .. m /\ i - 1 \in 0 .. m /\ i # 0
  BY <1>1
<1>6. Follow(g)
  <2>1. \A i \in 1 .. m : g[i] = Merged(g[i - 1], rs[i])
    <3> SUFFICES ASSUME NEW i \in 1 .. m PROVE g[i] = Merged(g[i - 1], rs[i])
      OBVIOUS
    <3>1. g[i - 1] \in Seq(ServerRows) /\ g[i] = F[i][g[i - 1]]
      BY <1>4, <1>5 DEF Takes
    <3> QED
      BY <3>1
  <2>2. \A n \in 0 .. m : n # 0 => n \in 1 .. m
    BY <1>1
  <2> HIDE DEF F
  <2> QED
    BY <1>4, <2>1, <2>2 DEF Takes
<1>7. Deduped(rs) = k[Len(rs)]
  BY DEF Deduped
<1>8. Follow(k)
  <2> HIDE DEF Follow
  <2> QED
    BY <1>6
<1> HIDE DEF k, F
<1>9. k[0] = <<>> /\ \A n \in 1 .. m : k[n] = Merged(k[n - 1], rs[n])
  <2> HIDE DEF m
  <2> QED
    BY <1>1, <1>5, <1>8 DEF m
<1> DEFINE Some == {n \in 0 .. m : Reads(k[n], rs, n)}
<1>10. 0 \in Some
  <2>1. Reads(<<>>, rs, 0)
    BY DEF Reads
  <2> QED
    BY <1>1, <1>9, <2>1
<1>11. ASSUME NEW n \in 0 .. m - 1, n \in Some PROVE n + 1 \in Some
  <2>1. n + 1 \in 1 .. m /\ (n + 1) - 1 = n /\ n + 1 \in 0 .. m /\ Reads(k[n], rs, n)
    BY <1>1, <1>11
  <2>2. k[n + 1] = Merged(k[n], rs[n + 1])
    BY <1>9, <2>1
  <2> QED
    BY <2>1, <2>2, MergedReads
<1>12. m \in Some
  <2>1. \A n \in 0 .. m - 1 : n \in Some => n + 1 \in Some
    BY <1>11
  <2> HIDE DEF Some, m
  <2>2. 0 .. m \subseteq Some
    BY <1>1, <1>10, <2>1, AllOf
  <2> QED
    BY <1>1, <2>2
<1> QED
  BY <1>7, <1>12

(* The origins, and no bubble, are different things.                         *)
LEMMA OriginsDiffer ==
  /\ FromServer # FromHook /\ NoBubble \notin Sends \X Nat
  /\ FromServer \notin Sends \X Nat /\ FromHook \notin Sends \X Nat
<1>1. /\ Len(FromServer) = 1 /\ Len(FromHook) = 1 /\ Len(NoBubble) = 0
      /\ FromServer[1] = "row" /\ FromHook[1] = "hook"
  BY DEF FromServer, FromHook, NoBubble
<1>2. \A id \in Sends \X Nat : Len(id) = 2
  OBVIOUS
<1> QED
  BY <1>1, <1>2

(* The kinds of entries.                                                     *)
LEMMA EntryKinds ==
  ASSUME NEW m \in Entries
  PROVE  /\ m.who \in {"user", "assistant", "error"} /\ m.of \in Sends /\ m.text \in SUBSET Frags
         /\ ~Mine(m) => m \in ServerRows
         /\ Mine(m) /\ m.who = "assistant" => m.origin \in Sends \X Nat /\ m.of = m.origin[1]
         /\ m.origin \in Sends \X Nat => Mine(m) /\ m.who = "assistant" /\ m.of = m.origin[1]
<1>1. CASE m \in ServerRows
  BY <1>1, OriginsDiffer DEF ServerRows, Mine
<1>2. CASE m \in HookNotes
  BY <1>2, OriginsDiffer DEF HookNotes, Mine, NoText
<1>3. CASE m \in Bubbles
  BY <1>3, OriginsDiffer DEF Bubbles, Mine
<1> QED
  BY <1>1, <1>2, <1>3 DEF Entries

(* What the hook makes is an entry.                                          *)
LEMMA HookMakes ==
  ASSUME NEW k \in Sends, NEW n \in Nat, NEW t \in SUBSET Frags
  PROVE  /\ You(k) \in Entries /\ Mine(You(k)) /\ You(k).of = k /\ You(k).who = "user"
         /\ Apology(k) \in Entries /\ Mine(Apology(k)) /\ Apology(k).of = k
         /\ Apology(k).who = "error"
         /\ Bubble(<<k, n>>, t) \in Bubbles /\ Mine(Bubble(<<k, n>>, t))
         /\ Bubble(<<k, n>>, t).of = k /\ Bubble(<<k, n>>, t).who = "assistant"
         /\ Bubble(<<k, n>>, t).origin = <<k, n>> /\ Bubble(<<k, n>>, t).text = t
<1>1. You(k) \in HookNotes /\ Apology(k) \in HookNotes
  BY DEF You, Apology, Entry, HookNotes, NoText
<1>2. Bubble(<<k, n>>, t) \in Bubbles
  BY DEF Bubble, Entry, Bubbles
<1>3. /\ You(k).of = k /\ You(k).who = "user" /\ Mine(You(k))
      /\ Apology(k).of = k /\ Apology(k).who = "error" /\ Mine(Apology(k))
  BY OriginsDiffer DEF You, Apology, Entry, Mine
<1>4. /\ Mine(Bubble(<<k, n>>, t)) /\ Bubble(<<k, n>>, t).of = k
      /\ Bubble(<<k, n>>, t).who = "assistant"
      /\ Bubble(<<k, n>>, t).origin = <<k, n>> /\ Bubble(<<k, n>>, t).text = t
  BY OriginsDiffer DEF Bubble, Entry, Mine
<1> QED
  BY <1>1, <1>2, <1>3, <1>4 DEF Entries

(* A row the server writes.                                                  *)
LEMMA ServerMakes ==
  ASSUME NEW who \in {"user", "assistant"}, NEW k \in Sends, NEW t \in SUBSET Frags
  PROVE  /\ Row(who, k, t) \in ServerRows /\ ~Mine(Row(who, k, t))
         /\ Row(who, k, t).who = who /\ Row(who, k, t).of = k /\ Row(who, k, t).text = t
BY DEF Row, Entry, ServerRows, Mine

(* The sizes of the bounds.                                                  *)
LEMMA HookBounds ==
  /\ MaxSends \in Nat /\ MaxText \in Nat /\ MaxMoves \in Nat /\ Unread = MaxSends + 1
  /\ Settled = MaxSends + 2
  /\ Sends \subseteq 0 .. MaxSends /\ NoSend \in 0 .. MaxSends /\ NoSend \notin Sends
  /\ \A k \in 0 .. MaxSends : k # NoSend => k \in Sends
  /\ NoText \in SUBSET Frags /\ NoTrip \notin Trips
BY ChatHookAssumption DEF Sends, NoSend, Unread, Settled, NoText

(* Entries that differ in their texts.                                       *)
Alike(m, n) == m.who = n.who /\ m.of = n.of /\ m.origin = n.origin

(* Replaced changes the texts of the entries of one bubble only.             *)
LEMMA ReplacedKeeps ==
  ASSUME messages \in Seq(Entries), NEW id \in Sends \X Nat, NEW t \in SUBSET Frags
  PROVE  /\ Replaced(id, t) \in Seq(Entries) /\ Len(Replaced(id, t)) = Len(messages)
         /\ \A i \in 1 .. Len(messages) :
              /\ Alike(messages[i], Replaced(id, t)[i])
              /\ IF messages[i].origin = id THEN Replaced(id, t)[i].text = t
                 ELSE Replaced(id, t)[i] = messages[i]
<1> DEFINE n == Len(messages)
           out == Replaced(id, t)
<1>1. n \in Nat /\ DOMAIN messages = 1 .. n /\ \A i \in 1 .. n : messages[i] \in Entries
  OBVIOUS
<1>2. \A i \in 1 .. n : out[i] = IF messages[i].origin = id THEN [messages[i] EXCEPT !.text = t] ELSE messages[i]
  BY <1>1 DEF Replaced
<1>3. ASSUME NEW i \in 1 .. n
      PROVE  /\ out[i] \in Entries /\ Alike(messages[i], out[i])
             /\ IF messages[i].origin = id THEN out[i].text = t ELSE out[i] = messages[i]
  <2>1. CASE messages[i].origin = id
    <3>1. messages[i] \in Bubbles
      BY <1>1, <2>1, OriginsDiffer DEF Entries, ServerRows, HookNotes
    <3>2. [messages[i] EXCEPT !.text = t] \in Bubbles
      BY <3>1 DEF Bubbles
    <3>3. Alike(messages[i], [messages[i] EXCEPT !.text = t]) /\ [messages[i] EXCEPT !.text = t].text = t
      BY <3>1 DEF Bubbles, Alike
    <3> QED
      BY <1>2, <2>1, <3>2, <3>3 DEF Entries
  <2>2. CASE messages[i].origin # id
    BY <1>1, <1>2, <2>2 DEF Alike
  <2> QED
    BY <2>1, <2>2
<1>4. out = [i \in 1 .. n |-> out[i]]
  BY <1>1 DEF Replaced
<1> HIDE DEF out
<1>5. out \in [1 .. n -> Entries]
  BY <1>3, <1>4
<1>6. out \in Seq(Entries) /\ Len(out) = n
  <2> HIDE DEF n
  <2> QED
    BY <1>1, <1>5
<1> QED
  BY <1>3, <1>6 DEF out

(* What a send and its texts have as types.                                  *)
LEMMA SendHas ==
  ASSUME HookTypes, NEW k \in Sends
  PROVE  /\ Session(k) \in Sends /\ Full(k) \in SUBSET Frags /\ Cardinality(said[k]) \in Nat
         /\ <<k, MaxText + 2>> \in Sends \X Nat
<1>1. Session(k) \in Sends
  BY HookBounds DEF HookTypes, SendTypes, Session
<1>2. Full(k) \in SUBSET Frags
  BY DEF HookTypes, StreamTypes, Full
<1>3. IsFiniteSet(Frags)
  BY HookBounds, FS_Interval DEF Frags
<1>4. Cardinality(said[k]) \in Nat
  BY <1>3, FS_Subset, FS_CardinalityType DEF HookTypes, StreamTypes
<1>5. MaxText + 2 \in Nat
  BY HookBounds
<1> QED
  BY <1>1, <1>2, <1>4, <1>5

(* What a part of the types is about.                                        *)
screenPart == <<screen, hydration, load, historyError>>
streamPart == <<phase, said, shown, errors>>
storePart  == <<rows, latest, persisted>>
sendPart   == <<pc, sent, moves>>
guardPart  == <<sessionId, guards, historyError, notes>>
listPart   == <<bubble, page, messages>>

(* A part that a step leaves alone keeps its types.                          *)
LEMMA TypesKept ==
  ASSUME HookTypes
  PROVE  /\ UNCHANGED screenPart => ScreenTypes'
         /\ UNCHANGED streamPart => StreamTypes'
         /\ UNCHANGED storePart => StoreTypes'
         /\ UNCHANGED sendPart => SendTypes'
         /\ UNCHANGED guardPart => GuardTypes'
         /\ UNCHANGED listPart => ListTypes'
<1>1. UNCHANGED screenPart => ScreenTypes'
  BY DEF HookTypes, ScreenTypes, screenPart, screen
<1>2. UNCHANGED streamPart => StreamTypes'
  BY DEF HookTypes, StreamTypes, streamPart
<1>3. UNCHANGED storePart => StoreTypes'
  BY DEF HookTypes, StoreTypes, storePart
<1>4. UNCHANGED sendPart => SendTypes'
  BY DEF HookTypes, SendTypes, sendPart
<1>5. UNCHANGED guardPart => GuardTypes'
  BY DEF HookTypes, GuardTypes, guardPart, guards, notes
<1>6. UNCHANGED listPart => ListTypes'
  BY DEF HookTypes, ListTypes, listPart
<1> QED
  BY <1>1, <1>2, <1>3, <1>4, <1>5, <1>6

(* Opening and leaving a screen.                                             *)
LEMMA MoveTypes ==
  ASSUME HookTypes, (\E t \in Trips : Mount(t) \/ ChangeTrip(t)) \/ Unmount
  PROVE  HookTypes'
<1> USE HookBounds
<1>1. ListTypes' /\ GuardTypes'
  <2>1. messages' = <<>> /\ page' = <<>> /\ bubble' = NoBubble
    BY DEF Mount, ChangeTrip, Open, Reset, Unmount
  <2>2. <<>> \in Seq(ServerRows) /\ <<>> \in Seq(Entries)
    OBVIOUS
  <2>3. ListTypes'
    BY <2>1, <2>2 DEF ListTypes
  <2>4. /\ isSending' = FALSE /\ isStreaming' = FALSE /\ historyError' = FALSE
        /\ sessionId' = NoSend /\ lastFailed' = NoSend
        /\ controller' \in {NoSend, controller} /\ early' = early /\ disturbed' \in BOOLEAN
    BY DEF Mount, ChangeTrip, Open, Reset, Unmount, notes, HookTypes, GuardTypes
  <2>5. GuardTypes'
    BY <2>4 DEF HookTypes, GuardTypes
  <2> QED
    BY <2>3, <2>5
<1>2. StreamTypes' /\ StoreTypes'
  <2>1. UNCHANGED streamPart /\ UNCHANGED storePart
    BY DEF Mount, ChangeTrip, Open, Unmount, streamPart, storePart, store
  <2> QED
    BY <2>1, TypesKept
<1>3. ASSUME NEW t \in Trips, Mount(t) \/ ChangeTrip(t) PROVE ScreenTypes' /\ SendTypes'
  <2>1. /\ moves < MaxMoves /\ moves' = moves + 1 /\ trip' = t /\ hydration' = Unread
        /\ load' = "asked"
        /\ sent' = sent /\ pc' = pc /\ mount' \in {mount, moves'}
        /\ (trip = NoTrip => mount' = moves')
    BY <1>3 DEF Mount, ChangeTrip, Open
  <2>3. moves' \in 0 .. MaxMoves /\ mount' \in 0 .. moves' /\ Unread \in 0 .. Settled
    BY <2>1 DEF HookTypes, ScreenTypes
  <2>4. mount' >= 1
    BY <1>3, <2>1 DEF Mount, ChangeTrip, HookTypes, ScreenTypes
  <2>5. SendTypes'
    <3>1. \A k \in Sends : sent[k] \in [trip : Trips \cup {NoTrip}, session : 0 .. MaxSends, move : 0 .. moves']
      BY <2>1 DEF HookTypes, ScreenTypes, SendTypes
    <3> QED
      BY <2>1, <3>1 DEF HookTypes, SendTypes
  <2>6. trip' # NoTrip
    BY <2>1, HookBounds
  <2> QED
    BY <2>1, <2>3, <2>4, <2>5, <2>6 DEF ScreenTypes
<1>4. CASE Unmount
  <2>1. ScreenTypes'
    BY <1>4 DEF Unmount, Reset, HookTypes, ScreenTypes
  <2>2. SendTypes'
    BY <1>4 DEF Unmount, HookTypes, SendTypes
  <2> QED
    BY <2>1, <2>2, <1>1, <1>2 DEF HookTypes
<1> QED
  BY <1>1, <1>2, <1>3, <1>4 DEF HookTypes

(* What is loaded is of the page, and reads well.                            *)
Loads(new) ==
  /\ new \in Seq(ServerRows) /\ messages' = new \o messages
  /\ \A i \in 1 .. Len(new) : \E k \in 1 .. Len(page) : new[i] = page[k]
  /\ \A i, j \in 1 .. Len(new) : i < j => Follows(new[i], new[j])

(* A history is loaded.                                                      *)
LEMMA LoadApplyLoads ==
  ASSUME HookTypes, RowsHold, LoadApply
  PROVE  \E new : Loads(new)
<1> DEFINE D == Deduped(page)
           S == ToSet(Deduped(page)) \ ToSet(messages)
           new == Sublist(D, S)
<1>1. page \in Seq(ServerRows) /\ RowsGrow(page)
  BY DEF HookTypes, ListTypes, RowsHold
<1>2. Reads(D, page, Len(page))
  BY <1>1, DedupedReads
<1>3. messages' = new \o messages
  BY DEF LoadApply, History
<1> HIDE DEF D, S
<1>4. D \in Seq(ServerRows)
  BY <1>2 DEF Reads
<1>5. new \in Seq(ServerRows) /\ PicksOf(D, S, new)
  BY <1>4, SublistPicks
<1> HIDE DEF new
<1>6. \A i \in 1 .. Len(new) : \E k \in 1 .. Len(page) : new[i] = page[k]
  BY <1>2, <1>5 DEF Reads, PicksOf
<1>7. \A i, j \in 1 .. Len(new) : i < j => Follows(new[i], new[j])
  <2> SUFFICES ASSUME NEW i \in 1 .. Len(new), NEW j \in 1 .. Len(new), i < j
               PROVE  Follows(new[i], new[j])
    OBVIOUS
  <2>1. PICK k \in 1 .. Len(D), l \in 1 .. Len(D) : k < l /\ new[i] = D[k] /\ new[j] = D[l]
    BY <1>5 DEF PicksOf
  <2> QED
    BY <1>2, <2>1 DEF Reads
<1> QED
  BY <1>3, <1>5, <1>6, <1>7 DEF Loads

(* The two effects.                                                          *)
LEMMA EffectTypes ==
  ASSUME HookTypes, RowsHold,
         HydrateRead \/ Hydrate \/ LoadAnswer \/ LoadApply \/ LoadFail \/ RetryHistory
  PROVE  HookTypes'
<1> USE HookBounds DEF History, screen, guards, notes, store
<1>1. StreamTypes' /\ StoreTypes' /\ SendTypes'
  <2>1. UNCHANGED streamPart /\ UNCHANGED storePart /\ UNCHANGED sendPart
    BY DEF HydrateRead, Hydrate, LoadAnswer, LoadApply, LoadFail, RetryHistory, streamPart,
       storePart, sendPart
  <2> QED
    BY <2>1, TypesKept
<1>2. GuardTypes'
  <2>1. /\ isSending' = isSending /\ isStreaming' = isStreaming /\ controller' = controller
        /\ lastFailed' = lastFailed /\ early' = early /\ disturbed' = disturbed
        /\ historyError' \in {historyError, TRUE, FALSE} /\ sessionId' \in 0 .. MaxSends
    BY DEF HydrateRead, Hydrate, LoadAnswer, LoadApply, LoadFail, RetryHistory, HookTypes,
       GuardTypes
  <2> QED
    BY <2>1 DEF HookTypes, GuardTypes
<1>8. <<>> \in Seq(ServerRows)
  OBVIOUS
<1>3. CASE HydrateRead
  <2>1. ListTypes'
    BY <1>3, TypesKept DEF HydrateRead, listPart
  <2>2. trip \in Trips
    BY <1>3 DEF HydrateRead, HookTypes, ScreenTypes
  <2>3. persisted[trip] \in 0 .. Settled
    BY <2>2 DEF HookTypes, StoreTypes
  <2>4. ScreenTypes'
    BY <1>3, <2>2, <2>3 DEF HydrateRead, HookTypes, ScreenTypes
  <2> QED
    BY <1>1, <1>2, <2>1, <2>4 DEF HookTypes
<1>4. CASE Hydrate
  <2>1. ListTypes'
    BY <1>4, TypesKept DEF Hydrate, listPart
  <2>2. ScreenTypes'
    BY <1>4 DEF Hydrate, HookTypes, ScreenTypes
  <2> QED
    BY <1>1, <1>2, <2>1, <2>2 DEF HookTypes
<1>5. CASE LoadAnswer
  <2>1. ScreenTypes' /\ trip \in Trips
    BY <1>5 DEF LoadAnswer, HookTypes, ScreenTypes
  <2>2. page' \in Seq(ServerRows)
    <3>1. CASE latest[trip] = NoSend
      BY <1>5, <3>1 DEF LoadAnswer
    <3>2. CASE latest[trip] # NoSend
      <4> DEFINE list == rows[latest[trip]]
                 S == {r \in ToSet(rows[latest[trip]]) : r.who = "user" \/ r.text # NoText}
      <4>1. page' = Sublist(list, S)
        BY <1>5, <3>2 DEF LoadAnswer
      <4>2. list \in Seq(ServerRows)
        BY <2>1, <3>2 DEF HookTypes, StoreTypes
      <4> HIDE DEF list, S
      <4> QED
        BY <4>1, <4>2, SublistPicks
    <3> QED
      BY <3>1, <3>2
  <2>3. ListTypes'
    BY <1>5, <2>2 DEF LoadAnswer, HookTypes, ListTypes
  <2> QED
    BY <1>1, <1>2, <2>1, <2>3 DEF HookTypes
<1>6. CASE LoadFail \/ RetryHistory
  <2>1. ScreenTypes'
    <3>1. CASE LoadFail
      BY <3>1 DEF LoadFail, HookTypes, ScreenTypes
    <3>2. CASE RetryHistory
      <4>1. trip # NoTrip
        BY <3>2 DEF RetryHistory, HookTypes, ScreenTypes
      <4> QED
        BY <3>2, <4>1 DEF RetryHistory, HookTypes, ScreenTypes
    <3> QED
      BY <1>6, <3>1, <3>2
  <2>2. page' \in {page, <<>>} /\ messages' = messages /\ bubble' = bubble
    BY <1>6 DEF LoadFail, RetryHistory
  <2>3. ListTypes'
    BY <1>8, <2>2 DEF HookTypes, ListTypes
  <2> QED
    BY <1>1, <1>2, <2>1, <2>3 DEF HookTypes
<1>7. CASE LoadApply
  <2>1. ScreenTypes'
    BY <1>7 DEF LoadApply, HookTypes, ScreenTypes
  <2>2. PICK new : Loads(new)
    BY <1>7, LoadApplyLoads
  <2>3. new \in Seq(Entries) /\ messages \in Seq(Entries)
    <3>1. \A i \in 1 .. Len(new) : new[i] \in Entries
      BY <2>2 DEF Loads, Entries
    <3>2. new = [i \in 1 .. Len(new) |-> new[i]] /\ Len(new) \in Nat
      BY <2>2 DEF Loads
    <3>3. new \in Seq(Entries)
      <4> HIDE DEF Entries
      <4> QED
        BY <3>1, <3>2
    <3>4. messages \in Seq(Entries)
      BY DEF HookTypes, ListTypes
    <3> QED
      BY <3>3, <3>4
  <2>4. messages' \in Seq(Entries)
    BY <2>2, <2>3 DEF Loads
  <2>5. ListTypes'
    <3>1. page' = <<>> /\ bubble' = bubble
      BY <1>7 DEF LoadApply
    <3> QED
      BY <1>8, <2>4, <3>1 DEF HookTypes, ListTypes
  <2> QED
    BY <1>1, <1>2, <2>1, <2>5 DEF HookTypes
<1> QED
  BY <1>3, <1>4, <1>5, <1>6, <1>7

(* A message is sent, and the server's steps.                                *)
LEMMA ServerTypes ==
  ASSUME HookTypes, NEW k \in Sends,
         Send(k) \/ Accept(k) \/ Reject(k) \/ StorePart(k) \/ StoreAnswer(k) \/ CutStream(k)
  PROVE  HookTypes'
<1> USE HookBounds
<1>1. CASE Send(k)
  <2>1. UNCHANGED streamPart /\ UNCHANGED storePart /\ UNCHANGED screenPart
    BY <1>1 DEF Send, streamPart, storePart, screenPart, store, screen, effects
  <2>2. SendTypes'
    <3>1. [trip |-> trip, session |-> sessionId, move |-> moves] \in [trip : Trips \cup {NoTrip}, session : 0 .. MaxSends, move : 0 .. moves]
      BY DEF HookTypes, ScreenTypes, GuardTypes
    <3>2. moves' = moves
      BY <1>1 DEF Send, screen
    <3> DEFINE x == [trip |-> trip, session |-> sessionId, move |-> moves]
    <3>3. sent' = [sent EXCEPT ![k] = x] /\ pc' = [pc EXCEPT ![k] = "sent"]
      BY <1>1 DEF Send
    <3> HIDE DEF x
    <3> QED
      BY <3>1, <3>2, <3>3 DEF HookTypes, SendTypes, x
  <2>3. GuardTypes'
    <3>1. isSending' = TRUE /\ isStreaming' = TRUE /\ controller' = k /\ lastFailed' = NoSend /\ early' \in BOOLEAN
          /\ UNCHANGED <<sessionId, disturbed, historyError>>
      BY <1>1 DEF Send, effects, HookTypes, GuardTypes
    <3> QED
      BY <3>1 DEF HookTypes, GuardTypes
  <2>4. ListTypes'
    <3>1. You(k) \in Entries
      BY HookMakes
    <3>2. messages' = Append(messages, You(k)) /\ bubble' = NoBubble /\ page' = page
      BY <1>1 DEF Send, effects
    <3> QED
      BY <3>1, <3>2 DEF HookTypes, ListTypes
  <2> QED
    BY <2>1, <2>2, <2>3, <2>4, TypesKept DEF HookTypes
<1>2. CASE Accept(k) \/ Reject(k) \/ StorePart(k) \/ StoreAnswer(k) \/ CutStream(k)
  <2>1. UNCHANGED screenPart /\ UNCHANGED guardPart /\ UNCHANGED listPart
    BY <1>2 DEF Accept, Reject, StorePart, StoreAnswer, CutStream, Server, screenPart, guardPart,
       listPart, effects
  <2>2. SendTypes'
    <3>1. sent' = sent /\ moves' = moves
      BY <1>2 DEF Accept, Reject, StorePart, StoreAnswer, CutStream, Server, screen
    <3>2. pc' = pc \/ \E s \in {pc[k], "opened", "listening"} : pc' = [pc EXCEPT ![k] = s]
      BY <1>2 DEF Accept, Reject, StorePart, StoreAnswer, CutStream, Server
    <3> QED
      BY <3>1, <3>2 DEF HookTypes, SendTypes
  <2>3. StreamTypes'
    <3>1. CASE Accept(k)
      BY <3>1 DEF Accept, Server, Stream!Open, HookTypes, StreamTypes
    <3>2. CASE Reject(k)
      BY <3>2 DEF Reject, Server, Stream!Refuse, HookTypes, StreamTypes
    <3>3. CASE StorePart(k)
      BY <3>3 DEF StorePart, Server, HookTypes, StreamTypes
    <3>4. CASE StoreAnswer(k)
      <4>1. PICK text : shown' = [shown EXCEPT ![k] = text]
        BY <3>4 DEF StoreAnswer, Server, Stream!Answer
      <4>2. text \in SUBSET Frags
        BY <3>4, <4>1 DEF StoreAnswer, Server, HookTypes, StreamTypes
      <4> QED
        BY <3>4, <4>1, <4>2 DEF StoreAnswer, Server, Stream!Answer, HookTypes, StreamTypes
    <3>5. CASE CutStream(k)
      BY <3>5 DEF CutStream, Server, Stream!Cut, HookTypes, StreamTypes
    <3> QED
      BY <1>2, <3>1, <3>2, <3>3, <3>4, <3>5
  <2>4. StoreTypes'
    <3>1. ASSUME NEW w \in {"user", "assistant"}, NEW text \in SUBSET Frags,
                 Write(k, Row(w, k, text)), persisted' = persisted
          PROVE  StoreTypes'
      <4>1. Row(w, k, text) \in ServerRows /\ Session(k) \in Sends
        BY ServerMakes, SendHas
      <4> DEFINE row == Row(w, k, text)
                 s == Session(k)
      <4>2. rows' = [rows EXCEPT ![s] = Append(rows[s], row)] /\ latest' = [latest EXCEPT ![sent[k].trip] = s]
        BY <3>1 DEF Write
      <4>a. row \in ServerRows /\ rows[s] \in Seq(ServerRows)
        BY <4>1 DEF HookTypes, StoreTypes
      <4> HIDE DEF row, s
      <4>3. Append(rows[s], row) \in Seq(ServerRows)
        BY <4>a
      <4>4. rows' \in [Sends -> Seq(ServerRows)]
        BY <4>2, <4>3 DEF HookTypes, StoreTypes
      <4>5. latest' \in [Trips -> 0 .. MaxSends]
        BY <4>1, <4>2 DEF s, HookTypes, StoreTypes
      <4> QED
        BY <3>1, <4>4, <4>5 DEF HookTypes, StoreTypes
    <3>2. CASE Accept(k)
      BY <3>1, <3>2 DEF Accept, Server
    <3>3. CASE StorePart(k)
      BY <3>1, <3>3 DEF StorePart, Server, HookTypes, StreamTypes
    <3>4. CASE StoreAnswer(k)
      BY <3>1, <3>4 DEF StoreAnswer, Server
    <3>5. CASE Reject(k) \/ CutStream(k)
      BY <3>5, TypesKept DEF Reject, CutStream, Server, storePart, store
    <3> QED
      BY <1>2, <3>2, <3>3, <3>4, <3>5
  <2> QED
    BY <2>1, <2>2, <2>3, <2>4, TypesKept DEF HookTypes
<1> QED
  BY <1>1, <1>2

(* The list has entries of messages, in their order; only texts may differ.  *)
From(list) ==
  /\ list \in Seq(Entries)
  /\ \A i \in 1 .. Len(list) : \E k \in 1 .. Len(messages) : Alike(messages[k], list[i])
  /\ \A i, j \in 1 .. Len(list) : i < j =>
       \E k, l \in 1 .. Len(messages) : k < l /\ Alike(messages[k], list[i]) /\ Alike(messages[l], list[j])

(* What fills the bubble or drops it leaves such a list.                     *)
LEMMA ListsFrom ==
  ASSUME messages \in Seq(Entries)
  PROVE  /\ From(messages)
         /\ \A id \in Sends \X Nat : /\ From(Without(id))
                                     /\ \A t \in SUBSET Frags : From(Replaced(id, t))
<1>1. From(messages)
  BY DEF From, Alike
<1>2. ASSUME NEW id \in Sends \X Nat, NEW t \in SUBSET Frags PROVE From(Replaced(id, t))
  <2> DEFINE out == Replaced(id, t)
  <2>1. out \in Seq(Entries) /\ Len(out) = Len(messages) /\ \A i \in 1 .. Len(messages) : Alike(messages[i], out[i])
    BY ReplacedKeeps
  <2> HIDE DEF out
  <2> QED
    BY <2>1 DEF From, out
<1>3. ASSUME NEW id \in Sends \X Nat PROVE From(Without(id))
  <2> DEFINE S == {m \in ToSet(messages) : m.origin # id}
             out == Sublist(messages, S)
  <2>1. out \in Seq(Entries) /\ PicksOf(messages, S, out)
    <3> HIDE DEF S
    <3> QED
      BY SublistPicks
  <2> HIDE DEF out
  <2>2. From(out)
    <3>1. \A i \in 1 .. Len(out) : \E k \in 1 .. Len(messages) : Alike(messages[k], out[i])
      BY <2>1 DEF PicksOf, Alike
    <3>2. \A i, j \in 1 .. Len(out) : i < j =>
            \E k, l \in 1 .. Len(messages) : k < l /\ Alike(messages[k], out[i]) /\ Alike(messages[l], out[j])
      <4> SUFFICES ASSUME NEW i \in 1 .. Len(out), NEW j \in 1 .. Len(out), i < j
                   PROVE  \E k, l \in 1 .. Len(messages) :
                            k < l /\ Alike(messages[k], out[i]) /\ Alike(messages[l], out[j])
        OBVIOUS
      <4>1. PICK k \in 1 .. Len(messages), l \in 1 .. Len(messages) : k < l /\ out[i] = messages[k] /\ out[j] = messages[l]
        BY <2>1 DEF PicksOf
      <4> QED
        BY <4>1 DEF Alike
    <3> QED
      BY <2>1, <3>1, <3>2 DEF From
  <2> QED
    BY <2>2 DEF Without, out
<1> QED
  BY <1>1, <1>2, <1>3

(* An event of k may fill or drop its bubble and add an entry of k.          *)
EntryOf(k, x) ==
  /\ x \in Entries /\ Mine(x) /\ x.of = k /\ x.who \in {"assistant", "error"}
  /\ x.who = "assistant" => pc[k] = "listening" /\ bubble = NoBubble
Grows(k) ==
  \/ messages' = messages
  \/ Alive(k) /\ \E list : From(list) /\ (messages' = list \/ \E x : EntryOf(k, x) /\ messages' = Append(list, x))

(* Every event does that.                                                    *)
LEMMA EventGrows ==
  ASSUME HookTypes, NEW k \in Sends, said'[k] \in SUBSET Frags,
         \/ SessionCreated(k) \/ TextDelta(k) \/ MessageComplete(k) \/ StreamError(k) \/ EndStream(k)
         \/ \E failed : Caught(k, failed)
  PROVE  Grows(k)
<1>1. CASE ~Alive(k)
  BY <1>1 DEF SessionCreated, TextDelta, MessageComplete, StreamError, EndStream, Caught, Sets,
     Grows
<1>2. CASE Alive(k)
  <2> DEFINE id == <<k, Cardinality(said[k])>>
             new == <<k, MaxText + 2>>
  <2>1. /\ messages \in Seq(Entries) /\ (bubble # NoBubble => bubble \in Sends \X Nat)
        /\ said'[k] \in SUBSET Frags /\ Full(k) \in SUBSET Frags /\ id \in Sends \X Nat
        /\ new \in Sends \X Nat
    BY SendHas DEF HookTypes, ListTypes
  <2>2. From(messages) /\ (bubble # NoBubble => From(Without(bubble)) /\ \A t \in SUBSET Frags : From(Replaced(bubble, t)))
    BY <2>1, ListsFrom
  <2>3. /\ EntryOf(k, Apology(k))
        /\ pc[k] = "listening" /\ bubble = NoBubble =>
             \A t \in SUBSET Frags : EntryOf(k, Bubble(id, t)) /\ EntryOf(k, Bubble(new, t))
    <3>1. Cardinality(said[k]) \in Nat /\ MaxText + 2 \in Nat
      BY <2>1, SendHas
    <3>2. EntryOf(k, Apology(k))
      BY HookMakes DEF EntryOf
    <3>3. ASSUME NEW n \in Nat, NEW t \in SUBSET Frags, pc[k] = "listening", bubble = NoBubble
          PROVE  EntryOf(k, Bubble(<<k, n>>, t))
      BY <3>3, HookMakes DEF EntryOf, Entries
    <3> QED
      BY <3>1, <3>2, <3>3
  <2>4. CASE SessionCreated(k)
    BY <2>4 DEF SessionCreated, Grows
  <2>5. CASE TextDelta(k)
    <3>1. /\ messages' = IF bubble = NoBubble THEN Append(messages, Bubble(id, said'[k])) ELSE Replaced(bubble, said'[k])
          /\ pc[k] = "listening"
      BY <1>2, <2>5 DEF TextDelta, Event, Sets
    <3> HIDE DEF id
    <3> QED
      BY <1>2, <2>1, <2>2, <2>3, <3>1 DEF Grows
  <2>6. CASE MessageComplete(k)
    <3>1. /\ \/ bubble # NoBubble /\ messages' = Replaced(bubble, Full(k))
             \/ bubble = NoBubble /\ messages' = Append(messages, Bubble(new, Full(k)))
             \/ messages' = messages
          /\ pc[k] = "listening"
      BY <1>2, <2>6 DEF MessageComplete, Event, Sets
    <3> HIDE DEF new
    <3> QED
      BY <1>2, <2>1, <2>2, <2>3, <3>1 DEF Grows
  <2>7. CASE StreamError(k)
    BY <1>2, <2>2, <2>3, <2>7 DEF StreamError, Sets, Grows
  <2>8. CASE EndStream(k)
    <3>1. messages' = IF bubble # NoBubble /\ Full(k) # NoText THEN Replaced(bubble, Full(k)) ELSE messages
      BY <1>2, <2>8 DEF EndStream, Sets
    <3> QED
      BY <1>2, <2>1, <2>2, <3>1 DEF Grows
  <2>9. CASE \E failed : Caught(k, failed)
    <3>1. messages' = Append(IF bubble = NoBubble THEN messages ELSE Without(bubble), Apology(k))
      BY <1>2, <2>9 DEF Caught, Sets
    <3> QED
      BY <1>2, <2>2, <2>3, <3>1 DEF Grows
  <2> QED
    BY <2>4, <2>5, <2>6, <2>7, <2>8, <2>9
<1> QED
  BY <1>1, <1>2

(* Events leave entries.                                                     *)
LEMMA GrownEntries ==
  ASSUME HookTypes, NEW k \in Sends, Grows(k)
  PROVE  messages' \in Seq(Entries)
<1>1. ASSUME NEW list, From(list), NEW x, EntryOf(k, x)
      PROVE  list \in Seq(Entries) /\ Append(list, x) \in Seq(Entries)
  BY <1>1 DEF From, EntryOf
<1>2. messages \in Seq(Entries)
  BY DEF HookTypes, ListTypes
<1>3. CASE messages' # messages
  <2>1. PICK list : From(list) /\ (messages' = list \/ \E x : EntryOf(k, x) /\ messages' = Append(list, x))
    BY <1>3 DEF Grows
  <2>2. CASE messages' = list
    <3>1. list \in Seq(Entries)
      BY <2>1 DEF From
    <3> QED
      BY <2>2, <3>1
  <2>3. CASE \E x : EntryOf(k, x) /\ messages' = Append(list, x)
    <3>1. PICK x : EntryOf(k, x) /\ messages' = Append(list, x)
      BY <2>3
    <3>2. From(list)
      BY <2>1
    <3>3. Append(list, x) \in Seq(Entries)
      BY <1>1, <3>1, <3>2
    <3> QED
      BY <3>1, <3>3
  <2> QED
    BY <2>1, <2>2, <2>3
<1> QED
  BY <1>2, <1>3

(* The events of a stream.                                                   *)
LEMMA EventTypes ==
  ASSUME HookTypes, NEW k \in Sends,
         SessionCreated(k) \/ TextDelta(k) \/ MessageComplete(k) \/ StreamError(k)
  PROVE  HookTypes'
<1> USE HookBounds DEF Event, Sets
<1>1. UNCHANGED screenPart
  BY DEF SessionCreated, TextDelta, MessageComplete, StreamError, screenPart, effects
<1>2. GuardTypes'
  <2>1. UNCHANGED <<guards, historyError, notes>> /\ sessionId' \in {sessionId, k}
    BY DEF SessionCreated, TextDelta, MessageComplete, StreamError, effects
  <2> QED
    BY <2>1 DEF HookTypes, GuardTypes, guards, notes
<1>3. SendTypes'
  <2>1. /\ sent' = sent /\ moves' = moves
        /\ (pc' = pc \/ \E s \in {"listening", "told"} : pc' = [pc EXCEPT ![k] = s])
    BY DEF SessionCreated, TextDelta, MessageComplete, StreamError, screen
  <2> QED
    BY <2>1 DEF HookTypes, SendTypes
<1>4. StreamTypes'
  <2>1. CASE TextDelta(k)
    <3>1. PICK f : said' = [said EXCEPT ![k] = said[k] \cup {f}]
      BY <2>1 DEF TextDelta, Stream!Speak
    <3>2. said'[k] \subseteq Frags /\ UNCHANGED <<phase, shown, errors>>
      BY <2>1 DEF TextDelta, Stream!Speak
    <3> QED
      BY <3>1, <3>2 DEF HookTypes, StreamTypes
  <2>2. CASE StreamError(k)
    BY <2>2 DEF StreamError, Stream!Fail, HookTypes, StreamTypes
  <2>3. CASE SessionCreated(k) \/ MessageComplete(k)
    BY <2>3, TypesKept DEF SessionCreated, MessageComplete, streamPart
  <2> QED
    BY <2>1, <2>2, <2>3
<1>5. StoreTypes'
  <2>1. /\ rows' = rows /\ latest' = latest
        /\ (persisted' = persisted \/ persisted' = [persisted EXCEPT ![sent[k].trip] = k])
    BY DEF SessionCreated, TextDelta, MessageComplete, StreamError, store
  <2> QED
    BY <2>1 DEF HookTypes, StoreTypes
<1>6. ListTypes'
  <2>1. said'[k] \in SUBSET Frags
    BY <1>4 DEF StreamTypes
  <2>2. messages' \in Seq(Entries)
    BY <2>1, EventGrows, GrownEntries
  <2>3. page' = page
    BY DEF SessionCreated, TextDelta, MessageComplete, StreamError, effects
  <2>4. <<k, Cardinality(said[k])>> \in Sends \X Nat
    BY SendHas
  <2>5. bubble' \in {bubble, NoBubble, <<k, Cardinality(said[k])>>}
    BY DEF SessionCreated, TextDelta, MessageComplete, StreamError
  <2> QED
    BY <2>2, <2>3, <2>4, <2>5 DEF HookTypes, ListTypes
<1> QED
  BY <1>1, <1>2, <1>3, <1>4, <1>5, <1>6, TypesKept DEF HookTypes

(* The end of a stream.                                                      *)
LEMMA EndTypes ==
  ASSUME HookTypes, NEW k \in Sends,
         EndStream(k) \/ ((\E failed \in 0 .. MaxSends : Caught(k, failed)) /\ UNCHANGED <<phase, said, shown, errors>>)
  PROVE  HookTypes'
<1>1. PICK how \in {"done", "failed"}, failed \in 0 .. MaxSends : Finish(k, how, failed)
  <2>1. lastFailed \in 0 .. MaxSends
    BY DEF HookTypes, GuardTypes
  <2> QED
    BY <2>1 DEF EndStream, Caught
<1> USE HookBounds DEF Finish, Sets
<1>2. UNCHANGED screenPart /\ UNCHANGED storePart /\ UNCHANGED streamPart
  BY <1>1 DEF EndStream, screenPart, storePart, streamPart, effects, store
<1>3. GuardTypes'
  <2>1. /\ controller' \in {NoSend, controller} /\ lastFailed' \in {lastFailed, failed}
        /\ sessionId' = sessionId
        /\ isSending' \in {isSending, FALSE} /\ isStreaming' \in {isStreaming, FALSE}
        /\ (isSending' = isStreaming')
        /\ historyError' = historyError /\ early' = early /\ disturbed' = disturbed
    BY <1>1 DEF effects, notes, HookTypes, GuardTypes
  <2> QED
    BY <2>1 DEF HookTypes, GuardTypes
<1>4. SendTypes'
  <2>1. sent' = sent /\ moves' = moves /\ pc' = [pc EXCEPT ![k] = how]
    BY <1>1 DEF screen
  <2> QED
    BY <2>1 DEF HookTypes, SendTypes
<1>5. ListTypes'
  <2>1. said'[k] \in SUBSET Frags
    BY <1>2 DEF streamPart, HookTypes, StreamTypes
  <2>2. messages' \in Seq(Entries)
    BY <2>1, EventGrows, GrownEntries
  <2>3. page' = page /\ bubble' \in {bubble, NoBubble}
    BY <1>1 DEF effects
  <2> QED
    BY <2>2, <2>3 DEF HookTypes, ListTypes
<1> QED
  BY <1>2, <1>3, <1>4, <1>5, TypesKept DEF HookTypes

(* The types hold at every step.                                             *)
LEMMA TypesStep ==
  ASSUME HookTypes, RowsHold, HookNext \/ UNCHANGED hookVars
  PROVE  HookTypes'
<1>1. CASE Stop
  <2>1. controller \in Sends /\ Caught(controller, lastFailed) /\ lastFailed \in 0 .. MaxSends
    BY <1>1, HookBounds DEF Stop, HookTypes, GuardTypes
  <2>2. UNCHANGED <<phase, said, shown, errors>>
    BY <1>1 DEF Stop
  <2> QED
    BY <2>1, <2>2, EndTypes
<1>2. ASSUME NEW k \in Sends, Fail(k) \/ Timeout(k) \/ EndStream(k) PROVE HookTypes'
  <2>1. k \in 0 .. MaxSends /\ NoSend \in 0 .. MaxSends
    BY HookBounds
  <2>2. EndStream(k) \/ ((\E failed \in 0 .. MaxSends : Caught(k, failed)) /\ UNCHANGED <<phase, said, shown, errors>>)
    BY <1>2, <2>1 DEF Fail, Timeout
  <2> QED
    BY <2>2, EndTypes
<1>3. CASE UNCHANGED hookVars
  <2>1. /\ UNCHANGED screenPart /\ UNCHANGED streamPart /\ UNCHANGED storePart /\ UNCHANGED sendPart
        /\ UNCHANGED guardPart /\ UNCHANGED listPart
    BY <1>3 DEF hookVars, screenPart, streamPart, storePart, sendPart, guardPart, listPart, store,
       screen, guards,
       effects, notes
  <2> QED
    BY <2>1, TypesKept DEF HookTypes
<1>4. CASE (\E t \in Trips : Mount(t) \/ ChangeTrip(t)) \/ Unmount
  BY <1>4, MoveTypes
<1>5. CASE HydrateRead \/ Hydrate \/ LoadAnswer \/ LoadApply \/ LoadFail \/ RetryHistory
  BY <1>5, EffectTypes
<1>6. ASSUME NEW k \in Sends,
             Send(k) \/ Accept(k) \/ Reject(k) \/ StorePart(k) \/ StoreAnswer(k) \/ CutStream(k)
      PROVE  HookTypes'
  BY <1>6, ServerTypes
<1>7. ASSUME NEW k \in Sends,
             SessionCreated(k) \/ TextDelta(k) \/ MessageComplete(k) \/ StreamError(k)
      PROVE  HookTypes'
  BY <1>7, EventTypes
<1> QED
  BY <1>1, <1>2, <1>3, <1>4, <1>5, <1>6, <1>7 DEF HookNext

(* What the answer's event does beside the list.                             *)
LEMMA CompleteDoes ==
  ASSUME NEW k \in Sends, MessageComplete(k)
  PROVE  /\ pc[k] = "listening" /\ phase[k] = "answered" /\ pc' = [pc EXCEPT ![k] = "told"]
         /\ bubble' = Sets(k, NoBubble, bubble)
         /\ UNCHANGED <<store, screen, guards, effects, sent, notes, phase, said, shown, errors, persisted, sessionId>>
BY DEF MessageComplete, Event

(* The server and the hook: the steps of a send, and its texts, go on.       *)
Onward ==
  \A k \in Sends :
    /\ pc[k] # "idle" => pc'[k] # "idle"
    /\ phase[k] # "idle" => phase'[k] # "idle"
    /\ phase'[k] = "open" => phase[k] \in {"idle", "open"}
    /\ said[k] \subseteq said'[k]

(* At every step.                                                            *)
LEMMA GoesOnward ==
  ASSUME HookTypes, HookNext \/ UNCHANGED hookVars
  PROVE  Onward
<1>1. CASE UNCHANGED <<pc, phase, said>>
  BY <1>1 DEF Onward
<1>2. CASE Unmount
  BY <1>2 DEF Unmount, Onward, HookTypes, SendTypes
<1>3. ASSUME NEW k \in Sends, Send(k) PROVE Onward
  BY <1>3 DEF Send, Onward, HookTypes, SendTypes
<1>4. ASSUME NEW k \in Sends, Accept(k) PROVE Onward
  <2>1. \E s \in {pc[k], "opened", "listening"} : pc' = [pc EXCEPT ![k] = s]
    BY <1>4 DEF Accept, Server
  <2>2. said' = said /\ phase[k] = "idle" /\ phase' = [phase EXCEPT ![k] = "open"]
    BY <1>4 DEF Accept, Server, Stream!Open
  <2> QED
    BY <2>1, <2>2 DEF Onward, HookTypes, SendTypes, StreamTypes
<1>5. ASSUME NEW k \in Sends, Reject(k) PROVE Onward
  BY <1>5 DEF Reject, Server, Stream!Refuse, Onward, HookTypes, StreamTypes
<1>6. ASSUME NEW k \in Sends, StoreAnswer(k) PROVE Onward
  BY <1>6 DEF StoreAnswer, Server, Stream!Answer, Onward, HookTypes, StreamTypes
<1>7. ASSUME NEW k \in Sends, CutStream(k) PROVE Onward
  BY <1>7 DEF CutStream, Server, Stream!Cut, Onward, HookTypes, StreamTypes
<1>8. ASSUME NEW k \in Sends, SessionCreated(k) \/ MessageComplete(k) PROVE Onward
  <2>1. phase' = phase /\ said' = said /\ \E s \in {"listening", "told"} : pc' = [pc EXCEPT ![k] = s]
    BY <1>8, CompleteDoes DEF SessionCreated
  <2> QED
    BY <2>1 DEF Onward, HookTypes, SendTypes
<1>9. ASSUME NEW k \in Sends, TextDelta(k) PROVE Onward
  BY <1>9 DEF TextDelta, Stream!Speak, Onward, HookTypes, StreamTypes
<1>10. ASSUME NEW k \in Sends, StreamError(k) PROVE Onward
  BY <1>10 DEF StreamError, Stream!Fail, Onward, HookTypes, StreamTypes, SendTypes
<1>11. ASSUME NEW k \in Sends, EndStream(k) \/ Fail(k) \/ Timeout(k) \/ (k = controller /\ Stop)
       PROVE  Onward
  <2>1. phase' = phase /\ said' = said /\ \E how \in {"done", "failed"} : pc' = [pc EXCEPT ![k] = how]
    BY <1>11 DEF EndStream, Fail, Timeout, Stop, Caught, Finish
  <2> QED
    BY <2>1 DEF Onward, HookTypes, SendTypes
<1>12. ASSUME Stop PROVE Onward
  <2>1. controller \in Sends
    BY <1>12, HookBounds DEF Stop, HookTypes, GuardTypes
  <2> QED
    BY <1>11, <1>12, <2>1
<1>13. (\E t \in Trips : Mount(t) \/ ChangeTrip(t)) => UNCHANGED <<pc, phase, said>>
  BY DEF Mount, ChangeTrip, Open
<1>14. HydrateRead \/ Hydrate \/ LoadAnswer \/ LoadApply \/ LoadFail \/ RetryHistory => UNCHANGED <<pc, phase, said>>
  BY DEF HydrateRead, Hydrate, LoadAnswer, LoadApply, LoadFail, RetryHistory, History
<1>15. \A k \in Sends : StorePart(k) => UNCHANGED <<pc, phase, said>>
  BY DEF StorePart, Server
<1>16. UNCHANGED hookVars => UNCHANGED <<pc, phase, said>>
  BY DEF hookVars
<1> QED
  BY <1>1, <1>2, <1>3, <1>4, <1>5, <1>6, <1>7, <1>8, <1>9, <1>10, <1>11, <1>12, <1>13, <1>14, <1>15,
     <1>16 DEF HookNext

(* A step of one send, k, from one state of the client and of the server to  *)
(* another.                                                                  *)
StepOf(k) ==
  /\ \A j \in Sends \ {k} : /\ pc'[j] = pc[j] /\ phase'[j] = phase[j] /\ said'[j] = said[j]
                            /\ errors'[j] = errors[j]
  /\ sent' = sent
  /\ controller' \in {controller, NoSend}

(* The steps of a send follow each other.                                    *)
LEMMA StepsStep ==
  ASSUME HookTypes, StepsHold, HookNext \/ UNCHANGED hookVars
  PROVE  StepsHold'
<1>0. Onward
  BY GoesOnward
<1>1. CASE UNCHANGED <<pc, phase, said, errors, sent>> /\ controller' \in {controller, NoSend}
  BY <1>1, <1>0 DEF StepsHold
<1>2. CASE Unmount
  BY <1>2 DEF Unmount, StepsHold, HookTypes, SendTypes
<1>3. ASSUME NEW k \in Sends, Send(k) PROVE StepsHold'
  <2>1. trip \in Trips /\ sent[k].trip \in Trips \cup {NoTrip}
    BY <1>3 DEF Send, HookTypes, ScreenTypes, SendTypes
  <2> QED
    BY <1>3, <2>1 DEF Send, StepsHold, HookTypes, SendTypes
<1> DEFINE One(k) ==
             /\ controller # NoSend => pc[controller] # "idle"
             /\ pc[k] = "idle" => phase[k] = "idle" /\ sent[k].move = 0
             /\ pc[k] # "idle" => sent[k].trip \in Trips
             /\ pc[k] \in {"idle", "sent", "opened"} => said[k] = NoText
             /\ pc[k] = "sent" => phase[k] \in {"idle", "cut"}
             /\ pc[k] = "opened" => phase[k] \in {"open", "answered"}
             /\ pc[k] = "listening" => phase[k] \in {"open", "answered", "cut"}
             /\ pc[k] = "told" => phase[k] \in {"answered", "failed"}
             /\ pc[k] \in {"idle", "sent", "opened", "listening"} => errors[k] = 0
             /\ pc[k] = "done" => phase[k] \in {"answered", "failed", "cut"}
<1>4. ASSUME NEW k \in Sends, StepOf(k), One(k)' PROVE StepsHold'
  BY <1>4 DEF StepOf, StepsHold
<1>5. \A k \in Sends : One(k)
  BY DEF StepsHold
<1>6. \A k \in Sends : controller' \in {controller, NoSend} => (controller' # NoSend => pc'[controller'] # "idle")
  <2>1. controller # NoSend => controller \in Sends
    BY HookBounds DEF HookTypes, GuardTypes
  <2> QED
    BY <1>0, <1>5, <2>1 DEF Onward
<1>7. ASSUME NEW k \in Sends, Accept(k) PROVE StepsHold'
  <2>1. /\ said' = said /\ phase[k] = "idle" /\ phase' = [phase EXCEPT ![k] = "open"]
        /\ sent' = sent /\ errors' = errors
        /\ pc[k] # "idle" /\ controller' = controller
    BY <1>7 DEF Accept, Server, Stream!Open, guards
  <2>2. /\ pc[k] \in {"done", "failed"} => pc' = [pc EXCEPT ![k] = pc[k]]
        /\ pc[k] \notin {"done", "failed"} => \E s \in {"opened", "listening"} : pc' = [pc EXCEPT ![k] = s]
    BY <1>7, <2>1 DEF Accept, Server, Running
  <2>3. StepOf(k)
    BY <2>1, <2>2 DEF StepOf, HookTypes, SendTypes, StreamTypes
  <2>4. One(k)'
    BY <1>5, <1>6, <2>1, <2>2 DEF HookTypes, SendTypes, StreamTypes
  <2> QED
    BY <1>4, <2>3, <2>4
<1>8. ASSUME NEW k \in Sends, Reject(k) \/ StoreAnswer(k) \/ CutStream(k) PROVE StepsHold'
  <2>1. said' = said /\ errors' = errors /\ sent' = sent /\ pc' = pc /\ controller' = controller /\ \A j \in Sends \ {k} : phase'[j] = phase[j]
    BY <1>8 DEF Reject, StoreAnswer, CutStream, Server, Stream!Refuse, Stream!Answer, Stream!Cut,
       guards, HookTypes, StreamTypes
  <2>2. \/ pc[k] = "sent" /\ phase'[k] = "cut"
        \/ phase[k] = "open" /\ phase'[k] = "answered"
        \/ pc[k] = "listening" /\ phase'[k] = "cut"
    BY <1>8 DEF Reject, StoreAnswer, CutStream, Server, Stream!Refuse, Stream!Answer, HookTypes,
       StreamTypes
  <2>3. StepOf(k) /\ One(k)'
    BY <1>5, <1>6, <2>1, <2>2 DEF StepOf
  <2> QED
    BY <1>4, <2>3
<1>9. ASSUME NEW k \in Sends, SessionCreated(k) \/ MessageComplete(k) PROVE StepsHold'
  <2>1. /\ phase' = phase /\ said' = said /\ errors' = errors /\ sent' = sent
        /\ controller' = controller
        /\ \/ pc[k] = "opened" /\ pc' = [pc EXCEPT ![k] = "listening"]
           \/ pc[k] = "listening" /\ phase[k] = "answered" /\ pc' = [pc EXCEPT ![k] = "told"]
    BY <1>9, CompleteDoes DEF SessionCreated, Event, guards
  <2>2. StepOf(k) /\ One(k)'
    BY <1>5, <1>6, <2>1 DEF StepOf, HookTypes, SendTypes
  <2> QED
    BY <1>4, <2>2
<1>10. ASSUME NEW k \in Sends, TextDelta(k) PROVE StepsHold'
  <2>1. /\ phase' = phase /\ errors' = errors /\ sent' = sent /\ controller' = controller
        /\ pc' = pc
        /\ pc[k] = "listening"
        /\ \A j \in Sends \ {k} : said'[j] = said[j]
    BY <1>10 DEF TextDelta, Event, Stream!Speak, guards, HookTypes, StreamTypes
  <2>2. StepOf(k) /\ One(k)'
    BY <1>5, <1>6, <2>1 DEF StepOf
  <2> QED
    BY <1>4, <2>2
<1>11. ASSUME NEW k \in Sends, StreamError(k) PROVE StepsHold'
  <2>1. /\ phase' = [phase EXCEPT ![k] = IF phase[k] = "open" THEN "failed" ELSE phase[k]]
        /\ errors' = [errors EXCEPT ![k] = errors[k] + 1]
        /\ sent' = sent /\ controller' = controller /\ said' = said
        /\ pc' = [pc EXCEPT ![k] = "told"]
        /\ pc[k] = IF phase[k] = "open" THEN "listening" ELSE "told"
    BY <1>11 DEF StreamError, Event, Stream!Fail, guards
  <2>2. \A j \in Sends \ {k} : pc'[j] = pc[j] /\ phase'[j] = phase[j] /\ errors'[j] = errors[j]
    BY <2>1 DEF HookTypes, SendTypes, StreamTypes
  <2>3. pc'[k] = "told" /\ phase'[k] = IF phase[k] = "open" THEN "failed" ELSE phase[k]
    BY <2>1 DEF HookTypes, SendTypes, StreamTypes
  <2>4. StepOf(k)
    BY <2>1, <2>2 DEF StepOf
  <2>5. One(k)'
    BY <1>5, <1>6, <2>1, <2>3
  <2> QED
    BY <1>4, <2>4, <2>5
<1>12. ASSUME NEW k \in Sends, EndStream(k) PROVE StepsHold'
  <2>1. /\ phase' = phase /\ sent' = sent /\ controller' \in {controller, NoSend} /\ said' = said
        /\ errors' = errors
        /\ pc' = [pc EXCEPT ![k] = "done"]
        /\ (pc[k] = "told" \/ (pc[k] = "listening" /\ phase[k] = "cut"))
    BY <1>12 DEF EndStream, Finish, Sets
  <2>2. StepOf(k) /\ One(k)'
    BY <1>5, <1>6, <2>1 DEF StepOf, HookTypes, SendTypes
  <2> QED
    BY <1>4, <2>2
<1>13. ASSUME NEW k \in Sends, Fail(k) \/ Timeout(k) \/ (k = controller /\ Stop) PROVE StepsHold'
  <2>1. /\ phase' = phase /\ sent' = sent /\ controller' \in {controller, NoSend} /\ said' = said
        /\ errors' = errors
        /\ pc' = [pc EXCEPT ![k] = "failed"]
    BY <1>13 DEF Fail, Timeout, Stop, Caught, Finish, Sets
  <2>2. pc[k] # "idle"
    BY <1>13, <1>5 DEF Fail, Timeout, Stop, Running
  <2>3. StepOf(k) /\ One(k)'
    BY <1>5, <1>6, <2>1, <2>2 DEF StepOf, HookTypes, SendTypes
  <2> QED
    BY <1>4, <2>3
<1>14. ASSUME Stop PROVE StepsHold'
  <2>1. controller \in Sends
    BY <1>14, HookBounds DEF Stop, HookTypes, GuardTypes
  <2> QED
    BY <1>13, <1>14, <2>1
<1> DEFINE Same4 == UNCHANGED <<pc, phase, said, errors, sent>> /\ controller' \in {controller, NoSend}
<1>15. (\E t \in Trips : Mount(t) \/ ChangeTrip(t)) => Same4
  BY DEF Mount, ChangeTrip, Open
<1>16. HydrateRead \/ Hydrate \/ LoadAnswer \/ LoadApply \/ LoadFail \/ RetryHistory => Same4
  BY DEF HydrateRead, Hydrate, LoadAnswer, LoadApply, LoadFail, RetryHistory, History, guards
<1>17. \A k \in Sends : StorePart(k) => Same4
  BY DEF StorePart, Server, guards
<1>18. UNCHANGED hookVars => Same4
  BY DEF hookVars, guards
<1>19. Same4 => StepsHold'
  BY <1>1
<1> HIDE DEF Same4
<1> QED
  BY <1>2, <1>3, <1>7, <1>8, <1>9, <1>10, <1>11, <1>12, <1>13, <1>14, <1>15, <1>16, <1>17, <1>18,
     <1>19 DEF HookNext

(* A row of a list of rows of the store.                                     *)
RowHolds(m) == phase[m.of] # "idle" /\ (m.who = "assistant" /\ phase[m.of] = "open" => m.text \subseteq said[m.of])

RowWillHold(m) ==
  phase'[m.of] # "idle" /\ (m.who = "assistant" /\ phase'[m.of] = "open" => m.text \subseteq said'[m.of])

(* What a turn writes goes on from what it has written.                      *)
LEMMA WriteRows ==
  ASSUME HookTypes, RowsHold, Onward, NEW k \in Sends, NEW w \in {"user", "assistant"},
         NEW t \in SUBSET Frags,
         Write(k, Row(w, k, t)), phase'[k] # "idle",
         IF w = "user" THEN phase[k] = "idle"
         ELSE phase[k] = "open" /\ said[k] \subseteq t /\ (phase'[k] = "open" => t \subseteq said'[k])
  PROVE  \A s \in Sends : RowsGrow(rows'[s]) /\ \A i \in 1 .. Len(rows'[s]) : RowWillHold(rows'[s][i])
<1> DEFINE row == Row(w, k, t)
           s == Session(k)
<1>1. row \in ServerRows /\ row.who = w /\ row.of = k /\ row.text = t /\ s \in Sends
  <2>1. s \in Sends
    BY SendHas
  <2>2. row \in ServerRows /\ row.who = w /\ row.of = k /\ row.text = t
    BY ServerMakes
  <2> QED
    BY <2>1, <2>2
<1>2. rows' = [rows EXCEPT ![s] = Append(rows[s], row)]
  BY DEF Write
<1>3. \A q \in Sends : rows[q] \in Seq(ServerRows) /\ RowsGrow(rows[q]) /\ \A i \in 1 .. Len(rows[q]) : RowHolds(rows[q][i])
  BY DEF HookTypes, StoreTypes, RowsHold, RowHolds
<1>4. \A m \in ServerRows : RowHolds(m) => RowWillHold(m)
  BY DEF Onward, RowHolds, RowWillHold, ServerRows
<1>5. RowWillHold(row)
  BY <1>1 DEF RowWillHold
<1>6. \A m \in ServerRows : RowHolds(m) => RowFollows(m, row)
  BY <1>1 DEF RowHolds, RowFollows, ServerRows
<1>7. \A q \in Sends \ {s} : rows'[q] = rows[q]
  BY <1>2 DEF HookTypes, StoreTypes
<1>8. rows'[s] = Append(rows[s], row)
  BY <1>1, <1>2 DEF HookTypes, StoreTypes
<1> HIDE DEF row, s
<1>9. ASSUME NEW q \in Sends, q # s
      PROVE  RowsGrow(rows'[q]) /\ \A i \in 1 .. Len(rows'[q]) : RowWillHold(rows'[q][i])
  <2>1. rows'[q] = rows[q] /\ \A i \in 1 .. Len(rows[q]) : rows[q][i] \in ServerRows
    BY <1>3, <1>7, <1>9
  <2> QED
    BY <1>3, <1>4, <2>1
<1>10. RowsGrow(rows'[s]) /\ \A i \in 1 .. Len(rows'[s]) : RowWillHold(rows'[s][i])
  <2> DEFINE old == rows[s]
             new == rows'[s]
             n == Len(old)
  <2>1. /\ old \in Seq(ServerRows) /\ RowsGrow(old)
        /\ (\A i \in 1 .. n : RowHolds(old[i])) /\ n \in Nat
        /\ new = Append(old, row) /\ (\A i \in 1 .. n : old[i] \in ServerRows)
    BY <1>1, <1>3, <1>8
  <2> HIDE DEF old, new, n
  <2>2. /\ Len(new) = n + 1 /\ (\A i \in 1 .. n : new[i] = old[i]) /\ new[n + 1] = row
        /\ \A i \in 1 .. n + 1 : i \in 1 .. n \/ i = n + 1
    BY <1>1, <2>1 DEF n
  <2>3. ASSUME NEW i \in 1 .. n + 1, NEW j \in 1 .. n + 1, i < j PROVE RowFollows(new[i], new[j])
    <3>1. i \in 1 .. n
      BY <2>1, <2>3
    <3>2. CASE j = n + 1
      BY <1>6, <2>1, <2>2, <3>1, <3>2
    <3>3. CASE j \in 1 .. n
      BY <2>1, <2>2, <2>3, <3>1, <3>3 DEF RowsGrow, n
    <3> QED
      BY <2>2, <3>2, <3>3
  <2>4. RowsGrow(new)
    BY <2>2, <2>3 DEF RowsGrow
  <2>5. \A i \in 1 .. n + 1 : RowWillHold(new[i])
    <3> SUFFICES ASSUME NEW i \in 1 .. n + 1 PROVE RowWillHold(new[i])
      OBVIOUS
    <3>1. CASE i = n + 1
      <4>1. new[i] = row
        BY <2>2, <3>1
      <4> QED
        BY <1>5, <4>1
    <3>2. CASE i \in 1 .. n
      <4>1. new[i] = old[i] /\ old[i] \in ServerRows /\ RowHolds(old[i])
        BY <2>1, <2>2, <3>2
      <4> QED
        BY <1>4, <4>1
    <3> QED
      BY <2>2, <3>1, <3>2
  <2> QED
    BY <2>2, <2>4, <2>5 DEF new
<1> QED
  BY <1>9, <1>10

(* The rows that are stored, and a page of them, stay in their order.        *)
LEMMA RowsStep ==
  ASSUME HookTypes, StepsHold, RowsHold, HookNext \/ UNCHANGED hookVars
  PROVE  RowsHold'
<1>0. Onward
  BY GoesOnward
<1>1. \A s \in Sends : RowsGrow(rows'[s]) /\ \A i \in 1 .. Len(rows'[s]) : RowWillHold(rows'[s][i])
  <2>1. CASE rows' = rows
    <3> SUFFICES ASSUME NEW s \in Sends
                 PROVE  RowsGrow(rows'[s]) /\ \A i \in 1 .. Len(rows'[s]) : RowWillHold(rows'[s][i])
      OBVIOUS
    <3>1. /\ rows'[s] = rows[s] /\ RowsGrow(rows[s])
          /\ \A i \in 1 .. Len(rows[s]) : RowHolds(rows[s][i]) /\ rows[s][i] \in ServerRows
      BY <2>1 DEF HookTypes, StoreTypes, RowsHold, RowHolds
    <3>2. \A m \in ServerRows : RowHolds(m) => RowWillHold(m)
      BY <1>0 DEF Onward, RowHolds, RowWillHold, ServerRows
    <3> QED
      BY <3>1, <3>2
  <2>2. ASSUME NEW k \in Sends, Accept(k)
        PROVE  \A s \in Sends : RowsGrow(rows'[s]) /\ \A i \in 1 .. Len(rows'[s]) : RowWillHold(rows'[s][i])
    <3>1. phase[k] = "idle" /\ phase'[k] # "idle" /\ Write(k, Row("user", k, NoText)) /\ NoText \in SUBSET Frags
      BY <2>2, HookBounds DEF Accept, Server, Stream!Open, HookTypes, StreamTypes
    <3> QED
      BY <1>0, <3>1, WriteRows
  <2>3. ASSUME NEW k \in Sends, StorePart(k)
        PROVE  \A s \in Sends : RowsGrow(rows'[s]) /\ \A i \in 1 .. Len(rows'[s]) : RowWillHold(rows'[s][i])
    <3>1. /\ phase[k] = "open" /\ phase'[k] = "open" /\ said'[k] = said[k]
          /\ said[k] \in SUBSET Frags
          /\ Write(k, Row("assistant", k, said[k]))
      BY <2>3 DEF StorePart, Server, HookTypes, StreamTypes
    <3> QED
      BY <1>0, <3>1, WriteRows
  <2>4. ASSUME NEW k \in Sends, StoreAnswer(k)
        PROVE  \A s \in Sends : RowsGrow(rows'[s]) /\ \A i \in 1 .. Len(rows'[s]) : RowWillHold(rows'[s][i])
    <3>1. /\ phase[k] = "open" /\ phase'[k] = "answered" /\ shown'[k] \in SUBSET Frags
          /\ Write(k, Row("assistant", k, shown'[k]))
      BY <2>4 DEF StoreAnswer, Server, Stream!Answer, HookTypes, StreamTypes
    <3>2. said[k] \subseteq shown'[k]
      <4>1. PICK text : said[k] \ {Stream!NoteFrag} \subseteq text /\ shown' = [shown EXCEPT ![k] = text]
        BY <2>4 DEF StoreAnswer, Server, Stream!Answer
      <4>2. said[k] \subseteq Frags /\ Stream!NoteFrag \notin Frags
        BY DEF HookTypes, StreamTypes, Stream!NoteFrag, Frags
      <4> QED
        BY <4>1, <4>2 DEF HookTypes, StreamTypes
    <3> DEFINE text == shown'[k]
    <3>3. text \in SUBSET Frags /\ said[k] \subseteq text /\ Write(k, Row("assistant", k, text))
      BY <3>1, <3>2
    <3> HIDE DEF text
    <3> QED
      BY <1>0, <3>1, <3>3, WriteRows
  <2>5. (\E t \in Trips : Mount(t) \/ ChangeTrip(t)) \/ Unmount => rows' = rows
    BY DEF Mount, ChangeTrip, Open, Unmount, store
  <2>6. HydrateRead \/ Hydrate \/ LoadAnswer \/ LoadApply \/ LoadFail \/ RetryHistory => rows' = rows
    BY DEF HydrateRead, Hydrate, LoadAnswer, LoadApply, LoadFail, RetryHistory, History, store
  <2>7. Stop \/ UNCHANGED hookVars => rows' = rows
    BY DEF Stop, Caught, Finish, hookVars, store
  <2>8. ASSUME NEW k \in Sends,
               Send(k) \/ Reject(k) \/ CutStream(k) \/ SessionCreated(k) \/ TextDelta(k) \/ MessageComplete(k)
                 \/ StreamError(k)
        PROVE  rows' = rows
    BY <2>8, CompleteDoes DEF Send, Reject, CutStream, Server, SessionCreated, TextDelta,
       StreamError, Event, store
  <2>9. ASSUME NEW k \in Sends, EndStream(k) \/ Fail(k) \/ Timeout(k) PROVE rows' = rows
    BY <2>9 DEF EndStream, Fail, Timeout, Caught, Finish, store
  <2> QED
    BY <2>1, <2>2, <2>3, <2>4, <2>5, <2>6, <2>7, <2>8, <2>9 DEF HookNext
<1>2. RowsGrow(page') /\ \A i \in 1 .. Len(page') : pc'[page'[i].of] # "idle"
  <2>1. CASE page' = page
    <3>a. page \in Seq(ServerRows)
      BY DEF HookTypes, ListTypes
    <3>1. \A i \in 1 .. Len(page) : pc[page[i].of] # "idle" /\ page[i].of \in Sends
      <4>1. \A i \in 1 .. Len(page) : page[i] \in ServerRows
        BY <3>a
      <4> QED
        BY <4>1 DEF ServerRows, RowsHold
    <3> QED
      BY <1>0, <2>1, <3>1 DEF RowsHold, Onward
  <2>2. CASE page' = <<>>
    BY <2>2 DEF RowsGrow
  <2>3. CASE LoadAnswer /\ page' # <<>>
    <3>0. latest[trip] # NoSend /\ trip \in Trips /\ pc' = pc
      BY <2>3 DEF LoadAnswer, History, HookTypes, ScreenTypes
    <3> DEFINE list == rows[latest[trip]]
               S == {r \in ToSet(rows[latest[trip]]) : r.who = "user" \/ r.text # NoText}
    <3>1. page' = Sublist(list, S)
      BY <2>3, <3>0 DEF LoadAnswer, History
    <3>2. latest[trip] \in Sends
      BY <3>0, HookBounds DEF HookTypes, StoreTypes
    <3>3. list \in Seq(ServerRows) /\ RowsGrow(list) /\ \A i \in 1 .. Len(list) : pc[list[i].of] # "idle"
      <4>1. list \in Seq(ServerRows) /\ RowsGrow(list) /\ \A i \in 1 .. Len(list) : phase[list[i].of] # "idle"
        BY <3>2 DEF HookTypes, StoreTypes, RowsHold
      <4>2. \A i \in 1 .. Len(list) : list[i].of \in Sends
        <5> HIDE DEF list
        <5>1. \A i \in 1 .. Len(list) : list[i] \in ServerRows
          BY <4>1
        <5> QED
          BY <5>1 DEF ServerRows
      <4> QED
        BY <4>1, <4>2 DEF StepsHold
    <3> DEFINE out == Sublist(list, S)
    <3> HIDE DEF list, S
    <3>4. out \in Seq(ServerRows) /\ PicksOf(list, S, out)
      BY <3>3, SublistPicks
    <3> HIDE DEF out
    <3>5. \A i \in 1 .. Len(out) : pc[out[i].of] # "idle"
      BY <3>3, <3>4 DEF PicksOf
    <3>6. ASSUME NEW i \in 1 .. Len(out), NEW j \in 1 .. Len(out), i < j
          PROVE  RowFollows(out[i], out[j])
      <4>1. PICK k \in 1 .. Len(list), l \in 1 .. Len(list) : k < l /\ out[i] = list[k] /\ out[j] = list[l]
        BY <3>4, <3>6 DEF PicksOf
      <4> QED
        BY <3>3, <4>1 DEF RowsGrow
    <3>7. RowsGrow(out)
      BY <3>6 DEF RowsGrow
    <3> QED
      BY <3>0, <3>1, <3>5, <3>7 DEF out
  <2>4. (\E t \in Trips : Mount(t) \/ ChangeTrip(t)) \/ Unmount => page' = <<>>
    BY DEF Mount, ChangeTrip, Open, Unmount, Reset
  <2>5. HydrateRead \/ Hydrate \/ LoadApply \/ LoadFail \/ RetryHistory => page' \in {page, <<>>}
    BY DEF HydrateRead, Hydrate, LoadApply, LoadFail, RetryHistory, History
  <2>6. Stop \/ UNCHANGED hookVars => page' = page
    BY DEF Stop, Caught, Finish, hookVars, effects
  <2>7. ASSUME NEW k \in Sends,
               Send(k) \/ Accept(k) \/ Reject(k) \/ StorePart(k) \/ StoreAnswer(k) \/ CutStream(k)
        PROVE  page' = page
    BY <2>7 DEF Send, Accept, Reject, StorePart, StoreAnswer, CutStream, Server, effects
  <2>8. ASSUME NEW k \in Sends,
               SessionCreated(k) \/ TextDelta(k) \/ MessageComplete(k) \/ StreamError(k) \/ EndStream(k) \/ Fail(k)
                 \/ Timeout(k)
        PROVE  page' = page
    BY <2>8, CompleteDoes DEF SessionCreated, TextDelta, StreamError, Event, EndStream, Fail,
       Timeout, Caught, Finish, effects
  <2> QED
    BY <2>1, <2>2, <2>3, <2>4, <2>5, <2>6, <2>7, <2>8 DEF HookNext
<1> QED
  BY <1>1, <1>2 DEF RowsHold, RowsGrow, RowFollows, RowWillHold

(* A send that runs on the screen has the guards; a stream is only stopped   *)
(* or told of while its send runs.                                           *)
LEMMA GuardsStep ==
  ASSUME HookTypes, StepsHold, ~disturbed => GuardsHold, HookNext \/ UNCHANGED hookVars
  PROVE  ~disturbed' => GuardsHold'
<1> SUFFICES ASSUME ~disturbed' PROVE GuardsHold'
  OBVIOUS
<1>0. /\ trip \in Trips \cup {NoTrip} /\ NoTrip \notin Trips /\ moves \in Nat
      /\ mount \in 0 .. moves
      /\ (\A k \in Sends : sent[k].move \in 0 .. moves) /\ controller \in 0 .. MaxSends
      /\ (controller # NoSend => controller \in Sends) /\ isSending = isStreaming
      /\ NoSend \notin Sends
  <2>1. /\ trip \in Trips \cup {NoTrip} /\ moves \in Nat /\ mount \in 0 .. moves
        /\ NoTrip \notin Trips /\ NoSend \notin Sends
    BY HookBounds DEF HookTypes, ScreenTypes
  <2>2. \A k \in Sends : sent[k].move \in 0 .. moves
    BY DEF HookTypes, SendTypes
  <2>3. /\ controller \in 0 .. MaxSends /\ (controller # NoSend => controller \in Sends)
        /\ isSending = isStreaming
    BY HookBounds DEF HookTypes, GuardTypes
  <2> QED
    BY <2>1, <2>2, <2>3
<1>1. CASE \E t \in Trips : Mount(t)
  <2>1. /\ mount' = moves + 1 /\ sent' = sent /\ controller' = NoSend /\ isStreaming' = FALSE
        /\ bubble' = NoBubble
    BY <1>1 DEF Mount, Open, Reset
  <2>2. \A k \in Sends : ~Alive(k)'
    BY <1>0, <2>1 DEF Alive
  <2> QED
    BY <2>1, <2>2 DEF GuardsHold
<1>2. CASE \E t \in Trips : ChangeTrip(t)
  <2>1. /\ trip # NoTrip /\ mount' = mount /\ sent' = sent /\ pc' = pc /\ controller' = controller
        /\ isStreaming' = FALSE /\ bubble' = NoBubble /\ ~disturbed /\ \A k \in Sends : ~(Running(k) /\ Alive(k))
    BY <1>2 DEF ChangeTrip, Open, Reset
  <2>2. controller = NoSend
    BY <1>0, <2>1 DEF GuardsHold
  <2>3. \A k \in Sends : ~(Running(k) /\ Alive(k))'
    BY <2>1 DEF Running, Alive
  <2> QED
    BY <2>1, <2>2, <2>3 DEF GuardsHold
<1>3. CASE Unmount
  <2>1. trip' = NoTrip /\ controller' = NoSend /\ isStreaming' = FALSE /\ bubble' = NoBubble
    BY <1>3 DEF Unmount, Reset
  <2> QED
    BY <2>1 DEF GuardsHold, Alive
<1>4. ASSUME UNCHANGED <<pc, phase, sent, screen, guards, bubble, disturbed>> PROVE GuardsHold'
  BY <1>4 DEF GuardsHold, Running, Alive, Live, screen, guards
<1>5. ASSUME NEW k \in Sends, Send(k) PROVE GuardsHold'
  <2>1. /\ trip # NoTrip /\ ~isSending /\ pc[k] = "idle" /\ isStreaming' = TRUE /\ controller' = k
        /\ bubble' = NoBubble
        /\ pc' = [pc EXCEPT ![k] = "sent"] /\ UNCHANGED <<trip, mount, moves, disturbed>>
        /\ sent' = [sent EXCEPT ![k] = [trip |-> trip, session |-> sessionId, move |-> moves]]
    BY <1>5 DEF Send, screen
  <2>2. GuardsHold /\ controller = NoSend
    BY <1>0, <2>1 DEF GuardsHold
  <2>3. \A j \in Sends : ~(Running(j) /\ Alive(j))
    BY <2>2, <1>0 DEF GuardsHold
  <2>4. pc'[k] = "sent" /\ sent'[k].move = moves
    BY <2>1 DEF HookTypes, SendTypes
  <2>5. \A j \in Sends \ {k} : pc'[j] = pc[j] /\ sent'[j] = sent[j]
    BY <2>1 DEF HookTypes, SendTypes
  <2>6. \A j \in Sends \ {k} : ~(Running(j) /\ Alive(j))'
    BY <2>1, <2>3, <2>5 DEF Running, Alive
  <2>7. (Running(k) /\ Alive(k))'
    BY <1>0, <2>1, <2>4 DEF Running, Alive
  <2> QED
    BY <1>0, <2>1, <2>4, <2>6, <2>7 DEF GuardsHold
<1> DEFINE Still(k) ==
             /\ UNCHANGED <<sent, screen, disturbed>> /\ \A j \in Sends \ {k} : pc'[j] = pc[j] /\ phase'[j] = phase[j]
<1>6. ASSUME NEW k \in Sends, Still(k), UNCHANGED <<guards, bubble>>, Running(k) = Running(k)',
             Live(k) => Live(k)'
      PROVE  GuardsHold'
  <2>1. GuardsHold
    BY <1>6
  <2>2. \A j \in Sends : Alive(j)' = Alive(j) /\ Running(j)' = Running(j) /\ (Live(j) => Live(j)')
    BY <1>6 DEF Alive, Running, Live, screen
  <2>3. UNCHANGED <<sent, moves, controller, isStreaming, bubble>>
    BY <1>6 DEF guards, screen
  <2> QED
    BY <1>0, <2>1, <2>2, <2>3 DEF GuardsHold
<1>7. ASSUME NEW k \in Sends,
             Accept(k) \/ Reject(k) \/ StorePart(k) \/ StoreAnswer(k) \/ CutStream(k)
      PROVE  GuardsHold'
  <2>1. UNCHANGED <<sent, screen, disturbed, guards, bubble>>
    BY <1>7 DEF Accept, Reject, StorePart, StoreAnswer, CutStream, Server, notes
  <2>2. Still(k) /\ Running(k) = Running(k)' /\ (Live(k) => Live(k)')
    <3>1. CASE Accept(k)
      <4>1. phase[k] = "idle" /\ phase' = [phase EXCEPT ![k] = "open"] /\ pc[k] # "idle"
        BY <3>1 DEF Accept, Server, Stream!Open
      <4>2. /\ pc[k] \in {"done", "failed"} => pc' = [pc EXCEPT ![k] = pc[k]]
            /\ pc[k] \notin {"done", "failed"} => \E s \in {"opened", "listening"} : pc' = [pc EXCEPT ![k] = s]
        BY <3>1, <4>1 DEF Accept, Server, Running
      <4>3. ~Live(k)
        BY <4>1 DEF StepsHold, Live
      <4> QED
        BY <2>1, <4>1, <4>2, <4>3 DEF HookTypes, SendTypes, StreamTypes, Running
    <3>2. CASE Reject(k)
      BY <2>1, <3>2 DEF Reject, Server, Stream!Refuse, HookTypes, StreamTypes, Running, Live
    <3>3. CASE StorePart(k)
      BY <2>1, <3>3 DEF StorePart, Server, Running, Live
    <3>4. CASE StoreAnswer(k)
      BY <2>1, <3>4 DEF StoreAnswer, Server, Stream!Answer, HookTypes, StreamTypes, Running, Live
    <3>5. CASE CutStream(k)
      BY <2>1, <3>5 DEF CutStream, Server, Running, Live
    <3> QED
      BY <1>7, <3>1, <3>2, <3>3, <3>4, <3>5
  <2> QED
    BY <1>6, <2>1, <2>2
<1>8. ASSUME NEW k \in Sends, SessionCreated(k) PROVE GuardsHold'
  <2>1. /\ pc[k] = "opened" /\ pc' = [pc EXCEPT ![k] = "listening"] /\ phase' = phase
        /\ UNCHANGED <<sent, screen, disturbed, guards, bubble>>
    BY <1>8 DEF SessionCreated, Event, notes
  <2>2. Still(k) /\ Running(k) = Running(k)' /\ (Live(k) => Live(k)')
    BY <2>1 DEF HookTypes, SendTypes, Running, Live
  <2> QED
    BY <1>6, <2>1, <2>2
<1>9. ASSUME NEW k \in Sends, Still(k), UNCHANGED guards, Running(k), Running(k)', ~Alive(k),
             bubble' = bubble
      PROVE  GuardsHold'
  <2>1. GuardsHold
    BY <1>9
  <2>2. \A j \in Sends : Alive(j)' = Alive(j) /\ Running(j)' = Running(j) /\ (j # k => Live(j)' = Live(j))
    BY <1>9 DEF Alive, Running, Live, screen
  <2>3. controller # k /\ UNCHANGED <<sent, moves, controller, isStreaming, bubble>>
    BY <1>0, <1>9, <2>1 DEF guards, screen, GuardsHold
  <2> QED
    BY <1>0, <1>9, <2>1, <2>2, <2>3 DEF GuardsHold
<1>10. ASSUME NEW k \in Sends, Still(k), UNCHANGED guards, Running(k), Running(k)', Alive(k),
              Live(k)',
              bubble' # NoBubble => bubble' = bubble \/ bubble'[1] = k
       PROVE  GuardsHold'
  <2>1. GuardsHold
    BY <1>10
  <2>2. \A j \in Sends : Alive(j)' = Alive(j) /\ Running(j)' = Running(j)
    BY <1>10 DEF Alive, Running, screen
  <2>3. controller = k /\ UNCHANGED <<sent, moves, controller, isStreaming>>
    BY <1>0, <1>10, <2>1 DEF guards, screen, GuardsHold
  <2> QED
    BY <1>0, <1>10, <2>1, <2>2, <2>3 DEF GuardsHold
<1>11. ASSUME NEW k \in Sends, TextDelta(k) PROVE GuardsHold'
  <2>1. /\ pc[k] = "listening" /\ UNCHANGED <<pc, phase, sent, screen, guards, disturbed>>
        /\ IF Alive(k) THEN bubble' \in {bubble, <<k, Cardinality(said[k])>>} ELSE bubble' = bubble
    BY <1>11 DEF TextDelta, Event, Stream!Speak, Sets, notes
  <2>2. Still(k) /\ Running(k) /\ Running(k)' /\ Live(k)'
    BY <2>1 DEF Running, Live
  <2>3. <<k, Cardinality(said[k])>>[1] = k
    OBVIOUS
  <2> QED
    BY <1>9, <1>10, <2>1, <2>2, <2>3
<1>12. ASSUME NEW k \in Sends, StreamError(k) PROVE GuardsHold'
  <2>1. /\ pc[k] = (IF phase[k] = "open" THEN "listening" ELSE "told") /\ pc' = [pc EXCEPT ![k] = "told"]
        /\ phase' = [phase EXCEPT ![k] = IF phase[k] = "open" THEN "failed" ELSE phase[k]]
        /\ UNCHANGED <<sent, screen, guards, disturbed, bubble>>
    BY <1>12 DEF StreamError, Event, Stream!Fail, notes
  <2>2. Still(k) /\ Running(k) /\ Running(k)' /\ (Live(k) => Live(k)')
    BY <2>1 DEF HookTypes, SendTypes, StreamTypes, Running, Live
  <2>3. Running(k) = Running(k)' /\ UNCHANGED <<guards, bubble>>
    BY <2>1, <2>2 DEF Running
  <2> QED
    BY <1>6, <2>1, <2>2, <2>3
<1>13. ASSUME NEW k \in Sends, MessageComplete(k) PROVE GuardsHold'
  <2>1. /\ pc[k] = "listening" /\ pc' = [pc EXCEPT ![k] = "told"] /\ phase' = phase
        /\ UNCHANGED <<sent, screen, guards, disturbed>> /\ bubble' = IF Alive(k) THEN NoBubble ELSE bubble
    BY <1>13, CompleteDoes DEF Sets, notes
  <2>2. Still(k) /\ Running(k) /\ Running(k)'
    BY <2>1 DEF HookTypes, SendTypes, Running
  <2>3. ASSUME Alive(k) PROVE GuardsHold'
    <3>1. GuardsHold
      BY <2>1
    <3>2. \A j \in Sends : Alive(j)' = Alive(j) /\ Running(j)' = Running(j)
      BY <2>2 DEF Alive, Running, screen
    <3>3. UNCHANGED <<sent, moves, controller, isStreaming>> /\ bubble' = NoBubble
      BY <2>1, <2>3 DEF guards, screen
    <3> QED
      BY <1>0, <3>1, <3>2, <3>3 DEF GuardsHold
  <2> QED
    BY <1>9, <2>1, <2>2, <2>3
<1>14. ASSUME NEW k \in Sends, NEW how \in {"done", "failed"}, NEW failed, Finish(k, how, failed),
              Running(k), phase' = phase
       PROVE  GuardsHold'
  <2>1. /\ pc' = [pc EXCEPT ![k] = how] /\ UNCHANGED <<sent, screen, disturbed>>
        /\ IF Alive(k) THEN controller' = NoSend /\ isStreaming' = FALSE /\ bubble' = NoBubble
           ELSE UNCHANGED <<controller, isStreaming, bubble>>
    BY <1>14 DEF Finish, Sets, notes
  <2>2. GuardsHold /\ pc'[k] = how /\ \A j \in Sends \ {k} : pc'[j] = pc[j]
    BY <2>1 DEF HookTypes, SendTypes
  <2>3. ~Running(k)' /\ \A j \in Sends : Alive(j)' = Alive(j) /\ (j # k => Running(j)' = Running(j) /\ Live(j)' = Live(j))
    BY <1>14, <2>1, <2>2 DEF Alive, Running, Live, screen
  <2>4. CASE Alive(k)
    <3>1. controller = k
      BY <1>14, <2>2, <2>4 DEF GuardsHold
    <3> QED
      BY <1>0, <2>1, <2>2, <2>3, <2>4, <3>1 DEF GuardsHold, screen
  <2>5. CASE ~Alive(k)
    <3>1. controller # k
      BY <1>0, <2>2, <2>5 DEF GuardsHold
    <3> QED
      BY <1>0, <2>1, <2>2, <2>3, <2>5, <3>1 DEF GuardsHold, screen
  <2> QED
    BY <2>4, <2>5
<1>15. ASSUME NEW k \in Sends, EndStream(k) \/ Fail(k) \/ Timeout(k) PROVE GuardsHold'
  <2>1. Running(k) /\ phase' = phase
    BY <1>15 DEF EndStream, Fail, Timeout, Running
  <2>2. \E how \in {"done", "failed"} : \E failed : Finish(k, how, failed)
    BY <1>15 DEF EndStream, Fail, Timeout, Caught
  <2> QED
    BY <1>14, <2>1, <2>2
<1>16. CASE Stop
  <2>1. controller \in Sends /\ Finish(controller, "failed", lastFailed) /\ phase' = phase /\ disturbed' = disturbed
    BY <1>0, <1>16 DEF Stop, Caught, Finish, notes
  <2>2. Running(controller)
    BY <1>0, <2>1 DEF GuardsHold
  <2> QED
    BY <1>14, <2>1, <2>2
<1>17. HydrateRead \/ Hydrate \/ LoadAnswer \/ LoadApply \/ LoadFail \/ RetryHistory
         => UNCHANGED <<pc, phase, sent, screen, guards, bubble, disturbed>>
  BY DEF HydrateRead, Hydrate, LoadAnswer, LoadApply, LoadFail, RetryHistory, History, notes
<1>18. UNCHANGED hookVars => UNCHANGED <<pc, phase, sent, screen, guards, bubble, disturbed>>
  BY DEF hookVars, notes
<1> HIDE DEF Still
<1> QED
  BY <1>1, <1>2, <1>3, <1>4, <1>5, <1>7, <1>8, <1>11, <1>12, <1>13, <1>15, <1>16, <1>17, <1>18
     DEF HookNext

(* What a list shows of the hook's own.                                      *)
OwnOf(list) == {m \in ToSet(list) : Mine(m)}

(* Own is what the messages show of it.                                      *)
LEMMA OwnIs == Own = OwnOf(messages) /\ Own' = OwnOf(messages')
BY DEF Own, OwnOf, Mine

(* The entries of a list are its elements.                                   *)
LEMMA ToSetIs ==
  ASSUME NEW T, NEW list \in Seq(T)
  PROVE  \A m : m \in ToSet(list) <=> \E i \in 1 .. Len(list) : m = list[i]
BY DEF ToSet

(* A list with one more.                                                     *)
LEMMA OwnAppended ==
  ASSUME NEW list \in Seq(Entries), NEW x \in Entries, Mine(x)
  PROVE  OwnOf(Append(list, x)) = OwnOf(list) \cup {x}
<1> DEFINE new == Append(list, x)
           n == Len(list)
<1>1. new \in Seq(Entries) /\ Len(new) = n + 1 /\ n \in Nat /\ new[n + 1] = x /\ \A i \in 1 .. n : new[i] = list[i]
  OBVIOUS
<1> HIDE DEF new
<1>2. \A m : m \in ToSet(new) <=> \E i \in 1 .. n + 1 : m = new[i]
  BY <1>1, ToSetIs
<1>3. \A m : m \in ToSet(list) <=> \E i \in 1 .. n : m = list[i]
  BY ToSetIs
<1> HIDE DEF n
<1>4. \A i \in 1 .. n + 1 : i \in 1 .. n \/ i = n + 1
  BY <1>1
<1>5. 1 .. n \subseteq 1 .. n + 1 /\ n + 1 \in 1 .. n + 1
  BY <1>1
<1>6. \A m : m \in ToSet(new) <=> m \in ToSet(list) \/ m = x
  BY <1>1, <1>2, <1>3, <1>4, <1>5
<1> QED
  BY <1>6 DEF OwnOf, new

(* A list behind a history.                                                  *)
LEMMA OwnLoaded ==
  ASSUME NEW list \in Seq(Entries), NEW new \in Seq(ServerRows)
  PROVE  OwnOf(new \o list) = OwnOf(list)
<1> DEFINE all == new \o list
           n == Len(new)
           p == Len(list)
<1>1. n \in Nat /\ p \in Nat /\ \A i \in 1 .. n : new[i] \in ServerRows
  OBVIOUS
<1>2. /\ Len(all) = n + p /\ (\A i \in 1 .. n : all[i] = new[i])
      /\ (\A i \in 1 .. p : all[n + i] = list[i]) /\ \A i \in 1 .. n + p : all[i] = IF i <= n THEN new[i] ELSE list[i - n]
  OBVIOUS
<1>3. DOMAIN all = 1 .. n + p /\ DOMAIN list = 1 .. p
  OBVIOUS
<1> HIDE DEF all, n, p
<1>4. \A i \in 1 .. n : ~Mine(all[i])
  BY <1>1, <1>2 DEF ServerRows, Mine
<1>5. \A i \in 1 .. n + p : i \in 1 .. n \/ \E l \in 1 .. p : i = n + l
  <2> SUFFICES ASSUME NEW i \in 1 .. n + p, i \notin 1 .. n PROVE \E l \in 1 .. p : i = n + l
    OBVIOUS
  <2>1. i - n \in 1 .. p /\ i = n + (i - n)
    BY <1>1
  <2> QED
    BY <2>1
<1>6. \A l \in 1 .. p : n + l \in 1 .. n + p
  BY <1>1
<1>7. \A m : m \in OwnOf(all) <=> \E i \in 1 .. n + p : m = all[i] /\ Mine(m)
  BY <1>3 DEF OwnOf, ToSet
<1>8. \A m : m \in OwnOf(list) <=> \E i \in 1 .. p : m = list[i] /\ Mine(m)
  BY <1>3 DEF OwnOf, ToSet
<1>9. ASSUME NEW m, m \in OwnOf(all) PROVE m \in OwnOf(list)
  <2>1. PICK i \in 1 .. n + p : m = all[i] /\ Mine(m)
    BY <1>7, <1>9
  <2>2. PICK l \in 1 .. p : i = n + l
    BY <1>4, <1>5, <2>1
  <2> QED
    BY <1>2, <1>8, <2>1, <2>2
<1>10. ASSUME NEW m, m \in OwnOf(list) PROVE m \in OwnOf(all)
  <2>1. PICK l \in 1 .. p : m = list[l] /\ Mine(m)
    BY <1>8, <1>10
  <2> QED
    BY <1>2, <1>6, <1>7, <2>1
<1> QED
  BY <1>9, <1>10 DEF all

(* Entries of a bubble are filled with a text.                               *)
Filled(new, id, t) ==
  /\ \A m \in Own : IF m.origin = id THEN \E n \in new : Alike(m, n) /\ n.text = t ELSE m \in new
  /\ \A n \in new : (n \in Own /\ n.origin # id) \/ (n.text = t /\ n.origin = id /\ \E m \in Own : Alike(m, n))

(* Filling a bubble does that.                                               *)
LEMMA OwnReplaced ==
  ASSUME messages \in Seq(Entries), NEW id \in Sends \X Nat, NEW t \in SUBSET Frags
  PROVE  Filled(OwnOf(Replaced(id, t)), id, t)
<1> DEFINE out == Replaced(id, t)
           n == Len(messages)
<1>1. /\ out \in Seq(Entries) /\ Len(out) = n
      /\ \A i \in 1 .. n : /\ Alike(messages[i], out[i])
                           /\ IF messages[i].origin = id THEN out[i].text = t ELSE out[i] = messages[i]
  BY ReplacedKeeps
<1> HIDE DEF out
<1>2. \A m : m \in ToSet(out) <=> \E i \in 1 .. n : m = out[i]
  BY <1>1, ToSetIs
<1>3. \A m : m \in ToSet(messages) <=> \E i \in 1 .. n : m = messages[i]
  BY ToSetIs
<1> HIDE DEF n
<1>4. \A i \in 1 .. n : out[i].origin = messages[i].origin /\ (Mine(out[i]) <=> Mine(messages[i]))
  BY <1>1 DEF Alike, Mine
<1>5. ASSUME NEW m \in Own
      PROVE  IF m.origin = id THEN \E k \in OwnOf(out) : Alike(m, k) /\ k.text = t ELSE m \in OwnOf(out)
  <2>1. PICK i \in 1 .. n : m = messages[i] /\ Mine(m)
    BY <1>3, <1>5 DEF Own
  <2>2. out[i] \in OwnOf(out)
    BY <1>2, <1>4, <2>1 DEF OwnOf
  <2> QED
    BY <1>1, <2>1, <2>2
<1>6. ASSUME NEW k \in OwnOf(out)
      PROVE  (k \in Own /\ k.origin # id) \/ (k.text = t /\ k.origin = id /\ \E m \in Own : Alike(m, k))
  <2>1. PICK i \in 1 .. n : k = out[i] /\ Mine(k)
    BY <1>2, <1>6 DEF OwnOf
  <2>2. messages[i] \in Own
    BY <1>3, <1>4, <2>1 DEF Own
  <2> QED
    BY <1>1, <1>4, <2>1, <2>2
<1> QED
  BY <1>5, <1>6 DEF Filled, out

(* The entries of a bubble are dropped.                                      *)
LEMMA OwnWithout ==
  ASSUME messages \in Seq(Entries), NEW id \in Sends \X Nat
  PROVE  OwnOf(Without(id)) = {m \in Own : m.origin # id}
<1> DEFINE S == {m \in ToSet(messages) : m.origin # id}
           out == Sublist(messages, S)
<1>0. \A m : m \in ToSet(messages) <=> \E i \in 1 .. Len(messages) : m = messages[i]
  BY ToSetIs
<1>1. out \in Seq(Entries) /\ PicksOf(messages, S, out)
  <2> HIDE DEF S
  <2> QED
    BY SublistPicks
<1> HIDE DEF out
<1>2. \A m : m \in ToSet(out) <=> \E i \in 1 .. Len(out) : m = out[i]
  BY <1>1, ToSetIs
<1>3. \A m : m \in ToSet(out) => m \in S
  BY <1>1, <1>2 DEF PicksOf
<1>4. ASSUME NEW m \in S PROVE m \in ToSet(out)
  <2>1. PICK k \in 1 .. Len(messages) : m = messages[k]
    BY <1>0
  <2>2. PICK i \in 1 .. Len(out) : out[i] = messages[k]
    <3> HIDE DEF S
    <3> QED
      BY <1>1, <1>4, <2>1 DEF PicksOf
  <2> QED
    BY <1>2, <2>1, <2>2
<1>5. Without(id) = out
  BY DEF Without, out
<1> QED
  BY <1>3, <1>4, <1>5 DEF OwnOf, Own

(* A step of k changes nothing of other sends, and the bubble only while k   *)
(* runs on the screen.                                                       *)
Calm(k) ==
  /\ UNCHANGED <<trip, moves, sent>>
  /\ \A j \in Sends \ {k} : pc'[j] = pc[j] /\ phase'[j] = phase[j] /\ said'[j] = said[j] /\ shown'[j] = shown[j]
  /\ \A m \in Entries : m.of # k => (m \in Own' <=> m \in Own)
  /\ bubble' = bubble \/ (Running(k) /\ Alive(k))
OwnPart(k) == (\A m \in Own : m.of = k => Fits(m)) /\ Shows(k)
OwnPartNext(k) == (\A m \in Own' : m.of = k => Fits(m)') /\ Shows(k)'

(* What is sent by the screen belongs to it.                                 *)
LEMMA HereIsAlive ==
  ASSUME HookTypes, NEW k \in Sends
  PROVE  /\ Here(k) => Alive(k)
         /\ GuardsHold /\ Running(k) /\ Alive(k) => Here(k) /\ controller = k
         /\ Here(k) /\ Live(k) => Running(k)
<1>1. mount \in 0 .. moves /\ moves \in Nat
  BY HookBounds DEF HookTypes, ScreenTypes
<1>2. Here(k) => Alive(k)
  BY <1>1 DEF Here, Alive
<1>3. GuardsHold /\ Running(k) /\ Alive(k) => Here(k) /\ controller = k
  BY DEF GuardsHold, Running, Alive, Here
<1>4. Live(k) => Running(k)
  BY DEF Live, Running
<1> QED
  BY <1>2, <1>3, <1>4

(* The hook's own entries.                                                   *)
LEMMA OwnEntries ==
  ASSUME HookTypes
  PROVE  /\ Own \subseteq Entries
         /\ \A m \in Own : m.of \in Sends /\ (m.who = "assistant" => m.origin \in Sends \X Nat /\ m.of = m.origin[1])
         /\ \A m \in Own : m.origin \in Sends \X Nat => m.who = "assistant" /\ m.of = m.origin[1]
<1>1. Own \subseteq Entries
  <2>1. messages \in Seq(Entries)
    BY DEF HookTypes, ListTypes
  <2> QED
    BY <2>1, ToSetIs DEF Own
<1> QED
  BY <1>1, EntryKinds DEF Own

(* The rest of the list fits and shows as before.                            *)
LEMMA OthersStay ==
  ASSUME HookTypes, HookTypes', GuardsHold, HookFits, HookShows, NEW k \in Sends, Calm(k),
         pc[k] # "idle", pc'[k] # "idle",
         IF Here(k) THEN OwnPartNext(k) ELSE Own' = Own
  PROVE  HookFits' /\ HookShows'
<1>1. Here(k)' = Here(k)
  BY DEF Calm, Here
<1>2. \A m \in Own' : m.of = k => Fits(m)'
  <2>1. CASE Here(k)
    BY <2>1 DEF OwnPartNext
  <2>2. CASE ~Here(k)
    BY <2>2 DEF HookFits, Fits
  <2> QED
    BY <2>1, <2>2
<1>3. Own \subseteq Entries /\ Own' \subseteq Entries
  <2>1. Own' \subseteq Entries
    <3>1. messages' \in Seq(Entries)
      BY DEF HookTypes, ListTypes
    <3>2. Own' = OwnOf(messages')
      BY OwnIs
    <3> QED
      BY <3>1, <3>2, ToSetIs DEF OwnOf
  <2> QED
    BY <2>1, OwnEntries
<1>4. ASSUME NEW j \in Sends \ {k}
      PROVE  /\ Here(j)' = Here(j) /\ Live(j)' = Live(j) /\ Ended(j)' = Ended(j)
             /\ Full(j)' = Full(j) /\ said'[j] = said[j] /\ pc'[j] = pc[j] /\ phase'[j] = phase[j]
  BY DEF Calm, Here, Live, Ended, Full
<1>5. ASSUME NEW j \in Sends \ {k}, Here(j), Live(j) PROVE bubble' = bubble
  <2>1. controller = j
    BY <1>5, HereIsAlive
  <2> QED
    BY <2>1, HereIsAlive DEF Calm
<1>6. ASSUME NEW m \in Own', m.of # k PROVE Fits(m)'
  <2>1. m \in Own /\ m.of \in Sends \ {k}
    BY <1>3, <1>6, OwnEntries DEF Calm
  <2>2. Fits(m)
    BY <2>1 DEF HookFits
  <2> QED
    BY <1>4, <1>5, <2>1, <2>2 DEF Fits
<1>7. ASSUME NEW j \in Sends \ {k}, Here(j)' PROVE Shows(j)'
  <2>1. Here(j) /\ Shows(j)
    BY <1>4, <1>7 DEF HookShows
  <2>2. ASSUME NEW who PROVE Showing(j, who)' = Showing(j, who)
    <3>1. \A m \in Entries : m.of = j => (m \in Own' <=> m \in Own)
      BY DEF Calm
    <3> QED
      BY <1>3, <3>1 DEF Showing
  <2> QED
    BY <1>4, <1>5, <2>1, <2>2 DEF Shows
<1> QED
  BY <1>1, <1>2, <1>6, <1>7 DEF HookFits, HookShows, OwnPartNext

(* What is filled is the bubble's, and nothing comes or goes.                *)
LEMMA FilledShows ==
  ASSUME HookTypes, NEW k \in Sends, bubble \in Sends \X Nat, bubble[1] = k, NEW t \in SUBSET Frags,
         Filled(Own', bubble, t)
  PROVE  /\ \A m \in Entries : m.of # k => (m \in Own' <=> m \in Own)
         /\ \A n \in Own' : n.of = k => n \in Own \/ (n.who = "assistant" /\ n.origin = bubble)
         /\ \A n \in Own' : n.of = k /\ n.origin = bubble => n.text = t /\ \E m \in Own : m.of = k /\ m.who = n.who /\ m.origin = bubble
         /\ \A who : Showing(k, who) => Showing(k, who)'
<1>1. \A m \in Own : m.origin = bubble => m.who = "assistant" /\ m.of = k
  BY OwnEntries
<1>2. \A m \in Entries : m.of # k => (m \in Own' <=> m \in Own)
  BY <1>1 DEF Filled, Alike
<1>3. \A n \in Own' : n.of = k => n \in Own \/ (n.who = "assistant" /\ n.origin = bubble)
  BY <1>1 DEF Filled, Alike
<1>4. ASSUME NEW n \in Own', n.of = k, n.origin = bubble
      PROVE  n.text = t /\ \E m \in Own : m.of = k /\ m.who = n.who /\ m.origin = bubble
  BY <1>4 DEF Filled, Alike
<1>5. ASSUME NEW who, Showing(k, who) PROVE Showing(k, who)'
  <2>1. PICK m \in Own : m.of = k /\ m.who = who
    BY <1>5 DEF Showing
  <2>2. \E n \in Own' : n.of = k /\ n.who = who
    BY <2>1 DEF Filled, Alike
  <2> QED
    BY <2>2 DEF Showing
<1> QED
  BY <1>2, <1>3, <1>4, <1>5

(* An entry of k is added.                                                   *)
LEMMA AddedShows ==
  ASSUME HookTypes, NEW k \in Sends, NEW x \in Entries, Mine(x), x.of = k,
         messages' = Append(messages, x)
  PROVE  /\ \A m \in Entries : m.of # k => (m \in Own' <=> m \in Own)
         /\ Own' = Own \cup {x} /\ Showing(k, x.who)'
         /\ \A who : Showing(k, who) => Showing(k, who)'
<1>1. messages \in Seq(Entries)
  BY DEF HookTypes, ListTypes
<1>2. Own' = Own \cup {x}
  BY <1>1, OwnAppended, OwnIs
<1> QED
  BY <1>2 DEF Showing

(* Opening and leaving a screen.                                             *)
LEMMA MoveFits ==
  ASSUME HookTypes, (\E t \in Trips : Mount(t) \/ ChangeTrip(t)) \/ Unmount
  PROVE  HookFits' /\ HookShows' /\ messages' = <<>> /\ (\A k \in Sends : ~Here(k)') /\ Own' = {} /\ Old' = {}
<1>1. messages' = <<>> /\ sent' = sent /\ (trip' = NoTrip \/ moves' = moves + 1)
  BY DEF Mount, ChangeTrip, Open, Unmount, Reset
<1>2. \A k \in Sends : ~Here(k)'
  BY <1>1, HookBounds DEF Here, HookTypes, SendTypes, ScreenTypes
<1>3. Own' = {} /\ Old' = {}
  <2>1. \A m : m \notin ToSet(messages')
    BY <1>1 DEF ToSet
  <2> QED
    BY <2>1 DEF Own, Old
<1> QED
  BY <1>1, <1>2, <1>3 DEF HookFits, HookShows

(* Nothing of the messages sent changes.                                     *)
LEMMA StillFits ==
  ASSUME HookFits, HookShows, Own' = Own,
         UNCHANGED <<trip, moves, sent, pc, phase, said, shown, bubble>>
  PROVE  HookFits' /\ HookShows'
<1>1. \A k \in Sends : Here(k)' = Here(k) /\ Live(k)' = Live(k) /\ Ended(k)' = Ended(k) /\ Full(k)' = Full(k)
  BY DEF Here, Live, Ended, Full
<1>2. \A m : Here(m.of)' = Here(m.of) /\ Live(m.of)' = Live(m.of) /\ Ended(m.of)' = Ended(m.of) /\ Full(m.of)' = Full(m.of)
  BY DEF Here, Live, Ended, Full
<1>3. HookFits'
  BY <1>2 DEF HookFits, Fits
<1>4. HookShows'
  BY <1>1 DEF HookShows, Shows, Showing
<1> QED
  BY <1>3, <1>4

(* The two effects.                                                          *)
LEMMA EffectFits ==
  ASSUME HookTypes, RowsHold, HookFits, HookShows,
         HydrateRead \/ Hydrate \/ LoadAnswer \/ LoadApply \/ LoadFail \/ RetryHistory \/ UNCHANGED hookVars
  PROVE  HookFits' /\ HookShows' /\ Own' = Own
<1>1. UNCHANGED <<trip, moves, sent, pc, phase, said, shown, bubble>>
  BY DEF HydrateRead, Hydrate, LoadAnswer, LoadApply, LoadFail, RetryHistory, History, hookVars,
     screen
<1>2. Own' = Own
  <2>1. CASE LoadApply
    <3>1. PICK new : Loads(new)
      BY <2>1, LoadApplyLoads
    <3>2. messages \in Seq(Entries) /\ new \in Seq(ServerRows) /\ messages' = new \o messages
      BY <3>1 DEF Loads, HookTypes, ListTypes
    <3> QED
      BY <3>2, OwnLoaded, OwnIs
  <2>2. CASE ~LoadApply
    <3>1. messages' = messages
      BY <2>2 DEF HydrateRead, Hydrate, LoadAnswer, LoadFail, RetryHistory, History, hookVars
    <3> QED
      BY <3>1, OwnIs
  <2> QED
    BY <2>1, <2>2
<1> QED
  BY <1>1, <1>2, StillFits

(* A message is sent.                                                        *)
LEMMA SendFits ==
  ASSUME HookTypes, HookTypes', StepsHold, GuardsHold, HookFits, HookShows, NEW k \in Sends, Send(k)
  PROVE  HookFits' /\ HookShows'
<1>1. /\ trip # NoTrip /\ pc[k] = "idle" /\ messages' = Append(messages, You(k))
      /\ bubble' = NoBubble
      /\ pc' = [pc EXCEPT ![k] = "sent"] /\ UNCHANGED <<trip, moves, phase, said, shown>>
      /\ sent' = [sent EXCEPT ![k] = [trip |-> trip, session |-> sessionId, move |-> moves]]
  BY DEF Send, screen
<1>2. bubble = NoBubble
  BY DEF Send, HookTypes, GuardTypes, GuardsHold
<1>3. You(k) \in Entries /\ Mine(You(k)) /\ You(k).of = k /\ You(k).who = "user"
  BY HookMakes, HookBounds
<1>4. /\ \A m \in Entries : m.of # k => (m \in Own' <=> m \in Own)
      /\ Own' = Own \cup {You(k)} /\ Showing(k, "user")'
  BY <1>1, <1>3, AddedShows
<1>5. pc'[k] = "sent" /\ sent'[k].move = moves /\ \A j \in Sends \ {k} : pc'[j] = pc[j] /\ sent'[j] = sent[j]
  BY <1>1 DEF HookTypes, SendTypes
<1>6. Here(k)' /\ Shows(k)'
  BY <1>1, <1>4, <1>5 DEF Here, Shows, Live
<1>7. \A m \in Own : m.of \in Sends \ {k}
  BY <1>1, OwnEntries DEF HookFits, Fits, Here
<1>8. ASSUME NEW j \in Sends \ {k}
      PROVE  /\ Here(j)' = Here(j) /\ Live(j)' = Live(j) /\ Ended(j)' = Ended(j)
             /\ Full(j)' = Full(j)
             /\ said'[j] = said[j] /\ pc'[j] = pc[j] /\ phase'[j] = phase[j]
  BY <1>1, <1>5 DEF Here, Live, Ended, Full
<1>9. HookFits'
  <2>1. ASSUME NEW m \in Own PROVE Fits(m)'
    BY <1>1, <1>2, <1>7, <1>8 DEF HookFits, Fits
  <2>2. Fits(You(k))'
    BY <1>3, <1>6 DEF Fits
  <2> QED
    BY <1>4, <2>1, <2>2 DEF HookFits
<1>10. ASSUME NEW j \in Sends \ {k}, Here(j)' PROVE Shows(j)'
  <2>1. \A who : Showing(j, who) => Showing(j, who)'
    BY <1>4 DEF Showing
  <2>2. Shows(j)
    BY <1>8, <1>10 DEF HookShows
  <2> QED
    BY <1>1, <1>2, <1>8, <2>1, <2>2 DEF Shows
<1> QED
  BY <1>6, <1>9, <1>10 DEF HookShows

(* Nothing is shown or dropped.                                              *)
LEMMA SameOwn ==
  ASSUME messages' = messages
  PROVE  Own' = Own /\ \A k, who : Showing(k, who)' = Showing(k, who)
<1>1. Own' = Own
  BY OwnIs
<1> QED
  BY <1>1 DEF Showing

(* The server's steps.                                                       *)
LEMMA ServerFits ==
  ASSUME HookTypes, HookTypes', StepsHold, GuardsHold, HookFits, HookShows, NEW k \in Sends,
         Accept(k) \/ Reject(k) \/ StorePart(k) \/ StoreAnswer(k) \/ CutStream(k)
  PROVE  HookFits' /\ HookShows'
<1>1. messages' = messages /\ bubble' = bubble /\ UNCHANGED <<trip, moves, sent>>
  BY DEF Accept, Reject, StorePart, StoreAnswer, CutStream, Server, screen
<1>2. Own' = Own /\ \A j, who : Showing(j, who)' = Showing(j, who)
  BY <1>1, SameOwn
<1>3. Here(k) => (\A m \in Own : m.of = k => Fits(m)) /\ Shows(k)
  BY DEF HookFits, HookShows
<1>4. bubble # NoBubble => bubble[1] = controller /\ Live(controller) /\ controller \in Sends
  BY HookBounds DEF GuardsHold, HookTypes, GuardTypes
<1>5. Here(k) /\ Running(k) => controller = k
  BY HereIsAlive
<1>6. CASE Accept(k)
  <2>1. phase[k] = "idle" /\ phase' = [phase EXCEPT ![k] = "open"] /\ pc[k] # "idle" /\ said' = said /\ shown' = shown
    BY <1>6 DEF Accept, Server, Stream!Open
  <2>2. /\ pc[k] \in {"done", "failed"} => pc' = [pc EXCEPT ![k] = pc[k]]
        /\ pc[k] \notin {"done", "failed"} => \E s \in {"opened", "listening"} : pc' = [pc EXCEPT ![k] = s]
    BY <1>6, <2>1 DEF Accept, Server, Running
  <2>3. pc[k] \in {"sent", "failed"}
    BY <2>1 DEF StepsHold, HookTypes, SendTypes
  <2>4. /\ phase'[k] = "open" /\ IF pc[k] = "failed" THEN pc'[k] = "failed" ELSE pc'[k] \in {"opened", "listening"}
        /\ \A j \in Sends \ {k} : phase'[j] = phase[j] /\ pc'[j] = pc[j]
    BY <2>1, <2>2, <2>3 DEF HookTypes, StreamTypes, SendTypes
  <2>5. Calm(k) /\ pc'[k] # "idle"
    BY <1>1, <1>2, <2>1, <2>4 DEF Calm
  <2>6. ASSUME Here(k) PROVE OwnPartNext(k)
    <3>1. ~Live(k) /\ ~Ended(k) 
      BY <2>1, <2>3, <2>4 DEF Live, Ended
    <3>2. \A m \in Own : m.of = k => m.who # "assistant"
      BY <1>3, <2>6, <3>1 DEF Fits
    <3>3. \A m \in Own' : m.of = k => Fits(m)'
      BY <1>1, <1>2, <1>3, <2>4, <2>6, <3>1, <3>2 DEF Fits, Here
    <3>4. Live(k)' => said[k] = NoText /\ bubble = NoBubble
      <4>1. Live(k)' => pc[k] = "sent"
        BY <2>3, <2>4 DEF Live
      <4>2. pc[k] = "sent" => said[k] = NoText
        BY DEF StepsHold
      <4>3. pc[k] = "sent" => controller = k
        BY <1>5, <2>6 DEF Running
      <4> QED
        BY <1>4, <3>1, <4>1, <4>2, <4>3
    <3> QED
      BY <1>1, <1>2, <1>3, <2>1, <2>3, <2>4, <2>6, <3>3, <3>4 DEF OwnPartNext, Shows
  <2> QED
    BY <1>2, <2>1, <2>5, <2>6, OthersStay
<1>7. CASE Reject(k)
  <2>1. /\ pc[k] = "sent" /\ pc' = pc /\ said' = said /\ shown' = shown
        /\ \A j \in Sends \ {k} : phase'[j] = phase[j]
    BY <1>7 DEF Reject, Server, Stream!Refuse, HookTypes, StreamTypes
  <2>2. Calm(k)
    BY <1>1, <1>2, <2>1 DEF Calm
  <2>3. ASSUME Here(k) PROVE OwnPartNext(k)
    <3>1. ~Live(k) /\ ~Ended(k) /\ ~Live(k)' /\ Here(k)'
      BY <1>1, <2>1, <2>3 DEF Live, Ended, Here
    <3>2. \A m \in Own' : m.of = k => Fits(m)'
      BY <1>2, <1>3, <2>3, <3>1 DEF Fits
    <3> QED
      BY <1>2, <1>3, <2>1, <2>3, <3>1, <3>2 DEF OwnPartNext, Shows
  <2> QED
    BY <1>2, <2>1, <2>2, <2>3, OthersStay
<1>8. CASE StorePart(k)
  <2>1. UNCHANGED <<trip, moves, sent, pc, phase, said, shown, bubble>>
    BY <1>1, <1>8 DEF StorePart, Server
  <2> QED
    BY <1>2, <2>1, StillFits
<1>9. CASE StoreAnswer(k)
  <2>1. /\ phase[k] = "open" /\ phase' = [phase EXCEPT ![k] = "answered"] /\ pc' = pc
        /\ said' = said
        /\ \A j \in Sends \ {k} : shown'[j] = shown[j]
    BY <1>9 DEF StoreAnswer, Server, Stream!Answer, HookTypes, StreamTypes
  <2>2. pc[k] \in {"opened", "listening", "failed"}
    BY <2>1 DEF StepsHold, HookTypes, SendTypes
  <2>3. phase'[k] = "answered" /\ \A j \in Sends \ {k} : phase'[j] = phase[j]
    BY <2>1 DEF HookTypes, StreamTypes
  <2>4. Calm(k)
    BY <1>1, <1>2, <2>1, <2>3 DEF Calm
  <2>5. ASSUME Here(k) PROVE OwnPartNext(k)
    <3>1. /\ ~Ended(k) /\ Live(k)' = Live(k) /\ Here(k)'
      BY <1>1, <2>1, <2>2, <2>3, <2>5 DEF Live, Ended, Here
    <3>2. \A m \in Own' : m.of = k => Fits(m)'
      BY <1>1, <1>2, <1>3, <2>1, <2>5, <3>1 DEF Fits
    <3> QED
      BY <1>1, <1>2, <1>3, <2>1, <2>2, <2>5, <3>1, <3>2 DEF OwnPartNext, Shows
  <2> QED
    BY <1>2, <2>1, <2>2, <2>4, <2>5, OthersStay
<1>10. CASE CutStream(k)
  <2>1. /\ pc[k] = "listening" /\ pc' = pc /\ said' = said /\ shown' = shown
        /\ \A j \in Sends \ {k} : phase'[j] = phase[j]
    BY <1>10 DEF CutStream, Server, Stream!Cut
  <2>2. Calm(k)
    BY <1>1, <1>2, <2>1 DEF Calm
  <2>3. ASSUME Here(k) PROVE OwnPartNext(k)
    <3>1. Live(k) /\ ~Ended(k) /\ Live(k)' /\ Here(k)'
      BY <1>1, <2>1, <2>3 DEF Live, Ended, Here
    <3>2. \A m \in Own' : m.of = k => Fits(m)'
      BY <1>1, <1>2, <1>3, <2>1, <2>3, <3>1 DEF Fits
    <3> QED
      BY <1>1, <1>2, <1>3, <2>1, <2>3, <3>1, <3>2 DEF OwnPartNext, Shows
  <2> QED
    BY <1>2, <2>1, <2>2, <2>3, OthersStay
<1> QED
  BY <1>6, <1>7, <1>8, <1>9, <1>10

(* A send that no screen knows of any more changes nothing that is shown.    *)
LEMMA AwayFits ==
  ASSUME HookTypes, HookTypes', GuardsHold, HookFits, HookShows, NEW k \in Sends, ~Alive(k),
         messages' = messages,
         bubble' = bubble, UNCHANGED <<trip, moves, sent>>, pc[k] # "idle", pc'[k] # "idle",
         \A j \in Sends \ {k} : pc'[j] = pc[j] /\ phase'[j] = phase[j] /\ said'[j] = said[j] /\ shown'[j] = shown[j]
  PROVE  HookFits' /\ HookShows'
<1>1. Own' = Own
  BY SameOwn
<1>2. Calm(k)
  BY <1>1 DEF Calm
<1>3. ~Here(k)
  BY HereIsAlive
<1> QED
  BY <1>1, <1>2, <1>3, OthersStay

(* What is said of its bubble when k runs on the screen.                     *)
LEMMA BubbleIs ==
  ASSUME HookTypes, GuardsHold, HookFits, HookShows, NEW k \in Sends, Running(k), Alive(k)
  PROVE  /\ Here(k) /\ controller = k /\ OwnPart(k)
         /\ bubble # NoBubble => bubble \in Sends \X Nat /\ bubble[1] = k /\ Live(k)
<1>1. Here(k) /\ controller = k
  BY HereIsAlive
<1>2. OwnPart(k)
  BY <1>1 DEF OwnPart, HookFits, HookShows
<1>3. bubble # NoBubble => bubble \in Sends \X Nat /\ bubble[1] = k /\ Live(k)
  BY <1>1 DEF HookTypes, ListTypes, GuardsHold
<1> QED
  BY <1>1, <1>2, <1>3

(* The session, and the first words and the others.                          *)
LEMMA SpeakFits ==
  ASSUME HookTypes, HookTypes', StepsHold, GuardsHold, HookFits, HookShows, NEW k \in Sends,
         SessionCreated(k) \/ TextDelta(k)
  PROVE  HookFits' /\ HookShows'
<1>1. UNCHANGED <<trip, moves, sent, phase, shown>>
  BY DEF SessionCreated, TextDelta, Stream!Speak, Event, screen
<1>2. \A j \in Sends \ {k} : pc'[j] = pc[j] /\ phase'[j] = phase[j] /\ said'[j] = said[j] /\ shown'[j] = shown[j]
  BY <1>1 DEF SessionCreated, TextDelta, Stream!Speak, Event, HookTypes, SendTypes, StreamTypes
<1>3. pc[k] \in {"opened", "listening"} /\ pc'[k] = "listening" /\ Running(k)
  BY DEF SessionCreated, TextDelta, Event, HookTypes, SendTypes, Running
<1>4. CASE ~Alive(k)
  <2>1. messages' = messages /\ bubble' = bubble
    BY <1>4 DEF SessionCreated, TextDelta, Sets
  <2> QED
    BY <1>1, <1>2, <1>3, <1>4, <2>1, AwayFits
<1>5. CASE Alive(k)
  <2>1. /\ Here(k) /\ OwnPart(k)
        /\ (bubble # NoBubble => bubble \in Sends \X Nat /\ bubble[1] = k /\ Live(k))
        /\ Here(k)'
    BY <1>1, <1>3, <1>5, BubbleIs DEF Here
  <2>2. Live(k)' /\ ~Ended(k)
    BY <1>3 DEF Live, Ended
  <2>3. CASE SessionCreated(k)
    <3>1. messages' = messages /\ bubble' = bubble /\ said' = said /\ pc[k] = "opened"
      BY <2>3 DEF SessionCreated, Event
    <3>2. Own' = Own /\ \A j, who : Showing(j, who)' = Showing(j, who)
      BY <3>1, SameOwn
    <3>3. Calm(k)
      BY <1>1, <1>2, <3>1, <3>2 DEF Calm
    <3>4. ~Live(k) /\ bubble = NoBubble /\ said[k] = NoText
      BY <2>1, <3>1 DEF Live, StepsHold
    <3>5. \A m \in Own' : m.of = k => Fits(m)'
      BY <2>1, <2>2, <3>1, <3>2, <3>4 DEF OwnPart, Fits
    <3>6. Shows(k)'
      BY <1>3, <2>1, <2>2, <3>1, <3>2, <3>4 DEF OwnPart, Shows
    <3> QED
      BY <1>3, <2>1, <3>3, <3>5, <3>6, OthersStay DEF OwnPartNext
  <2>4. CASE TextDelta(k)
    <3> DEFINE id == <<k, Cardinality(said[k])>>
    <3>0. PICK t \in SUBSET Frags : t = said'[k] /\ t # NoText
      <4>1. said'[k] \in SUBSET Frags
        BY DEF HookTypes, StreamTypes
      <4>2. said'[k] # said[k] /\ said[k] \subseteq said'[k]
        BY <2>4 DEF TextDelta, Stream!Speak, HookTypes, StreamTypes
      <4> QED
        BY <4>1, <4>2 DEF NoText
    <3>1. /\ pc[k] = "listening" /\ pc' = pc
          /\ messages' = IF bubble = NoBubble THEN Append(messages, Bubble(id, t)) ELSE Replaced(bubble, t)
          /\ bubble' = IF bubble = NoBubble THEN id ELSE bubble
      BY <1>5, <2>4, <3>0 DEF TextDelta, Event, Sets
    <3>2. id \in Sends \X Nat /\ Cardinality(said[k]) \in Nat
      BY SendHas
    <3>3. Live(k)
      BY <3>1 DEF Live
    <3>4. CASE bubble = NoBubble
      <4> DEFINE x == Bubble(id, t)
      <4>1. /\ x \in Entries /\ Mine(x) /\ x.of = k /\ x.who = "assistant" /\ x.origin = id
            /\ x.text = t
        BY <3>2, HookMakes DEF Entries
      <4>2. messages' = Append(messages, x) /\ bubble' = id
        BY <3>1, <3>4
      <4> HIDE DEF x
      <4>3. /\ \A m \in Entries : m.of # k => (m \in Own' <=> m \in Own)
            /\ Own' = Own \cup {x}
        BY <4>1, <4>2, AddedShows
      <4>4. Calm(k)
        BY <1>1, <1>2, <1>3, <1>5, <4>3 DEF Calm
      <4>5. \A m \in Own : m.of = k => m.who # "assistant"
        BY <2>1, <2>2, <3>4, OwnEntries, OriginsDiffer DEF OwnPart, Fits
      <4>6. \A m \in Own' : m.of = k => Fits(m)'
        BY <2>1, <2>2, <3>0, <4>1, <4>2, <4>3, <4>5 DEF OwnPart, Fits
      <4>7. Shows(k)'
        <5>1. Showing(k, "user")' /\ Showing(k, "assistant")'
          BY <2>1, <4>1, <4>3 DEF OwnPart, Shows, Showing
        <5>2. bubble' # NoBubble
          BY <3>2, <4>2, OriginsDiffer
        <5> QED
          BY <1>3, <2>2, <5>1, <5>2 DEF Shows
      <4> QED
        BY <1>3, <2>1, <4>4, <4>6, <4>7, OthersStay DEF OwnPartNext
    <3>5. CASE bubble # NoBubble
      <4>1. messages' = Replaced(bubble, t) /\ bubble' = bubble
        BY <3>1, <3>5
      <4>2. messages \in Seq(Entries) /\ bubble \in Sends \X Nat /\ bubble[1] = k
        BY <2>1, <3>5 DEF HookTypes, ListTypes
      <4>3. Filled(Own', bubble, t)
        BY <4>1, <4>2, OwnReplaced, OwnIs
      <4>4. /\ \A m \in Entries : m.of # k => (m \in Own' <=> m \in Own)
            /\ \A n \in Own' : n.of = k => n \in Own \/ (n.who = "assistant" /\ n.origin = bubble)
            /\ \A n \in Own' : n.of = k /\ n.origin = bubble => n.text = t /\ \E m \in Own : m.of = k /\ m.who = n.who /\ m.origin = bubble
            /\ \A who : Showing(k, who) => Showing(k, who)'
        BY <4>2, <4>3, FilledShows
      <4>5. Calm(k)
        BY <1>1, <1>2, <4>1, <4>4 DEF Calm
      <4>6. \A m \in Own' : m.of = k => Fits(m)'
        <5> SUFFICES ASSUME NEW m \in Own', m.of = k PROVE Fits(m)'
          OBVIOUS
        <5>1. CASE m.origin = bubble
          <6>1. m.text = t /\ m.who = "assistant"
            BY <4>2, <4>4, <5>1, OwnEntries
          <6> QED
            BY <2>1, <2>2, <3>0, <4>1, <5>1, <6>1 DEF Fits
        <5>2. CASE m.origin # bubble
          <6>1. m \in Own /\ Fits(m) /\ m.who # "assistant"
            BY <2>1, <2>2, <4>4, <5>2 DEF OwnPart, Fits
          <6> QED
            BY <2>1, <2>2, <6>1 DEF Fits
        <5> QED
          BY <5>1, <5>2
      <4>7. Shows(k)'
        BY <1>3, <2>1, <2>2, <3>3, <3>5, <4>1, <4>4 DEF OwnPart, Shows
      <4> QED
        BY <1>3, <2>1, <4>5, <4>6, <4>7, OthersStay DEF OwnPartNext
    <3> QED
      BY <3>4, <3>5
  <2> QED
    BY <2>3, <2>4
<1> QED
  BY <1>4, <1>5

(* The answer.                                                               *)
LEMMA CompleteFits ==
  ASSUME HookTypes, HookTypes', StepsHold, GuardsHold, HookFits, HookShows, NEW k \in Sends,
         MessageComplete(k)
  PROVE  HookFits' /\ HookShows'
<1>1. /\ UNCHANGED <<trip, moves, sent, phase, said, shown>> /\ phase[k] = "answered"
      /\ pc[k] = "listening" /\ pc' = [pc EXCEPT ![k] = "told"]
      /\ bubble' = Sets(k, NoBubble, bubble)
  BY CompleteDoes DEF screen
<1>2. /\ Running(k) /\ pc'[k] = "told"
      /\ \A j \in Sends \ {k} : pc'[j] = pc[j] /\ phase'[j] = phase[j] /\ said'[j] = said[j] /\ shown'[j] = shown[j]
  BY <1>1 DEF Running, HookTypes, SendTypes
<1>3. CASE ~Alive(k)
  <2>1. messages' = messages /\ bubble' = bubble
    BY <1>1, <1>3 DEF MessageComplete, Sets
  <2> QED
    BY <1>1, <1>2, <1>3, <2>1, AwayFits
<1>4. CASE Alive(k)
  <2>1. /\ Here(k) /\ OwnPart(k)
        /\ (bubble # NoBubble => bubble \in Sends \X Nat /\ bubble[1] = k /\ Live(k))
        /\ Here(k)' /\ bubble' = NoBubble
    BY <1>1, <1>2, <1>4, BubbleIs DEF Here, Sets
  <2>2. Live(k) /\ ~Live(k)' /\ ~Ended(k) /\ Ended(k)' /\ Full(k)' = Full(k)
    BY <1>1, <1>2 DEF Live, Ended, Full
  <2>3. said[k] # NoText => Full(k) # NoText
    BY DEF Full
  <2>4. ASSUME bubble = NoBubble, Full(k) # NoText PROVE HookFits' /\ HookShows'
    <3> DEFINE id == <<k, MaxText + 2>>
               x == Bubble(id, Full(k))
    <3>1. messages' = Append(messages, x)
      BY <1>4, <2>4 DEF MessageComplete, Sets
    <3>2. /\ x \in Entries /\ Mine(x) /\ x.of = k /\ x.who = "assistant" /\ x.text = Full(k)
      <4>1. MaxText + 2 \in Nat /\ Full(k) \in SUBSET Frags
        BY SendHas, HookBounds
      <4> QED
        BY <4>1, HookMakes DEF Entries
    <3> HIDE DEF x
    <3>3. /\ \A m \in Entries : m.of # k => (m \in Own' <=> m \in Own)
          /\ Own' = Own \cup {x}
      BY <3>1, <3>2, AddedShows
    <3>4. Calm(k)
      BY <1>1, <1>2, <1>4, <3>3 DEF Calm
    <3>5. \A m \in Own : m.of = k => m.who # "assistant"
      BY <2>1, <2>2, <2>4, OwnEntries, OriginsDiffer DEF OwnPart, Fits
    <3>6. \A m \in Own' : m.of = k => Fits(m)'
      BY <2>1, <2>2, <2>4, <3>2, <3>3, <3>5 DEF OwnPart, Fits
    <3>7. Shows(k)'
      <4>1. Showing(k, "user")' /\ Showing(k, "assistant")'
        BY <2>1, <3>2, <3>3 DEF OwnPart, Shows, Showing
      <4> QED
        BY <2>2, <4>1 DEF Shows
    <3> QED
      BY <1>1, <1>2, <2>1, <3>4, <3>6, <3>7, OthersStay DEF OwnPartNext
  <2>5. ASSUME bubble = NoBubble, Full(k) = NoText PROVE HookFits' /\ HookShows'
    <3>1. messages' = messages
      BY <1>4, <2>5 DEF MessageComplete, Sets
    <3>2. Own' = Own /\ \A j, who : Showing(j, who)' = Showing(j, who)
      BY <3>1, SameOwn
    <3>3. Calm(k)
      BY <1>1, <1>2, <1>4, <3>2 DEF Calm
    <3>4. \A m \in Own : m.of = k => m.who # "assistant"
      BY <2>1, <2>2, <2>5, OwnEntries, OriginsDiffer DEF OwnPart, Fits
    <3>5. \A m \in Own' : m.of = k => Fits(m)'
      BY <2>1, <2>2, <3>2, <3>4 DEF OwnPart, Fits
    <3>6. Shows(k)'
      BY <2>1, <2>2, <2>5, <3>2 DEF OwnPart, Shows
    <3> QED
      BY <1>1, <1>2, <2>1, <3>3, <3>5, <3>6, OthersStay DEF OwnPartNext
  <2>6. ASSUME bubble # NoBubble PROVE HookFits' /\ HookShows'
    <3> DEFINE t == Full(k)
    <3>1. messages' = Replaced(bubble, t)
      BY <1>4, <2>6 DEF MessageComplete, Sets
    <3>2. messages \in Seq(Entries) /\ bubble \in Sends \X Nat /\ bubble[1] = k /\ t \in SUBSET Frags
      BY <2>1, <2>6, SendHas DEF HookTypes, ListTypes
    <3> HIDE DEF t
    <3>3. Filled(Own', bubble, t)
      BY <3>1, <3>2, OwnReplaced, OwnIs
    <3>4. /\ \A m \in Entries : m.of # k => (m \in Own' <=> m \in Own)
          /\ \A n \in Own' : n.of = k => n \in Own \/ (n.who = "assistant" /\ n.origin = bubble)
          /\ \A n \in Own' : n.of = k /\ n.origin = bubble => n.text = t /\ \E m \in Own : m.of = k /\ m.who = n.who /\ m.origin = bubble
          /\ \A who : Showing(k, who) => Showing(k, who)'
      BY <3>2, <3>3, FilledShows
    <3>5. Calm(k)
      BY <1>1, <1>2, <1>4, <3>4 DEF Calm
    <3>6. \A m \in Own' : m.of = k => Fits(m)'
      <4> SUFFICES ASSUME NEW m \in Own', m.of = k PROVE Fits(m)'
        OBVIOUS
      <4>1. CASE m.origin = bubble
        <5>1. PICK n \in Own : n.of = k /\ n.who = m.who /\ n.origin = bubble
          BY <3>4, <4>1
        <5>2. n.who = "assistant" /\ said[k] # NoText
          BY <2>1, <2>2, <3>2, <5>1, OwnEntries DEF OwnPart, Fits
        <5> QED
          BY <2>1, <2>2, <2>3, <3>4, <4>1, <5>1, <5>2 DEF Fits, t
      <4>2. CASE m.origin # bubble
        <5>1. m \in Own /\ Fits(m) /\ m.who # "assistant"
          BY <2>1, <2>2, <3>4, <4>2 DEF OwnPart, Fits
        <5> QED
          BY <2>1, <2>2, <5>1 DEF Fits
      <4> QED
        BY <4>1, <4>2
    <3>7. Shows(k)'
      BY <2>1, <2>2, <2>6, <3>4 DEF OwnPart, Shows
    <3> QED
      BY <1>1, <1>2, <2>1, <3>5, <3>6, <3>7, OthersStay DEF OwnPartNext
  <2> QED
    BY <2>4, <2>5, <2>6
<1> QED
  BY <1>3, <1>4

(* The event "error".                                                        *)
LEMMA ErrorFits ==
  ASSUME HookTypes, HookTypes', StepsHold, GuardsHold, HookFits, HookShows, NEW k \in Sends,
         StreamError(k)
  PROVE  HookFits' /\ HookShows'
<1>1. /\ UNCHANGED <<trip, moves, sent, said, shown, bubble>>
      /\ pc[k] = (IF phase[k] = "open" THEN "listening" ELSE "told")
      /\ pc' = [pc EXCEPT ![k] = "told"]
      /\ phase' = [phase EXCEPT ![k] = IF phase[k] = "open" THEN "failed" ELSE phase[k]]
  BY DEF StreamError, Stream!Fail, Event, screen
<1>2. /\ Running(k) /\ pc[k] \in {"listening", "told"} /\ pc'[k] = "told"
      /\ phase'[k] = (IF phase[k] = "open" THEN "failed" ELSE phase[k])
      /\ \A j \in Sends \ {k} : pc'[j] = pc[j] /\ phase'[j] = phase[j] /\ said'[j] = said[j] /\ shown'[j] = shown[j]
  BY <1>1 DEF Running, HookTypes, SendTypes, StreamTypes
<1>3. CASE ~Alive(k)
  <2>1. messages' = messages
    BY <1>3 DEF StreamError, Sets
  <2> QED
    BY <1>1, <1>2, <1>3, <2>1, AwayFits
<1>4. CASE Alive(k)
  <2>1. Here(k) /\ OwnPart(k) /\ Here(k)'
    BY <1>1, <1>2, <1>4, BubbleIs DEF Here
  <2>2. Live(k)' = Live(k) /\ (Ended(k) => Ended(k)') /\ Full(k)' = Full(k)
    BY <1>1, <1>2 DEF Live, Ended, Full
  <2> DEFINE x == Apology(k)
  <2>3. messages' = Append(messages, x)
    BY <1>4 DEF StreamError, Sets
  <2>4. x \in Entries /\ Mine(x) /\ x.of = k /\ x.who = "error"
    BY HookMakes, HookBounds
  <2> HIDE DEF x
  <2>5. /\ \A m \in Entries : m.of # k => (m \in Own' <=> m \in Own)
        /\ Own' = Own \cup {x}
    BY <2>3, <2>4, AddedShows
  <2>6. Calm(k)
    BY <1>1, <1>2, <2>5 DEF Calm
  <2>7. \A m \in Own' : m.of = k => Fits(m)'
    BY <1>1, <2>1, <2>2, <2>4, <2>5 DEF OwnPart, Fits
  <2>8. Shows(k)'
    <3>1. /\ Showing(k, "user")' /\ (Showing(k, "assistant") => Showing(k, "assistant")')
      BY <2>1, <2>5 DEF OwnPart, Shows, Showing
    <3>2. pc'[k] = "told" /\ phase'[k] = "answered" => pc[k] = "told" /\ phase[k] = "answered"
      BY <1>1, <1>2
    <3> QED
      BY <1>1, <1>2, <2>1, <2>2, <3>1, <3>2 DEF OwnPart, Shows
  <2> QED
    BY <1>1, <1>2, <2>1, <2>6, <2>7, <2>8, OthersStay DEF OwnPartNext
<1> QED
  BY <1>3, <1>4

(* A stream that ends.                                                       *)
LEMMA EndFits ==
  ASSUME HookTypes, HookTypes', StepsHold, GuardsHold, HookFits, HookShows, NEW k \in Sends,
         EndStream(k)
  PROVE  HookFits' /\ HookShows'
<1>1. /\ UNCHANGED <<trip, moves, sent, phase, said, shown>> /\ pc' = [pc EXCEPT ![k] = "done"]
      /\ (pc[k] = "told" \/ (pc[k] = "listening" /\ phase[k] = "cut")) /\ bubble' = Sets(k, NoBubble, bubble)
  BY DEF EndStream, Finish, screen
<1>2. /\ Running(k) /\ pc'[k] = "done"
      /\ \A j \in Sends \ {k} : pc'[j] = pc[j] /\ phase'[j] = phase[j] /\ said'[j] = said[j] /\ shown'[j] = shown[j]
  BY <1>1 DEF Running, HookTypes, SendTypes
<1>3. CASE ~Alive(k)
  <2>1. messages' = messages /\ bubble' = bubble
    BY <1>1, <1>3 DEF EndStream, Sets
  <2> QED
    BY <1>1, <1>2, <1>3, <2>1, AwayFits
<1>4. CASE Alive(k)
  <2>1. /\ Here(k) /\ OwnPart(k)
        /\ (bubble # NoBubble => bubble \in Sends \X Nat /\ bubble[1] = k /\ Live(k))
        /\ Here(k)' /\ bubble' = NoBubble
    BY <1>1, <1>2, <1>4, BubbleIs DEF Here, Sets
  <2>2. ~Live(k)' /\ Ended(k)' /\ Full(k)' = Full(k)
    BY <1>1, <1>2 DEF Live, Ended, Full, StepsHold
  <2>3. \/ pc[k] = "told" /\ phase[k] = "answered" /\ ~Live(k) /\ Ended(k)
        \/ Live(k) /\ ~Ended(k) /\ Full(k) = said[k]
    BY <1>1 DEF Live, Ended, Full, StepsHold
  <2>4. ASSUME bubble = NoBubble \/ Full(k) = NoText PROVE HookFits' /\ HookShows'
    <3>1. messages' = messages
      BY <1>4, <2>4 DEF EndStream, Sets
    <3>2. Own' = Own /\ \A j, who : Showing(j, who)' = Showing(j, who)
      BY <3>1, SameOwn
    <3>3. Calm(k)
      BY <1>1, <1>2, <1>4, <3>2 DEF Calm
    <3>4. ASSUME NEW m \in Own, m.of = k, m.who = "assistant"
          PROVE  m.text # NoText /\ m.text = Full(k)
      BY <2>1, <2>3, <2>4, <3>4, OwnEntries, OriginsDiffer DEF OwnPart, Fits
    <3>5. \A m \in Own' : m.of = k => Fits(m)'
      BY <2>1, <2>2, <3>2, <3>4 DEF OwnPart, Fits
    <3>6. Shows(k)'
      BY <2>1, <2>2, <2>3, <2>4, <3>2 DEF OwnPart, Shows
    <3> QED
      BY <1>1, <1>2, <2>1, <3>3, <3>5, <3>6, OthersStay DEF OwnPartNext
  <2>5. ASSUME bubble # NoBubble, Full(k) # NoText PROVE HookFits' /\ HookShows'
    <3> DEFINE t == Full(k)
    <3>1. messages' = Replaced(bubble, t)
      BY <1>4, <2>5 DEF EndStream, Sets
    <3>2. messages \in Seq(Entries) /\ bubble \in Sends \X Nat /\ bubble[1] = k /\ t \in SUBSET Frags
      BY <2>1, <2>5, SendHas DEF HookTypes, ListTypes
    <3> HIDE DEF t
    <3>3. Filled(Own', bubble, t)
      BY <3>1, <3>2, OwnReplaced, OwnIs
    <3>4. /\ \A m \in Entries : m.of # k => (m \in Own' <=> m \in Own)
          /\ \A n \in Own' : n.of = k => n \in Own \/ (n.who = "assistant" /\ n.origin = bubble)
          /\ \A n \in Own' : n.of = k /\ n.origin = bubble => n.text = t /\ \E m \in Own : m.of = k /\ m.who = n.who /\ m.origin = bubble
          /\ \A who : Showing(k, who) => Showing(k, who)'
      BY <3>2, <3>3, FilledShows
    <3>5. Calm(k)
      BY <1>1, <1>2, <1>4, <3>4 DEF Calm
    <3>6. \A m \in Own' : m.of = k => Fits(m)'
      <4> SUFFICES ASSUME NEW m \in Own', m.of = k PROVE Fits(m)'
        OBVIOUS
      <4>1. CASE m.origin = bubble
        <5>1. m.who = "assistant" /\ m.text = t
          BY <3>2, <3>4, <4>1, OwnEntries
        <5> QED
          BY <2>1, <2>2, <2>5, <5>1 DEF Fits, t
      <4>2. CASE m.origin # bubble
        <5>1. m \in Own /\ Fits(m)
          BY <2>1, <3>4, <4>2 DEF OwnPart
        <5>2. m.who # "assistant"
          BY <2>1, <2>3, <2>5, <4>2, <5>1 DEF Fits
        <5> QED
          BY <2>1, <2>2, <5>1, <5>2 DEF Fits
      <4> QED
        BY <4>1, <4>2
    <3>7. Shows(k)'
      BY <2>1, <2>2, <2>5, <3>4 DEF OwnPart, Shows
    <3> QED
      BY <1>1, <1>2, <2>1, <3>5, <3>6, <3>7, OthersStay DEF OwnPartNext
  <2> QED
    BY <2>4, <2>5
<1> QED
  BY <1>3, <1>4

(* A stream that fails or is stopped.                                        *)
LEMMA CaughtFits ==
  ASSUME HookTypes, HookTypes', StepsHold, GuardsHold, HookFits, HookShows, NEW k \in Sends,
         Running(k),
         NEW failed, Caught(k, failed), UNCHANGED <<phase, said, shown, errors>>
  PROVE  HookFits' /\ HookShows'
<1>1. /\ UNCHANGED <<trip, moves, sent>> /\ pc' = [pc EXCEPT ![k] = "failed"]
      /\ bubble' = Sets(k, NoBubble, bubble)
  BY DEF Caught, Finish, screen
<1>2. /\ pc'[k] = "failed" /\ pc[k] # "idle"
      /\ \A j \in Sends \ {k} : pc'[j] = pc[j] /\ phase'[j] = phase[j] /\ said'[j] = said[j] /\ shown'[j] = shown[j]
  BY <1>1 DEF Running, HookTypes, SendTypes
<1>3. CASE ~Alive(k)
  <2>1. messages' = messages /\ bubble' = bubble
    BY <1>1, <1>3 DEF Caught, Sets
  <2> QED
    BY <1>1, <1>2, <1>3, <2>1, AwayFits
<1>4. CASE Alive(k)
  <2>1. /\ Here(k) /\ OwnPart(k)
        /\ (bubble # NoBubble => bubble \in Sends \X Nat /\ bubble[1] = k /\ Live(k))
        /\ Here(k)' /\ bubble' = NoBubble
    BY <1>1, <1>2, <1>4, BubbleIs DEF Here, Sets
  <2>2. ~Live(k)' /\ (Ended(k) => ~Live(k) /\ Ended(k)') /\ Full(k)' = Full(k)
    BY <1>2 DEF Live, Ended, Full, Running
  <2> DEFINE x == Apology(k)
             list == IF bubble = NoBubble THEN messages ELSE Without(bubble)
  <2>3. messages' = Append(list, x)
    BY <1>4 DEF Caught, Sets
  <2>4. x \in Entries /\ Mine(x) /\ x.of = k /\ x.who = "error"
    BY HookMakes, HookBounds
  <2>5. list \in Seq(Entries) /\ OwnOf(list) = {m \in Own : bubble = NoBubble \/ m.origin # bubble}
    <3>1. messages \in Seq(Entries)
      BY DEF HookTypes, ListTypes
    <3>2. CASE bubble = NoBubble
      BY <3>1, <3>2, OwnIs
    <3>3. CASE bubble # NoBubble
      <4>1. bubble \in Sends \X Nat
        BY <2>1, <3>3
      <4>2. Without(bubble) \in Seq(Entries)
        BY <3>1, <4>1, ListsFrom DEF From
      <4> QED
        BY <3>1, <3>3, <4>1, <4>2, OwnWithout
    <3> QED
      BY <3>2, <3>3
  <2> HIDE DEF x, list
  <2>6. Own' = {m \in Own : bubble = NoBubble \/ m.origin # bubble} \cup {x}
    BY <2>3, <2>4, <2>5, OwnAppended, OwnIs
  <2>7. \A m \in Entries : m.of # k => (m \in Own' <=> m \in Own)
    BY <2>1, <2>4, <2>6, OwnEntries
  <2>8. Calm(k)
    BY <1>1, <1>2, <1>4, <2>7 DEF Calm
  <2>9. ASSUME NEW m \in Own', m.of = k PROVE Fits(m)'
    <3>1. CASE m = x
      BY <2>1, <2>2, <2>4, <3>1 DEF Fits
    <3>2. CASE m # x
      <4>1. m \in Own /\ Fits(m) /\ (bubble = NoBubble \/ m.origin # bubble)
        BY <2>1, <2>6, <2>9, <3>2 DEF OwnPart
      <4>2. m.who = "assistant" => m.origin # NoBubble
        BY <4>1, OwnEntries, OriginsDiffer
      <4>3. m.who = "assistant" => Ended(k) /\ m.text # NoText /\ m.text = Full(k)
        BY <2>9, <4>1, <4>2 DEF Fits
      <4> QED
        BY <2>1, <2>2, <2>9, <4>3 DEF Fits
    <3> QED
      BY <3>1, <3>2
  <2>10. Shows(k)'
    <3>1. Showing(k, "user")'
      <4>1. PICK m \in Own : m.of = k /\ m.who = "user"
        BY <2>1 DEF OwnPart, Shows, Showing
      <4>2. bubble # NoBubble => m.origin # bubble
        BY <2>1, <4>1, OwnEntries
      <4> QED
        BY <2>6, <4>1, <4>2 DEF Showing
    <3> QED
      BY <1>2, <2>2, <3>1 DEF Shows
  <2> QED
    BY <1>2, <2>1, <2>8, <2>9, <2>10, OthersStay DEF OwnPartNext
<1> QED
  BY <1>3, <1>4

(* What the invariant says of an undisturbed screen.                         *)
Undisturbed == ~disturbed => GuardsHold /\ HookFits /\ HookShows

(* History goes on.                                                          *)
LEMMA NotesGoOn ==
  ASSUME HookTypes, HookNext \/ UNCHANGED hookVars
  PROVE  (disturbed => disturbed') /\ (early => early')
<1>1. ASSUME NEW t \in Trips, Mount(t) \/ ChangeTrip(t)
      PROVE  (disturbed => disturbed') /\ (early => early')
  <2>1. CASE Mount(t)
    BY <2>1 DEF Mount, notes
  <2>2. CASE ChangeTrip(t)
    <3>1. disturbed' = (disturbed \/ \E k \in Sends : Running(k) /\ Alive(k)) /\ early' = early
      BY <2>2 DEF ChangeTrip
    <3> QED
      BY <3>1, Zenon
  <2> QED
    BY <1>1, <2>1, <2>2
<1>2. Unmount \/ HydrateRead \/ Hydrate \/ LoadAnswer \/ LoadApply \/ LoadFail \/ RetryHistory \/ UNCHANGED hookVars
        => disturbed' = disturbed /\ early' = early
  BY DEF Unmount, HydrateRead, Hydrate, LoadAnswer, LoadApply, LoadFail, RetryHistory, History,
     hookVars, notes
<1>3. Stop => disturbed' = disturbed /\ early' = early
  BY DEF Stop, Caught, Finish, notes
<1>4. ASSUME NEW k \in Sends, Send(k) PROVE (disturbed => disturbed') /\ (early => early')
  BY <1>4 DEF Send
<1>5. ASSUME NEW k \in Sends,
             Accept(k) \/ Reject(k) \/ StorePart(k) \/ StoreAnswer(k) \/ CutStream(k)
      PROVE  disturbed' = disturbed /\ early' = early
  BY <1>5 DEF Accept, Reject, StorePart, StoreAnswer, CutStream, Server, notes
<1>6. ASSUME NEW k \in Sends,
             SessionCreated(k) \/ TextDelta(k) \/ MessageComplete(k) \/ StreamError(k)
      PROVE  disturbed' = disturbed /\ early' = early
  BY <1>6, CompleteDoes DEF SessionCreated, TextDelta, StreamError, Event, notes
<1>7. ASSUME NEW k \in Sends, EndStream(k) \/ Fail(k) \/ Timeout(k)
      PROVE  disturbed' = disturbed /\ early' = early
  BY <1>7 DEF EndStream, Fail, Timeout, Caught, Finish, notes
<1> QED
  BY <1>1, <1>2, <1>3, <1>4, <1>5, <1>6, <1>7 DEF HookNext

(* A stop is the end of a stream that runs.                                  *)
LEMMA StopEnds ==
  ASSUME HookTypes, GuardsHold, Stop
  PROVE  controller \in Sends /\ Running(controller) /\ Caught(controller, lastFailed) /\ UNCHANGED <<phase, said, shown, errors>>
<1>1. controller \in Sends /\ controller # NoSend
  BY HookBounds DEF Stop, HookTypes, GuardTypes
<1> QED
  BY <1>1 DEF Stop, GuardsHold

(* What the hook made fits and shows at every step.                          *)
LEMMA FitsStep ==
  ASSUME HookTypes, HookTypes', StepsHold, RowsHold, Undisturbed, HookNext \/ UNCHANGED hookVars
  PROVE  ~disturbed' => HookFits' /\ HookShows'
<1> SUFFICES ASSUME ~disturbed' PROVE HookFits' /\ HookShows'
  OBVIOUS
<1>1. GuardsHold /\ HookFits /\ HookShows
  BY NotesGoOn DEF Undisturbed
<1>2. (\E t \in Trips : Mount(t) \/ ChangeTrip(t)) \/ Unmount => HookFits' /\ HookShows'
  BY MoveFits
<1>3. HydrateRead \/ Hydrate \/ LoadAnswer \/ LoadApply \/ LoadFail \/ RetryHistory \/ UNCHANGED hookVars
        => HookFits' /\ HookShows'
  BY <1>1, EffectFits
<1>4. ASSUME NEW k \in Sends, Send(k) PROVE HookFits' /\ HookShows'
  BY <1>1, <1>4, SendFits
<1>5. ASSUME NEW k \in Sends,
             Accept(k) \/ Reject(k) \/ StorePart(k) \/ StoreAnswer(k) \/ CutStream(k)
      PROVE  HookFits' /\ HookShows'
  BY <1>1, <1>5, ServerFits
<1>6. ASSUME NEW k \in Sends, SessionCreated(k) \/ TextDelta(k) PROVE HookFits' /\ HookShows'
  BY <1>1, <1>6, SpeakFits
<1>7. ASSUME NEW k \in Sends, MessageComplete(k) PROVE HookFits' /\ HookShows'
  BY <1>1, <1>7, CompleteFits
<1>8. ASSUME NEW k \in Sends, StreamError(k) PROVE HookFits' /\ HookShows'
  BY <1>1, <1>8, ErrorFits
<1>9. ASSUME NEW k \in Sends, EndStream(k) PROVE HookFits' /\ HookShows'
  BY <1>1, <1>9, EndFits
<1>10. ASSUME NEW k \in Sends, Fail(k) \/ Timeout(k) PROVE HookFits' /\ HookShows'
  <2>1. Running(k) /\ (\E failed : Caught(k, failed)) /\ UNCHANGED <<phase, said, shown, errors>>
    BY <1>10 DEF Fail, Timeout
  <2> QED
    BY <1>1, <2>1, CaughtFits
<1>11. Stop => HookFits' /\ HookShows'
  BY <1>1, StopEnds, CaughtFits
<1> QED
  BY <1>2, <1>3, <1>4, <1>5, <1>6, <1>7, <1>8, <1>9, <1>10, <1>11 DEF HookNext

(* A list that is in order.                                                  *)
InOrder(list) == \A i, j \in 1 .. Len(list) : i < j => Ordered(list[i], list[j])

(* Texts are of no account, nor are entries that went.                       *)
LEMMA FromOrdered ==
  ASSUME HookTypes, AllOrdered, NEW list, From(list)
  PROVE  InOrder(list)
<1> SUFFICES ASSUME NEW i \in 1 .. Len(list), NEW j \in 1 .. Len(list), i < j
             PROVE  Ordered(list[i], list[j])
  BY DEF InOrder
<1>1. PICK k \in 1 .. Len(messages), l \in 1 .. Len(messages) : k < l /\ Alike(messages[k], list[i]) /\ Alike(messages[l], list[j])
  BY DEF From
<1>2. Ordered(messages[k], messages[l])
  BY <1>1 DEF AllOrdered
<1> QED
  BY <1>1, <1>2 DEF Ordered, Follows, Same, Mine, Alike

(* One more, of the hook, behind them.                                       *)
LEMMA AppendOrdered ==
  ASSUME NEW list \in Seq(Entries), InOrder(list), NEW x \in Entries, Mine(x),
         ~disturbed => \A i \in 1 .. Len(list) : Mine(list[i]) => Follows(list[i], x)
  PROVE  InOrder(Append(list, x))
<1> DEFINE new == Append(list, x)
           n == Len(list)
<1>1. Len(new) = n + 1 /\ n \in Nat /\ new[n + 1] = x /\ \A i \in 1 .. n : new[i] = list[i]
  OBVIOUS
<1> HIDE DEF new
<1>2. ASSUME NEW i \in 1 .. n + 1, NEW j \in 1 .. n + 1, i < j PROVE Ordered(new[i], new[j])
  <2>1. i \in 1 .. n /\ new[i] = list[i]
    BY <1>1, <1>2
  <2>2. CASE j = n + 1
    <3>1. new[j] = x
      BY <1>1, <2>2
    <3> QED
      BY <2>1, <3>1 DEF Ordered
  <2>3. CASE j # n + 1
    <3>1. j \in 1 .. n /\ new[j] = list[j]
      BY <1>1, <2>3
    <3> QED
      BY <1>2, <2>1, <3>1 DEF InOrder
  <2> QED
    BY <2>2, <2>3
<1> QED
  BY <1>1, <1>2 DEF InOrder, new

(* What an event leaves is in order.                                         *)
LEMMA GrowsOrdered ==
  ASSUME HookTypes, Undisturbed, AllOrdered, NEW k \in Sends, Grows(k)
  PROVE  InOrder(messages')
<1>1. InOrder(messages)
  BY DEF AllOrdered, InOrder
<1>2. ASSUME NEW list, From(list), NEW x, EntryOf(k, x) PROVE InOrder(Append(list, x))
  <2>1. InOrder(list) /\ list \in Seq(Entries) /\ x \in Entries /\ Mine(x)
    BY <1>2, FromOrdered DEF From, EntryOf
  <2>2. ASSUME ~disturbed, NEW i \in 1 .. Len(list), Mine(list[i]) PROVE Follows(list[i], x)
    <3>1. PICK l \in 1 .. Len(messages) : Alike(messages[l], list[i])
      BY <1>2 DEF From
    <3>2. messages[l] \in Own
      <4>1. messages[l] \in ToSet(messages)
        BY <3>1, ToSetIs DEF HookTypes, ListTypes
      <4> QED
        BY <2>2, <3>1, <4>1 DEF Own, Mine, Alike
    <3>3. CASE x.who = "error"
      BY <3>3 DEF Follows, Same
    <3>4. CASE x.who # "error"
      <4>1. x.who = "assistant" /\ pc[k] = "listening" /\ bubble = NoBubble /\ x.of = k
        BY <1>2, <3>4 DEF EntryOf
      <4>2. messages[l].of = k => messages[l].who # "assistant"
        <5>1. Fits(messages[l])
          BY <2>2, <3>2 DEF Undisturbed, HookFits
        <5>2. messages[l].who = "assistant" => messages[l].origin # NoBubble
          BY <3>2, OwnEntries, OriginsDiffer
        <5> QED
          BY <4>1, <5>1, <5>2 DEF Fits, Ended
      <4> QED
        BY <3>1, <4>1, <4>2 DEF Follows, Same, Alike
    <3> QED
      BY <3>3, <3>4
  <2> QED
    BY <2>1, <2>2, AppendOrdered
<1>3. CASE messages' = messages
  BY <1>1, <1>3
<1>4. CASE messages' # messages
  <2>1. PICK list : From(list) /\ (messages' = list \/ \E x : EntryOf(k, x) /\ messages' = Append(list, x))
    BY <1>4 DEF Grows
  <2>2. CASE messages' = list
    BY <2>1, <2>2, FromOrdered
  <2>3. CASE messages' # list
    BY <1>2, <2>1, <2>3
  <2> QED
    BY <2>2, <2>3
<1> QED
  BY <1>3, <1>4

(* A history is put before the list.                                         *)
LEMMA LoadOrdered ==
  ASSUME HookTypes, RowsHold, AllOrdered, ~disturbed /\ ~early => HistoryHolds, LoadApply
  PROVE  InOrder(messages')
<1>1. PICK new : Loads(new)
  BY LoadApplyLoads
<1> DEFINE n == Len(new)
           p == Len(messages)
           all == new \o messages
<1>2. messages' = all /\ new \in Seq(ServerRows) /\ messages \in Seq(Entries)
  BY <1>1 DEF Loads, HookTypes, ListTypes
<1>3. /\ n \in Nat /\ p \in Nat /\ Len(all) = n + p
      /\ \A i \in 1 .. n + p : all[i] = IF i <= n THEN new[i] ELSE messages[i - n]
      /\ \A i \in 1 .. n : new[i] \in ServerRows
  BY <1>2
<1>4. load # "none"
  BY DEF LoadApply, History
<1>5. \A i \in 1 .. n : ~Mine(new[i])
  BY <1>3 DEF ServerRows, Mine
<1> HIDE DEF n, all, p
<1>6. ASSUME NEW i \in 1 .. n + p, NEW j \in 1 .. n + p, i < j PROVE Ordered(all[i], all[j])
  <2>1. CASE j <= n
    <3>1. i \in 1 .. n /\ j \in 1 .. n /\ all[i] = new[i] /\ all[j] = new[j]
      BY <1>3, <1>6, <2>1
    <3>2. Follows(new[i], new[j])
      BY <1>1, <1>6, <3>1 DEF Loads, n
    <3> QED
      BY <1>5, <3>1, <3>2 DEF Ordered
  <2>2. CASE i <= n /\ j > n
    <3>1. i \in 1 .. n /\ all[i] = new[i] /\ p # 0
      BY <1>3, <1>6, <2>2
    <3>2. messages # <<>>
      BY <1>2, <3>1 DEF p
    <3>3. disturbed \/ early
      BY <1>4, <3>2 DEF HistoryHolds
    <3> QED
      BY <1>5, <3>1, <3>3 DEF Ordered
  <2>3. CASE i > n
    <3>1. i - n \in 1 .. p /\ j - n \in 1 .. p /\ i - n < j - n /\ all[i] = messages[i - n] /\ all[j] = messages[j - n]
      BY <1>3, <1>6, <2>3
    <3> QED
      BY <3>1 DEF AllOrdered, p
  <2> QED
    BY <1>3, <1>6, <2>1, <2>2, <2>3
<1> QED
  BY <1>2, <1>3, <1>6 DEF InOrder

(* What is shown stays in order.                                             *)
LEMMA OrderStep ==
  ASSUME HookTypes, HookTypes', StepsHold, RowsHold, Undisturbed, AllOrdered,
         ~disturbed /\ ~early => HistoryHolds,
         HookNext \/ UNCHANGED hookVars
  PROVE  AllOrdered'
<1>0. InOrder(messages)
  BY DEF AllOrdered, InOrder
<1>a. \A k \in Sends : said'[k] \in SUBSET Frags
  BY DEF HookTypes, StreamTypes
<1>1. CASE (\E t \in Trips : Mount(t) \/ ChangeTrip(t)) \/ Unmount
  <2>1. messages' = <<>>
    BY <1>1, MoveFits
  <2> QED
    BY <2>1 DEF AllOrdered
<1>2. ASSUME InOrder(messages') PROVE AllOrdered'
  <2> SUFFICES ASSUME NEW i \in 1 .. Len(messages'), NEW j \in 1 .. Len(messages'), i < j
               PROVE  Ordered(messages[i], messages[j])'
    BY DEF AllOrdered
  <2>1. PICK m, n : m = messages'[i] /\ n = messages'[j]
    OBVIOUS
  <2>2. Ordered(m, n)
    BY <1>2, <2>1 DEF InOrder
  <2> QED
    BY <2>1, <2>2, NotesGoOn DEF Ordered, Follows, Same, Mine
<1>3. CASE LoadApply
  BY <1>2, <1>3, LoadOrdered
<1>4. ASSUME messages' = messages PROVE AllOrdered'
  BY <1>0, <1>2, <1>4
<1>5. HydrateRead \/ Hydrate \/ LoadAnswer \/ LoadFail \/ RetryHistory \/ UNCHANGED hookVars => messages' = messages
  BY DEF HydrateRead, Hydrate, LoadAnswer, LoadFail, RetryHistory, History, hookVars
<1>6. ASSUME NEW k \in Sends,
             Accept(k) \/ Reject(k) \/ StorePart(k) \/ StoreAnswer(k) \/ CutStream(k)
      PROVE  messages' = messages
  BY <1>6 DEF Accept, Reject, StorePart, StoreAnswer, CutStream, Server
<1>7. ASSUME NEW k \in Sends, Send(k) PROVE AllOrdered'
  <2> DEFINE x == You(k)
  <2>1. messages' = Append(messages, x) /\ pc[k] = "idle"
    BY <1>7 DEF Send
  <2>2. x \in Entries /\ Mine(x) /\ x.of = k /\ messages \in Seq(Entries)
    BY HookMakes, HookBounds DEF HookTypes, ListTypes
  <2> HIDE DEF x
  <2>3. ASSUME ~disturbed, NEW i \in 1 .. Len(messages), Mine(messages[i])
        PROVE  Follows(messages[i], x)
    <3>1. messages[i] \in Own
      <4>1. messages[i] \in ToSet(messages)
        BY <2>2, ToSetIs
      <4> QED
        BY <2>3, <4>1 DEF Own
    <3>2. messages[i].of # k
      BY <2>1, <2>3, <3>1 DEF Undisturbed, HookFits, Fits, Here
    <3> QED
      BY <2>2, <3>2 DEF Follows, Same
  <2> QED
    BY <1>0, <1>2, <2>1, <2>2, <2>3, AppendOrdered
<1>8. ASSUME NEW k \in Sends,
             SessionCreated(k) \/ TextDelta(k) \/ MessageComplete(k) \/ StreamError(k) \/ EndStream(k)
               \/ \E failed : Caught(k, failed)
      PROVE  AllOrdered'
  BY <1>2, <1>8, <1>a, EventGrows, GrowsOrdered
<1>9. ASSUME NEW k \in Sends, Fail(k) \/ Timeout(k) PROVE AllOrdered'
  BY <1>8, <1>9 DEF Fail, Timeout
<1>10. ASSUME Stop PROVE AllOrdered'
  <2>1. controller \in Sends /\ Caught(controller, lastFailed)
    BY <1>10, HookBounds DEF Stop, HookTypes, GuardTypes
  <2> QED
    BY <1>8, <2>1
<1> QED
  BY <1>1, <1>3, <1>4, <1>5, <1>6, <1>7, <1>8, <1>9, <1>10 DEF HookNext

(* What was loaded stays of other messages while its user waits for it.      *)
LEMMA HistoryStep ==
  ASSUME HookTypes, HookTypes', StepsHold, RowsHold, Undisturbed,
         ~disturbed /\ ~early => HistoryHolds,
         HookNext \/ UNCHANGED hookVars
  PROVE  ~disturbed' /\ ~early' => HistoryHolds'
<1> SUFFICES ASSUME ~disturbed', ~early' PROVE HistoryHolds'
  OBVIOUS
<1>0. HistoryHolds /\ GuardsHold /\ messages \in Seq(Entries) /\ messages' \in Seq(Entries)
  BY NotesGoOn DEF Undisturbed, HookTypes, ListTypes
<1>1. CASE (\E t \in Trips : Mount(t) \/ ChangeTrip(t)) \/ Unmount
  BY <1>1, MoveFits DEF HistoryHolds
<1>2. \A m : m \in Old <=> (\E i \in 1 .. Len(messages) : m = messages[i]) /\ ~Mine(m)
  BY <1>0, ToSetIs DEF Old
<1>3. \A m : m \in Old' <=> (\E i \in 1 .. Len(messages') : m = messages'[i]) /\ ~Mine(m)
  <2>1. \A m : m \in ToSet(messages') <=> \E i \in 1 .. Len(messages') : m = messages'[i]
    BY <1>0, ToSetIs
  <2> QED
    BY <2>1 DEF Old, Mine
<1>4. \A m \in Old : m.of \in Sends
  BY <1>0, <1>2 DEF Entries, ServerRows, HookNotes, Bubbles
<1>5. Onward
  BY GoesOnward
<1>6. CASE LoadApply
  <2>1. PICK new : Loads(new)
    BY <1>6, LoadApplyLoads
  <2>2. /\ load # "none" /\ load' = "none" /\ historyError' = FALSE /\ pc' = pc /\ sent' = sent
        /\ trip' = trip /\ moves' = moves
    BY <1>6 DEF LoadApply, History, screen
  <2>3. messages = <<>> /\ \A k \in Sends : ~Here(k)'
    BY <1>0, <2>2 DEF HistoryHolds, Here
  <2>4. new \in Seq(ServerRows) /\ messages' = new \o messages
    BY <2>1 DEF Loads
  <2>5. messages' = new
    BY <2>3, <2>4
  <2>6. \A m \in Old' : \E i \in 1 .. Len(page) : m = page[i]
    BY <1>3, <2>1, <2>5 DEF Loads
  <2>7. \A i \in 1 .. Len(page) : pc[page[i].of] # "idle" /\ page[i].of \in Sends
    <3>1. \A i \in 1 .. Len(page) : page[i] \in ServerRows
      BY DEF HookTypes, ListTypes
    <3> QED
      BY <3>1 DEF RowsHold, ServerRows
  <2> QED
    BY <2>2, <2>3, <2>6, <2>7 DEF HistoryHolds
<1>7. ASSUME messages' = messages, \A k \in Sends : Here(k)' => Here(k),
             load' # "none" \/ historyError' => load # "none" \/ historyError
      PROVE  HistoryHolds'
  <2>1. Old' = Old
    BY <1>2, <1>3, <1>7
  <2> QED
    BY <1>0, <1>4, <1>5, <1>7, <2>1 DEF HistoryHolds, Onward
<1>8. CASE HydrateRead \/ Hydrate \/ LoadAnswer \/ LoadFail \/ RetryHistory \/ UNCHANGED hookVars
  <2>1. messages' = messages /\ pc' = pc /\ sent' = sent /\ trip' = trip /\ moves' = moves
    BY <1>8 DEF HydrateRead, Hydrate, LoadAnswer, LoadFail, RetryHistory, History, hookVars, screen
  <2>2. load' # "none" \/ historyError' => load # "none" \/ historyError
    BY <1>8 DEF HydrateRead, Hydrate, LoadAnswer, LoadFail, RetryHistory, History, hookVars, effects
  <2> QED
    BY <1>7, <2>1, <2>2 DEF Here
<1>9. ASSUME NEW k \in Sends, Send(k) PROVE HistoryHolds'
  <2> DEFINE x == You(k)
  <2>1. /\ messages' = Append(messages, x) /\ pc[k] = "idle" /\ load' = load
        /\ historyError' = historyError
        /\ trip' = trip /\ moves' = moves
        /\ pc' = [pc EXCEPT ![k] = "sent"]
        /\ sent' = [sent EXCEPT ![k] = [trip |-> trip, session |-> sessionId, move |-> moves]]
    BY <1>9 DEF Send, effects, screen
  <2>2. load = "none" /\ ~historyError
    BY <1>9 DEF Send, HookTypes, GuardTypes
  <2>3. x \in Entries /\ Mine(x)
    BY HookMakes, HookBounds
  <2> HIDE DEF x
  <2>4. Len(messages') = Len(messages) + 1 /\ Len(messages) \in Nat
        /\ \A i \in 1 .. Len(messages) + 1 : messages'[i] = IF i = Len(messages) + 1 THEN x ELSE messages[i]
    BY <1>0, <2>1, <2>3
  <2>5. Old' \subseteq Old
    <3> SUFFICES ASSUME NEW m \in Old' PROVE m \in Old
      OBVIOUS
    <3>1. PICK i \in 1 .. Len(messages) + 1 : m = messages'[i]
      BY <1>3, <2>4
    <3>2. ~Mine(m)
      BY <1>3
    <3>3. i # Len(messages) + 1
      BY <2>3, <2>4, <3>1, <3>2
    <3>4. i \in 1 .. Len(messages) /\ m = messages[i]
      BY <2>4, <3>1, <3>3
    <3> QED
      BY <1>2, <3>2, <3>4
  <2>6. \A m \in Old : m.of # k /\ ~Here(m.of) /\ pc[m.of] # "idle"
    BY <1>0, <2>1 DEF HistoryHolds
  <2>7. \A j \in Sends \ {k} : Here(j)' = Here(j) /\ pc'[j] = pc[j]
    BY <2>1 DEF HookTypes, SendTypes, Here
  <2> QED
    BY <1>4, <2>1, <2>2, <2>5, <2>6, <2>7 DEF HistoryHolds
<1>10. ASSUME NEW k \in Sends, pc[k] # "idle", UNCHANGED <<trip, moves, sent>>,
              \A j \in Sends \ {k} : pc'[j] = pc[j]
       PROVE  \A j \in Sends : Here(j)' => Here(j)
  BY <1>10 DEF Here
<1>11. ASSUME NEW k \in Sends,
              Accept(k) \/ Reject(k) \/ StorePart(k) \/ StoreAnswer(k) \/ CutStream(k)
       PROVE  HistoryHolds'
  <2>1. messages' = messages /\ load' = load /\ historyError' = historyError /\ UNCHANGED <<trip, moves, sent>>
    BY <1>11 DEF Accept, Reject, StorePart, StoreAnswer, CutStream, Server, effects, screen
  <2>2. \A j \in Sends : Here(j)' => Here(j)
    <3>1. CASE Accept(k)
      <4>1. pc[k] # "idle" /\ \E s : pc' = [pc EXCEPT ![k] = s]
        BY <3>1 DEF Accept, Server
      <4>2. \A j \in Sends \ {k} : pc'[j] = pc[j]
        BY <4>1 DEF HookTypes, SendTypes
      <4> QED
        BY <1>10, <2>1, <4>1, <4>2
    <3>2. CASE ~Accept(k)
      <4>1. pc' = pc
        BY <1>11, <3>2 DEF Reject, StorePart, StoreAnswer, CutStream, Server
      <4> QED
        BY <2>1, <4>1 DEF Here
    <3> QED
      BY <3>1, <3>2
  <2> QED
    BY <1>7, <2>1, <2>2
<1>12. ASSUME NEW k \in Sends, Grows(k), Running(k),
              UNCHANGED <<trip, moves, sent, load, historyError>>,
              \A j \in Sends \ {k} : pc'[j] = pc[j]
       PROVE  HistoryHolds'
  <2>1. \A j \in Sends : Here(j)' => Here(j)
    BY <1>10, <1>12 DEF Running
  <2>2. CASE messages' = messages
    BY <1>7, <1>12, <2>1, <2>2
  <2>3. CASE messages' # messages
    <3>1. PICK list : From(list) /\ (messages' = list \/ \E x : EntryOf(k, x) /\ messages' = Append(list, x))
      BY <1>12, <2>3 DEF Grows
    <3>2. Here(k)
      BY <1>0, <1>12, <2>3, HereIsAlive DEF Grows
    <3>3. load = "none" /\ ~historyError
      BY <1>0, <3>2 DEF HistoryHolds
    <3>4. \A m \in Old' : \E i \in 1 .. Len(list) : m = list[i]
      <4>1. CASE messages' = list
        BY <1>3, <4>1
      <4>2. CASE messages' # list
        <5>1. PICK x : EntryOf(k, x) /\ messages' = Append(list, x)
          BY <3>1, <4>2
        <5>2. list \in Seq(Entries) /\ Mine(x)
          BY <3>1, <5>1 DEF From, EntryOf
        <5>3. Len(messages') = Len(list) + 1 /\ Len(list) \in Nat
              /\ \A i \in 1 .. Len(list) + 1 : messages'[i] = IF i = Len(list) + 1 THEN x ELSE list[i]
          BY <5>1, <5>2
        <5> SUFFICES ASSUME NEW m \in Old' PROVE \E i \in 1 .. Len(list) : m = list[i]
          OBVIOUS
        <5>4. PICK i \in 1 .. Len(list) + 1 : m = messages'[i]
          BY <1>3, <5>3
        <5>5. ~Mine(m)
          BY <1>3
        <5>6. i # Len(list) + 1
          BY <5>2, <5>3, <5>4, <5>5
        <5>7. i \in 1 .. Len(list) /\ m = list[i]
          BY <5>3, <5>4, <5>6
        <5> QED
          BY <5>7
      <4> QED
        BY <4>1, <4>2
    <3>5. \A m \in Old' : \E o \in Old : o.of = m.of
      <4> SUFFICES ASSUME NEW m \in Old' PROVE \E o \in Old : o.of = m.of
        OBVIOUS
      <4>1. PICK i \in 1 .. Len(list) : m = list[i]
        BY <3>4
      <4>2. PICK l \in 1 .. Len(messages) : Alike(messages[l], list[i])
        BY <3>1 DEF From
      <4>3. ~Mine(m)
        BY <1>3
      <4> QED
        BY <1>2, <4>1, <4>2, <4>3 DEF Alike, Mine
    <3>6. \A m \in Old' : m.of \in Sends /\ ~Here(m.of) /\ pc[m.of] # "idle"
      BY <1>0, <1>4, <3>5 DEF HistoryHolds
    <3> QED
      BY <1>5, <1>12, <2>1, <3>3, <3>6 DEF HistoryHolds, Onward
  <2> QED
    BY <2>2, <2>3
<1>13. \A k \in Sends : said'[k] \in SUBSET Frags
  BY DEF HookTypes, StreamTypes
<1>14. ASSUME NEW k \in Sends,
              SessionCreated(k) \/ TextDelta(k) \/ MessageComplete(k) \/ StreamError(k)
       PROVE  HistoryHolds'
  <2>1. Grows(k)
    BY <1>13, <1>14, EventGrows
  <2>2. /\ Running(k) /\ UNCHANGED <<trip, moves, sent, load, historyError>>
        /\ (pc' = pc \/ \E s : pc' = [pc EXCEPT ![k] = s])
    BY <1>14, CompleteDoes DEF SessionCreated, TextDelta, StreamError, Event, effects, screen,
       Running
  <2>3. \A j \in Sends \ {k} : pc'[j] = pc[j]
    BY <2>2 DEF HookTypes, SendTypes
  <2> QED
    BY <1>12, <2>1, <2>2, <2>3
<1>15. ASSUME NEW k \in Sends, EndStream(k) \/ \E failed : Caught(k, failed), Running(k)
       PROVE  HistoryHolds'
  <2>1. Grows(k)
    BY <1>13, <1>15, EventGrows
  <2>2. /\ UNCHANGED <<trip, moves, sent, load, historyError>> /\ \E s : pc' = [pc EXCEPT ![k] = s]
    BY <1>15 DEF EndStream, Caught, Finish, effects, screen
  <2>3. \A j \in Sends \ {k} : pc'[j] = pc[j]
    BY <2>2 DEF HookTypes, SendTypes
  <2> QED
    BY <1>12, <1>15, <2>1, <2>2, <2>3
<1>16. ASSUME NEW k \in Sends, EndStream(k) \/ Fail(k) \/ Timeout(k) PROVE HistoryHolds'
  <2>1. Running(k) /\ (EndStream(k) \/ \E failed : Caught(k, failed))
    BY <1>16 DEF EndStream, Fail, Timeout, Running
  <2> QED
    BY <1>15, <2>1
<1>17. CASE Stop
  <2>1. controller \in Sends /\ Running(controller) /\ Caught(controller, lastFailed)
    BY <1>0, <1>17, StopEnds
  <2> QED
    BY <1>15, <2>1
<1> QED
  BY <1>1, <1>6, <1>8, <1>9, <1>11, <1>14, <1>16, <1>17 DEF HookNext

(* Sets that a function maps onto each other, one to one, are as large.      *)
LEMMA SameSize ==
  ASSUME NEW A, NEW B, IsFiniteSet(A), NEW f \in [A -> B],
         \A i, j \in A : f[i] = f[j] => i = j, \A b \in B : \E i \in A : f[i] = b
  PROVE  Cardinality(B) = Cardinality(A)
<1>1. f \in Bijection(A, B)
  BY DEF Bijection, Injection, Surjection, IsInjective
<1>2. ExistsBijection(A, B)
  BY <1>1 DEF ExistsBijection
<1> QED
  BY <1>2, FS_Bijection

(* The apologies of a list are finitely many.                                *)
LEMMA ApologiesAre ==
  ASSUME NEW T, NEW list \in Seq(T), NEW k
  PROVE  /\ IsFiniteSet(Apologies(list, k)) /\ Cardinality(Apologies(list, k)) \in Nat
         /\ Apologies(list, k) \subseteq 1 .. Len(list)
<1>1. DOMAIN list = 1 .. Len(list) /\ Len(list) \in Nat
  OBVIOUS
<1>2. Apologies(list, k) \subseteq 1 .. Len(list)
  BY <1>1 DEF Apologies
<1>3. IsFiniteSet(1 .. Len(list))
  BY <1>1, FS_Interval
<1> QED
  BY <1>2, <1>3, FS_Subset, FS_CardinalityType

(* An entry more.                                                            *)
LEMMA AppendedCounts ==
  ASSUME NEW list \in Seq(Entries), NEW x \in Entries, Mine(x), NEW k
  PROVE  Cardinality(Apologies(Append(list, x), k))
           = Cardinality(Apologies(list, k)) + (IF x.of = k /\ x.who = "error" THEN 1 ELSE 0)
<1> DEFINE new == Append(list, x)
           n == Len(list)
           A == Apologies(list, k)
           B == Apologies(new, k)
<1>1. /\ n \in Nat /\ DOMAIN list = 1 .. n /\ DOMAIN new = 1 .. n + 1 /\ new[n + 1] = x
      /\ \A i \in 1 .. n : new[i] = list[i]
  OBVIOUS
<1>2. IsFiniteSet(A) /\ Cardinality(A) \in Nat /\ A \subseteq 1 .. n
  BY ApologiesAre
<1>3. \A i \in 1 .. n + 1 : i \in 1 .. n \/ i = n + 1
  BY <1>1
<1>4. 1 .. n \subseteq 1 .. n + 1 /\ n + 1 \in 1 .. n + 1 /\ n + 1 \notin 1 .. n
  BY <1>1
<1> HIDE DEF new, n
<1>5. \A i : i \in B <=> i \in 1 .. n + 1 /\ new[i].of = k /\ new[i].who = "error" /\ Mine(new[i])
  BY <1>1 DEF Apologies
<1>6. \A i : i \in A <=> i \in 1 .. n /\ list[i].of = k /\ list[i].who = "error" /\ Mine(list[i])
  BY <1>1 DEF Apologies
<1> HIDE DEF A, B
<1>7. CASE x.of = k /\ x.who = "error"
  <2>1. B = A \cup {n + 1}
    BY <1>1, <1>3, <1>4, <1>5, <1>6, <1>7
  <2>2. n + 1 \notin A
    BY <1>2, <1>4
  <2>3. Cardinality(A \cup {n + 1}) = Cardinality(A) + 1
    BY <1>2, <2>2, FS_AddElement
  <2> QED
    BY <1>7, <2>1, <2>3 DEF A, B, new
<1>8. CASE ~(x.of = k /\ x.who = "error")
  <2>1. n + 1 \notin B
    BY <1>1, <1>4, <1>5, <1>8
  <2>2. \A i \in 1 .. n : i \in B <=> i \in A
    BY <1>1, <1>4, <1>5, <1>6
  <2>3. B = A
    BY <1>3, <1>5, <1>6, <2>1, <2>2
  <2> QED
    BY <1>2, <1>8, <2>3 DEF A, B, new
<1> QED
  BY <1>7, <1>8

(* Filling a bubble is no apology, and neither is a history.                 *)
LEMMA ReplacedCounts ==
  ASSUME messages \in Seq(Entries), NEW id \in Sends \X Nat, NEW t \in SUBSET Frags, NEW k
  PROVE  Apologies(Replaced(id, t), k) = Apologies(messages, k)
<1> DEFINE out == Replaced(id, t)
<1>1. /\ out \in Seq(Entries) /\ Len(out) = Len(messages)
      /\ \A i \in 1 .. Len(messages) : Alike(messages[i], out[i])
  BY ReplacedKeeps
<1> HIDE DEF out
<1>2. DOMAIN out = 1 .. Len(messages) /\ DOMAIN messages = 1 .. Len(messages)
  BY <1>1
<1> QED
  BY <1>1, <1>2 DEF Apologies, Alike, Mine, out

(* A history before the list.                                                *)
LEMMA LoadedCounts ==
  ASSUME NEW list \in Seq(Entries), NEW new \in Seq(ServerRows), NEW k
  PROVE  Cardinality(Apologies(new \o list, k)) = Cardinality(Apologies(list, k))
<1> DEFINE all == new \o list
           n == Len(new)
           p == Len(list)
           A == Apologies(list, k)
           B == Apologies(all, k)
           f == [i \in A |-> n + i]
<1>1. n \in Nat /\ p \in Nat /\ (\A i \in 1 .. n : new[i] \in ServerRows) /\ DOMAIN list = 1 .. p
  OBVIOUS
<1>2. DOMAIN all = 1 .. n + p /\ \A i \in 1 .. n + p : all[i] = IF i <= n THEN new[i] ELSE list[i - n]
  OBVIOUS
<1>3. IsFiniteSet(A) /\ A \subseteq 1 .. p
  BY ApologiesAre
<1> HIDE DEF all, n, p
<1>4. \A i \in 1 .. n : ~Mine(new[i])
  BY <1>1 DEF ServerRows, Mine
<1>5. \A i : i \in B <=> i \in 1 .. n + p /\ all[i].of = k /\ all[i].who = "error" /\ Mine(all[i])
  BY <1>2 DEF Apologies
<1>6. \A i : i \in A <=> i \in 1 .. p /\ list[i].of = k /\ list[i].who = "error" /\ Mine(list[i])
  BY <1>1 DEF Apologies
<1> HIDE DEF A, B
<1>7. ASSUME NEW i \in A PROVE n + i \in B
  <2>1. i \in 1 .. p /\ n + i \in 1 .. n + p /\ ~(n + i <= n) /\ (n + i) - n = i
    BY <1>1, <1>3
  <2>2. all[n + i] = list[i]
    BY <1>2, <2>1
  <2> QED
    BY <1>5, <1>6, <2>1, <2>2
<1>8. ASSUME NEW b \in B PROVE \E i \in A : n + i = b
  <2>1. b \in 1 .. n + p /\ Mine(all[b])
    BY <1>5
  <2>2. ~(b <= n)
    <3>1. b <= n => b \in 1 .. n /\ all[b] = new[b]
      BY <1>1, <1>2, <2>1
    <3> QED
      BY <1>4, <2>1, <3>1
  <2>3. b - n \in 1 .. p /\ all[b] = list[b - n] /\ n + (b - n) = b
    BY <1>1, <1>2, <2>1, <2>2
  <2>4. b - n \in A
    BY <1>5, <1>6, <2>3
  <2> QED
    BY <2>3, <2>4
<1>9. f \in [A -> B] /\ \A i \in A : f[i] = n + i
  BY <1>7
<1> HIDE DEF f
<1>10. \A i, j \in A : f[i] = f[j] => i = j
  <2> SUFFICES ASSUME NEW i \in A, NEW j \in A, f[i] = f[j] PROVE i = j
    OBVIOUS
  <2>1. n + i = n + j /\ i \in 1 .. p /\ j \in 1 .. p
    BY <1>3, <1>9
  <2> QED
    BY <1>1, <2>1
<1>11. \A b \in B : \E i \in A : f[i] = b
  BY <1>8, <1>9
<1>12. Cardinality(B) = Cardinality(A)
  BY <1>3, <1>9, <1>10, <1>11, SameSize
<1> QED
  BY <1>12 DEF A, B, all

(* Dropping a bubble drops no apology.                                       *)
LEMMA WithoutCounts ==
  ASSUME messages \in Seq(Entries), NEW id \in Sends \X Nat, NEW k
  PROVE  Cardinality(Apologies(Without(id), k)) = Cardinality(Apologies(messages, k))
<1> DEFINE S == {m \in ToSet(messages) : m.origin # id}
           out == Sublist(messages, S)
           n == Len(messages)
           p == Len(out)
           A == Apologies(out, k)
           B == Apologies(messages, k)
<1>1. out \in Seq(Entries) /\ \E h : Picked(messages, S, n, out, h)
  <2> HIDE DEF S
  <2> QED
    BY SublistIsPicked
<1>2. \A i \in 1 .. n : messages[i] \in ToSet(messages) /\ messages[i] \in Entries
  BY ToSetIs
<1>3. \A i \in 1 .. n : messages[i].who = "error" => messages[i] \in S
  <2> SUFFICES ASSUME NEW i \in 1 .. n, messages[i].who = "error" PROVE messages[i].origin # id
    BY <1>2
  <2> QED
    BY <1>2, EntryKinds
<1> HIDE DEF S, out
<1>4. PICK h : Picked(messages, S, n, out, h)
  BY <1>1
<1>5. DOMAIN messages = 1 .. n /\ DOMAIN out = 1 .. p /\ n \in Nat /\ p \in Nat
  BY <1>1
<1>6. IsFiniteSet(A) /\ A \subseteq 1 .. p
  BY <1>1, ApologiesAre
<1> HIDE DEF n, p
<1>7. /\ \A i \in 1 .. p : h[i] \in 1 .. n /\ out[i] = messages[h[i]]
      /\ \A i, j \in 1 .. p : i < j => h[i] < h[j]
      /\ \A l \in 1 .. n : messages[l] \in S => \E i \in 1 .. p : h[i] = l
  BY <1>4 DEF Picked, p
<1>8. \A i : i \in A <=> i \in 1 .. p /\ out[i].of = k /\ out[i].who = "error" /\ Mine(out[i])
  BY <1>5 DEF Apologies
<1>9. \A i : i \in B <=> i \in 1 .. n /\ messages[i].of = k /\ messages[i].who = "error" /\ Mine(messages[i])
  BY <1>5 DEF Apologies
<1> DEFINE f == [i \in A |-> h[i]]
<1> HIDE DEF A, B
<1>10. f \in [A -> B] /\ \A i \in A : f[i] = h[i]
  <2>1. \A i \in A : h[i] \in B
    BY <1>7, <1>8, <1>9
  <2> QED
    BY <2>1
<1> HIDE DEF f
<1>11. \A i, j \in A : f[i] = f[j] => i = j
  <2> SUFFICES ASSUME NEW i \in A, NEW j \in A, f[i] = f[j], i # j PROVE FALSE
    OBVIOUS
  <2>1. i \in 1 .. p /\ j \in 1 .. p /\ h[i] = h[j] /\ h[i] \in 1 .. n /\ h[j] \in 1 .. n
    BY <1>6, <1>7, <1>10
  <2>2. i < j \/ j < i
    BY <1>5, <2>1
  <2>3. h[i] < h[j] \/ h[j] < h[i]
    BY <1>7, <2>1, <2>2
  <2> QED
    BY <1>5, <2>1, <2>3
<1>12. \A b \in B : \E i \in A : f[i] = b
  <2> SUFFICES ASSUME NEW b \in B PROVE \E i \in A : f[i] = b
    OBVIOUS
  <2>1. b \in 1 .. n /\ messages[b] \in S
    BY <1>3, <1>9
  <2>2. PICK i \in 1 .. p : h[i] = b
    BY <1>7, <2>1
  <2>3. i \in A
    BY <1>7, <1>8, <1>9, <2>2
  <2> QED
    BY <1>10, <2>2, <2>3
<1>13. Cardinality(B) = Cardinality(A)
  BY <1>6, <1>10, <1>11, <1>12, SameSize
<1> QED
  BY <1>13 DEF A, B, Without, out, S

Counted(k) == Cardinality(Apologies(messages, k))

(* What speaks or ends well apologizes for nothing.                          *)
LEMMA SpokenCounts ==
  ASSUME HookTypes, NEW k \in Sends, said'[k] \in SUBSET Frags, NEW j,
         SessionCreated(k) \/ TextDelta(k) \/ MessageComplete(k) \/ EndStream(k)
  PROVE  Counted(j)' = Counted(j)
<1> DEFINE id == <<k, Cardinality(said[k])>>
           new == <<k, MaxText + 2>>
           Same2(list) == Cardinality(Apologies(list, j)) = Cardinality(Apologies(messages, j))
<1>1. /\ messages \in Seq(Entries) /\ (bubble # NoBubble => bubble \in Sends \X Nat)
      /\ said'[k] \in SUBSET Frags /\ Full(k) \in SUBSET Frags
      /\ Cardinality(said[k]) \in Nat /\ MaxText + 2 \in Nat
  BY SendHas, HookBounds DEF HookTypes, ListTypes
<1>2. Same2(messages)
  OBVIOUS
<1>3. ASSUME bubble # NoBubble, NEW t \in SUBSET Frags PROVE Same2(Replaced(bubble, t))
  BY <1>1, <1>3, ReplacedCounts
<1>4. ASSUME NEW n \in Nat, NEW t \in SUBSET Frags PROVE Same2(Append(messages, Bubble(<<k, n>>, t)))
  <2> DEFINE x == Bubble(<<k, n>>, t)
  <2>1. x \in Entries /\ Mine(x) /\ x.who = "assistant"
    BY HookMakes DEF Entries
  <2>2. Cardinality(Apologies(messages, j)) \in Nat
    BY <1>1, ApologiesAre
  <2> HIDE DEF x
  <2>3. Cardinality(Apologies(Append(messages, x), j)) = Cardinality(Apologies(messages, j)) + 0
    BY <1>1, <2>1, AppendedCounts
  <2> QED
    BY <2>2, <2>3 DEF x
<1> HIDE DEF Same2
<1>5. \/ messages' = messages
      \/ bubble # NoBubble /\ \E t \in SUBSET Frags : messages' = Replaced(bubble, t)
      \/ \E n \in Nat, t \in SUBSET Frags : messages' = Append(messages, Bubble(<<k, n>>, t))
  <2>1. CASE SessionCreated(k) \/ ~Alive(k)
    BY <2>1 DEF SessionCreated, TextDelta, MessageComplete, EndStream, Sets
  <2>2. CASE Alive(k) /\ TextDelta(k)
    <3>1. messages' = IF bubble = NoBubble THEN Append(messages, Bubble(id, said'[k])) ELSE Replaced(bubble, said'[k])
      BY <2>2 DEF TextDelta, Sets
    <3> QED
      BY <1>1, <3>1
  <2>3. CASE Alive(k) /\ MessageComplete(k)
    <3>1. \/ bubble # NoBubble /\ messages' = Replaced(bubble, Full(k))
          \/ messages' = Append(messages, Bubble(new, Full(k)))
          \/ messages' = messages
      BY <2>3 DEF MessageComplete, Sets
    <3> QED
      BY <1>1, <3>1
  <2>4. CASE Alive(k) /\ EndStream(k)
    <3>1. messages' = IF bubble # NoBubble /\ Full(k) # NoText THEN Replaced(bubble, Full(k)) ELSE messages
      BY <2>4 DEF EndStream, Sets
    <3> QED
      BY <1>1, <3>1
  <2> QED
    BY <2>1, <2>2, <2>3, <2>4
<1>6. Same2(messages')
  BY <1>2, <1>3, <1>4, <1>5
<1> QED
  BY <1>6 DEF Same2, Counted

(* An apology is one more, if the screen that sent the message is there.     *)
LEMMA ApologyCounts ==
  ASSUME HookTypes, NEW k \in Sends, NEW j, StreamError(k) \/ \E failed : Caught(k, failed)
  PROVE  Counted(j)' = Counted(j) + (IF j = k /\ Alive(k) THEN 1 ELSE 0)
<1>1. messages \in Seq(Entries) /\ (bubble # NoBubble => bubble \in Sends \X Nat) /\ Counted(j) \in Nat
  BY ApologiesAre DEF HookTypes, ListTypes, Counted
<1>2. CASE ~Alive(k)
  <2>1. messages' = messages
    BY <1>2 DEF StreamError, Caught, Sets
  <2> QED
    BY <1>1, <1>2, <2>1 DEF Counted
<1>3. CASE Alive(k)
  <2> DEFINE x == Apology(k)
  <2>1. x \in Entries /\ Mine(x) /\ x.of = k /\ x.who = "error"
    BY HookMakes, HookBounds
  <2>2. \E list : messages' = Append(list, x) /\ list \in Seq(Entries) /\ Cardinality(Apologies(list, j)) = Counted(j)
    <3>1. messages' = Append(messages, x) \/ (bubble # NoBubble /\ messages' = Append(Without(bubble), x))
      BY <1>3 DEF StreamError, Caught, Sets
    <3>2. ASSUME bubble # NoBubble
          PROVE  Without(bubble) \in Seq(Entries) /\ Cardinality(Apologies(Without(bubble), j)) = Counted(j)
      <4>1. Without(bubble) \in Seq(Entries)
        BY <1>1, <3>2, ListsFrom DEF From
      <4> QED
        BY <1>1, <3>2, <4>1, WithoutCounts DEF Counted
    <3>3. Cardinality(Apologies(messages, j)) = Counted(j)
      BY DEF Counted
    <3> HIDE DEF x
    <3> QED
      BY <1>1, <3>1, <3>2, <3>3
  <2>3. PICK list : messages' = Append(list, x) /\ list \in Seq(Entries) /\ Cardinality(Apologies(list, j)) = Counted(j)
    BY <2>2
  <2> HIDE DEF x
  <2>4. Cardinality(Apologies(messages', j)) = Counted(j) + (IF j = k THEN 1 ELSE 0)
    BY <2>1, <2>3, AppendedCounts
  <2> QED
    BY <1>3, <2>4 DEF Counted
<1> QED
  BY <1>2, <1>3

(* An apology for each error at every step.                                  *)
LEMMA CountsStep ==
  ASSUME HookTypes, HookTypes', StepsHold, RowsHold, Undisturbed, ~disturbed => CountsHold,
         HookNext \/ UNCHANGED hookVars
  PROVE  ~disturbed' => CountsHold'
<1> SUFFICES ASSUME ~disturbed' PROVE CountsHold'
  OBVIOUS
<1>1. GuardsHold /\ HookFits /\ \A j \in Sends : Here(j) => Counted(j) = Due(j)
  BY NotesGoOn DEF Undisturbed, CountsHold, Counted
<1>2. /\ \A j \in Sends : errors[j] \in Nat /\ Counted(j) \in Nat /\ said'[j] \in SUBSET Frags
      /\ messages \in Seq(Entries)
  BY ApologiesAre DEF HookTypes, StreamTypes, ListTypes, Counted
<1>3. ASSUME \A j \in Sends : Here(j)' => Counted(j)' = Due(j)' PROVE CountsHold'
  BY <1>3 DEF CountsHold, Counted
<1>4. ASSUME UNCHANGED <<trip, moves, sent, errors>>,
             \A j \in Sends : /\ pc'[j] = "idle" <=> pc[j] = "idle"
                              /\ pc'[j] = "failed" <=> pc[j] = "failed"
                              /\ Counted(j)' = Counted(j)
      PROVE  CountsHold'
  <2>1. \A j \in Sends : Here(j)' = Here(j) /\ Due(j)' = Due(j)
    BY <1>4 DEF Here, Due
  <2> QED
    BY <1>1, <1>3, <1>4, <2>1
<1>5. ASSUME NEW k \in Sends, UNCHANGED <<trip, moves, sent>>, pc[k] # "idle", pc'[k] # "idle",
             \A j \in Sends \ {k} : pc'[j] = pc[j] /\ errors'[j] = errors[j],
             Due(k)' = Due(k) + 1, StreamError(k) \/ \E failed : Caught(k, failed)
      PROVE  CountsHold'
  <2>1. \A j \in Sends : Counted(j)' = Counted(j) + (IF j = k /\ Alive(k) THEN 1 ELSE 0)
    BY <1>5, ApologyCounts
  <2>2. \A j \in Sends : Here(j)' = Here(j)
    BY <1>5 DEF Here
  <2>3. Here(k) => Alive(k)
    BY HereIsAlive
  <2>4. \A j \in Sends \ {k} : Due(j)' = Due(j) /\ Counted(j)' = Counted(j)
    BY <1>2, <1>5, <2>1 DEF Due
  <2>5. Here(k) => Counted(k)' = Due(k)'
    BY <1>1, <1>5, <2>1, <2>3
  <2> QED
    BY <1>1, <1>3, <2>2, <2>4, <2>5
<1>6. (\E t \in Trips : Mount(t) \/ ChangeTrip(t)) \/ Unmount => CountsHold'
  BY <1>3, MoveFits
<1>7. ASSUME HydrateRead \/ Hydrate \/ LoadAnswer \/ LoadApply \/ LoadFail \/ RetryHistory \/ UNCHANGED hookVars
      PROVE  CountsHold'
  <2>1. UNCHANGED <<trip, moves, sent, pc, errors>>
    BY <1>7 DEF HydrateRead, Hydrate, LoadAnswer, LoadApply, LoadFail, RetryHistory, History,
       hookVars, screen
  <2>2. ASSUME NEW j \in Sends PROVE Counted(j)' = Counted(j)
    <3>1. CASE LoadApply
      <4>1. PICK new : Loads(new)
        BY <3>1, LoadApplyLoads
      <4>2. new \in Seq(ServerRows) /\ messages' = new \o messages
        BY <4>1 DEF Loads
      <4> QED
        BY <1>2, <4>2, LoadedCounts DEF Counted
    <3>2. CASE ~LoadApply
      <4>1. messages' = messages
        BY <1>7, <3>2 DEF HydrateRead, Hydrate, LoadAnswer, LoadFail, RetryHistory, History, hookVars
      <4> QED
        BY <4>1 DEF Counted
    <3> QED
      BY <3>1, <3>2
  <2> QED
    BY <1>4, <2>1, <2>2
<1>8. ASSUME NEW k \in Sends, Send(k) PROVE CountsHold'
  <2> DEFINE x == You(k)
  <2>1. /\ messages' = Append(messages, x) /\ pc[k] = "idle" /\ pc' = [pc EXCEPT ![k] = "sent"]
        /\ UNCHANGED <<trip, moves, errors>>
        /\ \A j \in Sends \ {k} : sent'[j] = sent[j]
    BY <1>8 DEF Send, screen, HookTypes, SendTypes
  <2>2. x \in Entries /\ Mine(x) /\ x.who = "user"
    BY HookMakes, HookBounds
  <2> HIDE DEF x
  <2>3. ASSUME NEW j \in Sends PROVE Counted(j)' = Counted(j)
    <3>1. Cardinality(Apologies(messages', j)) = Cardinality(Apologies(messages, j)) + 0
      BY <1>2, <2>1, <2>2, AppendedCounts
    <3> QED
      BY <1>2, <3>1 DEF Counted
  <2>4. Counted(k) = 0
    <3>1. ASSUME NEW i \in Apologies(messages, k) PROVE FALSE
      <4>1. i \in 1 .. Len(messages) /\ messages[i].of = k /\ Mine(messages[i])
        BY <1>2 DEF Apologies
      <4>2. messages[i] \in Own
        BY <1>2, <4>1, ToSetIs DEF Own
      <4> QED
        BY <1>1, <2>1, <4>1, <4>2 DEF HookFits, Fits, Here
    <3> QED
      BY <3>1, FS_EmptySet DEF Counted
  <2>5. pc'[k] = "sent" /\ (\A j \in Sends \ {k} : pc'[j] = pc[j]) /\ errors'[k] = 0
    BY <2>1 DEF HookTypes, SendTypes, StepsHold
  <2>6. \A j \in Sends \ {k} : Here(j)' = Here(j) /\ Due(j)' = Due(j)
    BY <2>1, <2>5 DEF Here, Due
  <2>7. Due(k)' = 0
    BY <2>5 DEF Due
  <2> QED
    BY <1>1, <1>3, <2>3, <2>4, <2>6, <2>7
<1>9. ASSUME NEW k \in Sends,
             Accept(k) \/ Reject(k) \/ StorePart(k) \/ StoreAnswer(k) \/ CutStream(k)
      PROVE  CountsHold'
  <2>1. messages' = messages /\ UNCHANGED <<trip, moves, sent>>
    BY <1>9 DEF Accept, Reject, StorePart, StoreAnswer, CutStream, Server, screen
  <2>2. errors' = errors
    BY <1>9 DEF Accept, Reject, StorePart, StoreAnswer, CutStream, Server, Stream!Open,
       Stream!Refuse, Stream!Answer, Stream!Cut
  <2>3. \A j \in Sends : (pc'[j] = "idle" <=> pc[j] = "idle") /\ (pc'[j] = "failed" <=> pc[j] = "failed")
    <3>1. CASE Accept(k)
      <4>1. /\ pc[k] \in {"done", "failed"} => pc' = [pc EXCEPT ![k] = pc[k]]
            /\ pc[k] \notin {"done", "failed"} => \E s \in {"opened", "listening"} : pc' = [pc EXCEPT ![k] = s]
            /\ pc[k] # "idle"
        BY <3>1 DEF Accept, Server, Running
      <4> QED
        BY <4>1 DEF HookTypes, SendTypes
    <3>2. CASE ~Accept(k)
      BY <1>9, <3>2 DEF Reject, StorePart, StoreAnswer, CutStream, Server
    <3> QED
      BY <3>1, <3>2
  <2>4. \A j \in Sends : Counted(j)' = Counted(j)
    BY <2>1 DEF Counted
  <2> QED
    BY <1>4, <2>1, <2>2, <2>3, <2>4
<1>10. ASSUME NEW k \in Sends, SessionCreated(k) \/ TextDelta(k) \/ MessageComplete(k) \/ EndStream(k)
       PROVE  CountsHold'
  <2>1. /\ UNCHANGED <<trip, moves, sent, errors>>
        /\ pc[k] \in {"opened", "listening", "told"}
        /\ \E s \in {"listening", "told", "done"} : pc' = [pc EXCEPT ![k] = s]
    <3>1. CASE SessionCreated(k)
      BY <3>1 DEF SessionCreated, Event, screen
    <3>2. CASE TextDelta(k)
      <4>1. /\ UNCHANGED <<trip, moves, sent, errors>> /\ pc[k] = "listening" /\ pc' = pc
        BY <3>2 DEF TextDelta, Event, Stream!Speak, screen
      <4> QED
        BY <4>1 DEF HookTypes, SendTypes
    <3>3. CASE MessageComplete(k)
      BY <3>3, CompleteDoes DEF screen
    <3>4. CASE EndStream(k)
      BY <3>4 DEF EndStream, Finish, screen
    <3> QED
      BY <1>10, <3>1, <3>2, <3>3, <3>4
  <2>2. \A j \in Sends : (pc'[j] = "idle" <=> pc[j] = "idle") /\ (pc'[j] = "failed" <=> pc[j] = "failed")
    BY <2>1 DEF HookTypes, SendTypes
  <2>3. \A j \in Sends : Counted(j)' = Counted(j)
    BY <1>2, <1>10, SpokenCounts
  <2> QED
    BY <1>4, <2>1, <2>2, <2>3
<1>11. ASSUME NEW k \in Sends, StreamError(k) PROVE CountsHold'
  <2>1. /\ UNCHANGED <<trip, moves, sent>> /\ pc[k] \in {"listening", "told"}
        /\ pc' = [pc EXCEPT ![k] = "told"] /\ errors' = [errors EXCEPT ![k] = errors[k] + 1]
    BY <1>11 DEF StreamError, Event, Stream!Fail, screen
  <2>2. /\ pc'[k] = "told" /\ errors'[k] = errors[k] + 1
        /\ \A j \in Sends \ {k} : pc'[j] = pc[j] /\ errors'[j] = errors[j]
    BY <2>1 DEF HookTypes, SendTypes, StreamTypes
  <2>3. Due(k)' = Due(k) + 1
    BY <1>2, <2>1, <2>2 DEF Due
  <2> QED
    BY <1>5, <1>11, <2>1, <2>2, <2>3
<1>12. ASSUME NEW k \in Sends, Running(k), (\E failed : Caught(k, failed)), errors' = errors PROVE CountsHold'
  <2>1. UNCHANGED <<trip, moves, sent>> /\ pc' = [pc EXCEPT ![k] = "failed"]
    BY <1>12 DEF Caught, Finish, screen
  <2>2. /\ pc'[k] = "failed" /\ pc[k] \notin {"idle", "failed"}
        /\ \A j \in Sends \ {k} : pc'[j] = pc[j] /\ errors'[j] = errors[j]
    BY <1>12, <2>1 DEF Running, HookTypes, SendTypes
  <2>3. Due(k)' = Due(k) + 1
    BY <1>2, <1>12, <2>2 DEF Due
  <2> QED
    BY <1>5, <1>12, <2>1, <2>2, <2>3
<1>13. ASSUME NEW k \in Sends, Fail(k) \/ Timeout(k) PROVE CountsHold'
  <2>1. Running(k) /\ (\E failed : Caught(k, failed)) /\ errors' = errors
    BY <1>13 DEF Fail, Timeout
  <2> QED
    BY <1>12, <2>1
<1>14. Stop => CountsHold'
  <2> SUFFICES ASSUME Stop PROVE CountsHold'
    OBVIOUS
  <2>1. controller \in Sends /\ Running(controller) /\ Caught(controller, lastFailed) /\ errors' = errors
    BY <1>1, StopEnds
  <2> QED
    BY <1>12, <2>1
<1> QED
  BY <1>6, <1>7, <1>8, <1>9, <1>10, <1>11, <1>12, <1>13, <1>14 DEF HookNext

(* Before the first screen.                                                  *)
LEMMA InitHook == HookInit => HookInv
<1> SUFFICES ASSUME HookInit PROVE HookInv
  OBVIOUS
<1> USE HookBounds DEF HookInit
<1>1. messages = <<>> /\ page = <<>> /\ <<>> \in Seq(ServerRows) /\ <<>> \in Seq(Entries)
  OBVIOUS
<1>2. /\ phase = [k \in Sends |-> "idle"] /\ said = [k \in Sends |-> {}] /\ shown = [k \in Sends |-> {}]
      /\ errors = [k \in Sends |-> 0]
  BY DEF Stream!Init
<1>3. HookTypes
  <2>1. ScreenTypes
    BY DEF ScreenTypes
  <2>2. StreamTypes
    BY <1>2 DEF StreamTypes
  <2>3. StoreTypes
    BY <1>1 DEF StoreTypes
  <2>4. SendTypes
    BY DEF SendTypes
  <2>5. GuardTypes
    BY DEF GuardTypes
  <2>6. ListTypes
    BY <1>1 DEF ListTypes
  <2> QED
    BY <2>1, <2>2, <2>3, <2>4, <2>5, <2>6 DEF HookTypes
<1>4. StepsHold
  BY <1>2 DEF StepsHold, NoText
<1>5. RowsHold
  BY DEF RowsHold, RowsGrow
<1>6. AllOrdered
  BY <1>1 DEF AllOrdered
<1>7. GuardsHold
  BY DEF GuardsHold, Running, Alive
<1>8. Own = {} /\ Old = {} /\ \A k \in Sends : ~Here(k)
  BY <1>1 DEF Own, Old, ToSet, Here
<1>9. HookFits /\ HookShows /\ CountsHold /\ HistoryHolds
  BY <1>1, <1>8 DEF HookFits, HookShows, CountsHold, HistoryHolds
<1> QED
  BY <1>3, <1>4, <1>5, <1>6, <1>7, <1>9 DEF HookInv

(* The invariant holds at every step.                                        *)
LEMMA HookStep == HookInv /\ [HookNext]_hookVars => HookInv'
<1> SUFFICES ASSUME HookInv, HookNext \/ UNCHANGED hookVars PROVE HookInv'
  OBVIOUS
<1>1. /\ HookTypes /\ StepsHold /\ RowsHold /\ AllOrdered /\ Undisturbed
      /\ (~disturbed => GuardsHold /\ CountsHold)
      /\ (~disturbed /\ ~early => HistoryHolds)
  BY DEF HookInv, Undisturbed
<1>2. HookTypes'
  BY <1>1, TypesStep
<1>3. StepsHold'
  BY <1>1, StepsStep
<1>4. RowsHold'
  BY <1>1, RowsStep
<1>5. AllOrdered'
  BY <1>1, <1>2, OrderStep
<1>6. ~disturbed' => GuardsHold'
  BY <1>1, GuardsStep
<1>7. ~disturbed' => HookFits' /\ HookShows'
  BY <1>1, <1>2, FitsStep
<1>8. ~disturbed' /\ ~early' => HistoryHolds'
  BY <1>1, <1>2, HistoryStep
<1>9. ~disturbed' => CountsHold'
  BY <1>1, <1>2, CountsStep
<1> QED
  BY <1>2, <1>3, <1>4, <1>5, <1>6, <1>7, <1>8, <1>9 DEF HookInv

(* One entry of its own at most is of a send and of a kind but for errors.   *)
LEMMA OwnOnce ==
  ASSUME HookTypes, AllOrdered, ~disturbed, NEW k \in Sends, NEW who \in {"user", "assistant"}
  PROVE  /\ (Of(k, who) = {} <=> ~Showing(k, who))
         /\ Of(k, who) = {} \/ \E i \in 1 .. Len(messages) : Of(k, who) = {i} /\ messages[i] \in Own
<1>1. messages \in Seq(Entries) /\ DOMAIN messages = 1 .. Len(messages) /\ Len(messages) \in Nat
  BY DEF HookTypes, ListTypes
<1>2. \A m : m \in Own <=> (\E i \in 1 .. Len(messages) : m = messages[i]) /\ m.origin # FromServer
  BY <1>1, ToSetIs DEF Own, Mine
<1>3. \A i : i \in Of(k, who) <=> i \in 1 .. Len(messages) /\ messages[i].of = k /\ messages[i].who = who /\ messages[i] \in Own
  BY <1>1, <1>2 DEF Of
<1>4. Of(k, who) = {} <=> ~Showing(k, who)
  BY <1>2, <1>3 DEF Showing
<1>5. ASSUME NEW i \in 1 .. Len(messages), NEW j \in 1 .. Len(messages), i < j, i \in Of(k, who),
             j \in Of(k, who)
      PROVE  FALSE
  <2>1. Ordered(messages[i], messages[j])
    BY <1>5 DEF AllOrdered
  <2>2. /\ Mine(messages[i]) /\ Mine(messages[j])
        /\ messages[i].of = k /\ messages[j].of = k /\ messages[i].who = who
        /\ messages[j].who = who
    BY <1>3, <1>5 DEF Own
  <2> QED
    BY <2>1, <2>2 DEF Ordered, Follows, Same
<1>6. ASSUME NEW i \in Of(k, who) PROVE Of(k, who) = {i}
  <2> SUFFICES ASSUME NEW j \in Of(k, who), j # i PROVE FALSE
    BY <1>6
  <2>1. i \in 1 .. Len(messages) /\ j \in 1 .. Len(messages) /\ (i < j \/ j < i)
    BY <1>1, <1>3, <1>6
  <2> QED
    BY <1>5, <1>6, <2>1
<1> QED
  BY <1>3, <1>4, <1>6

(* The invariant shows what came of a send.                                  *)
LEMMA InvShowsOutcome == HookInv => OutcomeShown
<1> SUFFICES ASSUME HookInv, NEW k \in Sends, ~Running(k), Alive(k), sent[k].move = moves,
                    ~disturbed
             PROVE  /\ Cardinality(Of(k, "user")) = (IF pc[k] = "idle" THEN 0 ELSE 1)
                    /\ Cardinality(Of(k, "assistant")) <= 1
                    /\ pc[k] = "done" => /\ Texts(k) = {Full(k)} \ {NoText}
                                         /\ Cardinality(Of(k, "error")) = errors[k]
                    /\ pc[k] = "failed" => /\ Cardinality(Of(k, "error")) = errors[k] + 1
                                           /\ Texts(k) # {} => phase[k] = "answered" /\ Texts(k) = {Full(k)}
  BY DEF OutcomeShown
<1>1. HookTypes /\ StepsHold /\ AllOrdered /\ HookFits /\ HookShows /\ CountsHold
  BY DEF HookInv
<1>2. pc[k] # "idle"
  <2>1. trip # NoTrip /\ mount >= 1 /\ mount \in Nat
    BY <1>1, HookBounds DEF Alive, HookTypes, ScreenTypes
  <2>2. sent[k].move >= mount
    BY DEF Alive
  <2> QED
    BY <1>1, <2>1, <2>2 DEF StepsHold
<1>3. Here(k) /\ Shows(k) /\ pc[k] \in {"done", "failed"}
  BY <1>1, <1>2 DEF Here, Alive, Running, HookShows
<1>4. \A i : Cardinality({i}) = 1 /\ Cardinality({}) = 0
  BY FS_Singleton, FS_EmptySet
<1>5. Cardinality(Of(k, "user")) = 1
  BY <1>1, <1>3, <1>4, OwnOnce DEF Shows
<1>6. Cardinality(Of(k, "assistant")) <= 1
  <2>1. CASE Of(k, "assistant") = {}
    BY <1>4, <2>1
  <2>2. CASE Of(k, "assistant") # {}
    <3>1. PICK i : Of(k, "assistant") = {i}
      BY <1>1, <2>2, OwnOnce
    <3>2. Cardinality({i}) = 1
      BY <1>4
    <3> QED
      BY <3>1, <3>2
  <2> QED
    BY <2>1, <2>2
<1>7. Of(k, "error") = Apologies(messages, k)
  BY DEF Of, Apologies, Mine
<1>8. Cardinality(Of(k, "error")) = Due(k) /\ errors[k] \in Nat
  BY <1>1, <1>3, <1>7 DEF CountsHold, HookTypes, StreamTypes
<1>10. ASSUME Texts(k) # {}
       PROVE  Texts(k) = {Full(k)} /\ Full(k) # NoText /\ Ended(k) /\ Showing(k, "assistant")
  <2>1. Of(k, "assistant") # {}
    BY <1>10 DEF Texts
  <2>2. PICK i \in 1 .. Len(messages) : Of(k, "assistant") = {i} /\ messages[i] \in Own
    BY <1>1, <2>1, OwnOnce
  <2>3. Texts(k) = {messages[i].text}
    BY <2>2 DEF Texts
  <2>4. messages[i].of = k /\ messages[i].who = "assistant"
    BY <2>2 DEF Of
  <2>5. Fits(messages[i]) /\ ~Live(k)
    BY <1>1, <1>3, <2>2 DEF HookFits, Live
  <2>6. messages[i].text = Full(k) /\ Full(k) # NoText /\ Ended(k)
    BY <2>4, <2>5 DEF Fits
  <2>7. Showing(k, "assistant")
    BY <2>2, <2>4 DEF Showing
  <2> QED
    BY <2>3, <2>6, <2>7
<1>11. Showing(k, "assistant") => Texts(k) # {}
  <2>1. Showing(k, "assistant") => Of(k, "assistant") # {}
    BY <1>1, OwnOnce
  <2> QED
    BY <2>1 DEF Texts
<1>12. ASSUME pc[k] = "done"
       PROVE  Texts(k) = {Full(k)} \ {NoText} /\ Cardinality(Of(k, "error")) = errors[k]
  <2>1. Full(k) = NoText \/ Texts(k) # {}
    BY <1>3, <1>11, <1>12 DEF Shows
  <2>2. Texts(k) = {Full(k)} \ {NoText}
    BY <1>10, <2>1
  <2> QED
    BY <1>8, <1>12, <2>2 DEF Due
<1>13. ASSUME pc[k] = "failed"
       PROVE  /\ Cardinality(Of(k, "error")) = errors[k] + 1
              /\ Texts(k) # {} => phase[k] = "answered" /\ Texts(k) = {Full(k)}
  <2>1. Ended(k) => phase[k] = "answered"
    BY <1>13 DEF Ended
  <2>2. Cardinality(Of(k, "error")) = errors[k] + 1
    BY <1>8, <1>13 DEF Due
  <2> QED
    BY <1>10, <2>1, <2>2
<1> QED
  BY <1>2, <1>5, <1>6, <1>12, <1>13

(* It shows each message in its order.                                       *)
LEMMA InvShowsInOrder == HookInv => ShownInOrder
<1> SUFFICES ASSUME HookInv, NEW i \in DOMAIN messages, NEW j \in DOMAIN messages, i < j
             PROVE  /\ messages[j].origin = FromServer => messages[i].origin = FromServer
                    /\ ~early /\ ~disturbed =>
                         /\ ~Same(messages[i], messages[j])
                         /\ messages[i].of = messages[j].of => messages[j].who # "user"
  BY DEF ShownInOrder
<1>1. messages \in Seq(Entries) /\ DOMAIN messages = 1 .. Len(messages)
  BY DEF HookInv, HookTypes, ListTypes
<1>2. Ordered(messages[i], messages[j])
  BY <1>1 DEF HookInv, AllOrdered
<1>3. messages[j].origin = FromServer => messages[i].origin = FromServer
  BY <1>2 DEF Ordered, Mine
<1>4. ASSUME ~early, ~disturbed PROVE Follows(messages[i], messages[j])
  <2>1. CASE Mine(messages[i]) <=> Mine(messages[j])
    BY <1>2, <1>4, <2>1 DEF Ordered
  <2>2. CASE ~Mine(messages[i]) /\ Mine(messages[j])
    <3>1. messages[i] \in Old /\ messages[j] \in Own
      BY <1>1, <2>2, ToSetIs DEF Old, Own
    <3>2. ~Here(messages[i].of) /\ Here(messages[j].of)
      BY <1>4, <3>1 DEF HookInv, HistoryHolds, HookFits, Fits
    <3>3. messages[i].of # messages[j].of
      BY <3>2
    <3> QED
      BY <3>3 DEF Follows, Same
  <2> QED
    BY <1>2, <2>1, <2>2 DEF Ordered
<1> QED
  BY <1>3, <1>4 DEF Follows

(* And it has the types.                                                     *)
LEMMA InvHasTypes == HookInv => ChatHookTypeOK
<1> SUFFICES ASSUME HookInv PROVE ChatHookTypeOK
  OBVIOUS
<1>1. HookTypes /\ (~disturbed => GuardsHold)
  BY DEF HookInv
<1>2. /\ trip \in Trips \cup {NoTrip} /\ mount \in 0 .. MaxMoves /\ moves \in 0 .. MaxMoves
      /\ hydration \in 0 .. Settled /\ load \in {"none", "asked", "answered"}
  BY <1>1, HookBounds DEF HookTypes, ScreenTypes
<1>3. /\ pc \in [Sends -> {"idle", "sent", "opened", "listening", "told", "done", "failed"}]
      /\ persisted \in [Trips -> 0 .. MaxSends] /\ sessionId \in 0 .. MaxSends
      /\ controller \in 0 .. MaxSends /\ lastFailed \in 0 .. MaxSends
  BY <1>1 DEF HookTypes, SendTypes, StoreTypes, GuardTypes
<1>4. {isSending, isStreaming, historyError, early, disturbed} \subseteq BOOLEAN /\ isSending = isStreaming
  BY <1>1 DEF HookTypes, GuardTypes
<1>5. ~disturbed => isStreaming = (controller # NoSend /\ Running(controller))
  BY <1>1 DEF GuardsHold
<1>6. \A i \in DOMAIN messages : messages[i].of \in Sends /\ messages[i].text \subseteq Frags
  <2>1. messages \in Seq(Entries)
    BY <1>1 DEF HookTypes, ListTypes
  <2>2. \A i \in DOMAIN messages : messages[i] \in Entries
    BY <2>1
  <2> QED
    BY <2>2, EntryKinds
<1> QED
  BY <1>2, <1>3, <1>4, <1>5, <1>6 DEF ChatHookTypeOK

(****************************  the offline copy  ****************************)
(* What a sync holds at each of its steps.                                   *)
SyncHolds(r) ==
  /\ r.step \in {"asked", "dated", "answered", "copied"} => r.since \in Times \cup {NoTime}
  /\ r.step \in {"dated", "answered", "copied"} => r.stamp \in 0 .. changes
  /\ r.step \in {"answered", "copied"} => r.data \in (r.stamp .. changes) \cup {Partial}
  /\ r.step = "copied" => copy # NoTime
SyncRecords == [step : {"idle", "asked", "dated", "answered", "copied"},
                since : Times \cup {NoTime}, stamp : Times \cup {NoTime},
                data : Times \cup {NoTime, Partial}]
OfflineInv ==
  /\ OfflineTypeOK
  /\ sync \in [Syncs -> SyncRecords]
  /\ \A k \in Syncs : SyncHolds(sync[k])

(* Nothing is stored at first.                                               *)
LEMMA InitOffline == OfflineInit => OfflineInv
  BY OfflineAssumption
     DEF OfflineInit, OfflineInv, OfflineTypeOK, SyncHolds, SyncRecords, Idle, Times, Partial

(* A sync that goes on, while trip and storage do at most grow.              *)
LEMMA SyncGoesOn ==
  ASSUME OfflineInv, NEW k \in Syncs, NEW r \in SyncRecords, sync' = [sync EXCEPT ![k] = r],
         changes' = changes, SyncHolds(r)', copy # NoTime => copy' # NoTime
  PROVE  sync' \in [Syncs -> SyncRecords] /\ \A j \in Syncs : SyncHolds(sync[j])'
<1>1. sync' \in [Syncs -> SyncRecords]
  BY DEF OfflineInv
<1>2. ASSUME NEW j \in Syncs
      PROVE  SyncHolds(sync[j])'
  <2>1. SyncHolds(sync[j])
    BY DEF OfflineInv
  <2>2. CASE j = k
    BY <2>2 DEF OfflineInv, SyncHolds
  <2>3. CASE j # k
    BY <2>1, <2>3 DEF OfflineInv, SyncHolds
  <2> QED
    BY <2>2, <2>3
<1> QED
  BY <1>1, <1>2

(* Each step of the copy keeps it.                                           *)
LEMMA OfflineStep == OfflineInv /\ [OfflineNext]_offlineVars => OfflineInv'
<1> SUFFICES ASSUME OfflineInv, [OfflineNext]_offlineVars PROVE OfflineInv'
  OBVIOUS
<1>0. /\ changes \in Nat /\ changes <= MaxChanges /\ stamp \in 0 .. changes
      /\ changes \in Times /\ stamp \in Times
      /\ Idle \in SyncRecords /\ \A k \in Syncs : sync[k] \in SyncRecords
  BY OfflineAssumption DEF OfflineInv, OfflineTypeOK, Times, Idle, SyncRecords
<1>1. CASE Change
  <2>1. changes' \in Times /\ stamp' \in 0 .. changes' /\ changes < changes'
    BY <1>0, <1>1, OfflineAssumption DEF Change, Times
  <2>2. \A k \in Syncs : SyncHolds(sync[k])'
    BY <1>0, <1>1, <2>1, OfflineAssumption DEF Change, storage, OfflineInv, SyncHolds, Times
  <2> QED
    BY <1>1, <2>1, <2>2 DEF Change, network, storage, OfflineInv, OfflineTypeOK
<1>2. CASE Connection \/ \E s \in Screens : OpenScreen(s) \/ CloseScreen(s)
  <2>1. UNCHANGED <<tripVars, sync, storage>> /\ mounted' \subseteq Screens
    BY <1>2 DEF Connection, OpenScreen, CloseScreen, OfflineInv, OfflineTypeOK
  <2>2. online' \in BOOLEAN /\ faults' \in 0 .. MaxFaults
    <3>1. online \in BOOLEAN /\ faults \in 0 .. MaxFaults
      BY DEF OfflineInv, OfflineTypeOK
    <3>2. CASE Connection
      <4>1. online' \in BOOLEAN
        BY <3>2 DEF Connection
      <4>2. faults' = faults \/ (faults' = faults + 1 /\ faults < MaxFaults)
        BY <3>2 DEF Connection
      <4> QED
        BY <3>1, <4>1, <4>2, OfflineAssumption
    <3>3. CASE UNCHANGED network
      BY <3>1, <3>3 DEF network
    <3> QED
      BY <1>2, <3>2, <3>3 DEF OpenScreen, CloseScreen
  <2> QED
    BY <2>1, <2>2 DEF tripVars, storage, OfflineInv, OfflineTypeOK, SyncHolds
<1>3. CASE Close
  <2>1. /\ UNCHANGED <<tripVars, online, storage>> /\ mounted' = {}
        /\ faults' \in 0 .. MaxFaults /\ sync' = [k \in Syncs |-> Idle]
    BY <1>3, OfflineAssumption DEF Close, OfflineInv, OfflineTypeOK
  <2> QED
    BY <1>0, <2>1 DEF tripVars, storage, OfflineInv, OfflineTypeOK, SyncHolds, Idle
<1>4. ASSUME NEW k \in Syncs, SyncStep(k)
      PROVE  OfflineInv'
  <2>1. PICK r \in SyncRecords : sync' = [sync EXCEPT ![k] = r] /\ SyncHolds(r)'
    <3>1. sync[k] \in SyncRecords /\ SyncHolds(sync[k]) /\ meta \in Times \cup {NoTime}
      BY <1>0 DEF OfflineInv, OfflineTypeOK
    <3>2. changes' = changes
      BY <1>4 DEF SyncStep, BeginSync, LoadTrip, Assemble, AssemblePart, StoreBundle, StoreMeta, FailSync, Step,
                  tripVars
    <3>3. CASE BeginSync(k)
      <4>0. PICK r : r = [Idle EXCEPT !.step = "asked", !.since = meta]
        OBVIOUS
      <4>1. sync' = [sync EXCEPT ![k] = r]
        BY <4>0, <3>3 DEF BeginSync, Step
      <4>2. r \in SyncRecords
        BY <4>0, <1>0, <3>1 DEF SyncRecords, Idle
      <4>3. r.step = "asked" /\ r.since = meta
        BY <4>0 DEF Idle
      <4>4. SyncHolds(r)'
        BY <3>1, <4>3 DEF SyncHolds, Times
      <4> QED
        BY <4>1, <4>2, <4>4
    <3>4. CASE LoadTrip(k)
      <4>0. PICK r : r = [sync[k] EXCEPT !.step = "dated", !.stamp = stamp]
        OBVIOUS
      <4>1. sync' = [sync EXCEPT ![k] = r] /\ sync[k].step = "asked"
        BY <4>0, <3>4 DEF LoadTrip, Step, NotModified, IfModifiedSince
      <4>2. r \in SyncRecords
        BY <4>0, <1>0, <3>1 DEF SyncRecords
      <4>3. r.step = "dated" /\ r.since = sync[k].since /\ r.stamp = stamp
        BY <4>0, <3>1 DEF SyncRecords
      <4>4. SyncHolds(r)'
        BY <1>0, <3>1, <3>2, <4>1, <4>3 DEF SyncHolds
      <4> QED
        BY <4>1, <4>2, <4>4
    <3>5. CASE Assemble(k)
      <4>0. PICK r : r = [sync[k] EXCEPT !.step = "answered", !.data = changes]
        OBVIOUS
      <4>1. sync' = [sync EXCEPT ![k] = r] /\ sync[k].step = "dated"
        BY <4>0, <3>5 DEF Assemble, Step
      <4>2. r \in SyncRecords
        BY <4>0, <1>0, <3>1 DEF SyncRecords
      <4>3. r.step = "answered" /\ r.since = sync[k].since /\ r.stamp = sync[k].stamp /\ r.data = changes
        BY <4>0, <3>1 DEF SyncRecords
      <4>4. SyncHolds(r)'
        BY <1>0, <3>1, <3>2, <4>1, <4>3 DEF SyncHolds
      <4> QED
        BY <4>1, <4>2, <4>4
    <3>6. CASE AssemblePart(k)
      <4>0. PICK r : r = [sync[k] EXCEPT !.step = "answered", !.data = Partial]
        OBVIOUS
      <4>1. sync' = [sync EXCEPT ![k] = r] /\ sync[k].step = "dated"
        BY <4>0, <3>6 DEF AssemblePart, OfflineInv
      <4>2. r \in SyncRecords
        BY <4>0, <3>1 DEF SyncRecords
      <4>3. r.step = "answered" /\ r.since = sync[k].since /\ r.stamp = sync[k].stamp /\ r.data = Partial
        BY <4>0, <3>1 DEF SyncRecords
      <4>4. SyncHolds(r)'
        BY <1>0, <3>1, <3>2, <4>1, <4>3 DEF SyncHolds
      <4> QED
        BY <4>1, <4>2, <4>4
    <3>7. CASE StoreBundle(k)
      <4>0. PICK r : r = [sync[k] EXCEPT !.step = "copied"]
        OBVIOUS
      <4>1. sync' = [sync EXCEPT ![k] = r] /\ sync[k].step = "answered" /\ copy' = sync[k].data
        BY <4>0, <3>7 DEF StoreBundle, Step
      <4>2. r \in SyncRecords
        BY <4>0, <1>0, <3>1 DEF SyncRecords
      <4>3. /\ r.step = "copied" /\ r.since = sync[k].since /\ r.stamp = sync[k].stamp
            /\ r.data = sync[k].data
        BY <4>0, <3>1 DEF SyncRecords
      <4>4. copy' # NoTime
        BY <1>0, <3>1, <4>1, OfflineAssumption DEF SyncHolds, Partial
      <4>5. SyncHolds(r)'
        BY <1>0, <3>1, <3>2, <4>1, <4>3, <4>4 DEF SyncHolds
      <4> QED
        BY <4>1, <4>2, <4>5
    <3>8. CASE StoreMeta(k) \/ FailSync(k)
      BY <1>0, <3>8 DEF StoreMeta, FailSync, Step, SyncHolds, Idle
    <3> QED
      BY <1>4, <3>3, <3>4, <3>5, <3>6, <3>7, <3>8 DEF SyncStep
  <2>2. /\ UNCHANGED tripVars /\ mounted' = mounted /\ online' = online
        /\ faults' \in 0 .. MaxFaults
    BY <1>4, OfflineAssumption
       DEF SyncStep, BeginSync, LoadTrip, Assemble, AssemblePart, StoreBundle, StoreMeta, FailSync, Step, tripVars,
           network, OfflineInv, OfflineTypeOK
  <2>3. /\ copy' \in Times \cup {NoTime, Partial} /\ meta' \in Times \cup {NoTime}
        /\ (copy # NoTime => copy' # NoTime) /\ (meta' # NoTime => copy' # NoTime)
    <3>1. SyncHolds(sync[k]) /\ (meta # NoTime => copy # NoTime)
          /\ copy \in Times \cup {NoTime, Partial} /\ meta \in Times \cup {NoTime}
      BY DEF OfflineInv, OfflineTypeOK
    <3>2. CASE StoreBundle(k)
      BY <1>0, <3>1, <3>2, OfflineAssumption DEF StoreBundle, Step, SyncHolds, Times, Partial
    <3>3. CASE StoreMeta(k)
      BY <1>0, <3>1, <3>3, OfflineAssumption DEF StoreMeta, Step, SyncHolds, Times
    <3>4. CASE UNCHANGED storage
      BY <3>1, <3>4 DEF storage
    <3> QED
      BY <1>4, <3>2, <3>3, <3>4 DEF SyncStep, BeginSync, LoadTrip, Assemble, AssemblePart, FailSync, storage
  <2>4. sync' \in [Syncs -> SyncRecords] /\ \A j \in Syncs : SyncHolds(sync[j])'
    BY <2>1, <2>2, <2>3, SyncGoesOn DEF tripVars
  <2>5. \A j \in Syncs : sync'[j].step \in {"idle", "asked", "dated", "answered", "copied"}
    BY <2>4 DEF SyncRecords
  <2> QED
    BY <2>2, <2>3, <2>4, <2>5 DEF tripVars, Times, OfflineInv, OfflineTypeOK
<1>5. CASE UNCHANGED offlineVars
  BY <1>5 DEF offlineVars, OfflineInv, OfflineTypeOK, SyncHolds
<1> QED
  BY <1>1, <1>2, <1>3, <1>4, <1>5 DEF OfflineNext

(*******************************  the client  *******************************)
(* A step of the client is one of a part, or leaves that part alone.         *)
LEMMA OnePartSteps ==
  [Next]_vars => [HookNext]_hookVars /\ [OfflineNext]_offlineVars /\ [LocationNext]_locationVars
BY DEF Next, vars, Messages, Moves

(* However often the screen is mounted and left while its permissions and    *)
(* positions are awaited, the indicator tells whether the position is        *)
(* followed (useLocation.ts:148-237).                                        *)
THEOREM IndicatorIsTrueHolds == Spec => []IndicatorIsTrue
<1>1. Init => LocationInv
  BY InitLocation DEF Init
<1>2. LocationInv /\ [Next]_vars => LocationInv'
  BY LocationStep, OnePartSteps
<1>3. LocationInv => IndicatorIsTrue
  BY DEF LocationInv
<1> QED
  BY <1>1, <1>2, <1>3, PTL DEF Spec

(* The invariant of the chat, whatever its user does: the run lets him do    *)
(* less (Messages and Moves of MCClient), the proof does not.                *)
LEMMA HookInvHolds == HookSpec => []HookInv
  BY InitHook, HookStep, PTL DEF HookSpec

(* The chat of the whole is a chat on its own.                               *)
LEMMA ChatOfTheWhole == Spec => HookSpec
<1>1. Init => HookInit
  BY DEF Init
<1> QED
  BY <1>1, OnePartSteps, PTL DEF Spec, HookSpec

(* When a stream has ended, the screen that sent the message shows what came *)
(* of it, and once (useChat.ts:514-617).                                     *)
THEOREM OutcomeShownHolds == Spec => []OutcomeShown
  BY ChatOfTheWhole, HookInvHolds, InvShowsOutcome, PTL

(* The history stands before what was sent since, and a user who waits for   *)
(* the screen sees nothing twice and no answer before its question           *)
(* (useChat.ts:249-280).                                                     *)
THEOREM ShownInOrderHolds == Spec => []ShownInOrder
  BY ChatOfTheWhole, HookInvHolds, InvShowsInOrder, PTL

(* Unless the trip of a screen has changed under a stream: the button that   *)
(* stops a stream is there while there is one, and no message can be sent    *)
(* meanwhile (useChat.ts:337-343, 617-625).                                  *)
THEOREM ChatHookTypeHolds == HookSpec => []ChatHookTypeOK
  BY HookInvHolds, InvHasTypes, PTL

(* Where a time is noted there is a copy, also if syncs overlap or the app   *)
(* is closed between its two writes (useOfflineSync.ts:96-105).              *)
THEOREM OfflineTypeHolds == Spec => []OfflineTypeOK
<1>1. Init => OfflineInv
  BY InitOffline DEF Init
<1>2. OfflineInv /\ [Next]_vars => OfflineInv'
  BY OfflineStep, OnePartSteps
<1>3. OfflineInv => OfflineTypeOK
  BY DEF OfflineInv
<1> QED
  BY <1>1, <1>2, <1>3, PTL DEF Spec
=============================================================================
