------------------------- MODULE ItineraryEditProofs -------------------------
(* Proofs about the itinerary.  A number is given once: until its call has   *)
(* inserted the row, no other call and no row knows it (NumbersAreOwn); that *)
(* keeps apart what overlapping rewrites, batches and removals touch.        *)
EXTENDS ItineraryEdit, FiniteSetTheorems, TLAPS

(* A call that invites or accepts is about a person, and one that accepts    *)
(* holds a token.                                                            *)
GuestsAreInvited ==
  \A c \in Calls : /\ pc[c] \in {"inviting", "accepting"} => user[c] \in People
                   /\ pc[c] = "accepting" => held[c] # NoInvite

(* The numbers of which no row has been seen yet.                            *)
Unseen(c) == IF pc[c] = "removing" THEN {} ELSE todo[c] \cup own[c]

NumbersAreGiven == \A c \in Calls : seen[c] \cup own[c] \cup deleted[c] \subseteq 1 .. made

NumbersAreOwn ==
  \A c \in Calls : /\ Unseen(c) \cap items = {}
                   /\ \A d \in Calls : /\ Unseen(c) \cap (seen[d] \cup deleted[d]) = {}
                                       /\ c # d => Unseen(c) \cap Unseen(d) = {}

(* What a call has at each of its steps.                                     *)
StepsHold ==
  \A c \in Calls : /\ ~Editing(c) => todo[c] = {}
                   /\ pc[c] # "inserting" => own[c] = {}
                   /\ pc[c] \notin {"deleting", "inserting", "removing"} => seen[c] = {}
                   /\ pc[c] # "removing" => deleted[c] = {}
                   /\ pc[c] = "linking" => \E i \in 1 .. made : todo[c] = {i}

EditInv == TypeOK /\ GuestsAreInvited /\ NumbersAreGiven /\ NumbersAreOwn /\ StepsHold /\ DeletedOnce

(* A set of numbers has a least element; this comes from a well-founded      *)
(* order, as the induction theorems cannot be instantiated here.             *)
Less == {pair \in Nat \X Nat : pair[1] < pair[2]}

(* The library states well-foundedness of a relation on pairs.               *)
LEMMA LessIsWellFounded == IsWellFoundedOn(Less, Nat)
  BY NatLessThanWellFounded DEF OpToRel, Less

(* Any set of numbers has a least one.                                       *)
LEMMA LeastIn ==
  ASSUME NEW S \in SUBSET Nat, S # {}
  PROVE  \E i \in S : \A j \in S : i <= j
<1>1. PICK i \in S : \A j \in S : ~ (<<j, i>> \in Less)
  BY WFMin, LessIsWellFounded
<1>2. \A j \in S : ~ (j < i)
  BY <1>1 DEF Less
<1> QED
  BY <1>2

(* First, which a loop over its list takes, is in the list.                  *)
LEMMA FirstIn ==
  ASSUME NEW n \in Nat, NEW S \in SUBSET (1 .. n), S # {}
  PROVE  First(S) \in S
<1>1. S \in SUBSET Nat
  OBVIOUS
<1>2. \E i \in S : \A j \in S : i <= j
  BY <1>1, LeastIn
<1> QED
  BY <1>2 DEF First

(* What a call takes next is left to do, and is an item that was made.       *)
LEMMA FirstTodo ==
  ASSUME TypeOK, NEW e \in Calls, todo[e] # {}
  PROVE  First(todo[e]) \in todo[e] /\ First(todo[e]) \in 1 .. made /\ First(todo[e]) \in Items
<1>1. made \in Nat /\ todo[e] \in SUBSET (1 .. made) /\ 1 .. made \subseteq Items
  BY ItineraryAssumption DEF TypeOK, Items
<1>2. First(todo[e]) \in todo[e]
  BY <1>1, FirstIn
<1> QED
  BY <1>1, <1>2

(* The end of a call, by answer or by error, keeps the types.                *)
LEMMA EndTyped ==
  ASSUME TypeOK, NEW e \in Calls, End(e)
  PROVE  /\ CollaboratorsTypeOK' /\ pc' \in [Calls -> Steps] /\ made' = made /\ title' = title
         /\ todo' \in [Calls -> SUBSET (1 .. made)] /\ seen' \in [Calls -> SUBSET Items]
         /\ known' \in [Calls -> SUBSET Titles] /\ own' \in [Calls -> SUBSET Items]
         /\ deleted' \in [Calls -> SUBSET Items]
  BY CollaboratorsAssumption DEF TypeOK, CollaboratorsTypeOK, End, Finish, Step, Steps, Users,
     NoInvite, Invited, collaboration, given

(* So does going on to the next item.                                        *)
LEMMA AdvanceTyped ==
  ASSUME TypeOK, NEW e \in Calls, Advance(e)
  PROVE  /\ CollaboratorsTypeOK' /\ pc' = pc /\ made' = made /\ title' = title /\ blind' = blind
         /\ todo' \in [Calls -> SUBSET (1 .. made)] /\ seen' = seen /\ known' = known
  BY DEF TypeOK, CollaboratorsTypeOK, Advance, call, collaboration, given, Invited

(* Every step keeps the types.                                               *)
LEMMA TypesStep ==
  ASSUME EditInv, [Next]_vars
  PROVE  TypeOK'
<1> USE ItineraryAssumption, CollaboratorsAssumption
    DEF EditInv, TypeOK, CollaboratorsTypeOK, NumbersAreGiven, GuestsAreInvited, call,
       collaboration, rows, given, work,
        Users, Steps, Items, NoInvite, Invited, CanEdit
<1>1. ASSUME NEW e \in Calls, BeginDelete(e) PROVE TypeOK'
  BY <1>1 DEF BeginDelete, Step
<1>2. ASSUME NEW e \in Calls, DeleteAll(e) PROVE TypeOK'
  BY <1>2 DEF DeleteAll, Step
<1>3. ASSUME NEW e \in Calls, Insert(e) PROVE TypeOK'
  <2>1. First(todo[e]) \in todo[e] /\ First(todo[e]) \in Items
    BY <1>3, FirstTodo DEF Insert
  <2>2. CASE CanEdit(user[e]) /\ Advance(e)
               /\ own' = [own EXCEPT ![e] = @ \cup {First(todo[e])}]
               /\ UNCHANGED <<items, linked, deleted>>
    <3>1. own' \in [Calls -> SUBSET Items]
      BY <2>1, <2>2
    <3> QED
      BY <2>2, <3>1, AdvanceTyped
  <2>3. CASE End(e) /\ UNCHANGED <<items, linked, blind>>
    BY <2>3, EndTyped
  <2> QED
    BY <1>3, <2>2, <2>3 DEF Insert
<1>4. ASSUME NEW e \in Calls, Commit(e) PROVE TypeOK'
  <2>1. CollaboratorsTypeOK' /\ pc' \in [Calls -> Steps]
    BY <1>4 DEF Commit, End, Finish, Step, Locked
  <2>2. items' \subseteq 1 .. made' /\ linked' \subseteq items' /\ made' \in 0 .. MaxItems
    BY <1>4 DEF Commit, End, Finish, Step, Locked
  <2>3. title' \in [Items -> Titles] /\ blind' \in BOOLEAN
    BY <1>4 DEF Commit, End, Finish, Step, Locked
  <2>4. todo' \in [Calls -> SUBSET (1 .. made')] /\ seen' \in [Calls -> SUBSET Items]
    BY <1>4 DEF Commit, End, Finish, Step, Locked
  <2>5. /\ known' \in [Calls -> SUBSET Titles] /\ own' \in [Calls -> SUBSET Items]
        /\ deleted' \in [Calls -> SUBSET Items]
    BY <1>4 DEF Commit, End, Finish, Step, Locked
  <2> QED
    BY <2>1, <2>2, <2>3, <2>4, <2>5
<1>5. ASSUME NEW e \in Calls, Peek(e) PROVE TypeOK'
  <2>1. known' \in [Calls -> SUBSET Titles]
    <3>1. {title[i] : i \in items} \subseteq Titles
      OBVIOUS
    <3>2. CASE known' = [known EXCEPT ![e] = {title[i] : i \in items}]
      BY <3>1, <3>2
    <3> QED
      BY <1>5, <3>2 DEF Peek, Step
  <2>2. pc' \in [Calls -> Steps]
    BY <1>5 DEF Peek, Step
  <2> QED
    BY <1>5, <2>1, <2>2 DEF Peek, Step
<1>6. ASSUME NEW e \in Calls, Create(e) PROVE TypeOK'
  <2>1. First(todo[e]) \in todo[e] /\ First(todo[e]) \in 1 .. made
    BY <1>6, FirstTodo DEF Create
  <2>2. CASE Advance(e) /\ (items' = items \/ items' = items \cup {First(todo[e])})
               /\ UNCHANGED <<linked, own, deleted>>
    BY <2>1, <2>2, AdvanceTyped
  <2>3. CASE End(e) /\ UNCHANGED <<items, linked, blind>>
    BY <2>3, EndTyped
  <2> QED
    BY <1>6, <2>2, <2>3 DEF Create
<1>7. ASSUME NEW e \in Calls, EndBatch(e) PROVE TypeOK'
  BY <1>7 DEF EndBatch, End, Finish, Step
<1>8. ASSUME NEW e \in Calls, RemoveItem(e) PROVE TypeOK'
  <2>2. NextItem(e)
    BY <1>8 DEF RemoveItem
  <2>3. items' \subseteq items /\ linked' \subseteq items'
    BY <1>8 DEF RemoveItem
  <2>4. deleted' \in [Calls -> SUBSET Items]
    <3>1. CASE deleted' = [deleted EXCEPT ![e] = @ \cup seen[e]]
      BY <3>1
    <3>2. CASE deleted' = deleted
      BY <3>2
    <3> QED
      BY <1>8, <3>1, <3>2 DEF RemoveItem
  <2>5. /\ todo' \in [Calls -> SUBSET (1 .. made)] /\ seen' \in [Calls -> SUBSET Items]
        /\ UNCHANGED <<call, collaboration, given, known, own, blind>>
    BY <2>2 DEF NextItem
  <2> QED
    BY <2>3, <2>4, <2>5
<1>21. ASSUME NEW e \in Calls, FindItem(e) PROVE TypeOK'
  BY <1>21, FirstTodo DEF FindItem
<1>9. ASSUME NEW e \in Calls, Link(e) PROVE TypeOK'
  <2>1. CollaboratorsTypeOK' /\ pc' \in [Calls -> Steps]
    BY <1>9 DEF Link, End, Finish, Step
  <2>2. items' \subseteq 1 .. made' /\ linked' \subseteq items' /\ made' \in 0 .. MaxItems
    BY <1>9 DEF Link, End, Finish, Step
  <2>3. title' \in [Items -> Titles] /\ blind' \in BOOLEAN
    BY <1>9 DEF Link, End, Finish, Step
  <2>4. todo' \in [Calls -> SUBSET (1 .. made')] /\ seen' \in [Calls -> SUBSET Items]
    BY <1>9 DEF Link, End, Finish, Step
  <2>5. /\ known' \in [Calls -> SUBSET Titles] /\ own' \in [Calls -> SUBSET Items]
        /\ deleted' \in [Calls -> SUBSET Items]
    BY <1>9 DEF Link, End, Finish, Step
  <2> QED
    BY <2>1, <2>2, <2>3, <2>4, <2>5
<1>10. ASSUME NEW e \in Calls, Rollback(e) PROVE TypeOK'
  BY <1>10 DEF Rollback, End, Finish, Step, Replacing
<1>11. ASSUME NEW e \in Calls, AddCollaborator(e), UNCHANGED <<rows, given, work, blind>>
       PROVE TypeOK'
  <2>1. pc' \in [Calls -> Steps] /\ user' \in [Calls -> Users] /\ held' \in [Calls -> 0 .. MaxTokens]
    BY <1>11 DEF AddCollaborator, Finish, Step
  <2>2. token' \in [People -> 0 .. MaxTokens] /\ invites' \in 0 .. MaxTokens
    BY <1>11 DEF AddCollaborator, Finish, Step
  <2>3. Invited \subseteq Invited'
    BY <1>11 DEF AddCollaborator, Finish, Step
  <2> QED
    BY <1>11, <2>1, <2>2, <2>3 DEF AddCollaborator, Finish, Step
<1>12. ASSUME NEW e \in Calls, AcceptInvite(e), UNCHANGED <<rows, given, work, blind>>
       PROVE TypeOK'
  BY <1>12 DEF AcceptInvite, Finish, Step
<1>13. ASSUME NEW e \in Calls, NEW u \in Users, NEW list \in Lists, BeginReplace(e, u, list)
       PROVE  TypeOK'
  BY <1>13 DEF BeginReplace, Begin, Start, Running, Step
<1>14. ASSUME NEW e \in Calls, NEW u \in Users, NEW list \in Lists, BeginCreate(e, u, list)
       PROVE  TypeOK'
  BY SMTT(30), <1>14 DEF BeginCreate, Begin, Start, Running, Step
<1>15. ASSUME NEW e \in Calls, NEW u \in Users, NEW t \in Titles, BeginRemove(e, u, t) PROVE TypeOK'
  <2>1. CollaboratorsTypeOK' /\ pc' \in [Calls -> Steps]
    BY <1>15 DEF BeginRemove, Start, Running, Step
  <2>2. items' \subseteq 1 .. made' /\ linked' \subseteq items' /\ made' \in 0 .. MaxItems
    BY <1>15 DEF BeginRemove, Start, Running, Step
  <2>3. title' \in [Items -> Titles] /\ blind' \in BOOLEAN
    BY <1>15 DEF BeginRemove, Start, Running, Step
  <2>4. todo' \in [Calls -> SUBSET (1 .. made')] /\ seen' \in [Calls -> SUBSET Items]
    BY <1>15 DEF BeginRemove, Start, Running, Step
  <2>5. /\ known' \in [Calls -> SUBSET Titles] /\ own' \in [Calls -> SUBSET Items]
        /\ deleted' \in [Calls -> SUBSET Items]
    BY <1>15 DEF BeginRemove, Start, Running, Step
  <2> QED
    BY <2>1, <2>2, <2>3, <2>4, <2>5
<1>16. ASSUME NEW e \in Calls, NEW u \in Users, NEW t \in Titles, BeginLink(e, u, t) PROVE TypeOK'
  <2>1. made' = made + 1 /\ made' \in 0 .. MaxItems /\ title' \in [Items -> Titles]
    <3>1. Len(<<t>>) = 1 /\ <<t>>[1] = t
      OBVIOUS
    <3>2. made' = made + 1 /\ made' <= MaxItems
      BY <1>16, <3>1 DEF BeginLink, Begin, Start, Running, Step
    <3>3. title' = [i \in Items |-> IF i \in made + 1 .. made' THEN <<t>>[i - made] ELSE title[i]]
      BY <1>16 DEF BeginLink, Begin, Start, Running, Step
    <3>4. \A i \in made + 1 .. made' : i - made = 1
      BY <3>2
    <3>5. \A i \in made + 1 .. made' : <<t>>[i - made] = t
      BY <3>1, <3>4
    <3>6. title' \in [Items -> Titles]
      BY <3>3, <3>5
    <3> QED
      BY <3>2, <3>6
  <2>2. blind' \in BOOLEAN
    BY <1>16 DEF BeginLink, Begin, Start, Running, Step
  <2>3. pc' \in [Calls -> Steps] /\ user' \in [Calls -> Users] /\ held' \in [Calls -> 0 .. MaxTokens]
    BY <1>16 DEF BeginLink, Begin, Start, Running, Step
  <2>4. todo' \in [Calls -> SUBSET (1 .. made')]
    BY <1>16, <2>1 DEF BeginLink, Begin, Start, Running, Step
  <2> QED
    BY <1>16, <2>1, <2>2, <2>3, <2>4 DEF BeginLink, Begin, Start, Running, Step
<1>17. ASSUME NEW e \in Calls, NEW p \in People, BeginInvite(e, p), UNCHANGED <<rows, given, work, blind>>
       PROVE TypeOK'
  BY <1>17 DEF BeginInvite, Start, Running, Step
<1>18. ASSUME NEW e \in Calls, NEW p \in People, BeginAccept(e, p), UNCHANGED <<rows, given, work, blind>>
       PROVE TypeOK'
  BY <1>18 DEF BeginAccept, Start, Running, Step
<1>19. ASSUME NEW p \in People, RemoveCollaborator(p), UNCHANGED <<rows, given, work, blind>>
       PROVE TypeOK'
  BY <1>19 DEF RemoveCollaborator, Invited
<1>20. CASE UNCHANGED vars
  BY <1>20 DEF vars
<1> QED
  BY <1>1, <1>2, <1>3, <1>4, <1>5, <1>6, <1>7, <1>8, <1>9, <1>10, <1>11, <1>12, <1>13, <1>14, <1>15,
     <1>16, <1>17, <1>18, <1>19, <1>20, <1>21 DEF Next, Work, Sharing

(* Who works on an itinerary was invited before.                             *)
LEMMA GuestsStep ==
  ASSUME TypeOK, GuestsAreInvited, [Next]_vars
  PROVE  GuestsAreInvited'
<1> USE DEF TypeOK, CollaboratorsTypeOK, call, collaboration, rows, given, work
<1> USE ItineraryAssumption, CollaboratorsAssumption DEF GuestsAreInvited, NoInvite, Users
<1>1. ASSUME NEW e \in Calls, BeginDelete(e) PROVE GuestsAreInvited'
  BY <1>1 DEF BeginDelete, Step
<1>2. ASSUME NEW e \in Calls, DeleteAll(e) PROVE GuestsAreInvited'
  BY <1>2 DEF DeleteAll, Step
<1>3. ASSUME NEW e \in Calls, Insert(e) PROVE GuestsAreInvited'
  BY <1>3 DEF Insert, Advance, End, Finish, Step
<1>4. ASSUME NEW e \in Calls, Commit(e) PROVE GuestsAreInvited'
  BY <1>4 DEF Commit, End, Finish, Step, Locked
<1>5. ASSUME NEW e \in Calls, Peek(e) PROVE GuestsAreInvited'
  BY <1>5 DEF Peek, Step
<1>6. ASSUME NEW e \in Calls, Create(e) PROVE GuestsAreInvited'
  BY <1>6 DEF Create, Advance, End, Finish, Step
<1>7. ASSUME NEW e \in Calls, EndBatch(e) PROVE GuestsAreInvited'
  BY <1>7 DEF EndBatch, End, Finish, Step
<1>8. ASSUME NEW e \in Calls, RemoveItem(e) PROVE GuestsAreInvited'
  BY <1>8 DEF RemoveItem, NextItem
<1>21. ASSUME NEW e \in Calls, FindItem(e) PROVE GuestsAreInvited'
  BY <1>21, FirstTodo DEF FindItem
<1>9. ASSUME NEW e \in Calls, Link(e) PROVE GuestsAreInvited'
  BY <1>9 DEF Link, End, Finish, Step
<1>10. ASSUME NEW e \in Calls, Rollback(e) PROVE GuestsAreInvited'
  BY <1>10 DEF Rollback, End, Finish, Step, Replacing
<1>11. ASSUME NEW e \in Calls, AddCollaborator(e), UNCHANGED <<rows, given, work, blind>>
       PROVE GuestsAreInvited'
  BY <1>11 DEF AddCollaborator, Finish, Step
<1>12. ASSUME NEW e \in Calls, AcceptInvite(e), UNCHANGED <<rows, given, work, blind>>
       PROVE GuestsAreInvited'
  BY <1>12 DEF AcceptInvite, Finish, Step
<1>13. ASSUME NEW e \in Calls, NEW u \in Users, NEW list \in Lists, BeginReplace(e, u, list)
       PROVE  GuestsAreInvited'
  BY <1>13 DEF BeginReplace, Begin, Start, Running, Step
<1>14. ASSUME NEW e \in Calls, NEW u \in Users, NEW list \in Lists, BeginCreate(e, u, list)
       PROVE  GuestsAreInvited'
  BY <1>14 DEF BeginCreate, Begin, Start, Running, Step
<1>15. ASSUME NEW e \in Calls, NEW u \in Users, NEW t \in Titles, BeginRemove(e, u, t)
       PROVE  GuestsAreInvited'
  BY <1>15 DEF BeginRemove, Start, Running, Step
<1>16. ASSUME NEW e \in Calls, NEW u \in Users, NEW t \in Titles, BeginLink(e, u, t)
       PROVE  GuestsAreInvited'
  BY <1>16 DEF BeginLink, Begin, Start, Running, Step
<1>17. ASSUME NEW e \in Calls, NEW p \in People, BeginInvite(e, p), UNCHANGED <<rows, given, work, blind>>
       PROVE GuestsAreInvited'
  BY <1>17 DEF BeginInvite, Start, Running, Step
<1>18. ASSUME NEW e \in Calls, NEW p \in People, BeginAccept(e, p), UNCHANGED <<rows, given, work, blind>>
       PROVE GuestsAreInvited'
  BY <1>18 DEF BeginAccept, Start, Running, Step
<1>19. ASSUME NEW p \in People, RemoveCollaborator(p), UNCHANGED <<rows, given, work, blind>>
       PROVE GuestsAreInvited'
  BY <1>19 DEF RemoveCollaborator, Invited
<1>20. CASE UNCHANGED vars
  BY <1>20 DEF vars
<1> QED
  BY <1>1, <1>2, <1>3, <1>4, <1>5, <1>6, <1>7, <1>8, <1>9, <1>10, <1>11, <1>12, <1>13, <1>14, <1>15,
     <1>16, <1>17, <1>18, <1>19, <1>20, <1>21 DEF Next, Work, Sharing

(* The rows a call has seen, inserted or deleted have numbers that were given. *)
LEMMA GivenStep ==
  ASSUME TypeOK, NumbersAreGiven, [Next]_vars
  PROVE  NumbersAreGiven'
<1> USE DEF TypeOK, CollaboratorsTypeOK, call, collaboration, rows, given, work
<1> USE ItineraryAssumption, FirstTodo DEF NumbersAreGiven
<1>1. ASSUME NEW e \in Calls, BeginDelete(e) PROVE NumbersAreGiven'
  BY <1>1 DEF BeginDelete, Step
<1>2. ASSUME NEW e \in Calls, DeleteAll(e) PROVE NumbersAreGiven'
  BY <1>2 DEF DeleteAll, Step
<1>3. ASSUME NEW e \in Calls, Insert(e) PROVE NumbersAreGiven'
  <2>1. First(todo[e]) \in todo[e]
    BY <1>3, FirstTodo DEF Insert
  <2>2. CASE Advance(e) /\ own' = [own EXCEPT ![e] = @ \cup {First(todo[e])}] /\ deleted' = deleted
    BY <1>3, <2>1, <2>2 DEF Insert, Advance, End, Finish, Step
  <2>3. CASE End(e)
    BY <1>3, <2>3 DEF End, Finish, Step
  <2> QED
    BY <1>3, <2>2, <2>3 DEF Insert
<1>4. ASSUME NEW e \in Calls, Commit(e) PROVE NumbersAreGiven'
  BY <1>4 DEF Commit, End, Finish, Step, Locked
<1>5. ASSUME NEW e \in Calls, Peek(e) PROVE NumbersAreGiven'
  BY <1>5 DEF Peek, Step
<1>6. ASSUME NEW e \in Calls, Create(e) PROVE NumbersAreGiven'
  BY ZenonT(30), <1>6 DEF Create, Advance, End, Finish, Step
<1>7. ASSUME NEW e \in Calls, EndBatch(e) PROVE NumbersAreGiven'
  BY <1>7 DEF EndBatch, End, Finish, Step
<1>8. ASSUME NEW e \in Calls, RemoveItem(e) PROVE NumbersAreGiven'
  <2>1. NextItem(e) /\ pc[e] = "removing"
    BY <1>8 DEF RemoveItem
  <2>3. CASE deleted' = [deleted EXCEPT ![e] = @ \cup seen[e]]
    BY <2>1, <2>3 DEF NextItem
  <2>4. CASE deleted' = deleted
    BY <2>1, <2>4 DEF NextItem
  <2> QED
    BY <1>8, <2>3, <2>4 DEF RemoveItem
<1>21. ASSUME NEW e \in Calls, FindItem(e) PROVE NumbersAreGiven'
  BY <1>21, FirstTodo DEF FindItem
<1>9. ASSUME NEW e \in Calls, Link(e) PROVE NumbersAreGiven'
  BY <1>9 DEF Link, End, Finish, Step
<1>10. ASSUME NEW e \in Calls, Rollback(e) PROVE NumbersAreGiven'
  BY <1>10 DEF Rollback, End, Finish, Step, Replacing
<1>11. ASSUME NEW e \in Calls, AddCollaborator(e), UNCHANGED <<rows, given, work, blind>>
       PROVE NumbersAreGiven'
  BY <1>11 DEF AddCollaborator, Finish, Step
<1>12. ASSUME NEW e \in Calls, AcceptInvite(e), UNCHANGED <<rows, given, work, blind>>
       PROVE NumbersAreGiven'
  BY <1>12 DEF AcceptInvite, Finish, Step
<1>13. ASSUME NEW e \in Calls, NEW u \in Users, NEW list \in Lists, BeginReplace(e, u, list)
       PROVE  NumbersAreGiven'
  BY <1>13 DEF BeginReplace, Begin, Start, Running, Step
<1>14. ASSUME NEW e \in Calls, NEW u \in Users, NEW list \in Lists, BeginCreate(e, u, list)
       PROVE  NumbersAreGiven'
  BY <1>14 DEF BeginCreate, Begin, Start, Running, Step
<1>15. ASSUME NEW e \in Calls, NEW u \in Users, NEW t \in Titles, BeginRemove(e, u, t)
       PROVE  NumbersAreGiven'
  BY <1>15 DEF BeginRemove, Start, Running, Step
<1>16. ASSUME NEW e \in Calls, NEW u \in Users, NEW t \in Titles, BeginLink(e, u, t)
       PROVE  NumbersAreGiven'
  BY <1>16 DEF BeginLink, Begin, Start, Running, Step
<1>17. ASSUME NEW e \in Calls, NEW p \in People, BeginInvite(e, p), UNCHANGED <<rows, given, work, blind>>
       PROVE NumbersAreGiven'
  BY <1>17 DEF BeginInvite, Start, Running, Step
<1>18. ASSUME NEW e \in Calls, NEW p \in People, BeginAccept(e, p), UNCHANGED <<rows, given, work, blind>>
       PROVE NumbersAreGiven'
  BY <1>18 DEF BeginAccept, Start, Running, Step
<1>19. ASSUME NEW p \in People, RemoveCollaborator(p), UNCHANGED <<rows, given, work, blind>>
       PROVE NumbersAreGiven'
  BY <1>19 DEF RemoveCollaborator, Invited
<1>20. CASE UNCHANGED vars
  BY <1>20 DEF vars
<1> QED
  BY <1>1, <1>2, <1>3, <1>4, <1>5, <1>6, <1>7, <1>8, <1>9, <1>10, <1>11, <1>12, <1>13, <1>14, <1>15,
     <1>16, <1>17, <1>18, <1>19, <1>20, <1>21 DEF Next, Work, Sharing

(* A call that ends holds nothing, whichever step it ends from.              *)
LEMMA EndHolds ==
  ASSUME TypeOK, StepsHold, NEW e \in Calls, End(e)
  PROVE  StepsHold'
<1>1. /\ pc' = [pc EXCEPT ![e] = "idle"] /\ todo' = [todo EXCEPT ![e] = {}]
      /\ seen' = [seen EXCEPT ![e] = {}] /\ own' = [own EXCEPT ![e] = {}]
      /\ deleted' = [deleted EXCEPT ![e] = {}] /\ made' = made
  BY DEF End, Finish, Step, given
<1>2. /\ pc \in [Calls -> Steps] /\ todo \in [Calls -> SUBSET (1 .. made)]
      /\ seen \in [Calls -> SUBSET Items] /\ own \in [Calls -> SUBSET Items]
      /\ deleted \in [Calls -> SUBSET Items]
  BY DEF TypeOK
<1>3. pc'[e] = "idle" /\ todo'[e] = {} /\ seen'[e] = {} /\ own'[e] = {} /\ deleted'[e] = {}
  BY <1>1, <1>2
<1>4. ASSUME NEW c \in Calls, c # e
      PROVE  /\ pc'[c] = pc[c] /\ todo'[c] = todo[c] /\ seen'[c] = seen[c]
             /\ own'[c] = own[c] /\ deleted'[c] = deleted[c]
  BY <1>1, <1>2, <1>4
<1> QED
  BY <1>1, <1>3, <1>4 DEF StepsHold, Editing

(* What each step of a call holds: its list, its rows, its user.             *)
LEMMA HoldStep ==
  ASSUME TypeOK, TypeOK', NumbersAreGiven, StepsHold, [Next]_vars
  PROVE  StepsHold'
<1> USE DEF TypeOK, CollaboratorsTypeOK, call, collaboration, rows, given, work
<1> USE ItineraryAssumption, FirstTodo DEF StepsHold, Editing
<1>1. ASSUME NEW e \in Calls, BeginDelete(e) PROVE StepsHold'
  BY <1>1 DEF BeginDelete, Step
<1>2. ASSUME NEW e \in Calls, DeleteAll(e) PROVE StepsHold'
  BY <1>2 DEF DeleteAll, Step
<1>3. ASSUME NEW e \in Calls, Insert(e) PROVE StepsHold'
  <2>1. First(todo[e]) \in todo[e]
    BY <1>3, FirstTodo DEF Insert
  <2>2. CASE Advance(e) /\ own' = [own EXCEPT ![e] = @ \cup {First(todo[e])}] /\ deleted' = deleted
    BY ZenonT(30), <1>3, <2>1, <2>2 DEF Insert, Advance
  <2>3. CASE End(e)
    BY EndHolds, <2>3
  <2> QED
    BY <1>3, <2>2, <2>3 DEF Insert
<1>4. ASSUME NEW e \in Calls, Commit(e) PROVE StepsHold'
  BY EndHolds, <1>4 DEF Commit
<1>5. ASSUME NEW e \in Calls, Peek(e) PROVE StepsHold'
  BY <1>5 DEF Peek, Step
<1>6. ASSUME NEW e \in Calls, Create(e) PROVE StepsHold'
  <2>1. First(todo[e]) \in todo[e]
    BY <1>6, FirstTodo DEF Create
  <2>2. CASE Advance(e) /\ UNCHANGED <<own, deleted>>
    BY <1>6, <2>1, <2>2 DEF Create, Advance
  <2>3. CASE End(e)
    BY EndHolds, <2>3
  <2> QED
    BY <1>6, <2>2, <2>3 DEF Create
<1>7. ASSUME NEW e \in Calls, EndBatch(e) PROVE StepsHold'
  BY EndHolds, <1>7 DEF EndBatch
<1>8. ASSUME NEW e \in Calls, RemoveItem(e) PROVE StepsHold'
  <2>1. NextItem(e) /\ pc[e] = "removing"
    BY <1>8 DEF RemoveItem
  <2>3. CASE deleted' = [deleted EXCEPT ![e] = @ \cup seen[e]]
    BY <2>1, <2>3 DEF NextItem
  <2>4. CASE deleted' = deleted
    BY <2>1, <2>4 DEF NextItem
  <2> QED
    BY <1>8, <2>3, <2>4 DEF RemoveItem
<1>21. ASSUME NEW e \in Calls, FindItem(e) PROVE StepsHold'
  BY <1>21, FirstTodo DEF FindItem
<1>9. ASSUME NEW e \in Calls, Link(e) PROVE StepsHold'
  BY EndHolds, <1>9 DEF Link
<1>10. ASSUME NEW e \in Calls, Rollback(e) PROVE StepsHold'
  BY EndHolds, <1>10 DEF Rollback
<1>11. ASSUME NEW e \in Calls, AddCollaborator(e), UNCHANGED <<rows, given, work, blind>>
       PROVE StepsHold'
  BY <1>11 DEF AddCollaborator, Finish, Step
<1>12. ASSUME NEW e \in Calls, AcceptInvite(e), UNCHANGED <<rows, given, work, blind>>
       PROVE StepsHold'
  BY <1>12 DEF AcceptInvite, Finish, Step
<1>13. ASSUME NEW e \in Calls, NEW u \in Users, NEW list \in Lists, BeginReplace(e, u, list)
       PROVE  StepsHold'
  BY <1>13 DEF BeginReplace, Begin, Start, Running, Step
<1>14. ASSUME NEW e \in Calls, NEW u \in Users, NEW list \in Lists, BeginCreate(e, u, list)
       PROVE  StepsHold'
  BY <1>14 DEF BeginCreate, Begin, Start, Running, Step
<1>15. ASSUME NEW e \in Calls, NEW u \in Users, NEW t \in Titles, BeginRemove(e, u, t)
       PROVE  StepsHold'
  BY <1>15 DEF BeginRemove, Start, Running, Step
<1>16. ASSUME NEW e \in Calls, NEW u \in Users, NEW t \in Titles, BeginLink(e, u, t)
       PROVE  StepsHold'
  BY <1>16 DEF BeginLink, Begin, Start, Running, Step
<1>17. ASSUME NEW e \in Calls, NEW p \in People, BeginInvite(e, p), UNCHANGED <<rows, given, work, blind>>
       PROVE StepsHold'
  BY <1>17 DEF BeginInvite, Start, Running, Step
<1>18. ASSUME NEW e \in Calls, NEW p \in People, BeginAccept(e, p), UNCHANGED <<rows, given, work, blind>>
       PROVE StepsHold'
  BY <1>18 DEF BeginAccept, Start, Running, Step
<1>19. ASSUME NEW p \in People, RemoveCollaborator(p), UNCHANGED <<rows, given, work, blind>>
       PROVE StepsHold'
  BY <1>19 DEF RemoveCollaborator, Invited
<1>20. CASE UNCHANGED vars
  BY <1>20 DEF vars
<1> QED
  BY <1>1, <1>2, <1>3, <1>4, <1>5, <1>6, <1>7, <1>8, <1>9, <1>10, <1>11, <1>12, <1>13, <1>14, <1>15,
     <1>16, <1>17, <1>18, <1>19, <1>20, <1>21 DEF Next, Work, Sharing

(* A call inserts under numbers that no other call has.                      *)
LEMMA OwnStep ==
  ASSUME EditInv, TypeOK', [Next]_vars
  PROVE  NumbersAreOwn'
<1> USE DEF TypeOK, CollaboratorsTypeOK, call, collaboration, rows, given, work
<1> USE DEF EditInv, NumbersAreOwn, NumbersAreGiven, StepsHold, Unseen, Editing
<1>1. ASSUME NEW e \in Calls, BeginDelete(e) PROVE NumbersAreOwn'
  BY <1>1 DEF BeginDelete, Step
<1>2. ASSUME NEW e \in Calls, DeleteAll(e) PROVE NumbersAreOwn'
  BY <1>2 DEF DeleteAll, Step
<1>3. ASSUME NEW e \in Calls, Insert(e) PROVE NumbersAreOwn'
  <2>1. First(todo[e]) \in todo[e]
    BY <1>3, FirstTodo DEF Insert
  <2>2. CASE Advance(e) /\ own' = [own EXCEPT ![e] = @ \cup {First(todo[e])}]
               /\ UNCHANGED <<items, deleted>>
    <3>1. \A c \in Calls : Unseen(c)' \subseteq Unseen(c)
      BY <1>3, <2>1, <2>2 DEF Insert, Advance
    <3> QED
      BY <2>2, <3>1 DEF Advance
  <2>3. CASE End(e) /\ UNCHANGED <<items, linked>>
    BY <1>3, <2>3 DEF End, Finish, Step
  <2> QED
    BY <1>3, <2>2, <2>3 DEF Insert
<1>4. ASSUME NEW e \in Calls, Commit(e) PROVE NumbersAreOwn'
  BY <1>4 DEF Commit, End, Finish, Step, Locked
<1>5. ASSUME NEW e \in Calls, Peek(e) PROVE NumbersAreOwn'
  BY <1>5 DEF Peek, Step
<1>6. ASSUME NEW e \in Calls, Create(e) PROVE NumbersAreOwn'
  <2>1. First(todo[e]) \in todo[e] /\ pc[e] = "creating"
    BY <1>6, FirstTodo DEF Create
  <2>2. CASE Advance(e) /\ UNCHANGED <<own, deleted>>
               /\ items' \subseteq items \cup {First(todo[e])}
    <3>1. \A c \in Calls : Unseen(c)' \subseteq Unseen(c) /\ First(todo[e]) \notin Unseen(c)'
      BY <2>1, <2>2 DEF Advance
    <3>2. \A c \in Calls : First(todo[e]) \notin deleted[c]
      BY <2>1
    <3> QED
      BY <2>2, <3>1, <3>2 DEF Advance
  <2>3. CASE End(e) /\ UNCHANGED <<items, linked>>
    BY <1>6, <2>3 DEF End, Finish, Step
  <2> QED
    BY <1>6, <2>2, <2>3 DEF Create
<1>7. ASSUME NEW e \in Calls, EndBatch(e) PROVE NumbersAreOwn'
  BY <1>7 DEF EndBatch, End, Finish, Step
<1>8. ASSUME NEW e \in Calls, RemoveItem(e) PROVE NumbersAreOwn'
  BY <1>8 DEF RemoveItem, NextItem
<1>21. ASSUME NEW e \in Calls, FindItem(e) PROVE NumbersAreOwn'
  BY <1>21, FirstTodo DEF FindItem
<1>9. ASSUME NEW e \in Calls, Link(e) PROVE NumbersAreOwn'
  BY <1>9 DEF Link, End, Finish, Step
<1>10. ASSUME NEW e \in Calls, Rollback(e) PROVE NumbersAreOwn'
  BY <1>10 DEF Rollback, End, Finish, Step, Replacing
<1>11. ASSUME NEW e \in Calls, AddCollaborator(e), UNCHANGED <<rows, given, work, blind>>
       PROVE NumbersAreOwn'
  BY <1>11 DEF AddCollaborator, Finish, Step
<1>12. ASSUME NEW e \in Calls, AcceptInvite(e), UNCHANGED <<rows, given, work, blind>>
       PROVE NumbersAreOwn'
  BY <1>12 DEF AcceptInvite, Finish, Step
<1>13. ASSUME NEW e \in Calls, NEW u \in Users, NEW list \in Lists, BeginReplace(e, u, list)
       PROVE  NumbersAreOwn'
  BY <1>13 DEF BeginReplace, Begin, Start, Running, Step
<1>14. ASSUME NEW e \in Calls, NEW u \in Users, NEW list \in Lists, BeginCreate(e, u, list)
       PROVE  NumbersAreOwn'
  BY <1>14 DEF BeginCreate, Begin, Start, Running, Step
<1>15. ASSUME NEW e \in Calls, NEW u \in Users, NEW t \in Titles, BeginRemove(e, u, t)
       PROVE  NumbersAreOwn'
  BY <1>15 DEF BeginRemove, Start, Running, Step
<1>16. ASSUME NEW e \in Calls, NEW u \in Users, NEW t \in Titles, BeginLink(e, u, t)
       PROVE  NumbersAreOwn'
  BY <1>16 DEF BeginLink, Begin, Start, Running, Step
<1>17. ASSUME NEW e \in Calls, NEW p \in People, BeginInvite(e, p), UNCHANGED <<rows, given, work, blind>>
       PROVE NumbersAreOwn'
  BY <1>17 DEF BeginInvite, Start, Running, Step
<1>18. ASSUME NEW e \in Calls, NEW p \in People, BeginAccept(e, p), UNCHANGED <<rows, given, work, blind>>
       PROVE NumbersAreOwn'
  BY <1>18 DEF BeginAccept, Start, Running, Step
<1>19. ASSUME NEW p \in People, RemoveCollaborator(p), UNCHANGED <<rows, given, work, blind>>
       PROVE NumbersAreOwn'
  BY <1>19 DEF RemoveCollaborator, Invited
<1>20. CASE UNCHANGED vars
  BY <1>20 DEF vars
<1> QED
  BY <1>1, <1>2, <1>3, <1>4, <1>5, <1>6, <1>7, <1>8, <1>9, <1>10, <1>11, <1>12, <1>13, <1>14, <1>15,
     <1>16, <1>17, <1>18, <1>19, <1>20, <1>21 DEF Next, Work, Sharing

(* Nobody reports a row that is still there or that another reported.        *)
LEMMA DeletedStep ==
  ASSUME EditInv, TypeOK', [Next]_vars
  PROVE  DeletedOnce'
<1> USE DEF TypeOK, CollaboratorsTypeOK, call, collaboration, rows, given, work
<1> USE DEF EditInv, NumbersAreOwn, NumbersAreGiven, StepsHold, DeletedOnce, Unseen, Editing
<1>1. ASSUME NEW e \in Calls, BeginDelete(e) PROVE DeletedOnce'
  BY <1>1 DEF BeginDelete, Step
<1>2. ASSUME NEW e \in Calls, DeleteAll(e) PROVE DeletedOnce'
  BY <1>2 DEF DeleteAll, Step
<1>3. ASSUME NEW e \in Calls, Insert(e) PROVE DeletedOnce'
  <2>1. First(todo[e]) \in todo[e]
    BY <1>3, FirstTodo DEF Insert
  <2>2. CASE Advance(e) /\ own' = [own EXCEPT ![e] = @ \cup {First(todo[e])}]
               /\ UNCHANGED <<items, deleted>>
    <3>1. \A c \in Calls : Unseen(c)' \subseteq Unseen(c)
      BY <1>3, <2>1, <2>2 DEF Insert, Advance
    <3> QED
      BY <2>2, <3>1 DEF Advance
  <2>3. CASE End(e) /\ UNCHANGED <<items, linked>>
    BY <1>3, <2>3 DEF End, Finish, Step
  <2> QED
    BY <1>3, <2>2, <2>3 DEF Insert
<1>4. ASSUME NEW e \in Calls, Commit(e) PROVE DeletedOnce'
  BY <1>4 DEF Commit, End, Finish, Step, Locked
<1>5. ASSUME NEW e \in Calls, Peek(e) PROVE DeletedOnce'
  BY <1>5 DEF Peek, Step
<1>6. ASSUME NEW e \in Calls, Create(e) PROVE DeletedOnce'
  <2>1. First(todo[e]) \in todo[e] /\ pc[e] = "creating"
    BY <1>6, FirstTodo DEF Create
  <2>2. CASE Advance(e) /\ UNCHANGED <<own, deleted>>
               /\ items' \subseteq items \cup {First(todo[e])}
    <3>1. \A c \in Calls : Unseen(c)' \subseteq Unseen(c) /\ First(todo[e]) \notin Unseen(c)'
      BY <2>1, <2>2 DEF Advance
    <3>2. \A c \in Calls : First(todo[e]) \notin deleted[c]
      BY <2>1
    <3> QED
      BY <2>2, <3>1, <3>2 DEF Advance
  <2>3. CASE End(e) /\ UNCHANGED <<items, linked>>
    BY <1>6, <2>3 DEF End, Finish, Step
  <2> QED
    BY <1>6, <2>2, <2>3 DEF Create
<1>7. ASSUME NEW e \in Calls, EndBatch(e) PROVE DeletedOnce'
  BY <1>7 DEF EndBatch, End, Finish, Step
<1>8. ASSUME NEW e \in Calls, RemoveItem(e) PROVE DeletedOnce'
  <2>1. CASE /\ seen[e] \subseteq items /\ items' = items \ seen[e]
             /\ deleted' = [deleted EXCEPT ![e] = @ \cup seen[e]]
    <3>1. /\ deleted'[e] = deleted[e] \cup seen[e]
          /\ \A c \in Calls \ {e} : deleted'[c] = deleted[c]
      BY <2>1
    <3>2. \A c \in Calls : seen[e] \cap deleted[c] = {}
      BY <2>1
    <3> QED
      BY <2>1, <3>1, <3>2
  <2>2. CASE UNCHANGED <<items, deleted>>
    BY <2>2
  <2> QED
    BY <1>8, <2>1, <2>2 DEF RemoveItem
<1>21. ASSUME NEW e \in Calls, FindItem(e) PROVE DeletedOnce'
  BY <1>21, FirstTodo DEF FindItem
<1>9. ASSUME NEW e \in Calls, Link(e) PROVE DeletedOnce'
  BY <1>9 DEF Link, End, Finish, Step
<1>10. ASSUME NEW e \in Calls, Rollback(e) PROVE DeletedOnce'
  BY <1>10 DEF Rollback, End, Finish, Step, Replacing
<1>11. ASSUME NEW e \in Calls, AddCollaborator(e), UNCHANGED <<rows, given, work, blind>>
       PROVE DeletedOnce'
  BY <1>11 DEF AddCollaborator, Finish, Step
<1>12. ASSUME NEW e \in Calls, AcceptInvite(e), UNCHANGED <<rows, given, work, blind>>
       PROVE DeletedOnce'
  BY <1>12 DEF AcceptInvite, Finish, Step
<1>13. ASSUME NEW e \in Calls, NEW u \in Users, NEW list \in Lists, BeginReplace(e, u, list)
       PROVE  DeletedOnce'
  BY <1>13 DEF BeginReplace, Begin, Start, Running, Step
<1>14. ASSUME NEW e \in Calls, NEW u \in Users, NEW list \in Lists, BeginCreate(e, u, list)
       PROVE  DeletedOnce'
  BY <1>14 DEF BeginCreate, Begin, Start, Running, Step
<1>15. ASSUME NEW e \in Calls, NEW u \in Users, NEW t \in Titles, BeginRemove(e, u, t)
       PROVE  DeletedOnce'
  BY <1>15 DEF BeginRemove, Start, Running, Step
<1>16. ASSUME NEW e \in Calls, NEW u \in Users, NEW t \in Titles, BeginLink(e, u, t)
       PROVE  DeletedOnce'
  BY <1>16 DEF BeginLink, Begin, Start, Running, Step
<1>17. ASSUME NEW e \in Calls, NEW p \in People, BeginInvite(e, p), UNCHANGED <<rows, given, work, blind>>
       PROVE DeletedOnce'
  BY <1>17 DEF BeginInvite, Start, Running, Step
<1>18. ASSUME NEW e \in Calls, NEW p \in People, BeginAccept(e, p), UNCHANGED <<rows, given, work, blind>>
       PROVE DeletedOnce'
  BY <1>18 DEF BeginAccept, Start, Running, Step
<1>19. ASSUME NEW p \in People, RemoveCollaborator(p), UNCHANGED <<rows, given, work, blind>>
       PROVE DeletedOnce'
  BY <1>19 DEF RemoveCollaborator, Invited
<1>20. CASE UNCHANGED vars
  BY <1>20 DEF vars
<1> QED
  BY <1>1, <1>2, <1>3, <1>4, <1>5, <1>6, <1>7, <1>8, <1>9, <1>10, <1>11, <1>12, <1>13, <1>14, <1>15,
     <1>16, <1>17, <1>18, <1>19, <1>20, <1>21 DEF Next, Work, Sharing

(* The itinerary before any call.                                            *)
LEMMA InitEdit == Init => EditInv
<1> SUFFICES ASSUME Init PROVE EditInv
  OBVIOUS
<1> USE ItineraryAssumption, CollaboratorsAssumption DEF Init, CollaboratorsInit
<1>1. CollaboratorsTypeOK /\ pc \in [Calls -> Steps]
  BY DEF CollaboratorsTypeOK, Steps, Users, Invited, NoInvite
<1>2. items \subseteq 1 .. made /\ linked \subseteq items /\ made \in 0 .. MaxItems
  OBVIOUS
<1>3. title \in [Items -> Titles] /\ blind \in BOOLEAN
  BY DEF Items
<1>4. TypeOK
  BY <1>1, <1>2, <1>3 DEF TypeOK
<1>5. NumbersAreGiven /\ NumbersAreOwn /\ StepsHold
  BY DEF NumbersAreGiven, NumbersAreOwn, StepsHold, Unseen, Editing
<1>6. GuestsAreInvited /\ DeletedOnce
  BY DEF GuestsAreInvited, DeletedOnce
<1> QED
  BY <1>4, <1>5, <1>6 DEF EditInv

(* The parts of EditInv support one another, and every step keeps them.      *)
LEMMA EditStep == EditInv /\ [Next]_vars => EditInv'
  BY TypesStep, GuestsStep, GivenStep, HoldStep, OwnStep, DeletedStep DEF EditInv

(* EditInv holds always.                                                     *)
LEMMA EditAlways == Spec => []EditInv
  BY InitEdit, EditStep, PTL DEF Spec

(* The types of the itinerary, its calls and its collaborators.              *)
THEOREM ItineraryIsTyped == Spec => []TypeOK
  BY EditAlways, PTL DEF EditInv

(* What delete_itinerary_items reports is gone, and reported once: no call   *)
(* inserts an item again, and a row is deleted by one call                   *)
(* (trip/service.go:686).                                                    *)
THEOREM DeletedOnceHolds == Spec => []DeletedOnce
  BY EditAlways, PTL DEF EditInv

(* Each statement that writes asks for its user's right in its own snapshot  *)
(* (trip/service.go:617), whatever the owner does to the collaborators       *)
(* between two of them.                                                      *)
THEOREM RemovedEditorIsOutHolds == Spec => RemovedEditorIsOut
<1> DEFINE Ok ==
      /\ \A c \in Calls : own'[c] \subseteq own[c] \/ CanEdit(user[c])
      /\ \A i \in items' \ items :
           \E c \in Calls : i \in own[c] \/ (i \in todo[c] /\ CanEdit(user[c]))
      /\ \A c \in Calls : seen'[c] \subseteq seen[c] \/ CanEdit(user[c])
      /\ \A i \in items \ items' : \E c \in Calls : i \in seen[c]
<1>1. ASSUME EditInv, Next PROVE Ok
  <2> USE <1>1 DEF EditInv, TypeOK, call, collaboration, rows, given, work
<2>1. ASSUME NEW e \in Calls, BeginDelete(e) PROVE Ok
  BY <2>1 DEF BeginDelete, Step
<2>2. ASSUME NEW e \in Calls, DeleteAll(e) PROVE Ok
  BY <2>2 DEF DeleteAll, Step
<2>3. ASSUME NEW e \in Calls, Insert(e) PROVE Ok
    <3>1. CASE CanEdit(user[e]) /\ Advance(e)
                 /\ own' = [own EXCEPT ![e] = @ \cup {First(todo[e])}] /\ UNCHANGED rows
      BY <3>1 DEF Advance
    <3>2. CASE End(e) /\ UNCHANGED rows
      BY <3>2 DEF End
    <3> QED
      BY <2>3, <3>1, <3>2 DEF Insert
<2>4. ASSUME NEW e \in Calls, Commit(e) PROVE Ok
  BY <2>4 DEF Commit, End, Finish, Step, Locked
<2>5. ASSUME NEW e \in Calls, Peek(e) PROVE Ok
  BY <2>5 DEF Peek, Step
<2>6. ASSUME NEW e \in Calls, Create(e) PROVE Ok
    <3>1. First(todo[e]) \in todo[e]
      BY <2>6, FirstTodo DEF Create
    <3> QED
      BY <2>6, <3>1 DEF Create, Advance, End
<2>7. ASSUME NEW e \in Calls, EndBatch(e) PROVE Ok
  BY <2>7 DEF EndBatch, End, Finish, Step
<2>8. ASSUME NEW e \in Calls, RemoveItem(e) PROVE Ok
  BY <2>8 DEF RemoveItem, NextItem
<2>21. ASSUME NEW e \in Calls, FindItem(e) PROVE Ok
  BY <2>21 DEF FindItem
<2>9. ASSUME NEW e \in Calls, Link(e) PROVE Ok
  BY <2>9 DEF Link, End, Finish, Step
<2>10. ASSUME NEW e \in Calls, Rollback(e) PROVE Ok
  BY <2>10 DEF Rollback, End, Finish, Step, Replacing
<2>11. ASSUME NEW e \in Calls, AddCollaborator(e), UNCHANGED <<rows, given, work, blind>>
       PROVE Ok
  BY <2>11 DEF AddCollaborator, Finish, Step
<2>12. ASSUME NEW e \in Calls, AcceptInvite(e), UNCHANGED <<rows, given, work, blind>>
       PROVE Ok
  BY <2>12 DEF AcceptInvite, Finish, Step
<2>13. ASSUME NEW e \in Calls, NEW u \in Users, NEW list \in Lists, BeginReplace(e, u, list)
       PROVE  Ok
  BY <2>13 DEF BeginReplace, Begin, Start, Running, Step
<2>14. ASSUME NEW e \in Calls, NEW u \in Users, NEW list \in Lists, BeginCreate(e, u, list) PROVE Ok
  BY <2>14 DEF BeginCreate, Begin, Start, Running, Step
<2>15. ASSUME NEW e \in Calls, NEW u \in Users, NEW t \in Titles, BeginRemove(e, u, t) PROVE Ok
  BY <2>15 DEF BeginRemove, Start, Running, Step
<2>16. ASSUME NEW e \in Calls, NEW u \in Users, NEW t \in Titles, BeginLink(e, u, t) PROVE Ok
  BY <2>16 DEF BeginLink, Begin, Start, Running, Step
<2>17. ASSUME NEW e \in Calls, NEW p \in People, BeginInvite(e, p), UNCHANGED <<rows, given, work, blind>>
       PROVE Ok
  BY <2>17 DEF BeginInvite, Start, Running, Step
<2>18. ASSUME NEW e \in Calls, NEW p \in People, BeginAccept(e, p), UNCHANGED <<rows, given, work, blind>>
       PROVE Ok
  BY <2>18 DEF BeginAccept, Start, Running, Step
<2>19. ASSUME NEW p \in People, RemoveCollaborator(p), UNCHANGED <<rows, given, work, blind>>
       PROVE Ok
  BY <2>19 DEF RemoveCollaborator, Invited
<2> QED
  BY <2>1, <2>2, <2>3, <2>4, <2>5, <2>6, <2>7, <2>8, <2>9, <2>10, <2>11, <2>12, <2>13, <2>14, <2>15,
     <2>16, <2>17, <2>18, <2>19, <2>21 DEF Next, Work, Sharing
<1>2. EditInv /\ [Next]_vars => [Ok]_vars
  BY <1>1
<1> QED
  BY <1>2, EditAlways, PTL DEF Spec, RemovedEditorIsOut

(* A replacement is one change for everybody else: what it has inserted no   *)
(* row is (NumbersAreOwn), and its commit takes exactly what it had seen     *)
(* (trip/service.go:846).                                                    *)
THEOREM AllOrNothingHolds == Spec => AllOrNothing
<1> DEFINE Ok == \A c \in Calls : Replacing(c) =>
       IF pc'[c] = "idle"
       THEN items' = items \/ (todo[c] = {} /\ own[c] \subseteq items' /\ seen[c] \cap items' = {})
       ELSE own'[c] \cap items' = {}
<1>1. ASSUME EditInv, Next PROVE Ok
  <2> USE <1>1 DEF EditInv, TypeOK, call, collaboration, rows, given, work
<2>1. ASSUME NEW e \in Calls, BeginDelete(e) PROVE Ok
  BY <2>1 DEF BeginDelete, Step, Replacing, NumbersAreOwn, Unseen
<2>2. ASSUME NEW e \in Calls, DeleteAll(e) PROVE Ok
  BY <2>2 DEF DeleteAll, Step, Replacing, NumbersAreOwn, Unseen
<2>3. ASSUME NEW e \in Calls, Insert(e) PROVE Ok
    <3>1. First(todo[e]) \in todo[e]
      BY <2>3, FirstTodo DEF Insert
    <3>2. CASE CanEdit(user[e]) /\ Advance(e)
                 /\ own' = [own EXCEPT ![e] = @ \cup {First(todo[e])}] /\ UNCHANGED rows
      BY <2>3, <3>1, <3>2 DEF Insert, Advance, NumbersAreOwn, Unseen, Replacing
    <3>3. CASE End(e) /\ UNCHANGED rows
      BY <2>3, <3>3 DEF End, Finish, Step, NumbersAreOwn, Unseen, Replacing
    <3> QED
      BY <2>3, <3>2, <3>3 DEF Insert
<2>4. ASSUME NEW e \in Calls, Commit(e) PROVE Ok
    <3>1. pc'[e] = "idle" /\ \A c \in Calls \ {e} : pc'[c] = pc[c] /\ own'[c] = own[c]
      BY <2>4 DEF Commit, End, Finish, Step, Locked, Replacing, NumbersAreOwn, Unseen
    <3>2. items' = (items \ (seen[e] \cap items)) \cup own[e] /\ todo[e] = {}
      BY <2>4 DEF Commit, Locked
    <3>3. own[e] \cap seen[e] = {} /\ \A c \in Calls \ {e} : Replacing(c) => own[c] \cap (items \cup own[e]) = {}
      BY <2>4 DEF Commit, NumbersAreOwn, Unseen, Replacing
    <3>4. own[e] \subseteq items' /\ seen[e] \cap items' = {}
      BY <3>2, <3>3
    <3>5. ASSUME NEW c \in Calls \ {e}, Replacing(c)
          PROVE  pc'[c] # "idle" /\ own'[c] \cap items' = {}
      <4>1. own[c] \cap items' = {}
        BY <3>2, <3>3, <3>5
      <4> QED
        BY <3>1, <3>5, <4>1 DEF Replacing
    <3> QED
      BY <3>1, <3>2, <3>4, <3>5
<2>5. ASSUME NEW e \in Calls, Peek(e) PROVE Ok
  BY <2>5 DEF Peek, Step, Replacing, NumbersAreOwn, Unseen
<2>6. ASSUME NEW e \in Calls, Create(e) PROVE Ok
    <3>1. First(todo[e]) \in todo[e] /\ pc[e] = "creating"
      BY <2>6, FirstTodo DEF Create
    <3>2. \A c \in Calls : Replacing(c) => First(todo[e]) \notin own[c]
      BY <3>1 DEF NumbersAreOwn, Unseen, Replacing
    <3>3. CASE Advance(e) /\ own' = own /\ items' \subseteq items \cup {First(todo[e])}
      <4>1. \A c \in Calls : Replacing(c) => pc'[c] # "idle" /\ own'[c] \cap items = {}
        BY <3>3 DEF Advance, NumbersAreOwn, Unseen, Replacing
      <4>2. ASSUME NEW c \in Calls, Replacing(c) PROVE own'[c] \cap items' = {}
        <5>1. own'[c] = own[c] /\ own[c] \cap items = {} /\ First(todo[e]) \notin own[c]
          BY <3>2, <3>3, <4>1, <4>2
        <5> QED
          BY <3>3, <5>1
      <4> QED
        BY <4>1, <4>2
    <3>4. CASE End(e) /\ UNCHANGED rows
      BY <2>6, <3>4 DEF End, Finish, Step, NumbersAreOwn, Unseen, Replacing
    <3> QED
      BY <2>6, <3>3, <3>4 DEF Create
<2>7. ASSUME NEW e \in Calls, EndBatch(e) PROVE Ok
  BY <2>7 DEF EndBatch, End, Finish, Step, Replacing, NumbersAreOwn, Unseen
<2>8. ASSUME NEW e \in Calls, RemoveItem(e) PROVE Ok
  BY <2>8 DEF RemoveItem, NextItem, Replacing, NumbersAreOwn, Unseen
<2>21. ASSUME NEW e \in Calls, FindItem(e) PROVE Ok
  BY <2>21 DEF FindItem, Replacing, NumbersAreOwn, Unseen
<2>9. ASSUME NEW e \in Calls, Link(e) PROVE Ok
  BY <2>9 DEF Link, End, Finish, Step, Replacing, NumbersAreOwn, Unseen
<2>10. ASSUME NEW e \in Calls, Rollback(e) PROVE Ok
  BY <2>10 DEF Rollback, End, Finish, Step, Replacing, Replacing, NumbersAreOwn, Unseen
<2>11. ASSUME NEW e \in Calls, AddCollaborator(e), UNCHANGED <<rows, given, work, blind>>
       PROVE Ok
  BY <2>11 DEF AddCollaborator, Finish, Step, Replacing, NumbersAreOwn, Unseen
<2>12. ASSUME NEW e \in Calls, AcceptInvite(e), UNCHANGED <<rows, given, work, blind>>
       PROVE Ok
  BY <2>12 DEF AcceptInvite, Finish, Step, Replacing, NumbersAreOwn, Unseen
<2>13. ASSUME NEW e \in Calls, NEW u \in Users, NEW list \in Lists, BeginReplace(e, u, list)
       PROVE  Ok
  BY <2>13 DEF BeginReplace, Begin, Start, Running, Step, Replacing, NumbersAreOwn, Unseen
<2>14. ASSUME NEW e \in Calls, NEW u \in Users, NEW list \in Lists, BeginCreate(e, u, list) PROVE Ok
  BY <2>14 DEF BeginCreate, Begin, Start, Running, Step, Replacing, NumbersAreOwn, Unseen
<2>15. ASSUME NEW e \in Calls, NEW u \in Users, NEW t \in Titles, BeginRemove(e, u, t) PROVE Ok
  BY <2>15 DEF BeginRemove, Start, Running, Step, Replacing, NumbersAreOwn, Unseen
<2>16. ASSUME NEW e \in Calls, NEW u \in Users, NEW t \in Titles, BeginLink(e, u, t) PROVE Ok
  BY <2>16 DEF BeginLink, Begin, Start, Running, Step, Replacing, NumbersAreOwn, Unseen
<2>17. ASSUME NEW e \in Calls, NEW p \in People, BeginInvite(e, p), UNCHANGED <<rows, given, work, blind>>
       PROVE Ok
  BY <2>17 DEF BeginInvite, Start, Running, Step, Replacing, NumbersAreOwn, Unseen
<2>18. ASSUME NEW e \in Calls, NEW p \in People, BeginAccept(e, p), UNCHANGED <<rows, given, work, blind>>
       PROVE Ok
  BY <2>18 DEF BeginAccept, Start, Running, Step, Replacing, NumbersAreOwn, Unseen
<2>19. ASSUME NEW p \in People, RemoveCollaborator(p), UNCHANGED <<rows, given, work, blind>>
       PROVE Ok
  BY <2>19 DEF RemoveCollaborator, Invited, Replacing, NumbersAreOwn, Unseen
<2> QED
  BY <2>1, <2>2, <2>3, <2>4, <2>5, <2>6, <2>7, <2>8, <2>9, <2>10, <2>11, <2>12, <2>13, <2>14, <2>15,
     <2>16, <2>17, <2>18, <2>19, <2>21 DEF Next, Work, Sharing
<1>2. EditInv /\ [Next]_vars => [Ok]_vars
  BY <1>1
<1> QED
  BY <1>2, EditAlways, PTL DEF Spec, AllOrNothing

(* While no lookup has failed, an import that has begun to link has found    *)
(* the booking without an item: there are at most as many items as calls,    *)
(* those that are still linking counted.                                     *)
Linking == {c \in Calls : pc[c] = "linking"}

LinksBounded == blind \/ Cardinality(linked) + Cardinality(Linking) <= Cardinality(Calls)

(* Linked items and imports about to link are finitely many.                 *)
LEMMA LinkedFinite ==
  ASSUME TypeOK
  PROVE  IsFiniteSet(linked) /\ IsFiniteSet(Linking)
<1>1. made \in Nat /\ linked \subseteq 1 .. made
  BY ItineraryAssumption DEF TypeOK
<1>2. Linking \subseteq Calls
  BY DEF Linking
<1>3. IsFiniteSet(1 .. made)
  BY <1>1, FS_Interval
<1>4. IsFiniteSet(linked)
  BY <1>1, <1>3, FS_Subset
<1>5. IsFiniteSet(Linking)
  BY <1>2, CollaboratorsAssumption, FS_Subset
<1> QED
  BY <1>4, <1>5

(* Steps that link nothing keep the count.                                   *)
LEMMA Fewer ==
  ASSUME TypeOK, LinksBounded, linked' \subseteq linked, Linking' \subseteq Linking, blind' = blind
  PROVE  LinksBounded'
<1>1. /\ Cardinality(linked') <= Cardinality(linked) /\ Cardinality(Linking') <= Cardinality(Linking)
      /\ IsFiniteSet(linked') /\ IsFiniteSet(Linking')
  BY LinkedFinite, FS_Subset
<1> QED
  BY <1>1, LinkedFinite, CollaboratorsAssumption, FS_CardinalityType DEF LinksBounded

(* An import links where it saw none; each that did not see is counted.      *)
LEMMA LinksStep ==
  ASSUME EditInv, LinksBounded, [Next]_vars
  PROVE  LinksBounded'
<1> USE DEF EditInv, TypeOK, CollaboratorsTypeOK, call, collaboration, rows, given, work
<1>0. Cardinality(Calls) \in Nat
  BY CollaboratorsAssumption, FS_CardinalityType
<1>1. ASSUME NEW e \in Calls, BeginDelete(e) PROVE LinksBounded'
  <2>1. linked' \subseteq linked /\ Linking' \subseteq Linking /\ blind' = blind
    BY <1>1 DEF BeginDelete, Step, Linking
  <2> QED
    BY <2>1, Fewer
<1>2. ASSUME NEW e \in Calls, DeleteAll(e) PROVE LinksBounded'
  <2>1. linked' \subseteq linked /\ Linking' \subseteq Linking /\ blind' = blind
    BY <1>2 DEF DeleteAll, Step, Linking
  <2> QED
    BY <2>1, Fewer
<1>3. ASSUME NEW e \in Calls, Insert(e) PROVE LinksBounded'
  <2>1. UNCHANGED <<linked, blind>> /\ Linking' \subseteq Linking
    <3>1. CASE Advance(e) /\ UNCHANGED rows
      BY <3>1 DEF Advance, Linking
    <3>2. CASE End(e) /\ UNCHANGED <<rows, blind>>
      BY <3>2 DEF End, Finish, Step, Linking
    <3> QED
      BY <1>3, <3>1, <3>2 DEF Insert
  <2> QED
    BY <2>1, Fewer
<1>4. ASSUME NEW e \in Calls, Commit(e) PROVE LinksBounded'
  <2>1. linked' \subseteq linked /\ Linking' \subseteq Linking /\ blind' = blind
    BY <1>4 DEF Commit, End, Finish, Step, Locked, Linking
  <2> QED
    BY <2>1, Fewer
<1>5. ASSUME NEW e \in Calls, Peek(e) PROVE LinksBounded'
  <2>1. linked' \subseteq linked /\ Linking' \subseteq Linking /\ blind' = blind
    BY <1>5 DEF Peek, Step, Linking
  <2> QED
    BY <2>1, Fewer
<1>6. ASSUME NEW e \in Calls, Create(e) PROVE LinksBounded'
  <2>1. linked' \subseteq linked /\ Linking' \subseteq Linking /\ blind' = blind
    BY <1>6 DEF Create, Advance, End, Finish, Step, Linking
  <2> QED
    BY <2>1, Fewer
<1>7. ASSUME NEW e \in Calls, EndBatch(e) PROVE LinksBounded'
  <2>1. linked' \subseteq linked /\ Linking' \subseteq Linking /\ blind' = blind
    BY <1>7 DEF EndBatch, End, Finish, Step, Linking
  <2> QED
    BY <2>1, Fewer
<1>8. ASSUME NEW e \in Calls, RemoveItem(e) PROVE LinksBounded'
  <2>1. linked' \subseteq linked /\ Linking' \subseteq Linking /\ blind' = blind
    BY <1>8 DEF RemoveItem, NextItem, Linking
  <2> QED
    BY <2>1, Fewer
<1>21. ASSUME NEW e \in Calls, FindItem(e) PROVE LinksBounded'
  <2>1. linked' \subseteq linked /\ Linking' \subseteq Linking /\ blind' = blind
    BY <1>21 DEF FindItem, Linking
  <2> QED
    BY <2>1, Fewer
<1>9. ASSUME NEW e \in Calls, Link(e) PROVE LinksBounded'
  <2>1. PICK i : todo[e] = {i}
    BY <1>9 DEF Link, EditInv, StepsHold
  <2>2. linked' \subseteq linked \cup {i} /\ blind' = blind
    BY <1>9, <2>1 DEF Link, rows
  <2>3. Linking' = Linking \ {e} /\ e \in Linking
    BY <1>9 DEF Link, End, Finish, Step, Linking
  <2>4. IsFiniteSet(linked) /\ Cardinality(linked) \in Nat
    BY LinkedFinite, FS_CardinalityType
  <2>5. Cardinality(linked') <= Cardinality(linked) + 1 /\ Cardinality(linked') \in Nat
    <3>1. IsFiniteSet(linked \cup {i}) /\ Cardinality(linked \cup {i}) <= Cardinality(linked) + 1
      <4>1. /\ IsFiniteSet(linked \cup {i})
            /\ Cardinality(linked \cup {i}) = IF i \in linked THEN Cardinality(linked) ELSE Cardinality(linked) + 1
        BY <2>4, FS_AddElement
      <4> QED
        BY <2>4, <4>1
    <3>2. IsFiniteSet(linked') /\ Cardinality(linked') <= Cardinality(linked \cup {i})
      BY <2>2, <3>1, FS_Subset
    <3>3. Cardinality(linked') \in Nat /\ Cardinality(linked \cup {i}) \in Nat
      BY <3>1, <3>2, FS_CardinalityType
    <3> QED
      BY <2>4, <3>1, <3>2, <3>3
  <2>6. Cardinality(Linking') = Cardinality(Linking) - 1 /\ Cardinality(Linking) \in Nat
    BY <2>3, LinkedFinite, FS_RemoveElement, FS_CardinalityType
  <2> QED
    BY <1>0, <2>2, <2>4, <2>5, <2>6 DEF LinksBounded
<1>10. ASSUME NEW e \in Calls, Rollback(e) PROVE LinksBounded'
  <2>1. linked' \subseteq linked /\ Linking' \subseteq Linking /\ blind' = blind
    BY <1>10 DEF Rollback, End, Finish, Step, Replacing, Linking
  <2> QED
    BY <2>1, Fewer
<1>11. ASSUME NEW e \in Calls, AddCollaborator(e), UNCHANGED <<rows, given, work, blind>>
       PROVE LinksBounded'
  <2>1. linked' \subseteq linked /\ Linking' \subseteq Linking /\ blind' = blind
    BY <1>11 DEF AddCollaborator, Finish, Step, Linking
  <2> QED
    BY <2>1, Fewer
<1>12. ASSUME NEW e \in Calls, AcceptInvite(e), UNCHANGED <<rows, given, work, blind>>
       PROVE LinksBounded'
  <2>1. linked' \subseteq linked /\ Linking' \subseteq Linking /\ blind' = blind
    BY <1>12 DEF AcceptInvite, Finish, Step, Linking
  <2> QED
    BY <2>1, Fewer
<1>13. ASSUME NEW e \in Calls, NEW u \in Users, NEW list \in Lists, BeginReplace(e, u, list)
       PROVE  LinksBounded'
  <2>1. linked' \subseteq linked /\ Linking' \subseteq Linking /\ blind' = blind
    BY <1>13 DEF BeginReplace, Begin, Start, Running, Step, Linking
  <2> QED
    BY <2>1, Fewer
<1>14. ASSUME NEW e \in Calls, NEW u \in Users, NEW list \in Lists, BeginCreate(e, u, list)
       PROVE  LinksBounded'
  <2>1. linked' \subseteq linked /\ Linking' \subseteq Linking /\ blind' = blind
    BY <1>14 DEF BeginCreate, Begin, Start, Running, Step, Linking
  <2> QED
    BY <2>1, Fewer
<1>15. ASSUME NEW e \in Calls, NEW u \in Users, NEW t \in Titles, BeginRemove(e, u, t)
       PROVE  LinksBounded'
  <2>1. linked' \subseteq linked /\ Linking' \subseteq Linking /\ blind' = blind
    BY <1>15 DEF BeginRemove, Start, Running, Step, Linking
  <2> QED
    BY <2>1, Fewer
<1>16. ASSUME NEW e \in Calls, NEW u \in Users, NEW t \in Titles, BeginLink(e, u, t)
       PROVE  LinksBounded'
  <2>1. CASE linked = {} /\ UNCHANGED blind
    <3>1. linked' = {} /\ Linking' \subseteq Calls
      BY <1>16, <2>1 DEF BeginLink, Begin, Start, Running, Step, rows, Linking
    <3>2. Cardinality(Linking') <= Cardinality(Calls) /\ Cardinality(Linking') \in Nat /\ Cardinality(linked') = 0
      BY <3>1, CollaboratorsAssumption, FS_Subset, FS_CardinalityType, FS_EmptySet
    <3> QED
      BY <3>2 DEF LinksBounded
  <2>2. CASE blind'
    BY <2>2 DEF LinksBounded
  <2> QED
    BY <1>16, <2>1, <2>2 DEF BeginLink
<1>17. ASSUME NEW e \in Calls, NEW p \in People, BeginInvite(e, p), UNCHANGED <<rows, given, work, blind>>
       PROVE LinksBounded'
  <2>1. linked' \subseteq linked /\ Linking' \subseteq Linking /\ blind' = blind
    BY <1>17 DEF BeginInvite, Start, Running, Step, Linking
  <2> QED
    BY <2>1, Fewer
<1>18. ASSUME NEW e \in Calls, NEW p \in People, BeginAccept(e, p), UNCHANGED <<rows, given, work, blind>>
       PROVE LinksBounded'
  <2>1. linked' \subseteq linked /\ Linking' \subseteq Linking /\ blind' = blind
    BY <1>18 DEF BeginAccept, Start, Running, Step, Linking
  <2> QED
    BY <2>1, Fewer
<1>19. ASSUME NEW p \in People, RemoveCollaborator(p), UNCHANGED <<rows, given, work, blind>>
       PROVE LinksBounded'
  <2>1. linked' \subseteq linked /\ Linking' \subseteq Linking /\ blind' = blind
    BY <1>19 DEF RemoveCollaborator, Invited, Linking
  <2> QED
    BY <2>1, Fewer
<1>20. CASE UNCHANGED vars
  BY <1>20, Fewer DEF vars, Linking
<1> QED
  BY <1>1, <1>2, <1>3, <1>4, <1>5, <1>6, <1>7, <1>8, <1>9, <1>10, <1>11, <1>12, <1>13, <1>14, <1>15,
     <1>16, <1>17, <1>18, <1>19, <1>20, <1>21 DEF Next, Work, Sharing

(* A booking that a confirmation and an import link at the same time has an  *)
(* item of each, and no more (handlers/booking.go:739).                      *)
THEOREM OneItemPerBookingHolds == Spec => []OneItemPerBooking
<1>1. Init => LinksBounded
  <2> SUFFICES ASSUME Init PROVE LinksBounded
    OBVIOUS
  <2>1. linked = {} /\ Linking = {}
    BY DEF Init, CollaboratorsInit, Linking
  <2> QED
    BY <2>1, CollaboratorsAssumption, FS_EmptySet, FS_CardinalityType DEF LinksBounded
<1>2. EditInv /\ LinksBounded /\ [Next]_vars => LinksBounded'
  BY LinksStep
<1>3. EditInv /\ LinksBounded => OneItemPerBooking
  BY LinkedFinite, CollaboratorsAssumption, FS_CardinalityType DEF LinksBounded, OneItemPerBooking,
     EditInv
<1> QED
  BY <1>1, <1>2, <1>3, EditAlways, PTL DEF Spec
=============================================================================
