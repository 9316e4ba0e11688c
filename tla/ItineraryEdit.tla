---------------------------- MODULE ItineraryEdit ----------------------------
(* The itinerary of one trip and those who write it at the same time: the    *)
(* full rewrite of the UpdateItinerary RPC (one READ COMMITTED transaction), *)
(* the chat tools that create and delete items, and the item an import adds  *)
(* for its booking.  Every statement asks again, in its own snapshot,        *)
(* whether its user may edit the trip (Collaborators): a chat turn outlasts  *)
(* a removal.                                                                *)
(* An item is a number its call gave it when it began; a title stands for    *)
(* all titles that isDuplicateItem and matchItemsByTitle take for the same,  *)
(* on one day.  Positions and the other columns are left out.                *)
EXTENDS Collaborators, Sequences

CONSTANTS Lists, Titles, MaxItems

ASSUME ItineraryAssumption == MaxItems \in Nat \ {0} /\ Lists \subseteq Seq(Titles)

Items == 1 .. MaxItems

VARIABLES
  items,    \* committed rows of itinerary_items
  linked,   \* the items with the booking's id
  made,     \* numbers given so far (a bound: at most MaxItems)
  title,    \* of the numbers given
  todo,     \* ids a call has still to insert or to delete
  seen,     \* the rows that a DELETE has in its snapshot and may take
  known,    \* titles found by the peek of create_itinerary_items
  own,      \* ids a replacement has inserted
  deleted,  \* ids a call has to report as deleted
  blind     \* history: a lookup has failed where it would have found a link

rows  == <<items, linked>>
given == <<made, title>>
work  == <<todo, seen, known, own, deleted>>
vars  == <<call, collaboration, rows, given, work, blind>>

Replacing(c) == pc[c] \in {"checked", "deleting", "inserting"}
Editing(c) == pc[c] \notin {"idle", "inviting", "accepting"}
Steps == {"idle", "inviting", "accepting", "checked", "deleting", "inserting", "peeking", "creating",
          "removing", "linking"}

TypeOK ==
  /\ CollaboratorsTypeOK
  /\ pc \in [Calls -> Steps]
  /\ items \subseteq 1 .. made /\ linked \subseteq items /\ made \in 0 .. MaxItems
  /\ title \in [Items -> Titles] /\ blind \in BOOLEAN
  /\ todo \in [Calls -> SUBSET (1 .. made)] /\ seen \in [Calls -> SUBSET Items]
  /\ known \in [Calls -> SUBSET Titles] /\ own \in [Calls -> SUBSET Items]
  /\ deleted \in [Calls -> SUBSET Items]

(* An empty itinerary, or one with an item.                                  *)
Init ==
  /\ CollaboratorsInit
  /\ \E t \in Titles : title = [i \in Items |-> t]
  /\ \E n \in {0, 1} : items = 1 .. n /\ made = n
  /\ linked = {} /\ blind = FALSE
  /\ todo = [c \in Calls |-> {}] /\ seen = [c \in Calls |-> {}]
  /\ known = [c \in Calls |-> {}] /\ own = [c \in Calls |-> {}]
  /\ deleted = [c \in Calls |-> {}]

First(S) == CHOOSE i \in S : \A j \in S : i <= j

(* The rows an open transaction has deleted; who deletes them too waits.     *)
Locked(c)  == IF pc[c] = "inserting" THEN seen[c] \cap items ELSE {}
Free(c, S) == \A d \in Calls \ {c} : Locked(d) \cap S = {}

(* A call of u with the titles of list.                                      *)
Begin(c, s, u, list) ==
  /\ Start(c, s, u, NoInvite)
  /\ made + Len(list) <= MaxItems
  /\ made' = made + Len(list)
  /\ title' = [i \in Items |-> IF i \in made + 1 .. made' THEN list[i - made] ELSE title[i]]
  /\ todo' = [todo EXCEPT ![c] = made + 1 .. made']
  /\ UNCHANGED <<collaboration, rows, seen, known, own, deleted>>

End(c) ==
  /\ Finish(c)
  /\ todo' = [todo EXCEPT ![c] = {}] /\ seen' = [seen EXCEPT ![c] = {}]
  /\ known' = [known EXCEPT ![c] = {}] /\ own' = [own EXCEPT ![c] = {}]
  /\ deleted' = [deleted EXCEPT ![c] = {}]
  /\ UNCHANGED <<collaboration, given>>

(* The item that is next in todo is dealt with, and the call goes on.        *)
Advance(c) ==
  /\ todo' = [todo EXCEPT ![c] = @ \ {First(@)}]
  /\ UNCHANGED <<call, collaboration, given, seen, known, blind>>

(*************************  UpdateItinerary: replace  *************************)
(* CanEditTrip, in the handler and again in the service.                     *)
BeginReplace(c, u, list) ==
  /\ CanEdit(u)
  /\ Begin(c, "checked", u, list)
  /\ UNCHANGED blind

(* The DELETE begins: the rows it will take, none if the user was removed.   *)
BeginDelete(c) ==
  /\ pc[c] = "checked"
  /\ Step(c, "deleting")
  /\ seen' = [seen EXCEPT ![c] = IF CanEdit(user[c]) THEN items ELSE {}]
  /\ UNCHANGED <<user, held, collaboration, rows, given, todo, known, own, deleted, blind>>

(* It waits for the rows another transaction deletes and takes those still   *)
(* there; what was inserted since it began it does not see.                  *)
DeleteAll(c) ==
  /\ pc[c] = "deleting" /\ Free(c, seen[c])
  /\ Step(c, "inserting")
  /\ UNCHANGED <<user, held, collaboration, rows, given, work, blind>>

MutInsertUngated(c) ==
  /\ pc[c] = "inserting" /\ todo[c] # {}
  /\ own' = [own EXCEPT ![c] = @ \cup {First(todo[c])}]
  /\ Advance(c) /\ UNCHANGED <<rows, deleted>>

MutInsertCommitted(c) ==
  /\ pc[c] = "inserting" /\ todo[c] # {}
  /\ \/ /\ CanEdit(user[c])
        /\ own' = [own EXCEPT ![c] = @ \cup {First(todo[c])}]
        /\ items' = items \cup own'[c]
        /\ Advance(c) /\ UNCHANGED <<linked, deleted>>
     \/ /\ ~CanEdit(user[c]) /\ End(c) /\ UNCHANGED <<rows, blind>>

MutInsertOpen(c) ==
  /\ pc[c] = "inserting" /\ todo[c] # {} /\ CanEdit(user[c])
  /\ own' = [own EXCEPT ![c] = @ \cup {First(todo[c])}]
  /\ Advance(c) /\ UNCHANGED <<rows, deleted>>

(* An insert of the transaction; the first that the user may not make rolls  *)
(* it back.                                                                  *)
Insert(c) ==
  /\ pc[c] = "inserting" /\ todo[c] # {}
  /\ \/ /\ CanEdit(user[c])
        /\ own' = [own EXCEPT ![c] = @ \cup {First(todo[c])}]
        /\ Advance(c) /\ UNCHANGED <<rows, deleted>>
     \/ /\ ~CanEdit(user[c]) /\ End(c) /\ UNCHANGED <<rows, blind>>

Commit(c) ==
  /\ pc[c] = "inserting" /\ todo[c] = {}
  /\ items' = (items \ Locked(c)) \cup own[c]
  /\ linked' = linked \ Locked(c)
  /\ End(c)
  /\ UNCHANGED blind

(* A statement or the commit fails, or the client goes away: rollback.       *)
Rollback(c) ==
  /\ Replacing(c)
  /\ End(c)
  /\ UNCHANGED <<rows, blind>>

(*********************  the tools of the chat, the import  *********************)
BeginCreate(c, u, list) ==
  /\ list # <<>>
  /\ Begin(c, "peeking", u, list)
  /\ UNCHANGED blind

(* create_itinerary_items looks for duplicates; it knows of none when the    *)
(* user has no right or the query fails.                                     *)
Peek(c) ==
  /\ pc[c] = "peeking"
  /\ Step(c, "creating")
  /\ \/ CanEdit(user[c]) /\ known' = [known EXCEPT ![c] = {title[i] : i \in items}]
     \/ UNCHANGED known
  /\ UNCHANGED <<user, held, collaboration, rows, given, todo, seen, own, deleted, blind>>

(* Each item on its own: skipped as a duplicate or after an error, inserted, *)
(* or, without the right, the end of the call; what it inserted stays.       *)
Create(c) ==
  /\ pc[c] = "creating" /\ todo[c] # {}
  /\ LET i == First(todo[c]) IN
     \/ Advance(c) /\ UNCHANGED <<rows, own, deleted>>
     \/ /\ title[i] \notin known[c] /\ CanEdit(user[c])
        /\ items' = items \cup {i}
        /\ Advance(c) /\ UNCHANGED <<linked, own, deleted>>
     \/ /\ title[i] \notin known[c] /\ ~CanEdit(user[c])
        /\ End(c) /\ UNCHANGED <<rows, blind>>

(* The answer of either tool.                                                *)
EndBatch(c) ==
  /\ pc[c] \in {"creating", "removing"} /\ todo[c] = {}
  /\ End(c)
  /\ UNCHANGED <<rows, blind>>

(* delete_itinerary_items finds ids by title in a list it reads first.       *)
BeginRemove(c, u, t) ==
  /\ \E i \in items : title[i] = t
  /\ Start(c, "removing", u, NoInvite)
  /\ todo' = [todo EXCEPT ![c] = {i \in items : title[i] = t}]
  /\ UNCHANGED <<collaboration, rows, given, seen, known, own, deleted, blind>>

(* A DELETE by id for each, whose snapshot has the row and the user's right. *)
FindItem(c) ==
  /\ pc[c] = "removing" /\ todo[c] # {} /\ seen[c] = {}
  /\ First(todo[c]) \in items /\ CanEdit(user[c])
  /\ seen' = [seen EXCEPT ![c] = {First(todo[c])}]
  /\ UNCHANGED <<call, collaboration, rows, given, todo, known, own, deleted, blind>>

(* The item is dealt with, and the next DELETE has a snapshot of its own.    *)
NextItem(c) ==
  /\ todo' = [todo EXCEPT ![c] = @ \ {First(@)}]
  /\ seen' = [seen EXCEPT ![c] = {}]
  /\ UNCHANGED <<call, collaboration, given, known, own, blind>>

MutRemoveItem(c) ==
  /\ pc[c] = "removing" /\ todo[c] # {} /\ Free(c, seen[c])
  /\ items' = items \ seen[c] /\ linked' = linked \ seen[c]
  /\ deleted' = [deleted EXCEPT ![c] = @ \cup {First(todo[c])}]
  /\ NextItem(c)

(* It waits for the row, and is reported if it took it; it is skipped after  *)
(* an error, or where there was nothing to take.                             *)
RemoveItem(c) ==
  /\ pc[c] = "removing" /\ todo[c] # {} /\ Free(c, seen[c])
  /\ \/ /\ seen[c] # {} /\ seen[c] \subseteq items
        /\ items' = items \ seen[c] /\ linked' = linked \ seen[c]
        /\ deleted' = [deleted EXCEPT ![c] = @ \cup seen[c]]
     \/ UNCHANGED <<rows, deleted>>
  /\ NextItem(c)

MutBeginLink(c, u, t) ==
  /\ Begin(c, "linking", u, <<t>>)
  /\ UNCHANGED blind

(* autoLinkBookingToItinerary goes on when it found no item with the         *)
(* booking's id, also when the lookup itself failed ...                      *)
BeginLink(c, u, t) ==
  /\ Begin(c, "linking", u, <<t>>)
  /\ \/ linked = {} /\ UNCHANGED blind
     \/ blind' = TRUE

(* ... and inserts one; a failure is only logged.                            *)
Link(c) ==
  /\ pc[c] = "linking"
  /\ \/ /\ CanEdit(user[c])
        /\ items' = items \cup todo[c] /\ linked' = linked \cup todo[c]
     \/ UNCHANGED rows
  /\ End(c)
  /\ UNCHANGED blind

Work(c) ==
  \/ BeginDelete(c) \/ DeleteAll(c) \/ Insert(c) \/ Commit(c)
  \/ Peek(c) \/ Create(c) \/ EndBatch(c) \/ FindItem(c) \/ RemoveItem(c)
  \/ Link(c)

Next ==
  \/ \E c \in Calls : Work(c) \/ Rollback(c)
  \/ \E c \in Calls, u \in Users, list \in Lists : BeginReplace(c, u, list) \/ BeginCreate(c, u, list)
  \/ \E c \in Calls, u \in Users, t \in Titles : BeginRemove(c, u, t) \/ BeginLink(c, u, t)
  \/ Sharing /\ UNCHANGED <<rows, given, work, blind>>

Spec == Init /\ [][Next]_vars

(* An edit that has begun goes on; where it waits for locked rows it gets    *)
(* them in the end, as PostgreSQL queues those who wait for a row (hence     *)
(* SF).  Nobody owes a new request, or an error.                             *)
FairSpec == Spec /\ \A c \in Calls : SF_vars(Work(c))

(* A row comes only by a call whose user may edit at that statement, a row   *)
(* goes only by a DELETE that began while its user might edit, and a         *)
(* replacement writes nothing for a user who lost the right before its last  *)
(* insert (trip/service.go:617).                                             *)
RemovedEditorIsOut ==
  [][/\ \A c \in Calls : own'[c] \subseteq own[c] \/ CanEdit(user[c])
     /\ \A i \in items' \ items :
          \E c \in Calls : i \in own[c] \/ (i \in todo[c] /\ CanEdit(user[c]))
     /\ \A c \in Calls : seen'[c] \subseteq seen[c] \/ CanEdit(user[c])
     /\ \A i \in items \ items' : \E c \in Calls : i \in seen[c]]_vars

(* A replacement that ends has put all it was given and taken all it had     *)
(* seen, or it has changed nothing; before that nobody sees any of it        *)
(* (trip/service.go:846).                                                    *)
AllOrNothing ==
  [][\A c \in Calls : Replacing(c) =>
       IF pc'[c] = "idle"
       THEN items' = items \/ (todo[c] = {} /\ own[c] \subseteq items' /\ seen[c] \cap items' = {})
       ELSE own'[c] \cap items' = {}]_vars

(* What delete_itinerary_items reports is gone, and no two calls report the  *)
(* same item (trip/service.go:686).                                          *)
DeletedOnce ==
  /\ \A c \in Calls : deleted[c] \cap items = {}
  /\ \A c, d \in Calls : c # d => deleted[c] \cap deleted[d] = {}

(* A booking has one item; only imports that overlap, or a lookup that       *)
(* failed, make it more (handlers/booking.go:739).                           *)
OneItemPerBooking == blind \/ Cardinality(linked) <= Cardinality(Calls)

(* No edit waits for ever, whatever rows the others hold.                    *)
EveryEditEnds == \A c \in Calls : Editing(c) ~> ~Editing(c)
=============================================================================
