---------------------------- MODULE Collaborators ----------------------------
(* Who may edit a trip: the invitations of CollaborateHandler and the rows   *)
(* of trip_collaborators.  An invitation is the number of its token; the     *)
(* owner invites and removes, a person accepts with the token of the mail.   *)
(* All invitations are for the editor role: a viewer writes nothing here.    *)
(* The calls are requests in progress; what they answer is left out, and a   *)
(* call is reused when it has ended.                                         *)
EXTENDS Integers, FiniteSets

CONSTANTS Calls, People, Owner, MaxInvites, MaxTokens

ASSUME CollaboratorsAssumption ==
  /\ Owner \notin People /\ IsFiniteSet(People) /\ IsFiniteSet(Calls)
  /\ MaxInvites \in Nat \ {0} /\ MaxTokens \in Nat

NoInvite == 0
Users    == People \cup {Owner}

VARIABLES
  pc,         \* a call's step; the steps of edits are ItineraryEdit's
  user,       \* whom the call is about: the invited, or the editor
  held,       \* the token an accepting call found
  token,      \* the invitation of a person, NoInvite without a row
  accepted,   \* those with accepted_at
  invites     \* tokens made so far

call          == <<pc, user, held>>
collaboration == <<token, accepted, invites>>
Running(c) == pc[c] # "idle"
Invited    == {p \in People : token[p] # NoInvite}
CanEdit(u) == u = Owner \/ u \in accepted

CollaboratorsTypeOK ==
  /\ user \in [Calls -> Users]
  /\ held \in [Calls -> 0 .. MaxTokens]
  /\ token \in [People -> 0 .. MaxTokens]
  /\ accepted \subseteq Invited
  /\ invites \in 0 .. MaxTokens

CollaboratorsInit ==
  /\ pc = [c \in Calls |-> "idle"] /\ user = [c \in Calls |-> Owner]
  /\ held = [c \in Calls |-> NoInvite]
  /\ token = [p \in People |-> NoInvite] /\ accepted = {} /\ invites = 0

Step(c, s) == pc' = [pc EXCEPT ![c] = s]

Start(c, s, u, t) ==
  /\ ~Running(c)
  /\ Step(c, s)
  /\ user' = [user EXCEPT ![c] = u] /\ held' = [held EXCEPT ![c] = t]

Finish(c) ==
  /\ Step(c, "idle")
  /\ user' = [user EXCEPT ![c] = Owner] /\ held' = [held EXCEPT ![c] = NoInvite]

(* HandleInvite counts the rows ...                                          *)
BeginInvite(c, p) ==
  /\ Cardinality(Invited) < MaxInvites
  /\ Start(c, "inviting", p, NoInvite)
  /\ UNCHANGED collaboration

(* ... and inserts one, which UNIQUE (trip_id, email) may refuse, as may any *)
(* failure.                                                                  *)
AddCollaborator(c) ==
  /\ pc[c] = "inviting"
  /\ \/ /\ token[user[c]] = NoInvite /\ invites < MaxTokens
        /\ invites' = invites + 1
        /\ token' = [token EXCEPT ![user[c]] = invites + 1]
     \/ UNCHANGED <<token, invites>>
  /\ Finish(c)
  /\ UNCHANGED accepted

(* HandleAcceptInvite looks the token up, and the row must not be accepted.  *)
BeginAccept(c, p) ==
  /\ token[p] # NoInvite /\ p \notin accepted
  /\ Start(c, "accepting", p, token[p])
  /\ UNCHANGED collaboration

MutAcceptInvite(c) ==
  /\ pc[c] = "accepting"
  /\ accepted' = IF token[user[c]] # NoInvite THEN accepted \cup {user[c]} ELSE accepted
  /\ Finish(c)
  /\ UNCHANGED <<token, invites>>

(* AcceptInvite changes the row of that token, if it is still there and not  *)
(* accepted; it may fail.                                                    *)
AcceptInvite(c) ==
  /\ pc[c] = "accepting"
  /\ \/ token[user[c]] = held[c] /\ accepted' = accepted \cup {user[c]}
     \/ UNCHANGED accepted
  /\ Finish(c)
  /\ UNCHANGED <<token, invites>>

(* HandleRemoveCollaborator deletes the row, accepted or not.                *)
RemoveCollaborator(p) ==
  /\ token[p] # NoInvite
  /\ token' = [token EXCEPT ![p] = NoInvite]
  /\ accepted' = accepted \ {p}
  /\ UNCHANGED <<call, invites>>

Sharing ==
  \/ \E p \in People : RemoveCollaborator(p)
  \/ \E c \in Calls, p \in People : BeginInvite(c, p) \/ BeginAccept(c, p)
  \/ \E c \in Calls : AddCollaborator(c) \/ AcceptInvite(c)

(* The maximum is counted before the insert: each further request in         *)
(* progress can pass it by one, and no more (handlers/collaborate.go:106).   *)
InvitesBounded == Cardinality(Invited) < MaxInvites + Cardinality(Calls)

(* A person becomes an editor only with the invitation that is in force: an  *)
(* acceptance that was under way when the owner removed the person, and      *)
(* perhaps invited them anew, has no effect (handlers/collaborate.go:245).   *)
AcceptsOwnInvite ==
  [][\A p \in accepted' \ accepted : \E c \in Calls : user[c] = p /\ held[c] = token[p]]_<<call, accepted>>
=============================================================================
