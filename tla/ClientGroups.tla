---------------------------- MODULE ClientGroups ----------------------------
(***************************************************************************)
(* Groups of customers: what members do through the client API and what    *)
(* the staff does through client-group-admin.repository.ts.  A step is one *)
(* statement or transaction; joining selects the invite FOR UPDATE, so it  *)
(* is two steps with the invite locked in between.                         *)
(***************************************************************************)
EXTENDS Naturals, FiniteSets

CONSTANTS
  Clients, Groups, Invites,
  Requests,     \* handlers of the client API
  Anyone,       \* an invite without an e-mail address
  NoOne, NoGroup, NoInvite

ClientGroupsAssumption ==
  /\ {Anyone, NoOne} \cap Clients = {} /\ Anyone # NoOne
  /\ NoGroup \notin Groups
  /\ NoInvite \notin Invites

VARIABLES
  group,      \* client_groups: active, with deleted_at, or removed
  role,       \* client_group_members.role, "none" without a row
  invite,     \* client_group_invites
  inviting,   \* the group whose invite a request is about to insert
  joining,    \* the invite a request has locked
  joined,     \* history: clients an invite made members
  given       \* history: <<g, c>> that became members without an invite

vars == <<group, role, invite, inviting, joining, joined, given>>

-----------------------------------------------------------------------------

Roles == {"none", "owner", "admin", "member"}

InviteRow == [group : Groups \cup {NoGroup}, email : Clients \cup {Anyone, NoOne},
              state : {"free", "open", "closed"}]

TypeOK ==
  /\ group \in [Groups -> {"absent", "active", "deleted", "gone"}]
  /\ role \in [Groups -> [Clients -> Roles]]
  /\ invite \in [Invites -> InviteRow]
  /\ inviting \in [Requests -> Groups \cup {NoGroup}]
  /\ joining \in [Requests -> Invites \cup {NoInvite}]
  /\ joined \in [Invites -> SUBSET Clients]
  /\ given \in SUBSET (Groups \X Clients)

Init ==
  /\ group = [g \in Groups |-> "absent"]
  /\ role = [g \in Groups |-> [c \in Clients |-> "none"]]
  /\ invite = [i \in Invites |-> [group |-> NoGroup, email |-> NoOne, state |-> "free"]]
  /\ inviting = [r \in Requests |-> NoGroup]
  /\ joining = [r \in Requests |-> NoInvite]
  /\ joined = [i \in Invites |-> {}]
  /\ given = {}

-----------------------------------------------------------------------------

Free(r) == inviting[r] = NoGroup /\ joining[r] = NoInvite

Unlocked(i) == \A q \in Requests : joining[q] # i

Exists(g) == group[g] \in {"active", "deleted"}

\* createClientGroup: the group and its owner, in one transaction.
Create(r, c, g) ==
  /\ Free(r)
  /\ group[g] = "absent"
  /\ group' = [group EXCEPT ![g] = "active"]
  /\ role' = [role EXCEPT ![g][c] = "owner"]
  /\ given' = given \cup {<<g, c>>}
  /\ UNCHANGED <<invite, inviting, joining, joined>>

\* deleteClientGroup marks the group; members, invites and the links of
\* bookings to the group stay.
Delete(r, c, g) ==
  /\ Free(r)
  /\ role[g][c] = "owner"
  /\ group' = [group EXCEPT ![g] = "deleted"]
  /\ UNCHANGED <<role, invite, inviting, joining, joined, given>>

\* createClientGroupInvite reads the role of the caller ...
CheckInviter(r, c, g) ==
  /\ Free(r)
  /\ role[g][c] \in {"owner", "admin"}
  /\ inviting' = [inviting EXCEPT ![r] = g]
  /\ UNCHANGED <<group, role, invite, joining, joined, given>>

\* ... and inserts in another statement.  Only the foreign key is checked then.
InsertInvite(r, i, email) ==
  /\ inviting[r] # NoGroup
  /\ invite[i].state = "free"
  /\ Exists(inviting[r])
  /\ invite' = [invite EXCEPT ![i] = [group |-> inviting[r], email |-> email, state |-> "open"]]
  /\ inviting' = [inviting EXCEPT ![r] = NoGroup]
  /\ UNCHANGED <<group, role, joining, joined, given>>

\* Mutant: the invite is read without FOR UPDATE.
SelectInviteUnlocked(r, c, i) ==
  /\ Free(r)
  /\ invite[i].state = "open"
  /\ invite[i].email \in {c, Anyone}
  /\ joining' = [joining EXCEPT ![r] = i]
  /\ UNCHANGED <<group, role, invite, inviting, joined, given>>

\* joinClientGroup locks an open invite that is for everyone or for the client.
SelectInvite(r, c, i) ==
  /\ Free(r)
  /\ invite[i].state = "open"
  /\ Unlocked(i)
  /\ invite[i].email \in {c, Anyone}
  /\ joining' = [joining EXCEPT ![r] = i]
  /\ UNCHANGED <<group, role, invite, inviting, joined, given>>

\* ... makes the client a member, unless it is one already, and closes the
\* invite.  Whether the group is deleted is not asked.
Join(r, c) ==
  LET i == joining[r]
      g == invite[i].group IN
  /\ i # NoInvite
  /\ role' = [role EXCEPT ![g][c] = IF @ = "none" THEN "member" ELSE @]
  /\ joined' = [joined EXCEPT ![i] = @ \cup {c}]
  /\ invite' = [invite EXCEPT ![i].state = "closed"]
  /\ joining' = [joining EXCEPT ![r] = NoInvite]
  /\ UNCHANGED <<group, inviting, given>>

\* A request dies, its transaction with it.
Drop(r) ==
  /\ ~Free(r)
  /\ inviting' = [inviting EXCEPT ![r] = NoGroup]
  /\ joining' = [joining EXCEPT ![r] = NoInvite]
  /\ UNCHANGED <<group, role, invite, joined, given>>

\* One step of a request that serves client c.
Serve(r, c) ==
  \/ \E g \in Groups : Create(r, c, g) \/ Delete(r, c, g) \/ CheckInviter(r, c, g)
  \/ \E i \in Invites :
       SelectInvite(r, c, i) \/ \E email \in Clients \cup {Anyone} : InsertInvite(r, i, email)
  \/ Join(r, c)

-----------------------------------------------------------------------------

\* createAdminClientGroup: a group without an owner.
AdminCreate(g) ==
  /\ group[g] = "absent"
  /\ group' = [group EXCEPT ![g] = "active"]
  /\ UNCHANGED <<role, invite, inviting, joining, joined, given>>

\* deleteAdminClientGroup removes the row; members and invites go by cascade,
\* which waits for an invite that is locked.
AdminDelete(g) ==
  /\ Exists(g)
  /\ \A i \in Invites : invite[i].group = g => Unlocked(i)
  /\ group' = [group EXCEPT ![g] = "gone"]
  /\ role' = [role EXCEPT ![g] = [c \in Clients |-> "none"]]
  /\ invite' = [i \in Invites |-> IF invite[i].group = g
                                  THEN [invite[i] EXCEPT !.state = "closed"] ELSE invite[i]]
  /\ given' = {p \in given : p[1] # g}
  /\ UNCHANGED <<inviting, joining, joined>>

\* attachClientGroupMember and detachClientGroupMember; the foreign key asks for
\* the row of the group.
Attach(g, c) ==
  /\ Exists(g)
  /\ role[g][c] = "none"
  /\ role' = [role EXCEPT ![g][c] = "member"]
  /\ given' = given \cup {<<g, c>>}
  /\ UNCHANGED <<group, invite, inviting, joining, joined>>

Detach(g, c) ==
  /\ role[g][c] # "none"
  /\ role' = [role EXCEPT ![g][c] = "none"]
  /\ given' = given \ {<<g, c>>}
  /\ UNCHANGED <<group, invite, inviting, joining, joined>>

\* The seven days of an invite are over.
ExpireInvite(i) ==
  /\ invite[i].state = "open"
  /\ Unlocked(i)
  /\ invite' = [invite EXCEPT ![i].state = "closed"]
  /\ UNCHANGED <<group, role, inviting, joining, joined, given>>

Staff ==
  \/ \E g \in Groups : AdminCreate(g) \/ AdminDelete(g)
  \/ \E g \in Groups, c \in Clients : Attach(g, c) \/ Detach(g, c)
  \/ \E i \in Invites : ExpireInvite(i)

-----------------------------------------------------------------------------

\* One client joins by an invite, however many open its link at once.
InvitesAdmitOne == \A i \in Invites : Cardinality(joined[i]) <= 1

\* A member of a group made it, was attached by the staff, or joined by an
\* invite to that group that was for everyone or for this client.
MembersWereAdmitted ==
  \A g \in Groups, c \in Clients : role[g][c] # "none" =>
    \/ <<g, c>> \in given
    \/ \E i \in Invites : /\ invite[i].group = g
                          /\ c \in joined[i]
                          /\ invite[i].email \in {c, Anyone}
=============================================================================
