----------------------------- MODULE ClientApi -----------------------------
(***************************************************************************)
(* The customer app as one system: every operation on groups is a request  *)
(* that ClientSessions admitted, and goes on to its end even when the      *)
(* session it was admitted with ends in the meantime.                      *)
(***************************************************************************)
EXTENDS ClientSessions

CONSTANTS
  GroupIds, Invites,
  Anyone, NoGroup, NoInvite,
  MaxChanges    \* bound: steps on groups

VARIABLES
  group, role, invite, inviting, joining, joined, given,
  changes       \* bounded counter of the steps on groups

Groups == INSTANCE ClientGroups WITH Groups <- GroupIds

groupVars == <<group, role, invite, inviting, joining, joined, given>>
apiVars == <<vars, groupVars, changes>>

ApiTypeOK == TypeOK /\ Groups!TypeOK /\ changes \in 0..MaxChanges

ApiInit == Init /\ Groups!Init /\ changes \in {0, MaxChanges}

\* A statement of the group routes, for the client the request was admitted for.
Serve(r) ==
  /\ op[r] = "api"
  /\ changes < MaxChanges
  /\ changes' = changes + 1
  /\ Groups!Serve(r, client[r])
  /\ IF Groups!Free(r)' THEN Finish(r) ELSE UNCHANGED requestVars
  /\ UNCHANGED <<password, verified, rowVars, since, accepted>>

\* A request between two statements on groups is about nothing else.
AccountStep ==
  /\ Next
  /\ \A r \in Requests : ~Groups!Free(r) => op'[r] = op[r]
  /\ UNCHANGED <<groupVars, changes>>

Die(r) ==
  /\ ~Groups!Free(r)
  /\ Abort(r)
  /\ Groups!Drop(r)
  /\ UNCHANGED changes

Staff ==
  /\ changes < MaxChanges
  /\ changes' = changes + 1
  /\ Groups!Staff
  /\ UNCHANGED vars

ApiNext == AccountStep \/ Staff \/ \E r \in Requests : Serve(r) \/ Die(r)

ApiSpec == ApiInit /\ [][ApiNext]_apiVars

-----------------------------------------------------------------------------

\* Whoever is in a group was let in: an invite admits one client, and a member
\* made the group, was attached by the staff, or was invited.
GroupsAdmitAsInvited == Groups!InvitesAdmitOne /\ Groups!MembersWereAdmitted
=============================================================================
