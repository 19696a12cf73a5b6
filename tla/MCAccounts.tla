----------------------------- MODULE MCAccounts -----------------------------
(* Clients and staff.  Four situations that share no state: accounts and       *)
(* sessions of clients from nothing; groups of two clients that are logged in; *)
(* admins at the roles and their matrix; staff at the login.                   *)
EXTENDS ClientApi

CONSTANTS
  Keys, SystemKeys, Names, Users, NoName, NoKey, Sales, Payloads,
  NoSession, Window, Block, MaxAttempts, MaxTime, MaxTokens

VARIABLES
  situation,
  roleName, userRole, rows, work, saves,
  now, attempts, session, doing, on, issued

MCKeys == {"admin", "finance_coordinator"}
MCSystemKeys == {"admin"}
MCNames == {"Admin", "finance_coordinator", Sales}

Roles == INSTANCE RoleAdministration
Login == INSTANCE AdminLogin

\* What the modules assume of their constants.
ASSUME PartsAssumption ==
  /\ Groups!ClientGroupsAssumption
  /\ Roles!RoleAdministrationAssumption
  /\ Login!AdminLoginAssumption

Entry(resource, action, scope) == [permission |-> <<resource, action>>, scope |-> scope]

\* A permission is taken from and one is given to the finance role; and a list
\* with a repeated and an unsupported entry.
MCPayloads ==
  {<<Entry("bookings", "view", "none"), Entry("tasks", "view", "all")>>,
   <<Entry("bookings", "export", "own"), Entry("bookings", "export", "none"),
     Entry("dashboard", "manage", "all")>>}

roleVars == <<roleName, userRole, rows, work, saves>>
loginVars == <<now, attempts, session, doing, on, issued>>

LoggedInClients ==
  /\ password = [c \in Clients |-> 1]
  /\ verified = Clients
  /\ owner \in {f \in [Rows -> Clients] :
                 /\ \A c \in Clients : \E s \in Sessions : f[s] = c
                 /\ \A x \in Codes \cup Resets : f[x] = CHOOSE c \in Clients : TRUE}
  /\ state = [x \in Rows |-> IF x \in Sessions THEN "live" ELSE "ended"]
  /\ token = [s \in Sessions |-> MaxRotations]
  /\ since = [s \in Sessions |-> 1]
  /\ accepted = [t \in Tokens |-> 0]
  /\ op = [r \in Requests |-> "idle"]
  /\ client = [r \in Requests |-> NoOne]
  /\ row = [r \in Requests |-> NoRow]
  /\ seen = [r \in Requests |-> 0]
  /\ Groups!Init
  /\ changes = 0

MCInit ==
  /\ \/ situation \in {"accounts", "roles", "login"} /\ ApiInit /\ changes = MaxChanges
     \/ situation = "groups" /\ LoggedInClients
  /\ roleName = [k \in Keys |-> IF k = "admin" THEN "Admin" ELSE Sales]
  /\ userRole \in [Users -> {"Admin", Sales}]
  /\ situation # "roles" => userRole = [u \in Users |-> Sales]
  /\ Roles!Init
  /\ Login!Init

ClientStep == situation \in {"accounts", "groups"} /\ ApiNext /\ UNCHANGED <<situation, roleVars, loginVars>>

RoleStep == situation = "roles" /\ Roles!Next /\ UNCHANGED <<situation, apiVars, loginVars>>

LoginStep == situation = "login" /\ Login!Next /\ UNCHANGED <<situation, apiVars, roleVars>>

MCNext == ClientStep \/ RoleStep \/ LoginStep

MCSpec == MCInit /\ [][MCNext]_<<situation, apiVars, roleVars, loginVars>>

EffectiveIsOneSave == Roles!EffectiveIsOneSave
FailuresBounded == Login!FailuresBounded
LoggedOutStaysOut == Login!LoggedOutStaysOut
=============================================================================
