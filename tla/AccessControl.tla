--------------------------- MODULE AccessControl ---------------------------
(***************************************************************************)
(* The permissions of the dashboard: what resources and actions there are, *)
(* what a role may do by default, and how a saved matrix overlays that.    *)
(* A permission is a pair of a resource and an action.                     *)
(***************************************************************************)
EXTENDS Naturals, Sequences, FiniteSets

Scopes == {"none", "own", "location", "all"}

Crud == {"view", "create", "update", "delete"}

permissionDefinitions ==
  [dashboard |-> {"view"}, settings |-> {"view", "manage"}, tasks |-> Crud,
   task_comments |-> {"view", "create"}, task_booking_options |-> Crud \cup {"manage"},
   task_columns |-> Crud \cup {"manage"}, locations |-> Crud,
   bookings |-> Crud \cup {"manage", "export"}, products |-> {"view", "update", "manage"},
   messages |-> Crud \cup {"manage"}, users |-> Crud \cup {"manage"},
   roles |-> Crud \cup {"manage"}, customers |-> {"view", "update", "export"},
   client_groups |-> Crud \cup {"manage"}, resources |-> {"view", "manage"},
   regiondo |-> {"view", "manage"}, errors |-> {"view", "manage"}]

Resources == DOMAIN permissionDefinitions

Supported == UNION {{resource} \X permissionDefinitions[resource] : resource \in Resources}

\* The roles that come with the migrations, by key; every grant has scope
\* "all", and a role that is not listed has none.
defaultRoleGrants ==
  [admin |-> permissionDefinitions,
   operations |->
     [dashboard |-> {"view"}, settings |-> {"view"}, tasks |-> Crud,
      task_comments |-> {"view", "create"}, task_columns |-> {"view"},
      locations |-> {"view"}, bookings |-> Crud \cup {"manage", "export"},
      products |-> {"view", "update"}, messages |-> Crud \cup {"manage"},
      customers |-> {"view", "update"}, client_groups |-> {"view"},
      resources |-> {"view"}, regiondo |-> {"view"}],
   operations_lead |->
     [dashboard |-> {"view"}, settings |-> {"view", "manage"}, tasks |-> Crud,
      task_comments |-> {"view", "create"}, task_booking_options |-> Crud \cup {"manage"},
      task_columns |-> Crud \cup {"manage"}, locations |-> Crud,
      bookings |-> Crud \cup {"manage", "export"}, products |-> {"view", "update", "manage"},
      messages |-> Crud \cup {"manage"}, users |-> {"view", "update", "manage"},
      roles |-> {"view", "manage"}, customers |-> {"view", "update", "export"},
      client_groups |-> Crud \cup {"manage"}, resources |-> {"view", "manage"},
      regiondo |-> {"view", "manage"}, errors |-> {"view", "manage"}],
   program_manager |->
     [dashboard |-> {"view"}, tasks |-> {"view", "create", "update"},
      task_comments |-> {"view", "create"}, bookings |-> Crud \cup {"manage"},
      products |-> {"view"}, messages |-> {"view", "create", "update"},
      locations |-> {"view"}, customers |-> {"view", "update"}],
   finance_coordinator |->
     [dashboard |-> {"view"}, bookings |-> {"view", "export"}, products |-> {"view"},
      customers |-> {"view", "export"}, resources |-> {"view"}],
   people_operations |->
     [dashboard |-> {"view"}, settings |-> {"view", "manage"}, users |-> Crud \cup {"manage"},
      roles |-> {"view", "manage"}, locations |-> {"view"}]]

\* A list of entries made complete: of several entries for one permission the
\* last counts, an unsupported one is dropped, the rest is "none".
normalizePermissionSet(entries) ==
  [p \in Supported |->
     LET about == {i \in DOMAIN entries : entries[i].permission = p} IN
     IF about = {} THEN "none"
     ELSE entries[CHOOSE i \in about : \A j \in about : j <= i].scope]

getDefaultRolePermissions(key) ==
  LET grants == IF key \in DOMAIN defaultRoleGrants THEN defaultRoleGrants[key] ELSE <<>> IN
  [p \in Supported |-> IF p[1] \in DOMAIN grants /\ p[2] \in grants[p[1]] THEN "all" ELSE "none"]

\* resolveStoredPermissions: the rows of the role over its defaults.
resolveStoredPermissions(key, rows) ==
  [p \in Supported |-> IF p \in DOMAIN rows THEN rows[p] ELSE getDefaultRolePermissions(key)[p]]
=============================================================================
