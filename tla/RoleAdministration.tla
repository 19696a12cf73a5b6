------------------------- MODULE RoleAdministration -------------------------
(***************************************************************************)
(* Roles, their assignment to users and their permission matrix.  A role   *)
(* has a key, which never changes and which its permissions hang on, and a *)
(* name, which is what a user's row holds, without a foreign key.  Every   *)
(* operation reads in one statement and writes in another.                 *)
(***************************************************************************)
EXTENDS AccessControl

CONSTANTS
  Keys, Names, SystemKeys, Users,
  Requests,
  Payloads,     \* lists of entries an admin may save for a role
  NoName, NoKey

RoleAdministrationAssumption ==
  /\ SystemKeys \subseteq Keys
  /\ NoName \notin Names /\ NoKey \notin Keys

VARIABLES
  roleName,   \* user_roles.name by key; NoName without a row
  userRole,   \* users.role
  rows,       \* role_permissions by key: a function on the stored permissions
  work,       \* what a request is about to write
  saves       \* history: payloads saved for the role since it was created

vars == <<roleName, userRole, rows, work, saves>>

-----------------------------------------------------------------------------

Idle == [op |-> "idle", key |-> NoKey, name |-> NoName, old |-> NoName, list |-> <<>>,
         drops |-> {}]

TypeOK ==
  /\ roleName \in [Keys -> Names \cup {NoName}]
  /\ userRole \in [Users -> Names]
  /\ \A k \in Keys : /\ DOMAIN rows[k] \subseteq Supported
                     /\ \A p \in DOMAIN rows[k] : rows[k][p] \in Scopes
                     /\ saves[k] \subseteq Payloads
  /\ \A r \in Requests :
       /\ DOMAIN work[r] = DOMAIN Idle
       /\ work[r].op \in {"idle", "create", "rename", "delete", "assign", "replace", "commit"}
       /\ work[r].key \in Keys \cup {NoKey}
       /\ {work[r].name, work[r].old} \subseteq Names \cup {NoName}
       /\ work[r].list \in Payloads \cup {<<>>}
       /\ work[r].drops \subseteq Supported

\* The roles and users of the migrations, before anybody saved a matrix.
Init ==
  /\ roleName \in [Keys -> Names \cup {NoName}]
  /\ \A j, k \in Keys : roleName[j] = roleName[k] /\ roleName[k] # NoName => j = k
  /\ userRole \in [Users -> Names]
  /\ rows = [k \in Keys |-> <<>>]
  /\ work = [r \in Requests |-> Idle]
  /\ saves = [k \in Keys |-> {}]

Exists(k) == roleName[k] # NoName

\* getRoleByIdentifier: WHERE key = $1 OR name = $1 LIMIT 1.
Identified(id) == {k \in Keys : Exists(k) /\ (k = id \/ roleName[k] = id)}

\* assertRoleExists, resolvePermissionsForRoleName: a name without a role has
\* no permission, a role without rows has its defaults.
Effective(k) == IF DOMAIN rows[k] = {} THEN getDefaultRolePermissions(k)
                ELSE resolveStoredPermissions(k, rows[k])

Start(r, w) ==
  /\ work[r] = Idle
  /\ work' = [work EXCEPT ![r] = w]
  /\ UNCHANGED <<roleName, userRole, rows, saves>>

End(r) == work' = [work EXCEPT ![r] = Idle]

\* createRole: a key that is free when it is looked for ...
ChooseKey(r, k, n) ==
  /\ ~Exists(k)
  /\ k \notin SystemKeys
  /\ Start(r, [Idle EXCEPT !.op = "create", !.key = k, !.name = n])

\* ... and the insert, which fails when the key or the name is taken by then.
CreateRole(r) ==
  LET w == work[r] IN
  /\ w.op = "create"
  /\ IF Exists(w.key) \/ \E k \in Keys : roleName[k] = w.name
     THEN UNCHANGED roleName
     ELSE roleName' = [roleName EXCEPT ![w.key] = w.name]
  /\ End(r)
  /\ UNCHANGED <<userRole, rows, saves>>

ReadForRename(r, k, n) ==
  /\ Exists(k)
  /\ k \notin SystemKeys
  /\ n # roleName[k]
  /\ Start(r, [Idle EXCEPT !.op = "rename", !.key = k, !.name = n, !.old = roleName[k]])

\* updateRole: the row by its key, its users by the name that was read.
UpdateRole(r) ==
  LET w == work[r] IN
  /\ w.op = "rename"
  /\ IF Exists(w.key) /\ \A k \in Keys : roleName[k] # w.name
     THEN /\ roleName' = [roleName EXCEPT ![w.key] = w.name]
          /\ userRole' = [u \in Users |-> IF userRole[u] = w.old THEN w.name ELSE userRole[u]]
     ELSE UNCHANGED <<roleName, userRole>>
  /\ End(r)
  /\ UNCHANGED <<rows, saves>>

\* deleteRole counts the users of the role ...
CountUsers(r, k) ==
  /\ Exists(k)
  /\ k \notin SystemKeys
  /\ \A u \in Users : userRole[u] # roleName[k]
  /\ Start(r, [Idle EXCEPT !.op = "delete", !.key = k])

\* ... and deletes it; the permissions go by cascade, behind a transaction that
\* inserts some.
DeleteRole(r) ==
  LET k == work[r].key IN
  /\ work[r].op = "delete"
  /\ \A q \in Requests : ~(work[q].op = "commit" /\ work[q].key = k)
  /\ roleName' = [roleName EXCEPT ![k] = NoName]
  /\ rows' = [rows EXCEPT ![k] = <<>>]
  /\ saves' = [saves EXCEPT ![k] = {}]
  /\ End(r)
  /\ UNCHANGED <<userRole>>

\* updateUserRole: the name of the role that was found is written later.
FindRole(r, n) ==
  \E k \in Identified(n) : Start(r, [Idle EXCEPT !.op = "assign", !.name = roleName[k]])

UpdateUserRole(r, u) ==
  /\ work[r].op = "assign"
  /\ userRole' = [userRole EXCEPT ![u] = work[r].name]
  /\ End(r)
  /\ UNCHANGED <<roleName, rows, saves>>

-----------------------------------------------------------------------------

\* Rows of k that a transaction has deleted or inserted and not committed.
Held(k) == \E q \in Requests : work[q].key = k /\ work[q].op \in {"replace", "commit"}
                               /\ (work[q].op = "commit" \/ work[q].drops # {})

\* replaceRolePermissions opens its transaction and deletes the rows it sees.
\* It waits for another transaction that has deleted them.
DeletePermissions(r, k, list) ==
  /\ Exists(k)
  /\ work[r] = Idle
  /\ DOMAIN rows[k] # {} => ~Held(k)
  /\ work' = [work EXCEPT ![r] = [Idle EXCEPT !.op = "replace", !.key = k, !.list = list,
                                              !.drops = DOMAIN rows[k]]]
  /\ UNCHANGED <<roleName, userRole, rows, saves>>

\* Mutant: the entries of the payload are stored as they are.
NewRowsAsGiven(list) ==
  LET given == {list[i].permission : i \in DOMAIN list} \cap Supported IN
  [p \in given |-> normalizePermissionSet(list)[p]]

\* completeRolePermissions: a scope for every supported permission.
NewRows(list) == normalizePermissionSet(list)

\* The inserts wait for a transaction that has inserted the same keys, and a
\* key that is there by then, or a role that is gone, rolls this one back.
InsertPermissions(r) ==
  LET w == work[r] IN
  /\ w.op = "replace"
  /\ \A q \in Requests : work[q].op = "commit" /\ work[q].key = w.key =>
       DOMAIN NewRows(work[q].list) \cap DOMAIN NewRows(w.list) = {}
  /\ IF Exists(w.key) /\ (DOMAIN rows[w.key] \ w.drops) \cap DOMAIN NewRows(w.list) = {}
     THEN work' = [work EXCEPT ![r].op = "commit"]
     ELSE End(r)
  /\ UNCHANGED <<roleName, userRole, rows, saves>>

CommitPermissions(r) ==
  LET w == work[r]
      new == NewRows(w.list)
      kept == DOMAIN rows[w.key] \ w.drops IN
  /\ w.op = "commit"
  /\ rows' = [rows EXCEPT ![w.key] =
                [p \in kept \cup DOMAIN new |-> IF p \in DOMAIN new THEN new[p] ELSE @[p]]]
  /\ saves' = [saves EXCEPT ![w.key] = @ \cup {w.list}]
  /\ End(r)
  /\ UNCHANGED <<roleName, userRole>>

\* A request dies between its statements.
Abort(r) ==
  /\ work[r] # Idle
  /\ End(r)
  /\ UNCHANGED <<roleName, userRole, rows, saves>>

Request(r) ==
  \/ \E k \in Keys, n \in Names : ChooseKey(r, k, n) \/ ReadForRename(r, k, n)
  \/ \E k \in Keys : CountUsers(r, k) \/ \E list \in Payloads : DeletePermissions(r, k, list)
  \/ \E n \in Names : FindRole(r, n)
  \/ \E u \in Users : UpdateUserRole(r, u)
  \/ CreateRole(r) \/ UpdateRole(r) \/ DeleteRole(r)
  \/ InsertPermissions(r) \/ CommitPermissions(r) \/ Abort(r)

Next == \E r \in Requests : Request(r)

Spec == Init /\ [][Next]_vars

-----------------------------------------------------------------------------

\* What a role may do is what one admin saved for it, entirely, or its default
\* while nobody has: two admins who save at once never leave a mixture, a
\* permission that was taken away does not come back with the defaults, and a
\* role that is made again under an old key inherits nothing.
EffectiveIsOneSave ==
  \A k \in Keys :
    \/ saves[k] = {} /\ Effective(k) = getDefaultRolePermissions(k)
    \/ \E list \in saves[k] : Effective(k) = normalizePermissionSet(list)
=============================================================================
