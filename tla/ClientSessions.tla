--------------------------- MODULE ClientSessions ---------------------------
(***************************************************************************)
(* The accounts of the customer app: registration, e-mail verification,    *)
(* sessions with rotated refresh tokens, password resets.                  *)
(*                                                                         *)
(* A request is a handler of client-auth.routes.ts or of the client API.   *)
(* A step is one statement or one transaction; a transaction that selects  *)
(* a row FOR UPDATE and then writes is two steps, and the row is locked in *)
(* between by the request that holds it.                                   *)
(***************************************************************************)
EXTENDS Naturals, FiniteSets

CONSTANTS
  Clients,      \* e-mail addresses: clients.email is unique
  Sessions,     \* rows of client_sessions
  Codes,        \* six-digit codes; token_hash is unique and no row is deleted
  Resets,       \* rows of client_password_reset_tokens
  Requests,
  NoOne,        \* a row that is not written yet, a request for no client
  NoRow,        \* a request that is about no row
  MaxRotations  \* bound: refreshes of one session

ASSUME ClientSessionsAssumption ==
  /\ NoOne \notin Clients
  /\ NoRow \notin Sessions \cup Codes \cup Resets
  /\ Sessions \cap Codes = {} /\ Sessions \cap Resets = {} /\ Codes \cap Resets = {}
  /\ MaxRotations \in Nat

VARIABLES
  password,    \* client_auth_identities.password_hash, a version; 0: no identity
  verified,    \* clients whose identity has email_verified_at
  owner,       \* the client of a session, a code or a reset token
  state,       \* of such a row
  token,       \* the refresh token a session stores, by its number
  since,       \* history: version of the password when a session was inserted
  accepted,    \* history: how often a token was accepted
  op, client, row, seen  \* of a request: what it does, for whom, on which row, and
                         \* the version of the password or the token it was sent

rowVars     == <<owner, state, token>>
requestVars == <<op, client, row, seen>>
vars == <<password, verified, rowVars, since, accepted, requestVars>>

-----------------------------------------------------------------------------

Rows == Sessions \cup Codes \cup Resets

\* What a client holds: the numbered refresh tokens of a session, one code,
\* one reset token.
Tokens == Rows \X (0..MaxRotations)

State == {"free", "live", "ended"}

Op == {"idle", "open", "api", "rotate", "issue", "verify", "reset"}

TypeOK ==
  /\ password \in [Clients -> Nat]
  /\ verified \in SUBSET Clients
  /\ owner \in [Rows -> Clients \cup {NoOne}]
  /\ state \in [Rows -> State]
  /\ token \in [Sessions -> 0..MaxRotations]
  /\ since \in [Sessions -> Nat]
  /\ accepted \in [Tokens -> Nat]
  /\ op \in [Requests -> Op]
  /\ client \in [Requests -> Clients \cup {NoOne}]
  /\ row \in [Requests -> Rows \cup {NoRow}]
  /\ seen \in [Requests -> Nat]

Init ==
  /\ password = [c \in Clients |-> 0]
  /\ verified = {}
  /\ owner = [x \in Rows |-> NoOne]
  /\ state = [x \in Rows |-> "free"]
  /\ token = [s \in Sessions |-> 0]
  /\ since = [s \in Sessions |-> 0]
  /\ accepted = [t \in Tokens |-> 0]
  /\ op = [r \in Requests |-> "idle"]
  /\ client = [r \in Requests |-> NoOne]
  /\ row = [r \in Requests |-> NoRow]
  /\ seen = [r \in Requests |-> 0]

-----------------------------------------------------------------------------

Become(r, what, c, x, version) ==
  /\ op' = [op EXCEPT ![r] = what]
  /\ client' = [client EXCEPT ![r] = c]
  /\ row' = [row EXCEPT ![r] = x]
  /\ seen' = [seen EXCEPT ![r] = version]

Finish(r) == Become(r, "idle", NoOne, NoRow, 0)

\* A request that was admitted remembers its session and locks nothing.
Unlocked(x) == \A q \in Requests : row[q] = x => op[q] = "api"

Write(x, c) ==
  /\ owner' = [owner EXCEPT ![x] = c]
  /\ state' = [y \in Rows |-> IF y = x THEN "live"
                              ELSE IF {x, y} \subseteq Codes /\ owner[y] = c THEN "ended"
                              ELSE state[y]]

Accept(x, n) == accepted' = [accepted EXCEPT ![<<x, n>>] = @ + 1]

\* The transaction of registerClient.  A known address or a code that was
\* drawn before is a unique violation: everything is rolled back and the
\* answer is that the account exists.
Register(r, c, k) ==
  /\ op[r] = "idle"
  /\ password[c] = 0
  /\ state[k] = "free"
  /\ password' = [password EXCEPT ![c] = 1]
  /\ Write(k, c)
  /\ Become(r, "open", c, NoRow, 1)
  /\ UNCHANGED <<verified, token, since, accepted>>

\* findClientLogin and the comparison with the password the client sent.
CheckPassword(r, c) ==
  /\ op[r] = "idle"
  /\ password[c] > 0
  /\ Become(r, "open", c, NoRow, password[c])
  /\ UNCHANGED <<password, verified, rowVars, since, accepted>>

\* The session of a login or a registration, a statement of its own: nothing
\* looks again at the password that was compared.
CreateSession(r, s) ==
  /\ op[r] = "open"
  /\ state[s] = "free"
  /\ Write(s, client[r])
  /\ since' = [since EXCEPT ![s] = password[client[r]]]
  /\ Finish(r)
  /\ UNCHANGED <<password, verified, token, accepted>>

\* Mutant: the row is read without FOR UPDATE.
SelectSessionUnlocked(r, s) ==
  /\ op[r] = "idle"
  /\ state[s] = "live"
  /\ token[s] < MaxRotations
  /\ Become(r, "rotate", owner[s], s, token[s])
  /\ UNCHANGED <<password, verified, rowVars, since, accepted>>

\* rotateClientSession finds the live session that stores the presented token;
\* any other token is refused.
SelectSession(r, s) ==
  /\ op[r] = "idle"
  /\ state[s] = "live"
  /\ Unlocked(s)
  /\ token[s] < MaxRotations
  /\ Become(r, "rotate", owner[s], s, token[s])
  /\ UNCHANGED <<password, verified, rowVars, since, accepted>>

\* ... and stores the next token in its place.
RotateSession(r) ==
  LET s == row[r] IN
  /\ op[r] = "rotate"
  /\ token' = [token EXCEPT ![s] = @ + 1]
  /\ Accept(s, seen[r])
  /\ Finish(r)
  /\ UNCHANGED <<password, verified, owner, state, since>>

\* requireClientAuth: the session of the access token is looked up.
Admit(r, s) ==
  /\ op[r] = "idle"
  /\ state[s] = "live"
  /\ Become(r, "api", owner[s], s, 0)
  /\ UNCHANGED <<password, verified, rowVars, since, accepted>>

\* revokeClientSession, of the session the request was admitted with.
Logout(r) ==
  /\ op[r] = "api"
  /\ Unlocked(row[r])
  /\ state' = [state EXCEPT ![row[r]] = "ended"]
  /\ Finish(r)
  /\ UNCHANGED <<password, verified, owner, token, since, accepted>>

\* issueEmailVerification reads the identity ...
BeginVerification(r) ==
  /\ op[r] = "api"
  /\ client[r] \notin verified
  /\ Become(r, "issue", client[r], NoRow, 0)
  /\ UNCHANGED <<password, verified, rowVars, since, accepted>>

\* ... and replaces the client's code in a transaction.  The UPDATE waits for
\* the code that another request is about to accept.
IssueVerification(r, k) ==
  /\ op[r] = "issue"
  /\ state[k] = "free"
  /\ \A x \in Codes : owner[x] = client[r] => Unlocked(x)
  /\ Write(k, client[r])
  /\ Finish(r)
  /\ UNCHANGED <<password, verified, token, since, accepted>>

SelectVerification(r, k) ==
  /\ op[r] = "api"
  /\ state[k] = "live"
  /\ owner[k] = client[r]
  /\ Unlocked(k)
  /\ Become(r, "verify", client[r], k, 0)
  /\ UNCHANGED <<password, verified, rowVars, since, accepted>>

ConsumeVerification(r) ==
  /\ op[r] = "verify"
  /\ state' = [state EXCEPT ![row[r]] = "ended"]
  /\ verified' = verified \cup {client[r]}
  /\ Accept(row[r], 0)
  /\ Finish(r)
  /\ UNCHANGED <<password, owner, token, since>>

\* requestPasswordReset: earlier tokens of the client stay valid.
RequestPasswordReset(c, x) ==
  /\ password[c] > 0
  /\ state[x] = "free"
  /\ Write(x, c)
  /\ UNCHANGED <<password, verified, token, since, accepted, requestVars>>

SelectReset(r, x) ==
  /\ op[r] = "idle"
  /\ state[x] = "live"
  /\ Unlocked(x)
  /\ Become(r, "reset", owner[x], x, 0)
  /\ UNCHANGED <<password, verified, rowVars, since, accepted>>

\* Mutant: only the session that was used last is ended.
ResetPasswordOneSession(r) ==
  LET c == client[r] IN
  /\ op[r] = "reset"
  /\ \E s \in Sessions :
       /\ owner[s] = c
       /\ state' = [state EXCEPT ![row[r]] = "ended", ![s] = "ended"]
  /\ password' = [password EXCEPT ![c] = @ + 1]
  /\ Accept(row[r], 0)
  /\ Finish(r)
  /\ UNCHANGED <<verified, owner, token, since>>

\* resetClientPassword: the password, the token and the live sessions of the
\* client.  Its last UPDATE waits for a session that is being rotated.
ResetPassword(r) ==
  LET c == client[r] IN
  /\ op[r] = "reset"
  /\ \A s \in Sessions : owner[s] = c => Unlocked(s)
  /\ password' = [password EXCEPT ![c] = @ + 1]
  /\ state' = [x \in Rows |-> IF x = row[r] \/ (x \in Sessions /\ owner[x] = c)
                              THEN "ended" ELSE state[x]]
  /\ Accept(row[r], 0)
  /\ Finish(r)
  /\ UNCHANGED <<verified, owner, token, since>>

\* expires_at passes.  A request that has the row goes on with it.
Expire(x) ==
  /\ state[x] = "live"
  /\ Unlocked(x)
  /\ state' = [state EXCEPT ![x] = "ended"]
  /\ UNCHANGED <<password, verified, owner, token, since, accepted, requestVars>>

\* A request dies or is refused; its transaction is rolled back.
Abort(r) ==
  /\ op[r] # "idle"
  /\ Finish(r)
  /\ UNCHANGED <<password, verified, rowVars, since, accepted>>

Request(r) ==
  \/ \E c \in Clients : CheckPassword(r, c) \/ \E k \in Codes : Register(r, c, k)
  \/ \E s \in Sessions :
       CreateSession(r, s) \/ SelectSession(r, s) \/ Admit(r, s)
  \/ \E k \in Codes : IssueVerification(r, k) \/ SelectVerification(r, k)
  \/ \E x \in Resets : SelectReset(r, x)
  \/ RotateSession(r) \/ Logout(r) \/ BeginVerification(r) \/ ConsumeVerification(r)
  \/ ResetPassword(r) \/ Abort(r)

Next ==
  \/ \E r \in Requests : Request(r)
  \/ \E c \in Clients, x \in Resets : RequestPasswordReset(c, x)
  \/ \E x \in Rows : Expire(x)

Spec == Init /\ [][Next]_vars

-----------------------------------------------------------------------------

\* A token is good for one use, whatever requests present it at the same time:
\* a refresh token is exchanged once, a code and a reset link work once.
TokensAcceptedOnce == \A t \in Tokens : accepted[t] <= 1

\* A password reset ends every session of the client that was there, a session
\* that is being refreshed included: what is live was inserted since.
SurvivorsAreNewer ==
  \A s \in Sessions : state[s] = "live" => since[s] = password[owner[s]]
=============================================================================
