----------------------------- MODULE AdminLogin -----------------------------
(***************************************************************************)
(* Logging in to the dashboard, and the refresh and the end of a session.  *)
(* The limiter of failed logins is a Map of the process; one key (e-mail   *)
(* and address) of it is modelled.  Comparing a password takes time, so    *)
(* logins that run at once pass the limiter together.  Time is counted in  *)
(* units that divide the window and the block.                             *)
(***************************************************************************)
EXTENDS Naturals, FiniteSets

CONSTANTS
  Sessions, Requests, NoSession,
  Window,       \* LOGIN_WINDOW_MS
  Block,        \* LOGIN_BLOCK_MS
  MaxAttempts,  \* LOGIN_MAX_ATTEMPTS
  MaxTime,      \* bound: the clock
  MaxTokens     \* bound: refreshes

AdminLoginAssumption ==
  /\ IsFiniteSet(Requests)
  /\ {Window, Block} \subseteq Nat \ {0}
  /\ MaxAttempts \in Nat /\ MaxAttempts > 1   \* the first failure never blocks
  /\ {MaxTime, MaxTokens} \subseteq Nat
  /\ Window <= Block
  /\ NoSession \notin Sessions

VARIABLES
  now,
  attempts,   \* loginAttempts.get(key); count = 0: no entry
  session,    \* admin_sessions: [state, token], the token by its number
  doing, on,  \* of a request: its operation, its session
  issued      \* how many refresh tokens were made

vars == <<now, attempts, session, doing, on, issued>>

NoAttempt == [count |-> 0, windowStartedAt |-> 0, blockedUntil |-> 0]

TypeOK ==
  /\ now \in 0..MaxTime
  /\ attempts \in [count : Nat, windowStartedAt : 0..MaxTime, blockedUntil : 0..(MaxTime + Block)]
  /\ session \in [Sessions -> [state : {"free", "live", "ended"}, token : 0..MaxTokens]]
  /\ doing \in [Requests -> {"idle", "comparing", "opening", "rotating", "leaving"}]
  /\ on \in [Requests -> Sessions \cup {NoSession}]
  /\ issued \in 0..MaxTokens

Init ==
  /\ now = 0
  /\ attempts = NoAttempt
  /\ session = [s \in Sessions |-> [state |-> "free", token |-> 0]]
  /\ doing = [r \in Requests |-> "idle"]
  /\ on = [r \in Requests |-> NoSession]
  /\ issued = 0

Do(r, what, s) ==
  /\ doing' = [doing EXCEPT ![r] = what]
  /\ on' = [on EXCEPT ![r] = s]

WindowOver == attempts.windowStartedAt + Window <= now

\* checkLoginAttemptLimit: a login that is blocked is answered 429; an entry
\* whose window is over goes.
CheckLoginAttemptLimit(r) ==
  /\ doing[r] = "idle"
  /\ attempts.blockedUntil <= now
  /\ attempts' = IF WindowOver THEN NoAttempt ELSE attempts
  /\ Do(r, "comparing", NoSession)
  /\ UNCHANGED <<now, session, issued>>

\* Mutant: a block that is shorter than the window.
RecordFailedLoginShortBlock(r) ==
  /\ doing[r] = "comparing"
  /\ attempts' =
       IF attempts.count = 0 \/ WindowOver
       THEN [count |-> 1, windowStartedAt |-> now, blockedUntil |-> 0]
       ELSE [attempts EXCEPT !.count = @ + 1,
               !.blockedUntil = IF attempts.count + 1 >= MaxAttempts THEN now + 1 ELSE @]
  /\ Do(r, "idle", NoSession)
  /\ UNCHANGED <<now, session, issued>>

\* recordFailedLogin, after the comparison.
RecordFailedLogin(r) ==
  /\ doing[r] = "comparing"
  /\ attempts' =
       IF attempts.count = 0 \/ WindowOver
       THEN [count |-> 1, windowStartedAt |-> now, blockedUntil |-> 0]
       ELSE [attempts EXCEPT !.count = @ + 1,
               !.blockedUntil = IF attempts.count + 1 >= MaxAttempts THEN now + Block ELSE @]
  /\ Do(r, "idle", NoSession)
  /\ UNCHANGED <<now, session, issued>>

\* The password was right: the entry is cleared, and the session is inserted in
\* a later statement.
ClearFailedLogins(r) ==
  /\ doing[r] = "comparing"
  /\ attempts' = NoAttempt
  /\ Do(r, "opening", NoSession)
  /\ UNCHANGED <<now, session, issued>>

CreateAdminSession(r, s) ==
  /\ doing[r] = "opening"
  /\ session[s].state = "free"
  /\ issued < MaxTokens
  /\ issued' = issued + 1
  /\ session' = [session EXCEPT ![s] = [state |-> "live", token |-> issued']]
  /\ Do(r, "idle", NoSession)
  /\ UNCHANGED <<now, attempts>>

\* findAuthenticatedAdminByRefreshToken, for a refresh or a logout.  A token
\* that was replaced finds nothing: the logout is answered all the same.
FindByRefreshToken(r, s) ==
  /\ doing[r] = "idle"
  /\ session[s].state = "live"
  /\ Do(r, "rotating", s) \/ Do(r, "leaving", s)
  /\ UNCHANGED <<now, attempts, session, issued>>

\* Mutant: the row is written as it was found.
RotateAdminSessionRevives(r) ==
  /\ doing[r] = "rotating"
  /\ issued < MaxTokens
  /\ issued' = issued + 1
  /\ session' = [session EXCEPT ![on[r]] = [state |-> "live", token |-> issued']]
  /\ Do(r, "idle", NoSession)
  /\ UNCHANGED <<now, attempts>>

\* rotateAdminSession writes the row by its id: neither the old token nor
\* revoked_at is looked at, and two refreshes with one token both succeed.
RotateAdminSession(r) ==
  /\ doing[r] = "rotating"
  /\ issued < MaxTokens
  /\ issued' = issued + 1
  /\ session' = [session EXCEPT ![on[r]].token = issued']
  /\ Do(r, "idle", NoSession)
  /\ UNCHANGED <<now, attempts>>

RevokeAdminSession(r) ==
  /\ doing[r] = "leaving"
  /\ session' = [session EXCEPT ![on[r]].state = "ended"]
  /\ Do(r, "idle", NoSession)
  /\ UNCHANGED <<now, attempts, issued>>

Tick ==
  /\ now < MaxTime
  /\ now' = now + 1
  /\ UNCHANGED <<attempts, session, doing, on, issued>>

Request(r) ==
  \/ CheckLoginAttemptLimit(r) \/ RecordFailedLogin(r) \/ ClearFailedLogins(r)
  \/ \E s \in Sessions : CreateAdminSession(r, s) \/ FindByRefreshToken(r, s)
  \/ RotateAdminSession(r) \/ RevokeAdminSession(r)

Next == Tick \/ \E r \in Requests : Request(r)

Spec == Init /\ [][Next]_vars

-----------------------------------------------------------------------------

\* The limiter is exceeded by no more than the logins that were compared when
\* it began to block: while an entry lives, its count stays below the limit
\* plus the requests, because the block outlasts the window.
FailuresBounded == attempts.count < MaxAttempts + Cardinality(Requests)

\* A session that was logged out stays out, also when a refresh of it had
\* already found it.
LoggedOutStaysOut ==
  [][\A s \in Sessions : session[s].state = "ended" => session'[s].state = "ended"]_vars
=============================================================================
