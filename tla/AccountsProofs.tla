--------------------------- MODULE AccountsProofs ---------------------------
(***************************************************************************)
(* What the run over accounts checks, for any number of clients, requests, *)
(* roles and sessions: tokens and password resets, groups, the permission  *)
(* matrix, and the login of the staff.                                     *)
(***************************************************************************)
EXTENDS MCAccounts, TLAPS, FiniteSetTheorems

-----------------------------------------------------------------------------
(* Clients: tokens are accepted once, and a reset leaves no older session.  *)

Locks == {"rotate", "verify", "reset"}

\* What a request that does this is about; a row it has locked is live, and the
\* token of its session is the one it was sent.
Fits(what, c, x, version) ==
  /\ what \in {"idle", "open", "issue"} => x = NoRow
  /\ what \in {"api", "rotate"} => x \in Sessions
  /\ what = "verify" => x \in Codes
  /\ what = "reset" => x \in Resets
  /\ what # "idle" => c \in Clients /\ password[c] > 0
  /\ what \in Locks => state[x] = "live"
  /\ what = "rotate" => version = token[x] /\ token[x] < MaxRotations

\* A locked row has one holder; beside it there are only requests that were
\* admitted with the session.
RequestInv ==
  /\ \A r \in Requests : Fits(op[r], client[r], row[r], seen[r])
  /\ \A r, q \in Requests : r # q /\ op[r] \in Locks /\ row[q] = row[r] => op[q] = "api"

\* Only a client with an identity owns rows.
OwnerInv ==
  \A x \in Rows :
    /\ state[x] = "free" => owner[x] = NoOne
    /\ state[x] = "live" => owner[x] \in Clients
    /\ owner[x] \in Clients => password[owner[x]] > 0

\* The tokens that were accepted are those before the stored one, and the codes
\* and links that are over.
TokenInv ==
  /\ \A s \in Sessions, n \in 0..MaxRotations :
       accepted[<<s, n>>] <= 1 /\ (n >= token[s] => accepted[<<s, n>>] = 0)
  /\ \A x \in Codes \cup Resets, n \in 0..MaxRotations :
       accepted[<<x, n>>] <= 1 /\ (state[x] # "ended" => accepted[<<x, n>>] = 0)

SessionInv == TypeOK /\ RequestInv /\ OwnerInv /\ TokenInv /\ SurvivorsAreNewer

LEMMA SessionInit == Init => SessionInv
<1> SUFFICES ASSUME Init PROVE SessionInv
  OBVIOUS
<1> USE ClientSessionsAssumption DEF Init
<1>1. TypeOK
  BY DEF TypeOK, State, Op, Tokens
<1>2. RequestInv
  BY DEF RequestInv, Fits, Locks
<1>3. OwnerInv
  BY DEF OwnerInv, Rows
<1>4. TokenInv
  BY DEF TokenInv, Tokens, Rows
<1>5. SurvivorsAreNewer
  BY DEF SurvivorsAreNewer, Rows
<1> QED
  BY <1>1, <1>2, <1>3, <1>4, <1>5 DEF SessionInv

\* A request goes on to something that fits, and what the others do still fits.
LEMMA BecomeKeeps ==
  ASSUME TypeOK, RequestInv, NEW r \in Requests, NEW what \in Op, NEW c \in Clients \cup {NoOne},
         NEW x \in Rows \cup {NoRow}, NEW version \in Nat, Become(r, what, c, x, version),
         Fits(what, c, x, version)',
         \A q \in Requests \ {r} : Fits(op[q], client[q], row[q], seen[q])',
         what \in Locks => \A q \in Requests \ {r} : row[q] = x => op[q] = "api",
         \A q \in Requests \ {r} : op[q] \in Locks /\ row[q] = x => what = "api"
  PROVE  /\ RequestInv'
         /\ op' \in [Requests -> Op] /\ client' \in [Requests -> Clients \cup {NoOne}]
         /\ row' \in [Requests -> Rows \cup {NoRow}] /\ seen' \in [Requests -> Nat]
<1>1. /\ op' \in [Requests -> Op] /\ client' \in [Requests -> Clients \cup {NoOne}]
      /\ row' \in [Requests -> Rows \cup {NoRow}] /\ seen' \in [Requests -> Nat]
  BY DEF TypeOK, Become
<1>2. op'[r] = what /\ client'[r] = c /\ row'[r] = x /\ seen'[r] = version
  BY DEF TypeOK, Become
<1>3. \A q \in Requests \ {r} :
        op'[q] = op[q] /\ client'[q] = client[q] /\ row'[q] = row[q] /\ seen'[q] = seen[q]
  BY DEF TypeOK, Become
<1>4. \A q \in Requests : Fits(op[q], client[q], row[q], seen[q])'
  BY <1>2, <1>3 DEF Fits
<1>5. \A p, q \in Requests : p # q /\ op'[p] \in Locks /\ row'[q] = row'[p] => op'[q] = "api"
  BY <1>2, <1>3 DEF RequestInv
<1> QED
  BY <1>1, <1>4, <1>5 DEF RequestInv, Locks

\* A step that only a request takes part in.
LEMMA QuietStep ==
  ASSUME SessionInv, NEW r \in Requests, NEW what \in Op, NEW c \in Clients \cup {NoOne},
         NEW x \in Rows \cup {NoRow}, NEW version \in Nat, Become(r, what, c, x, version),
         Fits(what, c, x, version),
         what \in Locks => \A q \in Requests \ {r} : row[q] = x => op[q] = "api",
         \A q \in Requests \ {r} : op[q] \in Locks /\ row[q] = x => what = "api",
         UNCHANGED <<password, verified, rowVars, since, accepted>>
  PROVE  SessionInv'
<1>1. \A q \in Requests : Fits(op[q], client[q], row[q], seen[q])
  BY DEF SessionInv, RequestInv
<1>2. Fits(what, c, x, version)'
  BY DEF rowVars, Fits, Locks
<1>3. \A q \in Requests \ {r} : Fits(op[q], client[q], row[q], seen[q])'
  <2> SUFFICES ASSUME NEW q \in Requests \ {r} PROVE Fits(op[q], client[q], row[q], seen[q])'
    OBVIOUS
  <2>1. op'[q] = op[q] /\ client'[q] = client[q] /\ row'[q] = row[q] /\ seen'[q] = seen[q]
    BY DEF SessionInv, TypeOK, Become
  <2> QED
    BY <1>1, <2>1 DEF rowVars, Fits, Locks
<1>4. /\ RequestInv'
      /\ op' \in [Requests -> Op] /\ client' \in [Requests -> Clients \cup {NoOne}]
      /\ row' \in [Requests -> Rows \cup {NoRow}] /\ seen' \in [Requests -> Nat]
  BY <1>2, <1>3, BecomeKeeps DEF SessionInv
<1>5. OwnerInv' /\ TokenInv' /\ SurvivorsAreNewer'
  BY DEF SessionInv, rowVars, OwnerInv, TokenInv, SurvivorsAreNewer
<1>6. TypeOK'
  BY <1>4 DEF SessionInv, rowVars, TypeOK
<1> QED
  BY <1>4, <1>5, <1>6 DEF SessionInv

\* A row is written: it is live and belongs to the client; the codes that the
\* client had are over.
LEMMA WriteKeeps ==
  ASSUME TypeOK, NEW x \in Rows, NEW c \in Clients, Write(x, c)
  PROVE  /\ owner' \in [Rows -> Clients \cup {NoOne}] /\ state' \in [Rows -> State]
         /\ owner'[x] = c /\ state'[x] = "live"
         /\ \A y \in Rows \ {x} :
              /\ owner'[y] = owner[y]
              /\ state'[y] = IF y \in Codes /\ x \in Codes /\ owner[y] = c THEN "ended" ELSE state[y]
<1>1. owner' \in [Rows -> Clients \cup {NoOne}] /\ owner'[x] = c
      /\ \A y \in Rows \ {x} : owner'[y] = owner[y]
  BY DEF TypeOK, Write
<1>3. state'[x] = "live"
  BY DEF Write
<1>4. \A y \in Rows \ {x} :
        state'[y] = IF y \in Codes /\ x \in Codes /\ owner[y] = c THEN "ended" ELSE state[y]
  BY DEF Write
<1>5. state' = [y \in Rows |-> state'[y]]
  BY DEF Write
<1>6. \A y \in Rows : state'[y] \in State
  BY <1>3, <1>4 DEF TypeOK, State
<1> QED
  BY <1>1, <1>3, <1>4, <1>5, <1>6

\* A request does not notice a step that leaves the row it has locked alone.
LEMMA OthersFit ==
  ASSUME SessionInv, NEW q \in Requests, UNCHANGED <<op[q], client[q], row[q], seen[q]>>,
         op[q] \in Locks => state'[row[q]] = state[row[q]],
         op[q] = "rotate" => token'[row[q]] = token[row[q]],
         \A d \in Clients : password[d] > 0 => password'[d] > 0
  PROVE  Fits(op[q], client[q], row[q], seen[q])'
<1>1. Fits(op[q], client[q], row[q], seen[q])
  BY DEF SessionInv, RequestInv
<1> QED
  BY <1>1 DEF Fits, Locks

\* Who has locked a row holds it alone.
LEMMA HolderIsAlone ==
  ASSUME SessionInv, NEW r \in Requests, op[r] \in Locks
  PROVE  /\ row[r] \in Rows /\ state[row[r]] = "live"
         /\ \A q \in Requests \ {r} : row[q] = row[r] => op[q] = "api"
         /\ \A q \in Requests \ {r} : op[q] \in Locks => row[q] # row[r]
<1>1. Fits(op[r], client[r], row[r], seen[r])
  BY DEF SessionInv, RequestInv
<1>2. row[r] \in Rows /\ state[row[r]] = "live"
  BY <1>1 DEF Fits, Locks, Rows
<1> QED
  BY <1>2 DEF SessionInv, RequestInv, Locks

\* A request that ends holds nothing.
LEMMA FinishKeeps ==
  ASSUME SessionInv, NEW r \in Requests, Finish(r),
         \A q \in Requests \ {r} : Fits(op[q], client[q], row[q], seen[q])'
  PROVE  /\ RequestInv'
         /\ op' \in [Requests -> Op] /\ client' \in [Requests -> Clients \cup {NoOne}]
         /\ row' \in [Requests -> Rows \cup {NoRow}] /\ seen' \in [Requests -> Nat]
<1>1. Become(r, "idle", NoOne, NoRow, 0) /\ Fits("idle", NoOne, NoRow, 0)'
  BY DEF Finish, Fits, Locks
<1>2. \A q \in Requests \ {r} : op[q] \in Locks /\ row[q] = NoRow => FALSE
  BY HolderIsAlone, ClientSessionsAssumption DEF Rows
<1>3. "idle" \in Op /\ "idle" \notin Locks /\ 0 \in Nat
  BY DEF Op, Locks
<1> HIDE DEF Fits, Become
<1> QED
  BY <1>1, <1>2, <1>3, BecomeKeeps DEF SessionInv

LEMMA RegisterKeeps ==
  ASSUME SessionInv, NEW r \in Requests, NEW c \in Clients, NEW k \in Codes, Register(r, c, k)
  PROVE  SessionInv'
<1> USE ClientSessionsAssumption
<1>1. /\ k \in Rows /\ state[k] = "free" /\ owner[k] = NoOne /\ Write(k, c)
      /\ password[c] = 0 /\ password' = [password EXCEPT ![c] = 1]
      /\ UNCHANGED <<verified, token, since, accepted>>
  BY DEF Register, Rows, SessionInv, OwnerInv
<1>2. /\ password' \in [Clients -> Nat] /\ password'[c] = 1
      /\ \A d \in Clients \ {c} : password'[d] = password[d]
  BY <1>1 DEF SessionInv, TypeOK
<1>3. \A y \in Rows : owner[y] # c
  BY <1>1 DEF SessionInv, OwnerInv
<1>4. /\ owner' \in [Rows -> Clients \cup {NoOne}] /\ state' \in [Rows -> State]
      /\ owner'[k] = c /\ state'[k] = "live"
      /\ \A y \in Rows \ {k} : owner'[y] = owner[y] /\ state'[y] = state[y]
  BY <1>1, <1>3, WriteKeeps DEF SessionInv
<1>5. \A q \in Requests \ {r} : Fits(op[q], client[q], row[q], seen[q])'
  <2> SUFFICES ASSUME NEW q \in Requests \ {r} PROVE Fits(op[q], client[q], row[q], seen[q])'
    OBVIOUS
  <2>1. UNCHANGED <<op[q], client[q], row[q], seen[q]>>
    BY DEF SessionInv, TypeOK, Register, Become
  <2>2. op[q] \in Locks => state'[row[q]] = state[row[q]]
    BY <1>1, <1>4, HolderIsAlone
  <2>3. \A d \in Clients : password[d] > 0 => password'[d] > 0
    BY <1>2
  <2> QED
    BY <1>1, <2>1, <2>2, <2>3, OthersFit
<1>6. Become(r, "open", c, NoRow, 1) /\ Fits("open", c, NoRow, 1)'
  BY <1>2 DEF Register, Fits, Locks
<1>7. \A q \in Requests \ {r} : op[q] \in Locks /\ row[q] = NoRow => FALSE
  BY DEF SessionInv, RequestInv, Fits, Locks
<1>8. /\ RequestInv'
      /\ op' \in [Requests -> Op] /\ client' \in [Requests -> Clients \cup {NoOne}]
      /\ row' \in [Requests -> Rows \cup {NoRow}] /\ seen' \in [Requests -> Nat]
  BY <1>5, <1>6, <1>7, BecomeKeeps DEF SessionInv, Op, Locks
<1>9. OwnerInv'
  BY <1>1, <1>2, <1>4 DEF SessionInv, OwnerInv, TypeOK
<1>10. TokenInv'
  BY <1>1, <1>4 DEF SessionInv, TokenInv, Rows
<1>11. SurvivorsAreNewer'
  <2> SUFFICES ASSUME NEW s \in Sessions, state'[s] = "live" PROVE since'[s] = password'[owner'[s]]
    BY DEF SurvivorsAreNewer
  <2>1. s \in Rows \ {k}
    BY DEF Rows
  <2>2. owner'[s] = owner[s] /\ state[s] = "live" /\ owner[s] \in Clients \ {c}
    BY <1>3, <1>4, <2>1 DEF SessionInv, OwnerInv, TypeOK
  <2> QED
    BY <1>1, <1>2, <2>2 DEF SessionInv, SurvivorsAreNewer
<1>12. TypeOK'
  BY <1>1, <1>2, <1>4, <1>8 DEF SessionInv, TypeOK
<1> QED
  BY <1>8, <1>9, <1>10, <1>11, <1>12 DEF SessionInv

LEMMA CreateSessionKeeps ==
  ASSUME SessionInv, NEW r \in Requests, NEW s \in Sessions, CreateSession(r, s)
  PROVE  SessionInv'
<1> USE ClientSessionsAssumption
<1> DEFINE c == client[r]
<1>1. c \in Clients /\ password[c] > 0
  BY DEF SessionInv, RequestInv, Fits, CreateSession
<1>2. /\ s \in Rows /\ state[s] = "free" /\ Write(s, c) /\ Finish(r)
      /\ since' = [since EXCEPT ![s] = password[c]]
      /\ UNCHANGED <<password, verified, token, accepted>>
  BY DEF CreateSession, Rows
<1>3. /\ owner' \in [Rows -> Clients \cup {NoOne}] /\ state' \in [Rows -> State]
      /\ owner'[s] = c /\ state'[s] = "live"
      /\ \A y \in Rows \ {s} : owner'[y] = owner[y] /\ state'[y] = state[y]
  BY <1>1, <1>2, WriteKeeps DEF SessionInv
<1>4. \A q \in Requests \ {r} : Fits(op[q], client[q], row[q], seen[q])'
  <2> SUFFICES ASSUME NEW q \in Requests \ {r} PROVE Fits(op[q], client[q], row[q], seen[q])'
    OBVIOUS
  <2>1. UNCHANGED <<op[q], client[q], row[q], seen[q]>>
    BY <1>2 DEF SessionInv, TypeOK, Finish, Become
  <2>2. op[q] \in Locks => state'[row[q]] = state[row[q]]
    BY <1>2, <1>3, HolderIsAlone
  <2> QED
    BY <1>2, <2>1, <2>2, OthersFit
<1>5. /\ RequestInv'
      /\ op' \in [Requests -> Op] /\ client' \in [Requests -> Clients \cup {NoOne}]
      /\ row' \in [Requests -> Rows \cup {NoRow}] /\ seen' \in [Requests -> Nat]
  BY <1>2, <1>4, FinishKeeps
<1>6. OwnerInv'
  BY <1>1, <1>2, <1>3 DEF SessionInv, OwnerInv, TypeOK
<1>7. TokenInv'
  BY <1>2, <1>3 DEF SessionInv, TokenInv, Rows
<1>8. SurvivorsAreNewer'
  BY <1>2, <1>3 DEF SessionInv, SurvivorsAreNewer, TypeOK, Rows
<1>9. TypeOK'
  BY <1>1, <1>2, <1>3, <1>5 DEF SessionInv, TypeOK
<1> QED
  BY <1>5, <1>6, <1>7, <1>8, <1>9 DEF SessionInv

LEMMA RotateSessionKeeps ==
  ASSUME SessionInv, NEW r \in Requests, RotateSession(r) PROVE SessionInv'
<1> USE ClientSessionsAssumption
<1> DEFINE s == row[r]
           n == seen[r]
<1>1. s \in Sessions /\ n = token[s] /\ n \in 0..MaxRotations /\ n + 1 \in 0..MaxRotations
  BY DEF SessionInv, TypeOK, RequestInv, Fits, Locks, RotateSession
<1>2. /\ token' = [token EXCEPT ![s] = @ + 1] /\ accepted' = [accepted EXCEPT ![<<s, n>>] = @ + 1]
      /\ Finish(r) /\ op[r] \in Locks
      /\ UNCHANGED <<password, verified, owner, state, since>>
  BY DEF RotateSession, Accept, Locks
<1>3. token' \in [Sessions -> 0..MaxRotations] /\ accepted' \in [Tokens -> Nat]
  BY <1>1, <1>2 DEF SessionInv, TypeOK, Tokens, Rows
<1>4. \A q \in Requests \ {r} : Fits(op[q], client[q], row[q], seen[q])'
  <2> SUFFICES ASSUME NEW q \in Requests \ {r} PROVE Fits(op[q], client[q], row[q], seen[q])'
    OBVIOUS
  <2>1. UNCHANGED <<op[q], client[q], row[q], seen[q]>>
    BY <1>2 DEF SessionInv, TypeOK, Finish, Become
  <2>2. op[q] = "rotate" => row[q] \in Sessions \ {s}
    <3>1. op[q] = "rotate" => op[q] \in Locks /\ row[q] \in Sessions
      BY DEF SessionInv, RequestInv, Fits, Locks
    <3> QED
      BY <1>2, <3>1, HolderIsAlone
  <2>3. op[q] = "rotate" => token'[row[q]] = token[row[q]]
    BY <1>2, <2>2 DEF SessionInv, TypeOK
  <2> QED
    BY <1>2, <2>1, <2>3, OthersFit
<1>5. /\ RequestInv'
      /\ op' \in [Requests -> Op] /\ client' \in [Requests -> Clients \cup {NoOne}]
      /\ row' \in [Requests -> Rows \cup {NoRow}] /\ seen' \in [Requests -> Nat]
  BY <1>2, <1>4, FinishKeeps
<1>6. OwnerInv' /\ SurvivorsAreNewer'
  BY <1>2 DEF SessionInv, OwnerInv, SurvivorsAreNewer
<1>7. TokenInv'
  <2>1. accepted[<<s, n>>] = 0
    BY <1>1 DEF SessionInv, TokenInv
  <2>2. \A x \in Rows, m \in 0..MaxRotations :
          accepted'[<<x, m>>] = IF x = s /\ m = n THEN 1 ELSE accepted[<<x, m>>]
    BY <1>1, <1>2, <2>1 DEF SessionInv, TypeOK, Tokens, Rows
  <2>3. \A t \in Sessions : token'[t] = IF t = s THEN n + 1 ELSE token[t]
    BY <1>1, <1>2 DEF SessionInv, TypeOK
  <2>4. \A t \in Sessions, m \in 0..MaxRotations :
          accepted'[<<t, m>>] <= 1 /\ (m >= token'[t] => accepted'[<<t, m>>] = 0)
    <3> SUFFICES ASSUME NEW t \in Sessions, NEW m \in 0..MaxRotations
                 PROVE  accepted'[<<t, m>>] <= 1 /\ (m >= token'[t] => accepted'[<<t, m>>] = 0)
      OBVIOUS
    <3>1. accepted[<<t, m>>] <= 1 /\ (m >= token[t] => accepted[<<t, m>>] = 0)
      BY DEF SessionInv, TokenInv
    <3>2. accepted'[<<t, m>>] = IF t = s /\ m = n THEN 1 ELSE accepted[<<t, m>>]
      BY <2>2 DEF Rows
    <3>3. token[t] \in Int /\ n \in Int
      BY <1>1 DEF SessionInv, TypeOK
    <3> QED
      BY <1>1, <2>3, <3>1, <3>2, <3>3
  <2>5. \A x \in Codes \cup Resets, m \in 0..MaxRotations :
          accepted'[<<x, m>>] <= 1 /\ (state'[x] # "ended" => accepted'[<<x, m>>] = 0)
    <3> SUFFICES ASSUME NEW x \in Codes \cup Resets, NEW m \in 0..MaxRotations
                 PROVE  accepted'[<<x, m>>] <= 1 /\ (state'[x] # "ended" => accepted'[<<x, m>>] = 0)
      OBVIOUS
    <3>1. x # s /\ x \in Rows
      BY <1>1 DEF Rows
    <3>2. accepted'[<<x, m>>] = accepted[<<x, m>>]
      BY <2>2, <3>1
    <3> QED
      BY <1>2, <3>2 DEF SessionInv, TokenInv
  <2> QED
    BY <2>4, <2>5 DEF TokenInv
<1>8. TypeOK'
  BY <1>2, <1>3, <1>5 DEF SessionInv, TypeOK
<1> QED
  BY <1>5, <1>6, <1>7, <1>8 DEF SessionInv

\* A row that no transaction has locked expires, or is logged out.
LEMMA EndingKeeps ==
  ASSUME SessionInv, NEW x \in Rows, Unlocked(x), state' = [state EXCEPT ![x] = "ended"],
         UNCHANGED <<password, verified, owner, token, since, accepted>>
  PROVE  /\ OwnerInv' /\ TokenInv' /\ SurvivorsAreNewer' /\ state' \in [Rows -> State]
         /\ \A q \in Requests : op[q] \in Locks => state'[row[q]] = state[row[q]]
<1>1. state' \in [Rows -> State] /\ state'[x] = "ended" /\ \A y \in Rows \ {x} : state'[y] = state[y]
  BY DEF SessionInv, TypeOK, State
<1>2. \A q \in Requests : op[q] \in Locks => state'[row[q]] = state[row[q]]
  BY <1>1, HolderIsAlone DEF Unlocked, Locks
<1>3. OwnerInv' /\ SurvivorsAreNewer'
  BY <1>1 DEF SessionInv, OwnerInv, SurvivorsAreNewer, Rows
<1>4. TokenInv'
  BY <1>1 DEF SessionInv, TokenInv, Rows
<1> QED
  BY <1>1, <1>2, <1>3, <1>4

LEMMA LogoutKeeps ==
  ASSUME SessionInv, NEW r \in Requests, Logout(r) PROVE SessionInv'
<1>1. row[r] \in Rows
  BY DEF SessionInv, RequestInv, Fits, Logout, Rows
<1>2. /\ Unlocked(row[r]) /\ state' = [state EXCEPT ![row[r]] = "ended"] /\ Finish(r)
      /\ UNCHANGED <<password, verified, owner, token, since, accepted>>
  BY DEF Logout
<1>3. /\ OwnerInv' /\ TokenInv' /\ SurvivorsAreNewer' /\ state' \in [Rows -> State]
      /\ \A q \in Requests : op[q] \in Locks => state'[row[q]] = state[row[q]]
  BY <1>1, <1>2, EndingKeeps
<1>4. \A q \in Requests \ {r} : Fits(op[q], client[q], row[q], seen[q])'
  <2> SUFFICES ASSUME NEW q \in Requests \ {r} PROVE Fits(op[q], client[q], row[q], seen[q])'
    OBVIOUS
  <2>1. UNCHANGED <<op[q], client[q], row[q], seen[q]>>
    BY <1>2 DEF SessionInv, TypeOK, Finish, Become
  <2> QED
    BY <1>2, <1>3, <2>1, OthersFit
<1>5. /\ RequestInv'
      /\ op' \in [Requests -> Op] /\ client' \in [Requests -> Clients \cup {NoOne}]
      /\ row' \in [Requests -> Rows \cup {NoRow}] /\ seen' \in [Requests -> Nat]
  BY <1>2, <1>4, FinishKeeps
<1>6. TypeOK'
  BY <1>2, <1>3, <1>5 DEF SessionInv, TypeOK
<1> QED
  BY <1>3, <1>5, <1>6 DEF SessionInv

LEMMA ExpireKeeps ==
  ASSUME SessionInv, NEW x \in Rows, Expire(x) PROVE SessionInv'
<1>1. /\ OwnerInv' /\ TokenInv' /\ SurvivorsAreNewer' /\ state' \in [Rows -> State]
      /\ \A q \in Requests : op[q] \in Locks => state'[row[q]] = state[row[q]]
  BY EndingKeeps DEF Expire
<1>2. UNCHANGED <<password, verified, owner, token, since, accepted, op, client, row, seen>>
  BY DEF Expire, requestVars
<1>3. \A q \in Requests : Fits(op[q], client[q], row[q], seen[q])'
  BY <1>1, <1>2, OthersFit
<1>4. RequestInv'
  BY <1>2, <1>3 DEF SessionInv, RequestInv
<1>5. TypeOK'
  BY <1>1, <1>2 DEF SessionInv, TypeOK
<1> QED
  BY <1>1, <1>4, <1>5 DEF SessionInv

LEMMA IssueVerificationKeeps ==
  ASSUME SessionInv, NEW r \in Requests, NEW k \in Codes, IssueVerification(r, k)
  PROVE  SessionInv'
<1> USE ClientSessionsAssumption
<1> DEFINE c == client[r]
<1>1. c \in Clients /\ password[c] > 0
  BY DEF SessionInv, RequestInv, Fits, IssueVerification
<1>2. /\ k \in Rows /\ state[k] = "free" /\ Write(k, c) /\ Finish(r)
      /\ \A x \in Codes : owner[x] = c => Unlocked(x)
      /\ UNCHANGED <<password, verified, token, since, accepted>>
  BY DEF IssueVerification, Rows
<1>3. /\ owner' \in [Rows -> Clients \cup {NoOne}] /\ state' \in [Rows -> State]
      /\ owner'[k] = c /\ state'[k] = "live"
      /\ \A y \in Rows \ {k} : /\ owner'[y] = owner[y]
                               /\ state'[y] = IF y \in Codes /\ owner[y] = c THEN "ended" ELSE state[y]
  BY <1>1, <1>2, WriteKeeps DEF SessionInv
<1>4. \A q \in Requests \ {r} : Fits(op[q], client[q], row[q], seen[q])'
  <2> SUFFICES ASSUME NEW q \in Requests \ {r} PROVE Fits(op[q], client[q], row[q], seen[q])'
    OBVIOUS
  <2>1. UNCHANGED <<op[q], client[q], row[q], seen[q]>>
    BY <1>2 DEF SessionInv, TypeOK, Finish, Become
  <2>2. op[q] \in Locks => row[q] \in Rows \ {k} /\ ~(row[q] \in Codes /\ owner[row[q]] = c)
    BY <1>2, HolderIsAlone DEF Unlocked, Locks
  <2>3. op[q] \in Locks => state'[row[q]] = state[row[q]]
    BY <1>3, <2>2
  <2> QED
    BY <1>2, <2>1, <2>3, OthersFit
<1>5. /\ RequestInv'
      /\ op' \in [Requests -> Op] /\ client' \in [Requests -> Clients \cup {NoOne}]
      /\ row' \in [Requests -> Rows \cup {NoRow}] /\ seen' \in [Requests -> Nat]
  BY <1>2, <1>4, FinishKeeps
<1>6. OwnerInv'
  BY <1>1, <1>2, <1>3 DEF SessionInv, OwnerInv, TypeOK
<1>7. TokenInv'
  BY <1>2, <1>3 DEF SessionInv, TokenInv, Rows
<1>8. SurvivorsAreNewer'
  BY <1>2, <1>3 DEF SessionInv, SurvivorsAreNewer, TypeOK, Rows
<1>9. TypeOK'
  BY <1>1, <1>2, <1>3, <1>5 DEF SessionInv, TypeOK
<1> QED
  BY <1>5, <1>6, <1>7, <1>8, <1>9 DEF SessionInv

LEMMA RequestPasswordResetKeeps ==
  ASSUME SessionInv, NEW c \in Clients, NEW x \in Resets, RequestPasswordReset(c, x)
  PROVE  SessionInv'
<1> USE ClientSessionsAssumption
<1>1. /\ x \in Rows /\ state[x] = "free" /\ Write(x, c) /\ password[c] > 0
      /\ UNCHANGED <<password, verified, token, since, accepted, op, client, row, seen>>
  BY DEF RequestPasswordReset, Rows, requestVars
<1>2. /\ owner' \in [Rows -> Clients \cup {NoOne}] /\ state' \in [Rows -> State]
      /\ owner'[x] = c /\ state'[x] = "live"
      /\ \A y \in Rows \ {x} : owner'[y] = owner[y] /\ state'[y] = state[y]
  BY <1>1, WriteKeeps DEF SessionInv
<1>3. \A q \in Requests : Fits(op[q], client[q], row[q], seen[q])'
  <2> SUFFICES ASSUME NEW q \in Requests PROVE Fits(op[q], client[q], row[q], seen[q])'
    OBVIOUS
  <2>1. op[q] \in Locks => state'[row[q]] = state[row[q]]
    BY <1>1, <1>2, HolderIsAlone
  <2> QED
    BY <1>1, <2>1, OthersFit
<1>4. RequestInv'
  BY <1>1, <1>3 DEF SessionInv, RequestInv
<1>5. OwnerInv'
  BY <1>1, <1>2 DEF SessionInv, OwnerInv, TypeOK
<1>6. TokenInv'
  BY <1>1, <1>2 DEF SessionInv, TokenInv, Rows
<1>7. SurvivorsAreNewer'
  BY <1>1, <1>2 DEF SessionInv, SurvivorsAreNewer, TypeOK, Rows
<1>8. TypeOK'
  BY <1>1, <1>2 DEF SessionInv, TypeOK
<1> QED
  BY <1>4, <1>5, <1>6, <1>7, <1>8 DEF SessionInv

\* A code or a link that was locked is accepted, and is over.
LEMMA AcceptKeeps ==
  ASSUME SessionInv, NEW x \in Codes \cup Resets, Accept(x, 0), state[x] = "live", state'[x] = "ended",
         \A y \in Rows : state[y] = "ended" => state'[y] = "ended",
         \A y \in Codes \cup Resets : state'[y] # "ended" => state[y] # "ended",
         UNCHANGED token
  PROVE  TokenInv' /\ accepted' \in [Tokens -> Nat]
<1> USE ClientSessionsAssumption
<1>1. x \in Rows /\ x \notin Sessions /\ 0 \in 0..MaxRotations /\ <<x, 0>> \in Tokens
  BY DEF Rows, Tokens
<1>2. accepted' \in [Tokens -> Nat]
  BY <1>1 DEF Accept, SessionInv, TypeOK
<1>3. accepted[<<x, 0>>] = 0
  BY <1>1 DEF SessionInv, TokenInv
<1>4. \A y \in Rows, m \in 0..MaxRotations :
        accepted'[<<y, m>>] = IF y = x /\ m = 0 THEN 1 ELSE accepted[<<y, m>>]
  BY <1>1, <1>3 DEF Accept, SessionInv, TypeOK, Tokens
<1>5. \A s \in Sessions, n \in 0..MaxRotations : accepted'[<<s, n>>] = accepted[<<s, n>>]
  BY <1>1, <1>4 DEF Rows
<1>6. \A y \in Codes \cup Resets, n \in 0..MaxRotations :
        accepted'[<<y, n>>] <= 1 /\ (state'[y] # "ended" => accepted'[<<y, n>>] = 0)
  <2> SUFFICES ASSUME NEW y \in Codes \cup Resets, NEW n \in 0..MaxRotations
               PROVE  accepted'[<<y, n>>] <= 1 /\ (state'[y] # "ended" => accepted'[<<y, n>>] = 0)
    OBVIOUS
  <2>1. accepted[<<y, n>>] <= 1 /\ (state[y] # "ended" => accepted[<<y, n>>] = 0)
    BY DEF SessionInv, TokenInv
  <2>2. accepted'[<<y, n>>] = IF y = x /\ n = 0 THEN 1 ELSE accepted[<<y, n>>]
    BY <1>4 DEF Rows
  <2> QED
    BY <2>1, <2>2
<1> QED
  BY <1>2, <1>5, <1>6 DEF SessionInv, TokenInv

LEMMA ConsumeVerificationKeeps ==
  ASSUME SessionInv, NEW r \in Requests, ConsumeVerification(r) PROVE SessionInv'
<1> USE ClientSessionsAssumption
<1> DEFINE k == row[r]
<1>1. k \in Codes /\ k \in Rows /\ k \notin Sessions /\ client[r] \in Clients
  BY DEF SessionInv, RequestInv, Fits, ConsumeVerification, Rows
<1>2. /\ op[r] \in Locks /\ state' = [state EXCEPT ![k] = "ended"] /\ Finish(r) /\ Accept(k, 0)
      /\ verified' = verified \cup {client[r]}
      /\ UNCHANGED <<password, owner, token, since>>
  BY DEF ConsumeVerification, Locks
<1>3. state[k] = "live" /\ \A q \in Requests \ {r} : op[q] \in Locks => row[q] # k
  BY <1>2, HolderIsAlone
<1>4. state' \in [Rows -> State] /\ state'[k] = "ended" /\ \A y \in Rows \ {k} : state'[y] = state[y]
  BY <1>1, <1>2 DEF SessionInv, TypeOK, State
<1>5. \A q \in Requests \ {r} : Fits(op[q], client[q], row[q], seen[q])'
  <2> SUFFICES ASSUME NEW q \in Requests \ {r} PROVE Fits(op[q], client[q], row[q], seen[q])'
    OBVIOUS
  <2>1. UNCHANGED <<op[q], client[q], row[q], seen[q]>>
    BY <1>2 DEF SessionInv, TypeOK, Finish, Become
  <2>2. op[q] \in Locks => state'[row[q]] = state[row[q]]
    BY <1>3, <1>4, HolderIsAlone
  <2> QED
    BY <1>2, <2>1, <2>2, OthersFit
<1>6. /\ RequestInv'
      /\ op' \in [Requests -> Op] /\ client' \in [Requests -> Clients \cup {NoOne}]
      /\ row' \in [Requests -> Rows \cup {NoRow}] /\ seen' \in [Requests -> Nat]
  BY <1>2, <1>5, FinishKeeps
<1>7. TokenInv' /\ accepted' \in [Tokens -> Nat]
  BY <1>1, <1>2, <1>3, <1>4, AcceptKeeps DEF Rows
<1>8. OwnerInv' /\ SurvivorsAreNewer'
  BY <1>1, <1>2, <1>3, <1>4 DEF SessionInv, OwnerInv, SurvivorsAreNewer, Rows
<1>9. TypeOK'
  BY <1>1, <1>2, <1>4, <1>6, <1>7 DEF SessionInv, TypeOK
<1> QED
  BY <1>6, <1>7, <1>8, <1>9 DEF SessionInv

\* The sessions that the client had are over; the locks that the last statement
\* waits for keep a session that is being refreshed from outliving it.
LEMMA ResetPasswordKeeps ==
  ASSUME SessionInv, NEW r \in Requests, ResetPassword(r) PROVE SessionInv'
<1> USE ClientSessionsAssumption
<1> DEFINE x == row[r]
           c == client[r]
<1>1. x \in Resets /\ x \in Rows /\ x \notin Sessions /\ c \in Clients /\ password[c] > 0
  BY DEF SessionInv, RequestInv, Fits, ResetPassword, Rows
<1>2. /\ op[r] \in Locks /\ Finish(r) /\ Accept(x, 0)
      /\ \A s \in Sessions : owner[s] = c => Unlocked(s)
      /\ password' = [password EXCEPT ![c] = @ + 1]
      /\ UNCHANGED <<verified, owner, token, since>>
  BY DEF ResetPassword, Locks
<1>3. state[x] = "live" /\ \A q \in Requests \ {r} : op[q] \in Locks => row[q] # x
  BY <1>2, HolderIsAlone
<1>4. /\ state' \in [Rows -> State] /\ state'[x] = "ended"
      /\ \A y \in Rows \ {x} :
           state'[y] = IF y \in Sessions /\ owner[y] = c THEN "ended" ELSE state[y]
  <2>1. state' = [y \in Rows |-> IF y = x \/ (y \in Sessions /\ owner[y] = c) THEN "ended" ELSE state[y]]
    BY DEF ResetPassword
  <2> QED
    BY <1>1, <2>1 DEF SessionInv, TypeOK, State
<1>5. /\ password' \in [Clients -> Nat] /\ password'[c] > 0
      /\ \A d \in Clients \ {c} : password'[d] = password[d]
  BY <1>1, <1>2 DEF SessionInv, TypeOK
<1>6. \A q \in Requests \ {r} : Fits(op[q], client[q], row[q], seen[q])'
  <2> SUFFICES ASSUME NEW q \in Requests \ {r} PROVE Fits(op[q], client[q], row[q], seen[q])'
    OBVIOUS
  <2>1. UNCHANGED <<op[q], client[q], row[q], seen[q]>>
    BY <1>2 DEF SessionInv, TypeOK, Finish, Become
  <2>2. op[q] \in Locks => row[q] \in Rows \ {x} /\ ~(row[q] \in Sessions /\ owner[row[q]] = c)
    BY <1>2, <1>3, HolderIsAlone DEF Unlocked, Locks
  <2>3. op[q] \in Locks => state'[row[q]] = state[row[q]]
    BY <1>4, <2>2
  <2> QED
    BY <1>2, <1>5, <2>1, <2>3, OthersFit
<1>7. /\ RequestInv'
      /\ op' \in [Requests -> Op] /\ client' \in [Requests -> Clients \cup {NoOne}]
      /\ row' \in [Requests -> Rows \cup {NoRow}] /\ seen' \in [Requests -> Nat]
  BY <1>2, <1>6, FinishKeeps
<1>8. TokenInv' /\ accepted' \in [Tokens -> Nat]
  BY <1>1, <1>2, <1>3, <1>4, AcceptKeeps DEF Rows
<1>9. OwnerInv'
  BY <1>1, <1>2, <1>3, <1>4, <1>5 DEF SessionInv, OwnerInv, TypeOK
<1>10. SurvivorsAreNewer'
  <2> SUFFICES ASSUME NEW s \in Sessions, state'[s] = "live" PROVE since'[s] = password'[owner'[s]]
    BY DEF SurvivorsAreNewer
  <2>1. s \in Rows \ {x} /\ owner[s] # c /\ state[s] = "live"
    BY <1>1, <1>4 DEF Rows
  <2>2. owner[s] \in Clients
    BY <2>1 DEF SessionInv, OwnerInv
  <2> QED
    BY <1>2, <1>5, <2>1, <2>2 DEF SessionInv, SurvivorsAreNewer
<1>11. TypeOK'
  BY <1>2, <1>4, <1>5, <1>7, <1>8 DEF SessionInv, TypeOK
<1> QED
  BY <1>7, <1>8, <1>9, <1>10, <1>11 DEF SessionInv

\* What a request does between its statements that write.
LEMMA CheckPasswordKeeps ==
  ASSUME SessionInv, NEW r \in Requests, NEW c \in Clients, CheckPassword(r, c) PROVE SessionInv'
<1>1. "open" \in Op /\ "open" \notin Locks /\ password[c] \in Nat /\ NoRow \in Rows \cup {NoRow}
  BY DEF Op, Locks, SessionInv, TypeOK
<1>2. Fits("open", c, NoRow, password[c])
  BY DEF Fits, Locks, CheckPassword
<1>3. \A q \in Requests \ {r} : op[q] \in Locks /\ row[q] = NoRow => "open" = "api"
  BY HolderIsAlone, ClientSessionsAssumption DEF Rows
<1>4. /\ Become(r, "open", c, NoRow, password[c])
      /\ UNCHANGED <<password, verified, rowVars, since, accepted>>
  BY DEF CheckPassword
<1> HIDE DEF Fits, Become
<1> QED
  BY <1>1, <1>2, <1>3, <1>4, QuietStep

LEMMA SelectSessionKeeps ==
  ASSUME SessionInv, NEW r \in Requests, NEW s \in Sessions, SelectSession(r, s) PROVE SessionInv'
<1>1. /\ "rotate" \in Op /\ owner[s] \in Clients /\ password[owner[s]] > 0 /\ s \in Rows
      /\ token[s] \in Nat
  BY DEF Op, SessionInv, TypeOK, OwnerInv, SelectSession, Rows
<1>2. Fits("rotate", owner[s], s, token[s])
  BY <1>1 DEF Fits, Locks, SelectSession
<1>3. \A q \in Requests \ {r} : row[q] = s => op[q] = "api"
  BY DEF SelectSession, Unlocked
<1>4. /\ Become(r, "rotate", owner[s], s, token[s])
      /\ UNCHANGED <<password, verified, rowVars, since, accepted>>
  BY DEF SelectSession
<1>5. "api" \notin Locks
  BY DEF Locks
<1> HIDE DEF Fits, Become
<1> QED
  BY <1>1, <1>2, <1>3, <1>4, <1>5, QuietStep

LEMMA AdmitKeeps ==
  ASSUME SessionInv, NEW r \in Requests, NEW s \in Sessions, Admit(r, s) PROVE SessionInv'
<1>1. "api" \in Op /\ owner[s] \in Clients /\ password[owner[s]] > 0 /\ s \in Rows /\ "api" \notin Locks
  BY DEF Op, SessionInv, OwnerInv, Admit, Rows, Locks
<1>2. Fits("api", owner[s], s, 0)
  BY <1>1 DEF Fits, Locks
<1>4. /\ Become(r, "api", owner[s], s, 0)
      /\ UNCHANGED <<password, verified, rowVars, since, accepted>>
  BY DEF Admit
<1> HIDE DEF Fits, Become
<1> QED
  BY <1>1, <1>2, <1>4, QuietStep

LEMMA BeginVerificationKeeps ==
  ASSUME SessionInv, NEW r \in Requests, BeginVerification(r) PROVE SessionInv'
<1>1. "issue" \in Op /\ client[r] \in Clients /\ password[client[r]] > 0 /\ "issue" \notin Locks
  BY DEF Op, SessionInv, RequestInv, Fits, BeginVerification, Locks
<1>2. Fits("issue", client[r], NoRow, 0)
  BY <1>1 DEF Fits, Locks
<1>3. \A q \in Requests \ {r} : op[q] \in Locks /\ row[q] = NoRow => "issue" = "api"
  BY HolderIsAlone, ClientSessionsAssumption DEF Rows
<1>4. /\ Become(r, "issue", client[r], NoRow, 0)
      /\ UNCHANGED <<password, verified, rowVars, since, accepted>>
  BY DEF BeginVerification
<1> HIDE DEF Fits, Become
<1> QED
  BY <1>1, <1>2, <1>3, <1>4, QuietStep

LEMMA SelectVerificationKeeps ==
  ASSUME SessionInv, NEW r \in Requests, NEW k \in Codes, SelectVerification(r, k) PROVE SessionInv'
<1>1. "verify" \in Op /\ client[r] \in Clients /\ password[client[r]] > 0 /\ k \in Rows
  BY DEF Op, SessionInv, RequestInv, Fits, SelectVerification, Rows
<1>2. Fits("verify", client[r], k, 0)
  BY <1>1 DEF Fits, Locks, SelectVerification
<1>3. \A q \in Requests \ {r} : row[q] = k => op[q] = "api"
  BY DEF SelectVerification, Unlocked
<1>4. /\ Become(r, "verify", client[r], k, 0)
      /\ UNCHANGED <<password, verified, rowVars, since, accepted>>
  BY DEF SelectVerification
<1>5. "api" \notin Locks
  BY DEF Locks
<1> HIDE DEF Fits, Become
<1> QED
  BY <1>1, <1>2, <1>3, <1>4, <1>5, QuietStep

LEMMA SelectResetKeeps ==
  ASSUME SessionInv, NEW r \in Requests, NEW x \in Resets, SelectReset(r, x) PROVE SessionInv'
<1>1. "reset" \in Op /\ owner[x] \in Clients /\ password[owner[x]] > 0 /\ x \in Rows
  BY DEF Op, SessionInv, OwnerInv, SelectReset, Rows
<1>2. Fits("reset", owner[x], x, 0)
  BY <1>1 DEF Fits, Locks, SelectReset
<1>3. \A q \in Requests \ {r} : row[q] = x => op[q] = "api"
  BY DEF SelectReset, Unlocked
<1>4. /\ Become(r, "reset", owner[x], x, 0)
      /\ UNCHANGED <<password, verified, rowVars, since, accepted>>
  BY DEF SelectReset
<1>5. "api" \notin Locks
  BY DEF Locks
<1> HIDE DEF Fits, Become
<1> QED
  BY <1>1, <1>2, <1>3, <1>4, <1>5, QuietStep

LEMMA AbortKeeps ==
  ASSUME SessionInv, NEW r \in Requests, Abort(r) PROVE SessionInv'
<1>1. "idle" \in Op /\ "idle" \notin Locks
  BY DEF Op, Locks
<1>2. Fits("idle", NoOne, NoRow, 0)
  BY DEF Fits, Locks
<1>3. \A q \in Requests \ {r} : op[q] \in Locks /\ row[q] = NoRow => "idle" = "api"
  BY HolderIsAlone, ClientSessionsAssumption DEF Rows
<1>4. /\ Become(r, "idle", NoOne, NoRow, 0)
      /\ UNCHANGED <<password, verified, rowVars, since, accepted>>
  BY DEF Abort, Finish
<1> HIDE DEF Fits, Become
<1> QED
  BY <1>1, <1>2, <1>3, <1>4, QuietStep

LEMMA SessionStep == SessionInv /\ [Next]_vars => SessionInv'
<1> SUFFICES ASSUME SessionInv, [Next]_vars PROVE SessionInv'
  OBVIOUS
<1>1. ASSUME NEW r \in Requests, Request(r) PROVE SessionInv'
  <2>1. ASSUME NEW c \in Clients, CheckPassword(r, c) \/ \E k \in Codes : Register(r, c, k)
        PROVE  SessionInv'
    BY <2>1, CheckPasswordKeeps, RegisterKeeps
  <2>2. ASSUME NEW s \in Sessions, CreateSession(r, s) \/ SelectSession(r, s) \/ Admit(r, s)
        PROVE  SessionInv'
    BY <2>2, CreateSessionKeeps, SelectSessionKeeps, AdmitKeeps
  <2>3. ASSUME NEW k \in Codes, IssueVerification(r, k) \/ SelectVerification(r, k)
        PROVE  SessionInv'
    BY <2>3, IssueVerificationKeeps, SelectVerificationKeeps
  <2>4. ASSUME NEW x \in Resets, SelectReset(r, x) PROVE SessionInv'
    BY <2>4, SelectResetKeeps
  <2>5. ASSUME \/ RotateSession(r) \/ Logout(r) \/ BeginVerification(r) \/ ConsumeVerification(r)
               \/ ResetPassword(r) \/ Abort(r)
        PROVE  SessionInv'
    BY <2>5, RotateSessionKeeps, LogoutKeeps, BeginVerificationKeeps, ConsumeVerificationKeeps,
       ResetPasswordKeeps, AbortKeeps
  <2> QED
    BY <1>1, <2>1, <2>2, <2>3, <2>4, <2>5 DEF Request
<1>2. ASSUME NEW c \in Clients, NEW x \in Resets, RequestPasswordReset(c, x) PROVE SessionInv'
  BY <1>2, RequestPasswordResetKeeps
<1>3. ASSUME NEW x \in Rows, Expire(x) PROVE SessionInv'
  BY <1>3, ExpireKeeps
<1>4. CASE UNCHANGED vars
  BY <1>4 DEF vars, rowVars, requestVars, SessionInv, TypeOK, RequestInv, Fits, Locks, OwnerInv,
              TokenInv, SurvivorsAreNewer
<1> QED
  BY <1>1, <1>2, <1>3, <1>4 DEF Next

\* The rows, the requests and what was accepted fit together at all times.
THEOREM SessionsSafe == Spec => []SessionInv
<1> QED
  BY SessionInit, SessionStep, PTL DEF Spec

\* A refresh token is exchanged once, a code and a reset link work once, however
\* many requests present it at the same time: the row stays locked between the
\* SELECT that finds it and the UPDATE that uses it up.
THEOREM TokensOnce == Spec => []TokensAcceptedOnce
<1>1. SessionInv => TokensAcceptedOnce
  BY DEF SessionInv, TokenInv, TokensAcceptedOnce, Tokens, Rows
<1> QED
  BY <1>1, SessionsSafe, PTL

\* After resetClientPassword no session is live that was inserted under an
\* earlier password.
THEOREM ResetEndsSessions == Spec => []SurvivorsAreNewer
<1>1. SessionInv => SurvivorsAreNewer
  BY DEF SessionInv
<1> QED
  BY <1>1, SessionsSafe, PTL

-----------------------------------------------------------------------------
(* Groups: whoever is in one was let in.                                       *)

\* An operation on groups is a step of the accounts, or none of theirs.
LEMMA ApiStepIsSessionStep == [ApiNext]_apiVars => [Next]_vars
<1> SUFFICES ASSUME [ApiNext]_apiVars PROVE [Next]_vars
  OBVIOUS
<1>1. ASSUME NEW r \in Requests, Serve(r) PROVE [Next]_vars
  <2>1. CASE Finish(r)
    <3>1. Abort(r)
      BY <1>1, <2>1 DEF Serve, Abort
    <3> QED
      BY <3>1 DEF Next, Request
  <2>2. CASE UNCHANGED requestVars
    BY <1>1, <2>2 DEF Serve, vars
  <2> QED
    BY <1>1, <2>1, <2>2 DEF Serve
<1>2. ASSUME NEW r \in Requests, Die(r) PROVE Next
  BY <1>2 DEF Die, Next, Request
<1>3. CASE AccountStep
  BY <1>3 DEF AccountStep
<1>4. CASE Staff
  BY <1>4 DEF Staff
<1>5. CASE UNCHANGED apiVars
  BY <1>5 DEF apiVars
<1> QED
  BY <1>1, <1>2, <1>3, <1>4, <1>5 DEF ApiNext

\* The customer app keeps what its accounts promise.
THEOREM ApiKeepsSessions == ApiSpec => Spec
<1>1. ApiInit => Init
  BY DEF ApiInit
<1> QED
  BY <1>1, ApiStepIsSessionStep, PTL DEF ApiSpec, Spec

\* A request in a transaction on groups was admitted for a client.
AdmittedInv == \A r \in Requests : ~Groups!Free(r) => op[r] = "api"

\* The invite that a request has locked is open and for its client; an invite
\* that nobody joined by yet has nobody in its record.
InviteInv ==
  /\ \A r \in Requests : joining[r] # NoInvite =>
       /\ invite[joining[r]].state = "open"
       /\ invite[joining[r]].email \in {client[r], Anyone}
       /\ \A q \in Requests : joining[q] = joining[r] => q = r
  /\ \A i \in Invites :
       /\ invite[i].state # "free" => invite[i].group \in GroupIds
       /\ invite[i].state # "closed" => joined[i] = {}
       /\ joined[i] = {} \/ \E c \in Clients : joined[i] = {c}

GroupInv == Groups!TypeOK /\ AdmittedInv /\ InviteInv /\ Groups!MembersWereAdmitted

LEMMA GroupInit == ASSUME Groups!ClientGroupsAssumption, ApiInit PROVE GroupInv
<1> USE DEF ApiInit, Groups!Init
<1>1. Groups!TypeOK
  BY DEF Groups!TypeOK, Groups!Roles, Groups!InviteRow
<1>2. AdmittedInv
  BY DEF AdmittedInv, Groups!Free
<1>3. InviteInv
  BY DEF InviteInv
<1>4. Groups!MembersWereAdmitted
  BY DEF Groups!MembersWereAdmitted
<1> QED
  BY <1>1, <1>2, <1>3, <1>4 DEF GroupInv

\* What a step of the accounts leaves of a request that was admitted.
LEMMA AdmittedStays ==
  ASSUME SessionInv, Next, NEW r \in Requests, op[r] = "api", op'[r] = "api"
  PROVE  client'[r] = client[r]
<1>1. ASSUME NEW q \in Requests, NEW what \in Op, NEW c, NEW x, NEW v, Become(q, what, c, x, v),
             op[q] # "api" \/ what # "api"
      PROVE  client'[r] = client[r]
  BY <1>1 DEF Become, SessionInv, TypeOK
<1>2. ASSUME NEW q \in Requests, Request(q) PROVE client'[r] = client[r]
  <2> HIDE DEF Become
  <2>1. ASSUME NEW c \in Clients, CheckPassword(q, c) \/ \E k \in Codes : Register(q, c, k)
        PROVE  client'[r] = client[r]
    <3>1. "open" \in Op /\ "open" # "api"
      BY DEF Op
    <3> QED
      BY <1>1, <2>1, <3>1 DEF CheckPassword, Register
  <2>2. ASSUME NEW s \in Sessions, CreateSession(q, s) \/ SelectSession(q, s) \/ Admit(q, s)
        PROVE  client'[r] = client[r]
    <3>1. {"idle", "rotate", "api"} \subseteq Op /\ "idle" # "api" /\ "rotate" # "api"
      BY DEF Op
    <3> QED
      BY <1>1, <2>2, <3>1 DEF CreateSession, SelectSession, Admit, Finish
  <2>3. ASSUME NEW k \in Codes, IssueVerification(q, k) \/ SelectVerification(q, k)
        PROVE  client'[r] = client[r]
    <3>1. {"idle", "verify"} \subseteq Op /\ "idle" # "api" /\ "verify" # "api"
      BY DEF Op
    <3> QED
      BY <1>1, <2>3, <3>1 DEF IssueVerification, SelectVerification, Finish
  <2>4. ASSUME NEW x \in Resets, SelectReset(q, x) PROVE client'[r] = client[r]
    <3>1. "reset" \in Op /\ "reset" # "api"
      BY DEF Op
    <3> QED
      BY <1>1, <2>4, <3>1 DEF SelectReset
  <2>5. ASSUME \/ RotateSession(q) \/ Logout(q) \/ BeginVerification(q) \/ ConsumeVerification(q)
               \/ ResetPassword(q) \/ Abort(q)
        PROVE  client'[r] = client[r]
    <3>1. {"idle", "issue"} \subseteq Op /\ "idle" # "api" /\ "issue" # "api"
      BY DEF Op
    <3> QED
      BY <1>1, <2>5, <3>1 DEF RotateSession, Logout, BeginVerification, ConsumeVerification,
                             ResetPassword, Abort, Finish
  <2> QED
    BY <1>2, <2>1, <2>2, <2>3, <2>4, <2>5 DEF Request
<1>3. ASSUME NEW c \in Clients, NEW x \in Resets, RequestPasswordReset(c, x)
      PROVE  client'[r] = client[r]
  BY <1>3 DEF RequestPasswordReset, requestVars
<1>4. ASSUME NEW x \in Rows, Expire(x) PROVE client'[r] = client[r]
  BY <1>4 DEF Expire, requestVars
<1> QED
  BY <1>2, <1>3, <1>4 DEF Next

LEMMA AccountStepKeepsGroups == ASSUME SessionInv, GroupInv, AccountStep PROVE GroupInv'
<1>1. UNCHANGED groupVars /\ Next /\ \A r \in Requests : ~Groups!Free(r) => op'[r] = op[r]
  BY DEF AccountStep
<1>2. \A r \in Requests : ~Groups!Free(r) => op[r] = "api" /\ op'[r] = "api" /\ client'[r] = client[r]
  BY <1>1, AdmittedStays DEF GroupInv, AdmittedInv
<1>3. Groups!TypeOK' /\ Groups!MembersWereAdmitted'
  BY <1>1 DEF GroupInv, Groups!TypeOK, Groups!MembersWereAdmitted, groupVars
<1>4. AdmittedInv'
  BY <1>1, <1>2 DEF AdmittedInv, Groups!Free, groupVars
<1>5. InviteInv'
  BY <1>1, <1>2 DEF GroupInv, InviteInv, Groups!Free, groupVars
<1> QED
  BY <1>3, <1>4, <1>5 DEF GroupInv

\* Requests between two statements on groups were admitted, and stay it.
StillAdmitted == \A q \in Requests : (~Groups!Free(q))' =>
  op'[q] = "api" /\ client'[q] = client[q]

\* A step that closes invites nobody has locked, or none.
LEMMA ClosingKeeps ==
  ASSUME GroupInv, StillAdmitted, NEW closing \in SUBSET Invites,
         \A i \in closing : Groups!Unlocked(i) /\ invite[i].group \in GroupIds,
         invite' = [i \in Invites |-> IF i \in closing THEN [invite[i] EXCEPT !.state = "closed"]
                                                       ELSE invite[i]],
         UNCHANGED <<joining, joined>>
  PROVE  /\ AdmittedInv' /\ InviteInv' /\ invite' \in [Invites -> Groups!InviteRow]
         /\ \A i \in Invites : invite'[i].group = invite[i].group /\ invite'[i].email = invite[i].email
<1>1. \A i \in Invites : invite[i] \in Groups!InviteRow
  BY DEF GroupInv, Groups!TypeOK
<1>2. \A i \in Invites :
        /\ invite'[i].group = invite[i].group /\ invite'[i].email = invite[i].email
        /\ invite'[i].state = IF i \in closing THEN "closed" ELSE invite[i].state
        /\ invite'[i] \in Groups!InviteRow
  BY <1>1 DEF Groups!InviteRow
<1>3. AdmittedInv'
  BY DEF StillAdmitted, AdmittedInv
<1>4. \A r \in Requests : joining[r] # NoInvite => joining[r] \in Invites \ closing
  BY DEF GroupInv, Groups!TypeOK, Groups!Unlocked
<1>5. InviteInv'
  <2>1. ASSUME NEW r \in Requests, joining'[r] # NoInvite
        PROVE  /\ invite'[joining'[r]].state = "open"
               /\ invite'[joining'[r]].email \in {client'[r], Anyone}
               /\ \A q \in Requests : joining'[q] = joining'[r] => q = r
    <3>1. client'[r] = client[r]
      BY <2>1 DEF StillAdmitted, Groups!Free
    <3> QED
      BY <1>2, <1>4, <2>1, <3>1 DEF GroupInv, InviteInv
  <2>2. \A i \in Invites :
          /\ invite'[i].state # "free" => invite'[i].group \in GroupIds
          /\ invite'[i].state # "closed" => joined'[i] = {}
          /\ joined'[i] = {} \/ \E c \in Clients : joined'[i] = {c}
    BY <1>2 DEF GroupInv, InviteInv
  <2> QED
    BY <2>1, <2>2 DEF InviteInv
<1> QED
  BY <1>2, <1>3, <1>5

\* A step that changes no invite.
LEMMA NoInviteChanged ==
  ASSUME GroupInv, StillAdmitted, UNCHANGED <<invite, joining, joined>>
  PROVE  /\ AdmittedInv' /\ InviteInv' /\ invite' \in [Invites -> Groups!InviteRow]
         /\ \A i \in Invites : invite'[i].group = invite[i].group /\ invite'[i].email = invite[i].email
<1>1. AdmittedInv' /\ invite' \in [Invites -> Groups!InviteRow]
  BY DEF StillAdmitted, AdmittedInv, GroupInv, Groups!TypeOK
<1>2. InviteInv'
  BY DEF GroupInv, StillAdmitted, InviteInv, Groups!Free
<1> QED
  BY <1>1, <1>2

LEMMA ServeKeepsGroups ==
  ASSUME Groups!ClientGroupsAssumption, GroupInv, StillAdmitted, NEW r \in Requests,
         client[r] \in Clients, op[r] = "api", Groups!Serve(r, client[r])
  PROVE  GroupInv'
<1> DEFINE c == client[r]
<1> USE DEF Groups!ClientGroupsAssumption
<1>1. ASSUME NEW g \in GroupIds, Groups!Create(r, c, g) PROVE GroupInv'
  <2>1. /\ AdmittedInv' /\ InviteInv' /\ invite' \in [Invites -> Groups!InviteRow]
        /\ UNCHANGED <<invite, joined>>
    BY <1>1, NoInviteChanged DEF Groups!Create
  <2>2. Groups!TypeOK'
    BY <1>1, <2>1 DEF GroupInv, Groups!TypeOK, Groups!Create, Groups!Roles
  <2>3. Groups!MembersWereAdmitted'
    <3> SUFFICES ASSUME NEW h \in GroupIds, NEW d \in Clients, role'[h][d] # "none"
                 PROVE  \/ <<h, d>> \in given'
                        \/ \E i \in Invites : /\ invite'[i].group = h /\ d \in joined'[i]
                                              /\ invite'[i].email \in {d, Anyone}
      BY DEF Groups!MembersWereAdmitted
    <3>1. role'[h][d] = IF h = g /\ d = c THEN "owner" ELSE role[h][d]
      BY <1>1 DEF GroupInv, Groups!TypeOK, Groups!Create
    <3> QED
      BY <1>1, <2>1, <3>1 DEF GroupInv, Groups!MembersWereAdmitted, Groups!Create
  <2> QED
    BY <2>1, <2>2, <2>3 DEF GroupInv
<1>2. ASSUME NEW g \in GroupIds, Groups!Delete(r, c, g) \/ Groups!CheckInviter(r, c, g)
      PROVE  GroupInv'
  <2>1. /\ AdmittedInv' /\ InviteInv' /\ UNCHANGED <<invite, joining, joined, role, given>>
    BY <1>2, NoInviteChanged DEF Groups!Delete, Groups!CheckInviter
  <2>2. /\ group' \in [GroupIds -> {"absent", "active", "deleted", "gone"}]
        /\ inviting' \in [Requests -> GroupIds \cup {NoGroup}]
    BY <1>2 DEF GroupInv, Groups!TypeOK, Groups!Delete, Groups!CheckInviter
  <2>3. Groups!TypeOK' /\ Groups!MembersWereAdmitted'
    BY <2>1, <2>2 DEF GroupInv, Groups!TypeOK, Groups!MembersWereAdmitted
  <2> QED
    BY <2>1, <2>3 DEF GroupInv
<1>3. ASSUME NEW i \in Invites, Groups!SelectInvite(r, c, i) PROVE GroupInv'
  <2>1. /\ joining' \in [Requests -> Invites \cup {NoInvite}]
        /\ \A q \in Requests : joining'[q] = IF q = r THEN i ELSE joining[q]
        /\ invite[i].state = "open" /\ invite[i].email \in {c, Anyone}
        /\ \A q \in Requests : joining[q] # i
        /\ UNCHANGED <<group, role, invite, inviting, joined, given>>
    BY <1>3 DEF Groups!SelectInvite, Groups!Unlocked, GroupInv, Groups!TypeOK
  <2>2. AdmittedInv'
    BY DEF StillAdmitted, AdmittedInv
  <2>3. ASSUME NEW q \in Requests, joining'[q] # NoInvite
        PROVE  /\ invite[joining'[q]].state = "open"
               /\ invite[joining'[q]].email \in {client'[q], Anyone}
               /\ \A p \in Requests : joining'[p] = joining'[q] => p = q
    <3>1. client'[q] = client[q]
      BY <2>3 DEF StillAdmitted, Groups!Free
    <3> QED
      BY <2>1, <2>3, <3>1 DEF GroupInv, InviteInv
  <2>4. InviteInv'
    BY <2>1, <2>3 DEF GroupInv, InviteInv
  <2>5. Groups!TypeOK' /\ Groups!MembersWereAdmitted'
    BY <2>1 DEF GroupInv, Groups!TypeOK, Groups!MembersWereAdmitted
  <2> QED
    BY <2>2, <2>4, <2>5 DEF GroupInv
<1>4. ASSUME NEW i \in Invites, NEW email \in Clients \cup {Anyone}, Groups!InsertInvite(r, i, email)
      PROVE  GroupInv'
  <2>1. /\ inviting[r] \in GroupIds /\ invite[i].state = "free"
        /\ invite' = [invite EXCEPT ![i] = [group |-> inviting[r], email |-> email, state |-> "open"]]
        /\ inviting' = [inviting EXCEPT ![r] = NoGroup]
        /\ UNCHANGED <<group, role, joining, joined, given>>
    BY <1>4 DEF Groups!InsertInvite, GroupInv, Groups!TypeOK
  <2>2. AdmittedInv'
    BY DEF StillAdmitted, AdmittedInv
  <2>3. \A j \in Invites : invite'[j] = IF j = i THEN [group |-> inviting[r], email |-> email, state |-> "open"]
                                       ELSE invite[j]
    BY <2>1 DEF GroupInv, Groups!TypeOK
  <2>4. ASSUME NEW q \in Requests, joining'[q] # NoInvite
        PROVE  /\ invite'[joining'[q]].state = "open"
               /\ invite'[joining'[q]].email \in {client'[q], Anyone}
               /\ \A p \in Requests : joining'[p] = joining'[q] => p = q
    <3>1. client'[q] = client[q]
      BY <2>4 DEF StillAdmitted, Groups!Free
    <3>2. joining[q] \in Invites \ {i}
      BY <2>1, <2>4 DEF GroupInv, InviteInv, Groups!TypeOK
    <3> QED
      BY <2>1, <2>3, <2>4, <3>1, <3>2 DEF GroupInv, InviteInv
  <2>5. \A j \in Invites :
          /\ invite'[j].state # "free" => invite'[j].group \in GroupIds
          /\ invite'[j].state # "closed" => joined'[j] = {}
          /\ joined'[j] = {} \/ \E d \in Clients : joined'[j] = {d}
    BY <2>1, <2>3 DEF GroupInv, InviteInv
  <2>6. Groups!TypeOK'
    <3>1. [group |-> inviting[r], email |-> email, state |-> "open"] \in Groups!InviteRow
      BY <2>1 DEF Groups!InviteRow
    <3> QED
      BY <2>1, <3>1 DEF GroupInv, Groups!TypeOK
  <2>7. Groups!MembersWereAdmitted'
    <3>1. joined[i] = {}
      BY <2>1 DEF GroupInv, InviteInv
    <3> QED
      BY <2>1, <2>3, <3>1 DEF GroupInv, Groups!MembersWereAdmitted
  <2> QED
    BY <2>2, <2>4, <2>5, <2>6, <2>7 DEF GroupInv, InviteInv
<1>5. ASSUME Groups!Join(r, c) PROVE GroupInv'
  <2> DEFINE i == joining[r]
             g == invite[i].group
  <2>1. /\ i \in Invites /\ invite[i].state = "open" /\ invite[i].email \in {c, Anyone}
        /\ g \in GroupIds /\ joined[i] = {} /\ \A q \in Requests : joining[q] = i => q = r
    BY <1>5 DEF Groups!Join, GroupInv, InviteInv, Groups!TypeOK
  <2>2. /\ role' = [role EXCEPT ![g][c] = IF @ = "none" THEN "member" ELSE @]
        /\ joined' = [joined EXCEPT ![i] = @ \cup {c}]
        /\ invite' = [invite EXCEPT ![i].state = "closed"]
        /\ joining' = [joining EXCEPT ![r] = NoInvite]
        /\ UNCHANGED <<group, inviting, given>>
    BY <1>5 DEF Groups!Join
  <2>3. invite[i] \in Groups!InviteRow /\ [invite[i] EXCEPT !.state = "closed"] \in Groups!InviteRow
    BY <2>1 DEF GroupInv, Groups!TypeOK, Groups!InviteRow
  <2>4. Groups!TypeOK'
    BY <2>1, <2>2, <2>3 DEF GroupInv, Groups!TypeOK, Groups!Roles
  <2>5. AdmittedInv'
    BY DEF StillAdmitted, AdmittedInv
  <2>6. \A j \in Invites :
          /\ invite'[j].group = invite[j].group /\ invite'[j].email = invite[j].email
          /\ invite'[j].state = IF j = i THEN "closed" ELSE invite[j].state
          /\ joined'[j] = IF j = i THEN {c} ELSE joined[j]
    BY <2>1, <2>2, <2>3 DEF GroupInv, Groups!TypeOK, Groups!InviteRow
  <2>7. ASSUME NEW q \in Requests, joining'[q] # NoInvite
        PROVE  /\ invite'[joining'[q]].state = "open"
               /\ invite'[joining'[q]].email \in {client'[q], Anyone}
               /\ \A p \in Requests : joining'[p] = joining'[q] => p = q
    <3>1. client'[q] = client[q]
      BY <2>7 DEF StillAdmitted, Groups!Free
    <3>2. /\ q # r /\ joining'[q] = joining[q] /\ joining[q] \in Invites \ {i}
          /\ \A p \in Requests \ {r} : joining'[p] = joining[p]
          /\ joining'[r] = NoInvite
      BY <2>1, <2>2, <2>7 DEF GroupInv, Groups!TypeOK
    <3> QED
      BY <2>6, <2>7, <3>1, <3>2 DEF GroupInv, InviteInv
  <2>8. \A j \in Invites :
          /\ invite'[j].state # "free" => invite'[j].group \in GroupIds
          /\ invite'[j].state # "closed" => joined'[j] = {}
          /\ joined'[j] = {} \/ \E d \in Clients : joined'[j] = {d}
    BY <2>1, <2>6 DEF GroupInv, InviteInv
  <2>9. Groups!MembersWereAdmitted'
    <3> SUFFICES ASSUME NEW h \in GroupIds, NEW d \in Clients, role'[h][d] # "none"
                 PROVE  \/ <<h, d>> \in given'
                        \/ \E j \in Invites : /\ invite'[j].group = h /\ d \in joined'[j]
                                              /\ invite'[j].email \in {d, Anyone}
      BY DEF Groups!MembersWereAdmitted
    <3>1. CASE h = g /\ d = c
      BY <2>1, <2>6, <3>1
    <3>2. CASE ~(h = g /\ d = c)
      <4>1. role'[h][d] = role[h][d]
        BY <2>1, <2>2, <3>2 DEF GroupInv, Groups!TypeOK
      <4>2. \A j \in Invites : joined[j] \subseteq joined'[j]
        BY <2>1, <2>6
      <4> QED
        BY <2>2, <2>6, <4>1, <4>2 DEF GroupInv, Groups!MembersWereAdmitted
    <3> QED
      BY <3>1, <3>2
  <2> QED
    BY <2>4, <2>5, <2>7, <2>8, <2>9 DEF GroupInv, InviteInv
<1> QED
  BY <1>1, <1>2, <1>3, <1>4, <1>5 DEF Groups!Serve

LEMMA StaffKeepsGroups ==
  ASSUME GroupInv, StillAdmitted, Groups!Staff PROVE GroupInv'
<1>1. ASSUME NEW g \in GroupIds, Groups!AdminCreate(g) PROVE GroupInv'
  <2>1. /\ AdmittedInv' /\ InviteInv' /\ UNCHANGED <<role, invite, inviting, joining, joined, given>>
    BY <1>1, NoInviteChanged DEF Groups!AdminCreate
  <2>2. Groups!TypeOK' /\ Groups!MembersWereAdmitted'
    BY <1>1, <2>1 DEF GroupInv, Groups!TypeOK, Groups!AdminCreate, Groups!MembersWereAdmitted
  <2> QED
    BY <2>1, <2>2 DEF GroupInv
<1>2. ASSUME NEW g \in GroupIds, Groups!AdminDelete(g) PROVE GroupInv'
  <2> DEFINE closing == {i \in Invites : invite[i].group = g}
  <2>1. /\ AdmittedInv' /\ InviteInv' /\ invite' \in [Invites -> Groups!InviteRow]
        /\ \A i \in Invites : invite'[i].group = invite[i].group /\ invite'[i].email = invite[i].email
    <3>1. invite' = [i \in Invites |-> IF i \in closing THEN [invite[i] EXCEPT !.state = "closed"]
                                                         ELSE invite[i]]
      BY <1>2 DEF Groups!AdminDelete
    <3>2. closing \in SUBSET Invites /\ \A i \in closing : Groups!Unlocked(i) /\ invite[i].group \in GroupIds
      BY <1>2 DEF Groups!AdminDelete
    <3>3. UNCHANGED <<joining, joined>>
      BY <1>2 DEF Groups!AdminDelete
    <3> HIDE DEF closing
    <3> QED
      BY <3>1, <3>2, <3>3, ClosingKeeps
  <2>2. /\ role' = [role EXCEPT ![g] = [c \in Clients |-> "none"]] /\ given' = {p \in given : p[1] # g}
        /\ group' = [group EXCEPT ![g] = "gone"] /\ UNCHANGED <<inviting, joining, joined>>
    BY <1>2 DEF Groups!AdminDelete
  <2>3. Groups!TypeOK'
    BY <2>1, <2>2 DEF GroupInv, Groups!TypeOK, Groups!Roles
  <2>4. Groups!MembersWereAdmitted'
    <3> SUFFICES ASSUME NEW h \in GroupIds, NEW d \in Clients, role'[h][d] # "none"
                 PROVE  \/ <<h, d>> \in given'
                        \/ \E i \in Invites : /\ invite'[i].group = h /\ d \in joined'[i]
                                              /\ invite'[i].email \in {d, Anyone}
      BY DEF Groups!MembersWereAdmitted
    <3>1. h # g /\ role'[h] = role[h]
      BY <2>2 DEF GroupInv, Groups!TypeOK
    <3> QED
      BY <2>1, <2>2, <3>1 DEF GroupInv, Groups!MembersWereAdmitted
  <2> QED
    BY <2>1, <2>3, <2>4 DEF GroupInv
<1>3. ASSUME NEW g \in GroupIds, NEW c \in Clients, Groups!Attach(g, c) PROVE GroupInv'
  <2>1. /\ AdmittedInv' /\ InviteInv' /\ role' = [role EXCEPT ![g][c] = "member"]
        /\ given' = given \cup {<<g, c>>} /\ UNCHANGED <<group, invite, inviting, joining, joined>>
    BY <1>3, NoInviteChanged DEF Groups!Attach
  <2>2. Groups!TypeOK'
    BY <2>1 DEF GroupInv, Groups!TypeOK, Groups!Roles
  <2>3. \A h \in GroupIds, d \in Clients : ~(h = g /\ d = c) => role'[h][d] = role[h][d]
    BY <2>1 DEF GroupInv, Groups!TypeOK
  <2>4. Groups!MembersWereAdmitted'
    BY <2>1, <2>3 DEF GroupInv, Groups!MembersWereAdmitted
  <2> QED
    BY <2>1, <2>2, <2>4 DEF GroupInv
<1>4. ASSUME NEW g \in GroupIds, NEW c \in Clients, Groups!Detach(g, c) PROVE GroupInv'
  <2>1. /\ AdmittedInv' /\ InviteInv' /\ role' = [role EXCEPT ![g][c] = "none"]
        /\ given' = given \ {<<g, c>>} /\ UNCHANGED <<group, invite, inviting, joining, joined>>
    BY <1>4, NoInviteChanged DEF Groups!Detach
  <2>2. Groups!TypeOK'
    BY <2>1 DEF GroupInv, Groups!TypeOK, Groups!Roles
  <2>3. \A h \in GroupIds, d \in Clients : role'[h][d] = IF h = g /\ d = c THEN "none" ELSE role[h][d]
    BY <2>1 DEF GroupInv, Groups!TypeOK
  <2>4. Groups!MembersWereAdmitted'
    BY <2>1, <2>3 DEF GroupInv, Groups!MembersWereAdmitted
  <2> QED
    BY <2>1, <2>2, <2>4 DEF GroupInv
<1>5. ASSUME NEW i \in Invites, Groups!ExpireInvite(i) PROVE GroupInv'
  <2>1. invite' = [j \in Invites |-> IF j \in {i} THEN [invite[j] EXCEPT !.state = "closed"] ELSE invite[j]]
    BY <1>5 DEF Groups!ExpireInvite, GroupInv, Groups!TypeOK
  <2>2. Groups!Unlocked(i) /\ invite[i].group \in GroupIds
        /\ UNCHANGED <<group, role, inviting, joining, joined, given>>
    BY <1>5 DEF Groups!ExpireInvite, GroupInv, InviteInv
  <2>3. /\ AdmittedInv' /\ InviteInv' /\ invite' \in [Invites -> Groups!InviteRow]
        /\ \A j \in Invites : invite'[j].group = invite[j].group /\ invite'[j].email = invite[j].email
    BY <2>1, <2>2, ClosingKeeps
  <2>4. Groups!TypeOK' /\ Groups!MembersWereAdmitted'
    BY <2>2, <2>3 DEF GroupInv, Groups!TypeOK, Groups!MembersWereAdmitted
  <2> QED
    BY <2>3, <2>4 DEF GroupInv
<1> QED
  BY <1>1, <1>2, <1>3, <1>4, <1>5 DEF Groups!Staff

LEMMA DieKeepsGroups ==
  ASSUME Groups!ClientGroupsAssumption, SessionInv, GroupInv, NEW r \in Requests, Die(r)
  PROVE  GroupInv'
<1>1. \A q \in Requests \ {r} : op'[q] = op[q] /\ client'[q] = client[q]
  BY DEF Die, Abort, Finish, Become, SessionInv, TypeOK
<1>2. /\ inviting' = [inviting EXCEPT ![r] = NoGroup] /\ joining' = [joining EXCEPT ![r] = NoInvite]
      /\ UNCHANGED <<group, role, invite, joined, given>>
  BY DEF Die, Groups!Drop
<1>3. /\ inviting' \in [Requests -> GroupIds \cup {NoGroup}]
      /\ joining' \in [Requests -> Invites \cup {NoInvite}]
      /\ inviting'[r] = NoGroup /\ joining'[r] = NoInvite
      /\ \A q \in Requests \ {r} : inviting'[q] = inviting[q] /\ joining'[q] = joining[q]
  BY <1>2 DEF GroupInv, Groups!TypeOK
<1>4. AdmittedInv'
  BY <1>1, <1>3 DEF GroupInv, AdmittedInv, Groups!Free
<1>5. InviteInv'
  <2>1. ASSUME NEW q \in Requests, joining'[q] # NoInvite
        PROVE  /\ invite[joining'[q]].state = "open"
               /\ invite[joining'[q]].email \in {client'[q], Anyone}
               /\ \A p \in Requests : joining'[p] = joining'[q] => p = q
    BY <1>1, <1>3, <2>1 DEF GroupInv, InviteInv
  <2> QED
    BY <1>2, <2>1 DEF GroupInv, InviteInv
<1>6. Groups!TypeOK' /\ Groups!MembersWereAdmitted'
  BY <1>2, <1>3 DEF GroupInv, Groups!TypeOK, Groups!MembersWereAdmitted
<1> QED
  BY <1>4, <1>5, <1>6 DEF GroupInv

\* Every request that serves someone keeps the others admitted.
LEMMA ServeStillAdmitted ==
  ASSUME SessionInv, GroupInv, NEW r \in Requests, Serve(r) PROVE StillAdmitted
<1> SUFFICES ASSUME NEW q \in Requests, (~Groups!Free(q))'
             PROVE  op'[q] = "api" /\ client'[q] = client[q]
  BY DEF StillAdmitted
<1>1. op[r] = "api" /\ IF Groups!Free(r)' THEN Finish(r) ELSE UNCHANGED requestVars
  BY DEF Serve
<1>2. q # r => op'[q] = op[q] /\ client'[q] = client[q]
  BY <1>1 DEF SessionInv, TypeOK, Finish, Become, requestVars
<1>3. q = r => op'[q] = op[q] /\ client'[q] = client[q]
  BY <1>1 DEF requestVars
<1>4. q # r => Groups!Free(q)' = Groups!Free(q)
  <2>1. Groups!Serve(r, client[r])
    BY DEF Serve
  <2> QED
    BY <2>1 DEF Groups!Serve, Groups!Create, Groups!Delete, Groups!CheckInviter, Groups!SelectInvite,
                Groups!InsertInvite, Groups!Join, Groups!Free, GroupInv, Groups!TypeOK
<1> QED
  BY <1>1, <1>2, <1>3, <1>4 DEF GroupInv, AdmittedInv

LEMMA GroupStep ==
  ASSUME Groups!ClientGroupsAssumption, SessionInv, GroupInv, [ApiNext]_apiVars PROVE GroupInv'
<1>1. ASSUME NEW r \in Requests, Serve(r) PROVE GroupInv'
  <2>1. client[r] \in Clients /\ op[r] = "api" /\ Groups!Serve(r, client[r])
    BY <1>1 DEF Serve, SessionInv, RequestInv, Fits
  <2> QED
    BY <1>1, <2>1, ServeStillAdmitted, ServeKeepsGroups
<1>2. ASSUME NEW r \in Requests, Die(r) PROVE GroupInv'
  BY <1>2, DieKeepsGroups
<1>3. CASE AccountStep
  BY <1>3, AccountStepKeepsGroups
<1>4. CASE Staff
  <2>1. Groups!Staff /\ UNCHANGED <<op, client>>
    BY <1>4 DEF Staff, vars, requestVars
  <2>2. UNCHANGED <<inviting, joining>>
    BY <2>1 DEF Groups!Staff, Groups!AdminCreate, Groups!AdminDelete, Groups!Attach, Groups!Detach,
                Groups!ExpireInvite
  <2>3. StillAdmitted
    BY <2>1, <2>2 DEF GroupInv, AdmittedInv, StillAdmitted, Groups!Free
  <2> QED
    BY <2>1, <2>3, StaffKeepsGroups
<1>5. CASE UNCHANGED apiVars
  BY <1>5 DEF apiVars, vars, requestVars, groupVars, GroupInv, AdmittedInv, InviteInv, Groups!TypeOK,
              Groups!MembersWereAdmitted, Groups!Free
<1> QED
  BY <1>1, <1>2, <1>3, <1>4, <1>5 DEF ApiNext

\* From the record of every invite: nobody or one client joined by it.
LEMMA GroupsAreAdmitting == GroupInv => GroupsAdmitAsInvited
<1>1. ASSUME GroupInv, NEW i \in Invites PROVE Groups!Cardinality(joined[i]) <= 1
  <2>1. joined[i] = {} \/ \E c \in Clients : joined[i] = {c}
    BY <1>1 DEF GroupInv, InviteInv
  <2>2. Cardinality({}) <= 1 /\ \A c \in Clients : Cardinality({c}) <= 1
    BY FS_EmptySet, FS_Singleton
  <2> QED
    BY <2>1, <2>2 DEF Cardinality, Groups!Cardinality
<1> QED
  BY <1>1 DEF GroupInv, GroupsAdmitAsInvited, Groups!InvitesAdmitOne

\* An invite admits one client, and whoever is a member made the group, was
\* attached by the staff, or was invited to it.
THEOREM GroupsAdmit == ApiSpec => []GroupsAdmitAsInvited
<1>1. ApiInit => GroupInv
  BY GroupInit, PartsAssumption
<1>2. SessionInv /\ GroupInv /\ [ApiNext]_apiVars => GroupInv'
  BY GroupStep, PartsAssumption
<1> QED
  BY <1>1, <1>2, GroupsAreAdmitting, ApiKeepsSessions, SessionsSafe, PTL DEF ApiSpec

-----------------------------------------------------------------------------
(* Roles: the matrix of a role is what one admin saved.                        *)

RoleWork == [op : {"idle", "create", "rename", "delete", "assign", "replace", "commit"},
             key : Keys \cup {NoKey}, name : Names \cup {NoName}, old : Names \cup {NoName},
             list : Payloads \cup {<<>>}, drops : SUBSET Roles!Supported]

\* A role has no rows and nothing was saved for it, or it has the complete rows
\* of one list that was.
RowsInv == \A k \in Keys :
  \/ rows[k] = <<>> /\ saves[k] = {}
  \/ \E list \in saves[k] : rows[k] = Roles!normalizePermissionSet(list)

RoleInv ==
  /\ roleName \in [Keys -> Names \cup {NoName}]
  /\ DOMAIN rows = Keys
  /\ saves \in [Keys -> SUBSET Payloads]
  /\ work \in [Requests -> RoleWork]
  /\ \A r \in Requests : work[r].op \in {"replace", "commit"} =>
       work[r].key \in Keys /\ work[r].list \in Payloads
  /\ RowsInv

\* The rows of a role have permissions that are supported.
LEMMA RowsAreSupported ==
  ASSUME RoleInv, NEW k \in Keys PROVE DOMAIN rows[k] \subseteq Roles!Supported
<1>1. \A list : DOMAIN Roles!normalizePermissionSet(list) = Roles!Supported
  BY DEF Roles!normalizePermissionSet
<1>2. rows[k] = <<>> => DOMAIN rows[k] = {}
  OBVIOUS
<1> QED
  BY <1>1, <1>2 DEF RoleInv, RowsInv

\* A step of a request that stores nothing.
LEMMA StoresNothing ==
  ASSUME RoleInv, NEW r \in Requests, NEW w \in RoleWork, work' = [work EXCEPT ![r] = w],
         w.op \in {"replace", "commit"} => w.key \in Keys /\ w.list \in Payloads,
         roleName' \in [Keys -> Names \cup {NoName}], UNCHANGED <<rows, saves>>
  PROVE  RoleInv'
<1>1. work' \in [Requests -> RoleWork] /\ \A q \in Requests : work'[q] = IF q = r THEN w ELSE work[q]
  BY DEF RoleInv
<1> QED
  BY <1>1 DEF RoleInv, RowsInv

LEMMA IdleIsWork == Roles!Idle \in RoleWork /\ Roles!Idle.op = "idle"
BY DEF Roles!Idle, RoleWork

\* The steps in which a request takes up its work.
LEMMA StartKeeps ==
  ASSUME RoleInv, NEW r \in Requests, NEW w \in RoleWork, Roles!Start(r, w),
         w.op \notin {"replace", "commit"}
  PROVE  RoleInv'
BY StoresNothing DEF Roles!Start, RoleInv

LEMMA TakingUpKeeps ==
  ASSUME RoleInv, NEW r \in Requests,
         \/ \E k \in Keys, n \in Names : Roles!ChooseKey(r, k, n) \/ Roles!ReadForRename(r, k, n)
         \/ \E k \in Keys : Roles!CountUsers(r, k)
         \/ \E n \in Names : Roles!FindRole(r, n)
  PROVE  RoleInv'
<1> USE DEF Roles!Idle, RoleWork
<1>1. \A j \in Keys : roleName[j] \in Names \cup {NoName}
  BY DEF RoleInv
<1>2. ASSUME NEW k \in Keys, NEW n \in Names, Roles!ChooseKey(r, k, n) PROVE RoleInv'
  <2> DEFINE w == [Roles!Idle EXCEPT !.op = "create", !.key = k, !.name = n]
  <2>1. w \in RoleWork /\ w.op \notin {"replace", "commit"} /\ Roles!Start(r, w)
    BY <1>2 DEF Roles!ChooseKey
  <2> HIDE DEF w
  <2> QED
    BY <2>1, StartKeeps
<1>3. ASSUME NEW k \in Keys, NEW n \in Names, Roles!ReadForRename(r, k, n) PROVE RoleInv'
  <2> DEFINE w == [Roles!Idle EXCEPT !.op = "rename", !.key = k, !.name = n, !.old = roleName[k]]
  <2>1. w \in RoleWork /\ w.op \notin {"replace", "commit"} /\ Roles!Start(r, w)
    BY <1>1, <1>3 DEF Roles!ReadForRename
  <2> HIDE DEF w
  <2> QED
    BY <2>1, StartKeeps
<1>4. ASSUME NEW k \in Keys, Roles!CountUsers(r, k) PROVE RoleInv'
  <2> DEFINE w == [Roles!Idle EXCEPT !.op = "delete", !.key = k]
  <2>1. w \in RoleWork /\ w.op \notin {"replace", "commit"} /\ Roles!Start(r, w)
    BY <1>4 DEF Roles!CountUsers
  <2> HIDE DEF w
  <2> QED
    BY <2>1, StartKeeps
<1>5. ASSUME NEW j \in Keys, Roles!Start(r, [Roles!Idle EXCEPT !.op = "assign", !.name = roleName[j]])
      PROVE  RoleInv'
  <2> DEFINE w == [Roles!Idle EXCEPT !.op = "assign", !.name = roleName[j]]
  <2>1. w \in RoleWork /\ w.op \notin {"replace", "commit"} /\ Roles!Start(r, w)
    BY <1>1, <1>5
  <2> HIDE DEF w
  <2> QED
    BY <2>1, StartKeeps
<1> HIDE DEF Roles!Idle, RoleWork
<1> QED
  BY <1>2, <1>3, <1>4, <1>5 DEF Roles!FindRole, Roles!Identified

\* The steps that write names.
LEMMA NamingKeeps ==
  ASSUME RoleInv, NEW r \in Requests,
         \/ Roles!CreateRole(r) \/ Roles!UpdateRole(r)
         \/ \E u \in Users : Roles!UpdateUserRole(r, u)
         \/ Roles!Abort(r)
  PROVE  RoleInv'
<1>1. work[r].name \in Names \cup {NoName} /\ work' = [work EXCEPT ![r] = Roles!Idle]
  BY DEF RoleInv, RoleWork, Roles!CreateRole, Roles!UpdateRole, Roles!UpdateUserRole, Roles!Abort,
         Roles!End
<1>2. roleName' \in [Keys -> Names \cup {NoName}] /\ UNCHANGED <<rows, saves>>
  BY <1>1 DEF RoleInv, Roles!CreateRole, Roles!UpdateRole, Roles!UpdateUserRole, Roles!Abort
<1> QED
  BY <1>1, <1>2, IdleIsWork, StoresNothing

LEMMA DeleteRoleKeeps == ASSUME RoleInv, NEW r \in Requests, Roles!DeleteRole(r) PROVE RoleInv'
<1> DEFINE k == work[r].key
<1>1. /\ work' = [work EXCEPT ![r] = Roles!Idle]
      /\ roleName' = [roleName EXCEPT ![k] = NoName]
      /\ rows' = [rows EXCEPT ![k] = <<>>] /\ saves' = [saves EXCEPT ![k] = {}]
  BY DEF Roles!DeleteRole, Roles!End
<1>2. /\ roleName' \in [Keys -> Names \cup {NoName}] /\ DOMAIN rows' = Keys
      /\ saves' \in [Keys -> SUBSET Payloads] /\ work' \in [Requests -> RoleWork]
  BY <1>1, IdleIsWork DEF RoleInv
<1>3. \A q \in Requests : work'[q] = IF q = r THEN Roles!Idle ELSE work[q]
  BY <1>1 DEF RoleInv
<1>4. \A j \in Keys : /\ j = k => rows'[j] = <<>> /\ saves'[j] = {}
                      /\ j # k => rows'[j] = rows[j] /\ saves'[j] = saves[j]
  BY <1>1 DEF RoleInv
<1>5. RowsInv'
  BY <1>4 DEF RoleInv, RowsInv
<1> QED
  BY <1>2, <1>3, <1>5, IdleIsWork DEF RoleInv

LEMMA DeletePermissionsKeeps ==
  ASSUME RoleInv, NEW r \in Requests, NEW k \in Keys, NEW list \in Payloads,
         Roles!DeletePermissions(r, k, list)
  PROVE  RoleInv'
<1> DEFINE w == [Roles!Idle EXCEPT !.op = "replace", !.key = k, !.list = list, !.drops = DOMAIN rows[k]]
<1>1. DOMAIN rows[k] \subseteq Roles!Supported
  BY RowsAreSupported
<1>2. w \in RoleWork /\ w.key = k /\ w.list = list
  BY <1>1 DEF RoleWork, Roles!Idle
<1>3. work' = [work EXCEPT ![r] = w] /\ UNCHANGED <<roleName, rows, saves>>
  BY DEF Roles!DeletePermissions
<1> HIDE DEF w
<1> QED
  BY <1>2, <1>3, StoresNothing DEF RoleInv

LEMMA InsertPermissionsKeeps ==
  ASSUME RoleInv, NEW r \in Requests, Roles!InsertPermissions(r) PROVE RoleInv'
<1>1. work[r] \in RoleWork /\ work[r].key \in Keys /\ work[r].list \in Payloads
  BY DEF RoleInv, Roles!InsertPermissions
<1>2. UNCHANGED <<roleName, rows, saves>>
  BY DEF Roles!InsertPermissions
<1>3. CASE work' = [work EXCEPT ![r] = Roles!Idle]
  BY <1>2, <1>3, IdleIsWork, StoresNothing DEF RoleInv
<1>4. CASE work' = [work EXCEPT ![r].op = "commit"]
  <2> DEFINE w == [work[r] EXCEPT !.op = "commit"]
  <2>1. w \in RoleWork /\ w.key \in Keys /\ w.list \in Payloads
    BY <1>1 DEF RoleWork
  <2>2. work' = [work EXCEPT ![r] = w]
    BY <1>4
  <2> HIDE DEF w
  <2> QED
    BY <1>2, <2>1, <2>2, StoresNothing DEF RoleInv
<1> QED
  BY <1>3, <1>4 DEF Roles!InsertPermissions, Roles!End

\* A list is made complete before it is stored, so that it leaves nothing of the
\* rows that another transaction inserted meanwhile.
LEMMA CommitPermissionsKeeps ==
  ASSUME RoleInv, NEW r \in Requests, Roles!CommitPermissions(r) PROVE RoleInv'
<1> DEFINE k == work[r].key
           list == work[r].list
           new == Roles!normalizePermissionSet(list)
           kept == DOMAIN rows[k] \ work[r].drops
<1>1. k \in Keys /\ list \in Payloads
  BY DEF RoleInv, Roles!CommitPermissions
<1>2. DOMAIN new = Roles!Supported /\ kept \subseteq Roles!Supported
  BY <1>1, RowsAreSupported DEF Roles!normalizePermissionSet
<1>3. new = [p \in Roles!Supported |-> new[p]]
  BY DEF Roles!normalizePermissionSet
<1> HIDE DEF new
<1> DEFINE stored == [p \in kept \cup DOMAIN new |-> IF p \in DOMAIN new THEN new[p] ELSE rows[k][p]]
<1>4. stored = new
  BY <1>2, <1>3
<1>5. rows' = [rows EXCEPT ![k] = new]
  <2>1. rows' = [rows EXCEPT ![k] = stored]
    BY DEF Roles!CommitPermissions, Roles!NewRows, new
  <2> HIDE DEF stored
  <2> QED
    BY <1>4, <2>1
<1>6. saves' = [saves EXCEPT ![k] = @ \cup {list}] /\ work' = [work EXCEPT ![r] = Roles!Idle]
      /\ UNCHANGED roleName
  BY DEF Roles!CommitPermissions, Roles!End
<1>7. /\ DOMAIN rows' = Keys /\ saves' \in [Keys -> SUBSET Payloads]
      /\ work' \in [Requests -> RoleWork]
      /\ \A q \in Requests : work'[q] = IF q = r THEN Roles!Idle ELSE work[q]
  BY <1>1, <1>5, <1>6, IdleIsWork DEF RoleInv
<1>8. \A j \in Keys : /\ j = k => rows'[j] = new /\ list \in saves'[j]
                      /\ j # k => rows'[j] = rows[j] /\ saves'[j] = saves[j]
  BY <1>1, <1>5, <1>6 DEF RoleInv
<1>9. RowsInv'
  BY <1>8 DEF RoleInv, RowsInv, new
<1> QED
  BY <1>6, <1>7, <1>9, IdleIsWork DEF RoleInv

LEMMA RoleKeeps == RoleInv /\ [Roles!Next]_(Roles!vars) => RoleInv'
<1> SUFFICES ASSUME RoleInv, [Roles!Next]_(Roles!vars) PROVE RoleInv'
  OBVIOUS
<1>1. ASSUME NEW r \in Requests, Roles!Request(r) PROVE RoleInv'
  <2>1. ASSUME NEW k \in Keys, NEW n \in Names, Roles!ChooseKey(r, k, n) \/ Roles!ReadForRename(r, k, n)
        PROVE  RoleInv'
    BY <2>1, TakingUpKeeps
  <2>2. ASSUME NEW k \in Keys, Roles!CountUsers(r, k) PROVE RoleInv'
    BY <2>2, TakingUpKeeps
  <2>3. ASSUME NEW k \in Keys, NEW list \in Payloads, Roles!DeletePermissions(r, k, list) PROVE RoleInv'
    BY <2>3, DeletePermissionsKeeps
  <2>4. ASSUME NEW n \in Names, Roles!FindRole(r, n) PROVE RoleInv'
    BY <2>4, TakingUpKeeps
  <2>5. ASSUME \/ Roles!CreateRole(r) \/ Roles!UpdateRole(r) \/ Roles!Abort(r)
               \/ \E u \in Users : Roles!UpdateUserRole(r, u)
        PROVE  RoleInv'
    BY <2>5, NamingKeeps
  <2>6. ASSUME Roles!DeleteRole(r) \/ Roles!InsertPermissions(r) \/ Roles!CommitPermissions(r)
        PROVE  RoleInv'
    BY <2>6, DeleteRoleKeeps, InsertPermissionsKeeps, CommitPermissionsKeeps
  <2> QED
    BY <1>1, <2>1, <2>2, <2>3, <2>4, <2>5, <2>6 DEF Roles!Request
<1>2. CASE UNCHANGED Roles!vars
  BY <1>2 DEF Roles!vars, RoleInv, RowsInv
<1> QED
  BY <1>1, <1>2 DEF Roles!Next

\* What a role may do is one admin's list, entirely, or the default of its key
\* when nobody saved one since it was created.
THEOREM OneSave == Roles!Spec => []EffectiveIsOneSave
<1>1. Roles!Init => RoleInv
  <2> SUFFICES ASSUME Roles!Init PROVE RoleInv
    OBVIOUS
  <2>1. /\ roleName \in [Keys -> Names \cup {NoName}]
        /\ rows = [k \in Keys |-> <<>>] /\ work = [r \in Requests |-> Roles!Idle]
        /\ saves = [k \in Keys |-> {}]
    BY DEF Roles!Init
  <2> QED
    BY <2>1, IdleIsWork DEF RoleInv, RowsInv
<1>2. RoleInv => EffectiveIsOneSave
  <2> SUFFICES ASSUME RoleInv, NEW k \in Keys
               PROVE  \/ saves[k] = {} /\ Roles!Effective(k) = Roles!getDefaultRolePermissions(k)
                      \/ \E list \in saves[k] : Roles!Effective(k) = Roles!normalizePermissionSet(list)
    BY DEF EffectiveIsOneSave, Roles!EffectiveIsOneSave
  <2>1. CASE rows[k] = <<>> /\ saves[k] = {}
    BY <2>1 DEF Roles!Effective
  <2>2. ASSUME NEW list \in saves[k], rows[k] = Roles!normalizePermissionSet(list)
        PROVE  Roles!Effective(k) = Roles!normalizePermissionSet(list)
    <3>1. <<"dashboard", "view">> \in Roles!Supported
      BY DEF Roles!Supported, Roles!Resources, Roles!permissionDefinitions
    <3>2. rows[k] = [p \in Roles!Supported |-> rows[k][p]]
      BY <2>2 DEF Roles!normalizePermissionSet
    <3>3. Roles!Effective(k) = rows[k]
      BY <3>1, <3>2 DEF Roles!Effective, Roles!resolveStoredPermissions
    <3> QED
      BY <2>2, <3>3
  <2> QED
    BY <2>1, <2>2 DEF RoleInv, RowsInv
<1> QED
  BY <1>1, <1>2, RoleKeeps, PTL DEF Roles!Spec

-----------------------------------------------------------------------------
(* Login of the staff: failures are bounded, and who logged out stays out.     *)

Comparing == {r \in Requests : doing[r] = "comparing"}

\* Once the limit is reached every login that is still being compared fits
\* under the bound, and the block outlasts the window: a login that passes the
\* limiter again finds the window over.
LimiterInv ==
  /\ attempts.windowStartedAt <= now
  /\ attempts.count >= MaxAttempts =>
       /\ attempts.windowStartedAt + Window <= attempts.blockedUntil
       /\ attempts.count + Cardinality(Comparing) < MaxAttempts + Cardinality(Requests)

LoginInv == Login!TypeOK /\ LimiterInv

LEMMA LoginFacts ==
  /\ IsFiniteSet(Requests)
  /\ Window \in Nat /\ Block \in Nat /\ Window <= Block
  /\ MaxAttempts \in Nat /\ MaxAttempts > 1 /\ MaxTime \in Nat /\ MaxTokens \in Nat
BY PartsAssumption DEF Login!AdminLoginAssumption, Login!IsFiniteSet, IsFiniteSet

\* Of the requests some are comparing, one less when one of them goes on.
LEMMA ComparingCounted ==
  /\ IsFiniteSet(Comparing) /\ Cardinality(Comparing) \in Nat /\ Cardinality(Requests) \in Nat
  /\ Cardinality(Comparing) <= Cardinality(Requests)
BY LoginFacts, FS_Subset, FS_CardinalityType DEF Comparing

LEMMA OneLess ==
  ASSUME Login!TypeOK, NEW r \in Requests, doing[r] = "comparing",
         NEW what, what # "comparing", doing' = [doing EXCEPT ![r] = what]
  PROVE  Cardinality(Comparing') = Cardinality(Comparing) - 1 /\ Cardinality(Comparing) > 0
<1>1. Comparing' = Comparing \ {r} /\ r \in Comparing
  BY DEF Comparing, Login!TypeOK
<1>2. Cardinality(Comparing \ {r}) = Cardinality(Comparing) - 1
  BY <1>1, ComparingCounted, FS_RemoveElement
<1>3. Cardinality(Comparing \ {r}) \in Nat
  BY ComparingCounted, FS_RemoveElement, FS_CardinalityType
<1> QED
  BY <1>1, <1>2, <1>3, ComparingCounted

LEMMA LoginTyped == ASSUME Login!TypeOK, [Login!Next]_(Login!vars) PROVE Login!TypeOK'
<1> USE LoginFacts
<1>1. CASE Login!Tick
  BY <1>1 DEF Login!Tick, Login!TypeOK
<1>2. ASSUME NEW r \in Requests, Login!Request(r) PROVE Login!TypeOK'
  <2>1. attempts' \in [count : Nat, windowStartedAt : 0..MaxTime, blockedUntil : 0..(MaxTime + Block)]
    <3>1. Login!NoAttempt \in [count : Nat, windowStartedAt : 0..MaxTime, blockedUntil : 0..(MaxTime + Block)]
      BY DEF Login!NoAttempt
    <3>2. now \in 0..MaxTime /\ now + Block \in 0..(MaxTime + Block)
          /\ attempts \in [count : Nat, windowStartedAt : 0..MaxTime, blockedUntil : 0..(MaxTime + Block)]
      BY DEF Login!TypeOK
    <3>3. CASE Login!RecordFailedLogin(r)
      <4>1. CASE attempts' = [count |-> 1, windowStartedAt |-> now, blockedUntil |-> 0]
        BY <3>2, <4>1
      <4>2. ASSUME NEW b \in 0..(MaxTime + Block),
                   attempts' = [attempts EXCEPT !.count = @ + 1, !.blockedUntil = b]
            PROVE  attempts' \in [count : Nat, windowStartedAt : 0..MaxTime,
                                  blockedUntil : 0..(MaxTime + Block)]
        <5>1. attempts' = [count |-> attempts.count + 1, windowStartedAt |-> attempts.windowStartedAt,
                           blockedUntil |-> b]
          BY <3>2, <4>2
        <5> QED
          BY <3>2, <5>1
      <4> QED
        BY <3>2, <3>3, <4>1, <4>2 DEF Login!RecordFailedLogin
    <3> QED
      BY <1>2, <3>1, <3>2, <3>3
      DEF Login!Request, Login!CheckLoginAttemptLimit, Login!ClearFailedLogins,
          Login!CreateAdminSession, Login!FindByRefreshToken, Login!RotateAdminSession,
          Login!RevokeAdminSession
  <2>2. /\ session' \in [Sessions -> [state : {"free", "live", "ended"}, token : 0..MaxTokens]]
        /\ issued' \in 0..MaxTokens
    <3>1. CASE Login!RevokeAdminSession(r)
      BY <3>1 DEF Login!RevokeAdminSession, Login!TypeOK
    <3>2. CASE Login!RotateAdminSession(r)
      <4>1. issued' \in 0..MaxTokens /\ session' = [session EXCEPT ![on[r]].token = issued']
        BY <3>2 DEF Login!RotateAdminSession, Login!TypeOK
      <4> QED
        BY <4>1 DEF Login!TypeOK
    <3>3. ASSUME NEW s \in Sessions, Login!CreateAdminSession(r, s)
          PROVE  /\ session' \in [Sessions -> [state : {"free", "live", "ended"}, token : 0..MaxTokens]]
                 /\ issued' \in 0..MaxTokens
      BY <3>3 DEF Login!CreateAdminSession, Login!TypeOK
    <3> QED
      BY <1>2, <3>1, <3>2, <3>3
      DEF Login!Request, Login!CheckLoginAttemptLimit, Login!RecordFailedLogin,
          Login!ClearFailedLogins, Login!FindByRefreshToken, Login!TypeOK
  <2>3. now' = now
    BY <1>2 DEF Login!Request, Login!CheckLoginAttemptLimit, Login!RecordFailedLogin,
                Login!ClearFailedLogins, Login!CreateAdminSession, Login!FindByRefreshToken,
                Login!RotateAdminSession, Login!RevokeAdminSession
  <2>4. /\ doing' \in [Requests -> {"idle", "comparing", "opening", "rotating", "leaving"}]
        /\ on' \in [Requests -> Sessions \cup {NoSession}]
    BY <1>2 DEF Login!Request, Login!CheckLoginAttemptLimit, Login!RecordFailedLogin,
                Login!ClearFailedLogins, Login!CreateAdminSession, Login!FindByRefreshToken,
                Login!RotateAdminSession, Login!RevokeAdminSession, Login!Do, Login!TypeOK
  <2> QED
    BY <2>1, <2>2, <2>3, <2>4 DEF Login!TypeOK
<1>3. CASE UNCHANGED Login!vars
  BY <1>3 DEF Login!vars, Login!TypeOK
<1> QED
  BY <1>1, <1>2, <1>3 DEF Login!Next

LEMMA LimiterStep == ASSUME LoginInv, [Login!Next]_(Login!vars) PROVE LimiterInv'
<1> USE LoginFacts
<1>0. /\ now \in Nat /\ attempts.count \in Nat /\ attempts.windowStartedAt \in Nat
      /\ attempts.blockedUntil \in Nat
      /\ attempts \in [count : Nat, windowStartedAt : 0..MaxTime, blockedUntil : 0..(MaxTime + Block)]
  BY DEF LoginInv, Login!TypeOK
<1>1. CASE Login!Tick
  <2>1. now' = now + 1 /\ attempts' = attempts /\ Comparing' = Comparing
    BY <1>1 DEF Login!Tick, Comparing
  <2> QED
    BY <1>0, <2>1 DEF LoginInv, LimiterInv
<1>2. ASSUME NEW r \in Requests, Login!CheckLoginAttemptLimit(r) PROVE LimiterInv'
  <2>1. CASE Login!WindowOver
    <3>1. attempts'.count = 0 /\ attempts'.windowStartedAt = 0 /\ now' = now
      BY <1>2, <2>1 DEF Login!CheckLoginAttemptLimit, Login!NoAttempt
    <3> QED
      BY <1>0, <3>1 DEF LimiterInv
  <2>2. CASE ~Login!WindowOver
    <3>1. attempts' = attempts /\ now' = now /\ attempts.blockedUntil <= now
      BY <1>2, <2>2 DEF Login!CheckLoginAttemptLimit
    <3>2. attempts.count < MaxAttempts
      BY <1>0, <2>2, <3>1 DEF LoginInv, LimiterInv, Login!WindowOver
    <3> QED
      BY <1>0, <3>1, <3>2 DEF LoginInv, LimiterInv
  <2> QED
    BY <2>1, <2>2
<1>3. ASSUME NEW r \in Requests, Login!RecordFailedLogin(r) PROVE LimiterInv'
  <2>1. now' = now /\ doing[r] = "comparing" /\ doing' = [doing EXCEPT ![r] = "idle"]
    BY <1>3 DEF Login!RecordFailedLogin, Login!Do
  <2>2. Cardinality(Comparing') = Cardinality(Comparing) - 1 /\ Cardinality(Comparing) > 0
    BY <2>1, OneLess DEF LoginInv
  <2>3. CASE attempts.count = 0 \/ Login!WindowOver
    <3>1. attempts'.count = 1 /\ attempts'.windowStartedAt = now
      BY <1>3, <2>3 DEF Login!RecordFailedLogin
    <3> QED
      BY <1>0, <2>1, <3>1 DEF LimiterInv
  <2>4. CASE ~(attempts.count = 0 \/ Login!WindowOver)
    <3>1. /\ attempts'.count = attempts.count + 1
          /\ attempts'.windowStartedAt = attempts.windowStartedAt
          /\ attempts'.count >= MaxAttempts => attempts'.blockedUntil = now + Block
      BY <1>0, <1>3, <2>4 DEF Login!RecordFailedLogin
    <3>2. attempts.windowStartedAt + Window <= now + Block
      BY <1>0 DEF LoginInv, LimiterInv
    <3>3. attempts'.count >= MaxAttempts =>
            attempts'.count + Cardinality(Comparing') < MaxAttempts + Cardinality(Requests)
      <4>1. CASE attempts.count >= MaxAttempts
        BY <1>0, <2>2, <3>1, <4>1, ComparingCounted DEF LoginInv, LimiterInv
      <4>2. CASE attempts.count < MaxAttempts
        BY <1>0, <2>2, <3>1, <4>2, ComparingCounted
      <4> QED
        BY <1>0, <4>1, <4>2
    <3> QED
      BY <1>0, <2>1, <3>1, <3>2, <3>3 DEF LoginInv, LimiterInv
  <2> QED
    BY <2>3, <2>4
<1>4. ASSUME NEW r \in Requests, Login!ClearFailedLogins(r) PROVE LimiterInv'
  <2>1. attempts'.count = 0 /\ attempts'.windowStartedAt = 0 /\ now' = now
    BY <1>4 DEF Login!ClearFailedLogins, Login!NoAttempt
  <2> QED
    BY <1>0, <2>1 DEF LimiterInv
<1>5. ASSUME NEW r \in Requests,
             \/ \E s \in Sessions : Login!CreateAdminSession(r, s) \/ Login!FindByRefreshToken(r, s)
             \/ Login!RotateAdminSession(r) \/ Login!RevokeAdminSession(r)
      PROVE  LimiterInv'
  <2>1. /\ now' = now /\ attempts' = attempts
        /\ doing[r] # "comparing" /\ \E what \in {"idle", "rotating", "leaving"} : doing' = [doing EXCEPT ![r] = what]
    BY <1>5 DEF Login!CreateAdminSession, Login!FindByRefreshToken, Login!RotateAdminSession,
                Login!RevokeAdminSession, Login!Do
  <2>2. Comparing' = Comparing
    BY <2>1 DEF LoginInv, Login!TypeOK, Comparing
  <2> QED
    BY <2>1, <2>2 DEF LoginInv, LimiterInv
<1>6. CASE UNCHANGED Login!vars
  BY <1>6 DEF Login!vars, LoginInv, LimiterInv, Comparing
<1> QED
  BY <1>1, <1>2, <1>3, <1>4, <1>5, <1>6 DEF Login!Next, Login!Request

THEOREM LoginSafe == Login!Spec => []LoginInv
<1>1. Login!Init => LoginInv
  BY LoginFacts DEF Login!Init, Login!NoAttempt, LoginInv, LimiterInv, Login!TypeOK
<1>2. LoginInv /\ [Login!Next]_(Login!vars) => LoginInv'
  BY LoginTyped, LimiterStep DEF LoginInv
<1> QED
  BY <1>1, <1>2, PTL DEF Login!Spec

\* The failures in a window exceed the limit by no more than the logins that
\* were being compared when it was reached.
THEOREM FailuresStayBounded == Login!Spec => []FailuresBounded
<1>1. LoginInv => FailuresBounded
  <2> SUFFICES ASSUME LoginInv PROVE attempts.count < MaxAttempts + Cardinality(Requests)
    BY DEF FailuresBounded, Login!FailuresBounded, Cardinality, Login!Cardinality
  <2>1. attempts.count \in Nat
    BY DEF LoginInv, Login!TypeOK
  <2> QED
    BY <2>1, LoginFacts, ComparingCounted DEF LoginInv, LimiterInv
<1> QED
  BY <1>1, LoginSafe, PTL

\* A session that was logged out is never live again: a refresh writes its token
\* only.
THEOREM LogoutIsFinal == Login!Spec => LoggedOutStaysOut
<1>1. LoginInv /\ [Login!Next]_(Login!vars) =>
        [\A s \in Sessions : session[s].state = "ended" => session'[s].state = "ended"]_(Login!vars)
  <2> SUFFICES ASSUME LoginInv, Login!Next, NEW s \in Sessions, session[s].state = "ended"
               PROVE  session'[s].state = "ended"
    OBVIOUS
  <2>1. session \in [Sessions -> [state : {"free", "live", "ended"}, token : 0..MaxTokens]]
    BY DEF LoginInv, Login!TypeOK
  <2>2. ASSUME NEW r \in Requests, Login!Request(r) PROVE session'[s].state = "ended"
    <3>1. CASE Login!RotateAdminSession(r)
      BY <2>1, <3>1 DEF Login!RotateAdminSession
    <3>2. CASE Login!RevokeAdminSession(r)
      BY <2>1, <3>2 DEF Login!RevokeAdminSession
    <3>3. ASSUME NEW t \in Sessions, Login!CreateAdminSession(r, t) PROVE session'[s].state = "ended"
      BY <2>1, <3>3 DEF Login!CreateAdminSession
    <3> QED
      BY <2>2, <3>1, <3>2, <3>3 DEF Login!Request, Login!CheckLoginAttemptLimit,
         Login!RecordFailedLogin, Login!ClearFailedLogins, Login!FindByRefreshToken
  <2> QED
    BY <2>2 DEF Login!Next, Login!Tick
<1> QED
  BY <1>1, LoginSafe, PTL DEF Login!Spec, LoggedOutStaysOut, Login!LoggedOutStaysOut

-----------------------------------------------------------------------------
(* The run.                                                                    *)

\* The clients who are logged in from the start are in order as well.
LEMMA LoggedInInit == LoggedInClients => SessionInv /\ GroupInv
<1> SUFFICES ASSUME LoggedInClients PROVE SessionInv /\ GroupInv
  OBVIOUS
<1> USE ClientSessionsAssumption DEF LoggedInClients
<1>1. TypeOK
  BY DEF TypeOK, State, Op, Tokens, Rows
<1>2. RequestInv
  BY DEF RequestInv, Fits, Locks
<1>3. OwnerInv
  BY <1>1 DEF OwnerInv, TypeOK, Rows
<1>4. TokenInv
  BY <1>1 DEF TokenInv, TypeOK, Tokens, Rows
<1>5. SurvivorsAreNewer
  BY <1>1 DEF SurvivorsAreNewer, TypeOK, Rows
<1>6. Groups!TypeOK
  BY PartsAssumption DEF Groups!TypeOK, Groups!Roles, Groups!InviteRow, Groups!Init,
                         Groups!ClientGroupsAssumption
<1>7. AdmittedInv
  BY DEF AdmittedInv, Groups!Free, Groups!Init
<1>8. InviteInv
  BY DEF InviteInv, Groups!Init
<1>9. Groups!MembersWereAdmitted
  BY DEF Groups!MembersWereAdmitted, Groups!Init
<1> QED
  BY <1>1, <1>2, <1>3, <1>4, <1>5, <1>6, <1>7, <1>8, <1>9 DEF SessionInv, GroupInv

\* A behaviour of the run is one of the parts, of which only the client API may
\* start with clients that are logged in.
LEMMA PartsRun ==
  MCSpec => /\ SessionInv /\ GroupInv /\ [][ApiNext]_apiVars
            /\ Roles!Spec /\ Login!Spec
<1>1. MCInit => SessionInv /\ GroupInv /\ Roles!Init /\ Login!Init
  <2>1. ApiInit => SessionInv /\ GroupInv
    BY SessionInit, GroupInit, PartsAssumption DEF ApiInit
  <2> QED
    BY <2>1, LoggedInInit DEF MCInit
<1>2. [MCNext]_<<situation, apiVars, roleVars, loginVars>> =>
        [ApiNext]_apiVars /\ [Roles!Next]_roleVars /\ [Login!Next]_loginVars
  BY DEF MCNext, ClientStep, RoleStep, LoginStep
<1>3. MCSpec => /\ SessionInv /\ GroupInv /\ [][ApiNext]_apiVars
                /\ Roles!Init /\ [][Roles!Next]_roleVars
                /\ Login!Init /\ [][Login!Next]_loginVars
  BY <1>1, <1>2, PTL DEF MCSpec
<1> QED
  BY <1>3 DEF Roles!Spec, Roles!vars, roleVars, Login!Spec, Login!vars, loginVars

\* What the run checks of its four situations on a small instance holds of every
\* one, whoever is logged in at its start.
THEOREM AccountsHold ==
  MCSpec => /\ []( /\ TokensAcceptedOnce /\ SurvivorsAreNewer /\ GroupsAdmitAsInvited
                   /\ EffectiveIsOneSave /\ FailuresBounded )
            /\ LoggedOutStaysOut
<1>1. SessionInv /\ GroupInv /\ [ApiNext]_apiVars => SessionInv' /\ GroupInv'
  BY ApiStepIsSessionStep, SessionStep, GroupStep, PartsAssumption
<1>2. SessionInv => TokensAcceptedOnce /\ SurvivorsAreNewer
  BY DEF SessionInv, TokenInv, TokensAcceptedOnce, Tokens, Rows
<1>3. MCSpec => [](TokensAcceptedOnce /\ SurvivorsAreNewer /\ GroupInv)
  BY <1>1, <1>2, PartsRun, PTL
<1> QED
  BY <1>3, GroupsAreAdmitting, PartsRun, OneSave, FailuresStayBounded, LogoutIsFinal, PTL

=============================================================================
