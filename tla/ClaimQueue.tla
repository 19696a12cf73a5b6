----------------------------- MODULE ClaimQueue -----------------------------
(***************************************************************************)
(* What a table that is drained by FOR UPDATE SKIP LOCKED promises: items  *)
(* are handed to one worker at a time, a worker takes a new batch only     *)
(* when it has settled the last one, and a finished item never comes back, *)
(* unless what became of it is known only later and was a failure.         *)
(* A worker that dies takes its batch with it: those items stay claimed    *)
(* by nobody, and only an operator's eye can find them.                    *)
(*                                                                         *)
(* RegiondoWebhookInbox implements this with regiondo_webhook_events, and  *)
(* ReminderDeliveries with reminder_deliveries.                            *)
(***************************************************************************)
CONSTANTS
  Items, Workers, NoWorker,
  Revocable   \* the items that can turn out to have failed after they were done

VARIABLES
  state,   \* state[i]: "absent", "ready", "claimed", "done" or "failed"
  owner    \* owner[i]: the worker that holds item i, or NoWorker

vars == <<state, owner>>

State == {"absent", "ready", "claimed", "done", "failed"}

Init ==
  /\ state = [i \in Items |-> "absent"]
  /\ owner = [i \in Items |-> NoWorker]

Add(items) ==
  /\ \A i \in items : state[i] = "absent"
  /\ state' = [i \in Items |-> IF i \in items THEN "ready" ELSE state[i]]
  /\ UNCHANGED owner

Claim(w, items) ==
  /\ \A i \in Items : owner[i] # w
  /\ \A i \in items : state[i] = "ready"
  /\ state' = [i \in Items |-> IF i \in items THEN "claimed" ELSE state[i]]
  /\ owner' = [i \in Items |-> IF i \in items THEN w ELSE owner[i]]

\* The worker settles an item: done, failed for good, or to be tried again.
Settle(w, i, outcome) ==
  /\ owner[i] = w
  /\ state' = [state EXCEPT ![i] = outcome]
  /\ owner' = [owner EXCEPT ![i] = NoWorker]

\* What was done for an item has failed in the end; no worker is told.
Revoke(i) ==
  /\ i \in Revocable
  /\ state[i] = "done"
  /\ state' = [state EXCEPT ![i] = "failed"]
  /\ UNCHANGED owner

\* An operator puts a failed item back.
Requeue(i) ==
  /\ state[i] = "failed"
  /\ state' = [state EXCEPT ![i] = "ready"]
  /\ UNCHANGED owner

\* The worker dies.
Abandon(w) ==
  /\ owner' = [i \in Items |-> IF owner[i] = w THEN NoWorker ELSE owner[i]]
  /\ UNCHANGED state

Next ==
  \/ \E items \in SUBSET Items : Add(items)
  \/ \E w \in Workers, items \in SUBSET Items : Claim(w, items)
  \/ \E w \in Workers, i \in Items, outcome \in {"ready", "done", "failed"} : Settle(w, i, outcome)
  \/ \E i \in Items : Revoke(i) \/ Requeue(i)
  \/ \E w \in Workers : Abandon(w)

Spec == Init /\ [][Next]_vars

=============================================================================
