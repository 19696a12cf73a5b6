-------------------------- MODULE RegiondoRequests --------------------------
(***************************************************************************)
(* The requests that one process sends to Regiondo.  All callers share the *)
(* throttle.  A GET that fails on the way is sent again, a POST never is,  *)
(* and nothing that ran into its timeout is.                               *)
(* A purchase that is answered with the number, or only the id, of its     *)
(* order goes on to poll for the order, several times and until a deadline.*)
(* A timer may fire late, never early; a request may take any time.        *)
(***************************************************************************)
EXTENDS Naturals, FiniteSets

CONSTANTS
  Callers,
  Throttle,     \* REGIONDO_REQUEST_THROTTLE_MS
  MaxRetries,   \* REGIONDO_REQUEST_MAX_RETRIES
  BaseDelay,    \* ..._RETRY_BASE_DELAY_MS
  MaxDelay,     \* the 5000 of getRegiondoRetryDelayMs
  MaxAttempts,  \* REGIONDO_PURCHASE_HYDRATION_MAX_ATTEMPTS
  Patience,     \* REGIONDO_PURCHASE_HYDRATION_TIMEOUT_MS
  MaxTime       \* bound: the clock

RegiondoRequestsAssumption ==
  /\ IsFiniteSet(Callers)
  /\ {Throttle, MaxRetries, BaseDelay, MaxDelay, MaxTime} \subseteq Nat
  /\ {MaxAttempts, Patience} \subseteq Nat \ {0}

VARIABLES
  now,
  nextRequestAt,  \* the first slot that is free
  sent,           \* history: requests that left
  call            \* see New

vars == <<now, nextRequestAt, sent, call>>

\* request: what is sent, or was last; taken: Regiondo has the order; number:
\* its number is known; error: what ended the call.
New == [stage |-> "new", request |-> "none", attempt |-> 0, due |-> 0, deadline |-> 0,
        number |-> FALSE, taken |-> FALSE, error |-> "none", result |-> "none"]

\* How a request fails: refused (a status 4xx), busy (429), lost (408, 425, 5xx or
\* the network), invalid (broken JSON), or timeout: AbortSignal.timeout rejects
\* with a TimeoutError, which is neither the AbortError nor the TypeError that the
\* predicates below look for.
RequestErrors == {"refused", "busy", "lost", "invalid", "timeout"}

\* isRetryableRegiondoRequestError
RetryableErrors == {"busy", "lost"}

\* isRetryablePurchaseHydrationError: also an answer that is not an order yet.
PollErrors == RetryableErrors \cup {"unusable"}

\* Mutant: an answer that is no JSON is taken for a refusal.
AmbiguousErrorsOnTheWire == {"lost"}

\* isAmbiguousPurchaseSubmissionError
AmbiguousErrors == {"lost", "invalid"}

RequestKinds == {"get", "cancel", "purchase", "order number", "order"}

TypeOK ==
  /\ now \in 0..MaxTime
  /\ {nextRequestAt, sent} \subseteq Nat
  /\ \A c \in Callers :
       /\ call[c].stage \in {"new", "throttle", "wait", "sent", "pause", "over"}
       /\ call[c].request \in RequestKinds \cup {"none"}
       /\ call[c].error \in RequestErrors \cup {"none"}
       /\ call[c].result \in {"none", "done", "failed", "recovery"}

Init ==
  /\ now = 0 /\ nextRequestAt = 0 /\ sent = 0
  /\ call = [c \in Callers |-> New]

\* getRegiondoRetryDelayMs
RetryDelay(attempt) ==
  LET delay == BaseDelay * 2 ^ attempt IN IF delay < MaxDelay THEN delay ELSE MaxDelay

ScheduledAt == IF now < nextRequestAt THEN nextRequestAt ELSE now

Set(c, w) == call' = [call EXCEPT ![c] = w]
Finish(c, w, result) == Set(c, [w EXCEPT !.stage = "over", !.result = result])

-----------------------------------------------------------------------------

Call(c) ==
  /\ call[c].stage = "new"
  /\ \E what \in {"get", "cancel", "purchase"} :
       Set(c, [New EXCEPT !.stage = "throttle", !.request = what])
  /\ UNCHANGED <<now, nextRequestAt, sent>>

\* Mutant: the slots that others wait for are forgotten.
ThrottleRequestForgets(c) ==
  /\ call[c].stage = "throttle"
  /\ nextRequestAt' = now + Throttle
  /\ Set(c, [call[c] EXCEPT !.stage = "wait", !.due = ScheduledAt])
  /\ UNCHANGED <<now, sent>>

\* throttleRequest: the slot is taken before the sleep.
ThrottleRequest(c) ==
  /\ call[c].stage = "throttle"
  /\ nextRequestAt' = ScheduledAt + Throttle
  /\ Set(c, [call[c] EXCEPT !.stage = "wait", !.due = ScheduledAt])
  /\ UNCHANGED <<now, sent>>

Send(c) ==
  /\ call[c].stage = "wait" /\ call[c].due <= now
  /\ sent' = sent + 1
  /\ Set(c, [call[c] EXCEPT !.stage = "sent"])
  /\ UNCHANGED <<now, nextRequestAt>>

\* requestJson of a GET or a cancellation: done, given up, or again after a
\* pause, when the error is one that passes and tries are left.
AnswerRequest(c) ==
  LET w == call[c]
      tries == IF w.request = "get" THEN MaxRetries ELSE 0 IN
  /\ w.stage = "sent" /\ w.request \in {"get", "cancel"}
  /\ \/ Finish(c, w, "done")
     \/ \E error \in RequestErrors :
          IF error \in RetryableErrors /\ w.attempt < tries
          THEN Set(c, [w EXCEPT !.stage = "pause", !.due = now + RetryDelay(w.attempt), !.attempt = @ + 1])
          ELSE Finish(c, [w EXCEPT !.error = error], "failed")
  /\ UNCHANGED <<now, nextRequestAt, sent>>

\* pollPurchaseOrderSnapshot: an attempt begins with what is missing, unless
\* the time is over; without a number, nor an id, there is nothing to ask for.
BeginAttempt(w) ==
  IF now >= w.deadline THEN [w EXCEPT !.stage = "over", !.result = "recovery"]
  ELSE [w EXCEPT !.stage = "throttle", !.attempt = @ + 1,
                 !.request = IF w.number THEN "order" ELSE "order number"]

\* purchaseOrder and resolvePurchaseOrderSnapshot: an error, after which only
\* Regiondo knows whether it took the order unless it refused it; or an answer
\* with the order in it, its number or id, or neither.
AnswerPurchase(c) ==
  LET w == call[c]
      taken == [w EXCEPT !.taken = TRUE] IN
  /\ w.stage = "sent" /\ w.request = "purchase"
  /\ \/ \E error \in RequestErrors, t \in BOOLEAN :
          /\ error \in {"refused", "busy"} => ~t
          /\ Finish(c, [w EXCEPT !.taken = t, !.error = error],
                    IF error \in AmbiguousErrors THEN "recovery" ELSE "failed")
     \/ Finish(c, taken, "done")
     \/ \E number \in BOOLEAN :
          Set(c, BeginAttempt([taken EXCEPT !.number = number, !.deadline = now + Patience]))
     \/ Finish(c, taken, "recovery")
  /\ UNCHANGED <<now, nextRequestAt, sent>>

\* An answer to a poll: the number, and on to the order unless the time is
\* over; the order; an error that passes, or no order yet, and a pause if that
\* leaves time and attempts; or another error, which is thrown as it is.
AnswerPoll(c) ==
  LET w == call[c]
      delay == RetryDelay(w.attempt - 1)
      pause == IF w.attempt >= MaxAttempts \/ now + delay >= w.deadline
               THEN [w EXCEPT !.stage = "over", !.result = "recovery"]
               ELSE [w EXCEPT !.stage = "pause", !.due = now + delay] IN
  /\ w.stage = "sent" /\ w.request \in {"order number", "order"}
  /\ \/ w.request = "order" /\ Finish(c, w, "done")
     \/ /\ w.request = "order number"
        /\ Set(c, IF now < w.deadline
                  THEN [w EXCEPT !.stage = "throttle", !.number = TRUE, !.request = "order"]
                  ELSE [pause EXCEPT !.number = TRUE])
     \/ \E error \in RequestErrors \cup {"unusable"} :
          IF error \in PollErrors THEN Set(c, pause)
          ELSE Finish(c, [w EXCEPT !.error = error], "failed")
  /\ UNCHANGED <<now, nextRequestAt, sent>>

\* The pause is over; a poll looks at the clock again.
Resume(c) ==
  LET w == call[c] IN
  /\ w.stage = "pause" /\ w.due <= now
  /\ Set(c, IF w.request = "get" THEN [w EXCEPT !.stage = "throttle"] ELSE BeginAttempt(w))
  /\ UNCHANGED <<now, nextRequestAt, sent>>

Tick ==
  /\ now < MaxTime
  /\ now' = now + 1
  /\ UNCHANGED <<nextRequestAt, sent, call>>

Next ==
  \/ Tick
  \/ \E c \in Callers :
       \/ Call(c) \/ ThrottleRequest(c) \/ Send(c) \/ Resume(c)
       \/ AnswerRequest(c) \/ AnswerPurchase(c) \/ AnswerPoll(c)

Spec == Init /\ [][Next]_vars

-----------------------------------------------------------------------------

\* However many callers retry and poll at once, and however late their timers
\* fire, no more requests leave than one per throttle interval.
RequestsArePaced == sent > 0 => Throttle * (sent - 1) <= now

\* A purchase that Regiondo took ends with its order or is handed over for
\* recovery, whether the answer was lost or broken, names no order, or the order
\* does not show in time.  It is a failure only when a request timed out, or when
\* Regiondo refused to show the order or showed it broken.
TakenOrdersAreHandedOver ==
  \A c \in Callers :
    LET w == call[c] IN
    w.taken /\ w.stage = "over" /\ w.result \notin {"done", "recovery"} =>
      \/ w.error = "timeout"
      \/ w.request # "purchase" /\ w.error \in {"refused", "invalid"}

\* A purchase that Regiondo took, and whose POST timed out, is handed over for
\* recovery, as the hydration plan asks.
TimedOutPurchasesAreHandedOver ==
  \A c \in Callers :
    LET w == call[c] IN
    w.taken /\ w.request = "purchase" /\ w.error = "timeout" => w.result = "recovery"
=============================================================================
