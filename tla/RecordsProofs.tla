---------------------------- MODULE RecordsProofs ----------------------------
(***************************************************************************)
(* What the run over the records checks, for any number of messages,       *)
(* bookings, rows, resources, days and callers.                            *)
(***************************************************************************)
EXTENDS MCRecords, TLAPS, FiniteSetTheorems

-----------------------------------------------------------------------------
(* The requests to Regiondo: a call.                                           *)

LEMMA ClientConstants == Throttle \in Nat /\ IsFiniteSet(Callers)
<1>1. {Throttle} \subseteq Nat /\ Client!IsFiniteSet(Callers)
  BY PartsAssumption DEF Client!RegiondoRequestsAssumption
<1> QED
  BY <1>1 DEF Client!IsFiniteSet, IsFiniteSet

LEMMA ClientSpec == Client!Spec => Client!Init /\ [][Client!Next]_clientPart
BY DEF Client!Spec, Client!vars, clientPart

\* Until a call polls for an order there is none that Regiondo took; once it
\* is over, an order that was taken was handed over, or an error stands for it
\* that the client passes on as it is.
PassedOn(w) ==
  \/ w.error = "timeout"
  \/ w.request # "purchase" /\ w.error \in {"refused", "invalid"}

CallOK(w) ==
  /\ DOMAIN w = DOMAIN Client!New
  /\ w.stage = "wait" => w.due \in Nat
  /\ w.stage = "over" \/ w.request \in {"order number", "order"} \/ ~w.taken
  /\ w.stage = "over" /\ w.taken => w.result \in {"done", "recovery"} \/ PassedOn(w)

CallInv ==
  /\ clock \in Nat /\ nextRequestAt \in Nat /\ sent \in Nat
  /\ DOMAIN call = Callers /\ \A c \in Callers : CallOK(call[c])

\* A step of one caller.
LEMMA SetKeeps ==
  ASSUME CallInv, NEW c \in Callers, NEW w, Client!Set(c, w), CallOK(w)
  PROVE  DOMAIN call' = Callers /\ \A d \in Callers : CallOK(call'[d])
BY DEF CallInv, Client!Set, CallOK

LEMMA AttemptOK ==
  ASSUME NEW w, DOMAIN w = DOMAIN Client!New PROVE CallOK(Client!BeginAttempt(w)) /\ Client!BeginAttempt(w).stage # "wait"
BY DEF CallOK, Client!BeginAttempt, Client!New

LEMMA ScheduledAtType ==
  ASSUME CallInv PROVE Client!ScheduledAt \in Nat /\ Client!ScheduledAt >= nextRequestAt /\ Client!ScheduledAt >= clock
BY DEF CallInv, Client!ScheduledAt

\* The step of a caller that waits for no slot after it.
Answered(c) == Client!Set(c, call'[c]) /\ CallOK(call'[c]) /\ call'[c].stage # "wait"

LEMMA SetAnswers ==
  ASSUME CallInv, NEW c \in Callers, NEW w, Client!Set(c, w), CallOK(w), w.stage # "wait"
  PROVE  Answered(c)
<1>1. call'[c] = w
  BY DEF CallInv, Client!Set
<1> QED
  BY <1>1 DEF Answered

LEMMA FinishAnswers ==
  ASSUME CallInv, NEW c \in Callers, NEW w, NEW result, Client!Finish(c, w, result),
         DOMAIN w = DOMAIN Client!New,
         ~w.taken \/ result \in {"done", "recovery"} \/ PassedOn(w)
  PROVE  Answered(c)
<1> DEFINE v == [w EXCEPT !.stage = "over", !.result = result]
<1>1. CallOK(v) /\ v.stage # "wait"
  BY DEF CallOK, PassedOn, Client!New
<1> QED
  BY <1>1, SetAnswers DEF Client!Finish

\* An answer, or the end of a pause, sends nothing and waits for no slot.
LEMMA AnswersKeep ==
  ASSUME CallInv, NEW c \in Callers,
         Client!AnswerRequest(c) \/ Client!AnswerPurchase(c) \/ Client!AnswerPoll(c) \/ Client!Resume(c)
  PROVE  Answered(c)
<1> DEFINE v == call[c]
<1>1. CallOK(v) /\ DOMAIN v = DOMAIN Client!New
  BY DEF CallInv, CallOK
<1>2. CASE Client!AnswerRequest(c)
  <2>1. v.stage = "sent" /\ ~v.taken
    BY <1>1, <1>2 DEF Client!AnswerRequest, CallOK
  <2>2. CASE Client!Finish(c, v, "done")
    BY <1>1, <2>2, FinishAnswers
  <2>4. ASSUME NEW error \in Client!RequestErrors, Client!Finish(c, [v EXCEPT !.error = error], "failed")
        PROVE  Answered(c)
    <3>1. DOMAIN [v EXCEPT !.error = error] = DOMAIN Client!New /\ ~[v EXCEPT !.error = error].taken
      BY <1>1, <2>1 DEF Client!New
    <3> QED
      BY <2>4, <3>1, FinishAnswers
  <2>3. CASE Client!Set(c, [v EXCEPT !.stage = "pause", !.due = clock + Client!RetryDelay(v.attempt), !.attempt = @ + 1])
    <3> DEFINE w == [v EXCEPT !.stage = "pause", !.due = clock + Client!RetryDelay(v.attempt), !.attempt = @ + 1]
    <3>1. CallOK(w) /\ w.stage # "wait"
      BY <1>1, <2>1 DEF CallOK, Client!New
    <3> QED
      BY <2>3, <3>1, SetAnswers
  <2> QED
    BY <1>2, <2>2, <2>3, <2>4 DEF Client!AnswerRequest
<1>3. CASE Client!AnswerPurchase(c)
  <2>1. v.stage = "sent" /\ ~v.taken
    BY <1>1, <1>3 DEF Client!AnswerPurchase, CallOK
  <2>2. ASSUME NEW error \in Client!RequestErrors, NEW t \in BOOLEAN, error \in {"refused", "busy"} => ~t,
               Client!Finish(c, [v EXCEPT !.taken = t, !.error = error],
                             IF error \in Client!AmbiguousErrors THEN "recovery" ELSE "failed")
        PROVE  Answered(c)
    <3> DEFINE w == [v EXCEPT !.taken = t, !.error = error]
    <3>1. DOMAIN w = DOMAIN Client!New /\ w.taken = t /\ w.error = error
      BY <1>1 DEF Client!New
    <3>2. CASE error \in Client!AmbiguousErrors
      BY <2>2, <3>1, <3>2, FinishAnswers
    <3>3. CASE error \notin Client!AmbiguousErrors
      <4>1. ~w.taken \/ PassedOn(w)
        BY <2>2, <3>1, <3>3 DEF PassedOn, Client!RequestErrors, Client!AmbiguousErrors
      <4> HIDE DEF w
      <4> QED
        BY <2>2, <3>1, <3>3, <4>1, FinishAnswers DEF w
    <3> QED
      BY <3>2, <3>3
  <2>3. CASE Client!Finish(c, [v EXCEPT !.taken = TRUE], "recovery")
    BY <1>1, <2>3, FinishAnswers
  <2>4. CASE Client!Finish(c, [v EXCEPT !.taken = TRUE], "done")
    BY <1>1, <2>4, FinishAnswers
  <2> DEFINE known(number) == [[v EXCEPT !.taken = TRUE] EXCEPT !.number = number, !.deadline = clock + Patience]
  <2>5. CASE \E number \in BOOLEAN : Client!Set(c, Client!BeginAttempt(known(number)))
    <3>1. PICK number \in BOOLEAN : Client!Set(c, Client!BeginAttempt(known(number)))
      BY <2>5
    <3>2. DOMAIN known(number) = DOMAIN Client!New
      BY <1>1
    <3> HIDE DEF known
    <3> QED
      BY <3>1, <3>2, AttemptOK, SetAnswers
  <2> QED
    BY <1>3, <2>2, <2>3, <2>4, <2>5 DEF Client!AnswerPurchase
<1>4. CASE Client!AnswerPoll(c)
  <2> DEFINE delay == Client!RetryDelay(v.attempt - 1)
             pause == IF v.attempt >= MaxAttempts \/ clock + delay >= v.deadline
                      THEN [v EXCEPT !.stage = "over", !.result = "recovery"]
                      ELSE [v EXCEPT !.stage = "pause", !.due = clock + delay]
             next == [v EXCEPT !.stage = "throttle", !.number = TRUE, !.request = "order"]
             numbered == [pause EXCEPT !.number = TRUE]
  <2>1. v.request \in {"order number", "order"} /\ v.stage = "sent"
    BY <1>4 DEF Client!AnswerPoll
  <2>2. CASE Client!Finish(c, v, "done")
    BY <1>1, <2>2, FinishAnswers
  <2>3. CallOK(pause) /\ pause.stage # "wait"
    BY <1>1, <2>1 DEF CallOK, Client!New
  <2>4. CASE Client!Set(c, IF clock < v.deadline THEN next ELSE numbered)
    <3>1. CallOK(next) /\ next.stage # "wait"
      BY <1>1, <2>1 DEF CallOK, Client!New
    <3>2. CallOK(numbered) /\ numbered.stage # "wait"
      <4> HIDE DEF pause
      <4> QED
        BY <2>3 DEF CallOK, PassedOn, Client!New
    <3> HIDE DEF next, numbered
    <3> QED
      BY <2>4, <3>1, <3>2, SetAnswers
  <2>5. CASE Client!Set(c, pause)
    <3> HIDE DEF pause
    <3> QED
      BY <2>3, <2>5, SetAnswers
  <2>6. ASSUME NEW error \in Client!RequestErrors \cup {"unusable"}, error \notin Client!PollErrors,
               Client!Finish(c, [v EXCEPT !.error = error], "failed")
        PROVE  Answered(c)
    <3> DEFINE w == [v EXCEPT !.error = error]
    <3>1. DOMAIN w = DOMAIN Client!New /\ w.error = error /\ w.request = v.request
      BY <1>1 DEF Client!New
    <3>2. PassedOn(w)
      BY <2>1, <2>6, <3>1 DEF PassedOn, Client!PollErrors, Client!RetryableErrors, Client!RequestErrors
    <3> QED
      BY <2>6, <3>1, <3>2, FinishAnswers
  <2> QED
    BY <1>4, <2>2, <2>4, <2>5, <2>6 DEF Client!AnswerPoll
<1>5. CASE Client!Resume(c)
  <2>1. CASE v.request = "get"
    <3> DEFINE w == [v EXCEPT !.stage = "throttle"]
    <3>1. Client!Set(c, w) /\ ~v.taken
      BY <1>1, <1>5, <2>1 DEF Client!Resume, CallOK
    <3>2. CallOK(w) /\ w.stage # "wait"
      BY <1>1, <3>1 DEF CallOK, Client!New
    <3> QED
      BY <3>1, <3>2, SetAnswers
  <2>2. CASE v.request # "get"
    <3>1. Client!Set(c, Client!BeginAttempt(v))
      BY <1>5, <2>2 DEF Client!Resume
    <3> QED
      BY <1>1, <3>1, AttemptOK, SetAnswers
  <2> QED
    BY <2>1, <2>2
<1> QED
  BY <1>2, <1>3, <1>4, <1>5

LEMMA CallInvHolds ==
  ASSUME CallInv, [Client!Next]_clientPart PROVE CallInv'
<1>0. Throttle \in Nat
  BY ClientConstants
<1>1. CASE UNCHANGED clientPart
  BY <1>1 DEF clientPart, CallInv
<1>2. CASE Client!Tick
  BY <1>2 DEF Client!Tick, CallInv
<1>3. ASSUME NEW c \in Callers, Client!Call(c) PROVE CallInv'
  <2>1. PICK what \in {"get", "cancel", "purchase"} : Client!Set(c, [Client!New EXCEPT !.stage = "throttle", !.request = what])
    BY <1>3 DEF Client!Call
  <2>2. CallOK([Client!New EXCEPT !.stage = "throttle", !.request = what])
    BY DEF CallOK, Client!New
  <2> QED
    BY <1>3, <2>1, <2>2, SetKeeps DEF Client!Call, CallInv
<1>4. ASSUME NEW c \in Callers, Client!ThrottleRequest(c) PROVE CallInv'
  <2>1. CallOK([call[c] EXCEPT !.stage = "wait", !.due = Client!ScheduledAt])
    BY <1>4, ScheduledAtType DEF Client!ThrottleRequest, CallInv, CallOK, Client!New
  <2> QED
    BY <1>0, <1>4, <2>1, SetKeeps, ScheduledAtType DEF Client!ThrottleRequest, CallInv
<1>5. ASSUME NEW c \in Callers, Client!Send(c) PROVE CallInv'
  <2>1. CallOK([call[c] EXCEPT !.stage = "sent"])
    BY <1>5 DEF Client!Send, CallInv, CallOK, Client!New
  <2> QED
    BY <1>5, <2>1, SetKeeps DEF Client!Send, CallInv
<1>6. ASSUME NEW c \in Callers, Client!AnswerRequest(c) \/ Client!AnswerPurchase(c) \/ Client!AnswerPoll(c) \/ Client!Resume(c)
      PROVE  CallInv'
  <2>1. Client!Set(c, call'[c]) /\ CallOK(call'[c])
    BY <1>6, AnswersKeep DEF Answered
  <2>2. UNCHANGED <<clock, nextRequestAt, sent>>
    BY <1>6 DEF Client!AnswerRequest, Client!AnswerPurchase, Client!AnswerPoll, Client!Resume
  <2> QED
    BY <2>1, <2>2, SetKeeps DEF CallInv
<1> QED
  BY <1>1, <1>2, <1>3, <1>4, <1>5, <1>6 DEF Client!Next

-----------------------------------------------------------------------------
(* The requests to Regiondo: the slots of the throttle.                        *)

Waiting == {c \in Callers : call[c].stage = "wait"}
DueBy(t) == {c \in Waiting : call[c].due <= t}

\* Every slot that was given out was used or is waited for, so the next free
\* one is that many intervals away; and by any moment that is still to come no
\* more requests will have left than one per interval.
Leaving(t) == sent + Cardinality(DueBy(t))

PacedBy(t) == Leaving(t) > 0 => Throttle * (Leaving(t) - 1) <= t

PaceInv ==
  /\ Throttle * (sent + Cardinality(Waiting)) <= nextRequestAt
  /\ \A t \in Nat : t >= clock => PacedBy(t)

LEMMA TimesMonotone ==
  ASSUME NEW a \in Nat, NEW x \in Nat, NEW y \in Nat, x <= y PROVE a * x <= a * y
OBVIOUS

LEMMA TimesSuccessor ==
  ASSUME NEW a \in Nat, NEW x \in Nat PROVE a * (x + 1) = a * x + a /\ a * x \in Nat
OBVIOUS

LEMMA SetsAreFinite ==
  ASSUME NEW S \in SUBSET Callers
  PROVE  IsFiniteSet(S) /\ Cardinality(S) \in Nat
BY ClientConstants, FS_Subset, FS_CardinalityType

LEMMA OneLess ==
  ASSUME NEW S \in SUBSET Callers, NEW c \in S
  PROVE  Cardinality(S) \in Nat /\ Cardinality(S \ {c}) = Cardinality(S) - 1
BY SetsAreFinite, FS_RemoveElement

\* A step of a caller that neither waited nor waits clock.
LEMMA OthersKeepSlots ==
  ASSUME CallInv, PaceInv, NEW c \in Callers, NEW w, Client!Set(c, w),
         call[c].stage # "wait", w.stage # "wait", UNCHANGED <<clock, nextRequestAt, sent>>
  PROVE  PaceInv'
<1>1. \A d \in Callers : call'[d] = IF d = c THEN w ELSE call[d]
  BY DEF CallInv, Client!Set
<1>2. Waiting' = Waiting
  BY <1>1 DEF Waiting
<1>3. \A t \in Nat : DueBy(t)' = DueBy(t)
  BY <1>1, <1>2 DEF DueBy, Waiting
<1> QED
  BY <1>2, <1>3 DEF PaceInv, PacedBy, Leaving

LEMMA ThrottleKeepsPace ==
  ASSUME CallInv, PaceInv, NEW c \in Callers, Client!ThrottleRequest(c)
  PROVE  PaceInv'
<1>0. Throttle \in Nat /\ sent \in Nat /\ clock \in Nat /\ nextRequestAt \in Nat
  BY ClientConstants DEF CallInv
<1>1. /\ call[c].stage = "throttle" /\ sent' = sent /\ clock' = clock
      /\ nextRequestAt' = Client!ScheduledAt + Throttle
      /\ \A d \in Callers \ {c} : call'[d] = call[d]
      /\ call'[c].stage = "wait" /\ call'[c].due = Client!ScheduledAt
  BY DEF Client!ThrottleRequest, Client!Set, CallInv, CallOK, Client!New
<1>2. c \notin Waiting /\ Waiting' = Waiting \cup {c}
  BY <1>1 DEF Waiting
<1>3. Cardinality(Waiting) \in Nat /\ Cardinality(Waiting') = Cardinality(Waiting) + 1
  <2>1. IsFiniteSet(Waiting) /\ Cardinality(Waiting) \in Nat
    BY SetsAreFinite DEF Waiting
  <2> QED
    BY <1>2, <2>1, FS_AddElement
<1>4. Client!ScheduledAt \in Nat /\ Throttle * (sent + Cardinality(Waiting)) <= Client!ScheduledAt
  <2>1. Throttle * (sent + Cardinality(Waiting)) <= nextRequestAt
    BY DEF PaceInv
  <2>2. Throttle * (sent + Cardinality(Waiting)) \in Nat
    BY <1>0, <1>3, TimesSuccessor
  <2> QED
    BY <1>0, <2>1, <2>2, ScheduledAtType
<1>5. Throttle * (sent' + Cardinality(Waiting')) <= nextRequestAt'
  <2> DEFINE n == sent + Cardinality(Waiting)
  <2>1. n \in Nat /\ sent' + Cardinality(Waiting') = n + 1
    BY <1>0, <1>1, <1>3
  <2>2. Throttle * (n + 1) = Throttle * n + Throttle /\ Throttle * n \in Nat
    BY <1>0, <2>1, TimesSuccessor
  <2> QED
    BY <1>0, <1>1, <1>4, <2>1, <2>2
<1>6. ASSUME NEW t \in Nat, t >= clock' PROVE PacedBy(t)'
  <2>1. CASE t < Client!ScheduledAt
    <3>1. DueBy(t)' = DueBy(t)
      BY <1>0, <1>1, <1>2, <1>4, <2>1 DEF DueBy, Waiting
    <3>2. PacedBy(t)
      BY <1>1, <1>6 DEF PaceInv
    <3> QED
      BY <1>1, <3>1, <3>2 DEF PacedBy, Leaving
  <2>2. CASE t >= Client!ScheduledAt
    <3> DEFINE k == Leaving(t)' - 1
               n == sent + Cardinality(Waiting)
    <3> SUFFICES ASSUME Leaving(t)' > 0 PROVE Throttle * k <= t
      BY DEF PacedBy
    <3>1. Cardinality(DueBy(t)') \in Nat /\ Cardinality(DueBy(t)') <= Cardinality(Waiting')
      <4>1. DueBy(t)' \subseteq Waiting' /\ Waiting' \subseteq Callers
        BY DEF DueBy, Waiting
      <4>2. IsFiniteSet(Waiting')
        BY <4>1, SetsAreFinite
      <4> QED
        BY <4>1, <4>2, SetsAreFinite, FS_Subset
    <3>2. k \in Nat /\ n \in Nat /\ k <= n
      BY <1>0, <1>1, <1>3, <3>1 DEF Leaving
    <3>3. Throttle * k <= Throttle * n /\ Throttle * k \in Nat /\ Throttle * n \in Nat
      <4> HIDE DEF k, n
      <4> QED
        BY <1>0, <3>2, TimesMonotone, TimesSuccessor
    <3>4. Throttle * n <= Client!ScheduledAt
      BY <1>4
    <3> HIDE DEF k, n
    <3> QED
      BY <1>4, <2>2, <3>3, <3>4
  <2> QED
    BY <1>4, <2>1, <2>2
<1> QED
  BY <1>5, <1>6 DEF PaceInv

LEMMA SendKeepsPace ==
  ASSUME CallInv, PaceInv, NEW c \in Callers, Client!Send(c)
  PROVE  PaceInv'
<1>0. sent \in Nat /\ clock \in Nat
  BY DEF CallInv
<1>1. /\ call[c].stage = "wait" /\ call[c].due <= clock
      /\ sent' = sent + 1 /\ UNCHANGED <<clock, nextRequestAt>>
      /\ \A d \in Callers \ {c} : call'[d] = call[d]
      /\ call'[c].stage = "sent"
  BY DEF Client!Send, Client!Set, CallInv, CallOK, Client!New
<1>2. Waiting' = Waiting \ {c} /\ c \in Waiting
  BY <1>1 DEF Waiting
<1>3. sent' + Cardinality(Waiting') = sent + Cardinality(Waiting)
  <2>1. Cardinality(Waiting) \in Nat /\ Cardinality(Waiting \ {c}) = Cardinality(Waiting) - 1
    BY <1>2, OneLess DEF Waiting
  <2> QED
    BY <1>0, <1>1, <1>2, <2>1
<1>4. ASSUME NEW t \in Nat, t >= clock PROVE Leaving(t)' = Leaving(t)
  <2>1. call[c].due \in Nat
    BY <1>1 DEF CallInv, CallOK
  <2>2. c \in DueBy(t)
    BY <1>0, <1>1, <1>2, <1>4, <2>1 DEF DueBy
  <2>3. DueBy(t)' = DueBy(t) \ {c}
    BY <1>1, <1>2 DEF DueBy, Waiting
  <2>4. Cardinality(DueBy(t)) \in Nat /\ Cardinality(DueBy(t) \ {c}) = Cardinality(DueBy(t)) - 1
    BY <2>2, OneLess DEF DueBy, Waiting
  <2> QED
    BY <1>0, <1>1, <2>3, <2>4 DEF Leaving
<1>5. ASSUME NEW t \in Nat, t >= clock' PROVE PacedBy(t)'
  <2>1. Leaving(t)' = Leaving(t) /\ PacedBy(t)
    BY <1>1, <1>4, <1>5 DEF PaceInv
  <2> QED
    BY <2>1 DEF PacedBy
<1> QED
  BY <1>1, <1>3, <1>5 DEF PaceInv

LEMMA PaceInvHolds ==
  ASSUME CallInv, PaceInv, [Client!Next]_clientPart PROVE PaceInv'
<1>1. CASE UNCHANGED clientPart
  BY <1>1 DEF clientPart, PaceInv, PacedBy, Leaving, DueBy, Waiting
<1>2. CASE Client!Tick
  <2>1. Waiting' = Waiting /\ \A t \in Nat : PacedBy(t)' = PacedBy(t) /\ (t >= clock' => t >= clock)
    BY <1>2 DEF Client!Tick, PacedBy, Leaving, DueBy, Waiting, CallInv
  <2> QED
    BY <1>2, <2>1 DEF Client!Tick, PaceInv
<1>3. ASSUME NEW c \in Callers, Client!Call(c) PROVE PaceInv'
  <2>1. PICK what \in {"get", "cancel", "purchase"} : Client!Set(c, [Client!New EXCEPT !.stage = "throttle", !.request = what])
    BY <1>3 DEF Client!Call
  <2>2. [Client!New EXCEPT !.stage = "throttle", !.request = what].stage # "wait" /\ call[c].stage # "wait"
    BY <1>3 DEF Client!Call, Client!New
  <2> QED
    BY <1>3, <2>1, <2>2, OthersKeepSlots DEF Client!Call
<1>4. ASSUME NEW c \in Callers, Client!ThrottleRequest(c) PROVE PaceInv'
  BY <1>4, ThrottleKeepsPace
<1>5. ASSUME NEW c \in Callers, Client!Send(c) PROVE PaceInv'
  BY <1>5, SendKeepsPace
<1>6. ASSUME NEW c \in Callers, Client!AnswerRequest(c) \/ Client!AnswerPurchase(c) \/ Client!AnswerPoll(c) \/ Client!Resume(c)
      PROVE  PaceInv'
  <2>1. Client!Set(c, call'[c]) /\ call'[c].stage # "wait"
    BY <1>6, AnswersKeep DEF Answered
  <2>2. call[c].stage # "wait" /\ UNCHANGED <<clock, nextRequestAt, sent>>
    BY <1>6 DEF Client!AnswerRequest, Client!AnswerPurchase, Client!AnswerPoll, Client!Resume
  <2> QED
    BY <2>1, <2>2, OthersKeepSlots
<1> QED
  BY <1>1, <1>2, <1>3, <1>4, <1>5, <1>6 DEF Client!Next

LEMMA InitIsPaced ==
  ASSUME Client!Init PROVE CallInv /\ PaceInv
<1>1. CallInv
  BY DEF Client!Init, CallInv, CallOK, Client!New
<1>2. Waiting = {} /\ \A t \in Nat : DueBy(t) = {}
  BY DEF Client!Init, Client!New, Waiting, DueBy
<1>3. Throttle * (sent + Cardinality(Waiting)) <= nextRequestAt
  BY <1>2, FS_EmptySet, ClientConstants DEF Client!Init
<1>4. \A t \in Nat : PacedBy(t)
  BY <1>2, FS_EmptySet DEF Client!Init, PacedBy, Leaving
<1> QED
  BY <1>1, <1>3, <1>4 DEF PaceInv

LEMMA PacedNow ==
  ASSUME CallInv, PaceInv PROVE Client!RequestsArePaced
<1> SUFFICES ASSUME sent > 0 PROVE Throttle * (sent - 1) <= clock
  BY DEF Client!RequestsArePaced
<1> DEFINE k == Cardinality(DueBy(clock))
<1>1. sent \in Nat /\ clock \in Nat /\ Throttle \in Nat /\ k \in Nat
  BY SetsAreFinite, ClientConstants DEF CallInv, DueBy, Waiting
<1>2. sent + k > 0 /\ sent - 1 \in Nat /\ sent + k - 1 \in Nat /\ sent - 1 <= sent + k - 1
  BY <1>1
<1>3. Throttle * (sent + k - 1) <= clock
  <2>1. PacedBy(clock)
    BY <1>1 DEF PaceInv
  <2> QED
    BY <1>1, <1>2, <2>1 DEF PacedBy, Leaving
<1>4. Throttle * (sent - 1) <= Throttle * (sent + k - 1)
  BY <1>1, <1>2, TimesMonotone
<1>5. Throttle * (sent - 1) \in Nat /\ Throttle * (sent + k - 1) \in Nat
  BY <1>1, <1>2, TimesSuccessor
<1> QED
  BY <1>1, <1>3, <1>4, <1>5

-----------------------------------------------------------------------------

\* No more requests leave than one per throttle interval (throttleRequest).
THEOREM Paced == Client!Spec => []RequestsArePaced
<1>1. Client!Init => CallInv /\ PaceInv
  BY InitIsPaced
<1>2. CallInv /\ PaceInv /\ [Client!Next]_clientPart => (CallInv /\ PaceInv)'
  BY CallInvHolds, PaceInvHolds
<1>3. CallInv /\ PaceInv => RequestsArePaced
  BY PacedNow DEF RequestsArePaced
<1> QED
  BY <1>1, <1>2, <1>3, ClientSpec, PTL

\* An order that Regiondo took ends in the answer or in the recovery, unless a
\* request timed out or a poll was refused or answered with broken JSON
\* (purchaseOrder, resolvePurchaseOrderSnapshot, pollPurchaseOrderSnapshot).
THEOREM OrdersHandedOver == Client!Spec => []TakenOrdersAreHandedOver
<1>1. Client!Init => CallInv
  BY InitIsPaced
<1>2. CallInv /\ [Client!Next]_clientPart => CallInv'
  BY CallInvHolds
<1>3. CallInv => TakenOrdersAreHandedOver
  BY DEF CallInv, CallOK, PassedOn, TakenOrdersAreHandedOver, Client!TakenOrdersAreHandedOver
<1> QED
  BY <1>1, <1>2, <1>3, ClientSpec, PTL

-----------------------------------------------------------------------------
(* The intake of external tasks.                                               *)

\* A post that inserts is about to make a task of its message; a task that
\* came from a message is the one its event names, with the same payload.
IntakeInv ==
  /\ event \in [Messages -> [task : Tasks \cup {NoTask}, hash : Payloads \cup {NoPayload}, linked : BOOLEAN]]
  /\ DOMAIN intake = Requests
  /\ \A r \in Requests :
       /\ DOMAIN intake[r] = DOMAIN NoIntake
       /\ intake[r].stage = "inserting" =>
            intake[r].message \in Messages /\ intake[r].task \in Tasks /\ intake[r].hash \in Payloads
       /\ intake[r].stage = "linking" => intake[r].message \in Messages
  /\ DOMAIN origin = Tasks
  /\ \A t \in Tasks : origin[t].message \in Messages \cup {NoMessage}
  /\ IntakeOnce

LEMMA IntakeInvHolds ==
  ASSUME IntakeInv, [IntakeNext]_<<vars, intakeVars>> PROVE IntakeInv'
<1>1. CASE UNCHANGED <<vars, intakeVars>>
  BY <1>1 DEF intakeVars, IntakeInv, IntakeOnce
<1>2. CASE BoardStep
  BY <1>2 DEF BoardStep, intakeVars, IntakeInv, IntakeOnce
<1>3. ASSUME NEW r \in Requests, IntakeRequest(r) PROVE IntakeInv'
  <2>1. ASSUME NEW m \in Messages, NEW h \in Payloads, RepeatIntake(r, m, h) PROVE IntakeInv'
    BY <2>1 DEF RepeatIntake, IntakeInv, IntakeOnce, NoIntake
  <2>2. ASSUME NEW m \in Messages, NEW h \in Payloads, NEW t \in Tasks, BeginIntake(r, m, h, t) PROVE IntakeInv'
    BY <2>2 DEF BeginIntake, IntakeInv, IntakeOnce, NoIntake
  <2>3. CASE CommitIntake(r)
    <3> DEFINE i == intake[r]
    <3>1. /\ i.stage = "inserting" /\ i.message \in Messages /\ i.task \in Tasks /\ i.hash \in Payloads
          /\ event[i.message] = NoEvent
          /\ event' = [event EXCEPT ![i.message] = [task |-> i.task, hash |-> i.hash, linked |-> FALSE]]
          /\ origin' = [origin EXCEPT ![i.task] = [message |-> i.message, hash |-> i.hash]]
          /\ intake' = [intake EXCEPT ![r].stage = "created"]
      <4>1. i.stage = "inserting" => i.message \in Messages /\ i.task \in Tasks /\ i.hash \in Payloads
        BY DEF IntakeInv
      <4> QED
        BY <2>3, <4>1 DEF CommitIntake
    <3>2. ASSUME NEW t \in Tasks, origin'[t].message # NoMessage
          PROVE  event'[origin'[t].message].task = t /\ event'[origin'[t].message].hash = origin'[t].hash
      <4>1. CASE t = i.task
        BY <3>1, <4>1 DEF IntakeInv
      <4>2. CASE t # i.task
        <5>1. origin'[t] = origin[t] /\ origin[t].message \in Messages
              /\ event[origin[t].message].task = t /\ event[origin[t].message].hash = origin[t].hash
          BY <3>1, <3>2, <4>2 DEF IntakeInv, IntakeOnce
        <5>2. origin[t].message # i.message
          BY <3>1, <5>1, TaskBoardAssumption DEF NoEvent
        <5> QED
          BY <3>1, <5>1, <5>2 DEF IntakeInv
      <4> QED
        BY <4>1, <4>2
    <3>3. IntakeOnce'
      BY <3>2 DEF IntakeOnce
    <3> QED
      BY <3>1, <3>3 DEF IntakeInv, NoIntake
  <2>4. CASE AnswerIntake(r)
    <3>1. /\ intake' \in {[intake EXCEPT ![r] = NoIntake], [intake EXCEPT ![r].stage = "linking"]}
          /\ intake' # [intake EXCEPT ![r] = NoIntake] => intake[r].message \in SupportMessages
          /\ UNCHANGED <<event, origin>>
      BY <2>4 DEF AnswerIntake
    <3> QED
      BY <3>1, ExternalTaskIntakeAssumption DEF IntakeInv, IntakeOnce, NoIntake
  <2>5. CASE LinkEvent(r)
    <3>1. \A m \in Messages : /\ event'[m].task = event[m].task /\ event'[m].hash = event[m].hash
                              /\ event'[m] \in [task : Tasks \cup {NoTask}, hash : Payloads \cup {NoPayload}, linked : BOOLEAN]
      BY <2>5 DEF LinkEvent, IntakeInv
    <3>2. DOMAIN event' = Messages /\ event' = [m \in Messages |-> event'[m]] /\ origin' = origin
      BY <2>5 DEF LinkEvent, IntakeInv
    <3>3. IntakeOnce'
      BY <3>1, <3>2 DEF IntakeInv, IntakeOnce
    <3>4. DOMAIN intake' = Requests /\ \A q \in Requests : intake'[q] = IF q = r THEN NoIntake ELSE intake[q]
      BY <2>5 DEF LinkEvent, IntakeInv
    <3>5. event' \in [Messages -> [task : Tasks \cup {NoTask}, hash : Payloads \cup {NoPayload}, linked : BOOLEAN]]
      BY <3>1, <3>2
    <3> QED
      BY <3>2, <3>3, <3>4, <3>5 DEF IntakeInv, NoIntake
  <2>6. CASE AbortIntake(r)
    BY <2>6 DEF AbortIntake, IntakeInv, IntakeOnce, NoIntake
  <2> QED
    BY <1>3, <2>1, <2>2, <2>3, <2>4, <2>5, <2>6 DEF IntakeRequest
<1> QED
  BY <1>1, <1>2, <1>3 DEF IntakeNext

\* A message makes one task, which its event names with the payload it was
\* made of (createExternalClientEmailTask).
THEOREM MessagesMakeOneTask == IntakeSpec => []IntakeOnce
<1>1. IntakeInit => IntakeInv
  BY DEF IntakeInit, IntakeInv, IntakeOnce, NoEvent, NoIntake
<1>2. IntakeInv /\ [IntakeNext]_<<vars, intakeVars>> => IntakeInv'
  BY IntakeInvHolds
<1>3. IntakeInv => IntakeOnce
  BY DEF IntakeInv
<1> QED
  BY <1>1, <1>2, <1>3, PTL DEF IntakeSpec

-----------------------------------------------------------------------------
(* The saves of linked bookings.                                               *)

LEMMA LinkedSpec == Linked!Spec => Linked!Init /\ [][Linked!Next]_linkedPart
BY DEF Linked!Spec, Linked!vars, linkedPart

\* What a save is going to write are bookings and tasks.
SaveOK(w) ==
  /\ DOMAIN w = DOMAIN Linked!New
  /\ w.bookings \subseteq Linkable
  /\ w.tasks \subseteq LinkedTasks
  /\ DOMAIN w.read \subseteq LinkedTasks

SaveInv ==
  /\ save = [r \in Savers |-> save[r]] /\ \A r \in Savers : SaveOK(save[r])
  /\ DOMAIN writer = Linked!Records
  /\ DOMAIN covers = Savers /\ \A r \in Savers : covers[r] \subseteq Linked!Records
  /\ Linked!GroupsSavedWhole

LEMMA NewSaveOK == SaveOK([Linked!New EXCEPT !.stage = "over"]) /\ SaveOK(Linked!New)
<1>1. DOMAIN <<>> = {}
  OBVIOUS
<1> QED
  BY <1>1 DEF SaveOK, Linked!New

\* A step that writes no record.
LEMMA StepOfSave ==
  ASSUME SaveInv, NEW r \in Savers, NEW w, SaveOK(w), save' = [save EXCEPT ![r] = w],
         UNCHANGED <<writer, covers>>
  PROVE  SaveInv'
BY DEF SaveInv, Linked!GroupsSavedWhole, Linked!Records

\* A step that writes records, and says so.
LEMMA WritingKeepsGroups ==
  ASSUME SaveInv, NEW r \in Savers, NEW written \in SUBSET Linked!Records, NEW w, SaveOK(w),
         save' = [save EXCEPT ![r] = w],
         DOMAIN writer' = Linked!Records,
         \A x \in Linked!Records : writer'[x] = IF x \in written THEN r ELSE writer[x],
         covers' = [covers EXCEPT ![r] = written]
  PROVE  SaveInv'
<1>1. ASSUME NEW p \in Savers, NEW q \in Savers, NEW x \in covers'[p] \cap covers'[q],
             NEW y \in covers'[p] \cap covers'[q], writer'[x] = p, writer'[y] = q
      PROVE  p = q
  <2>1. x \in Linked!Records /\ y \in Linked!Records /\ covers'[r] = written
    BY <1>1 DEF SaveInv
  <2>2. CASE p = r \/ q = r
    BY <1>1, <2>1, <2>2
  <2>3. CASE p # r /\ q # r
    <3>1. covers'[p] = covers[p] /\ covers'[q] = covers[q] /\ writer[x] = p /\ writer[y] = q
      BY <1>1, <2>1, <2>3 DEF SaveInv
    <3> QED
      BY <1>1, <3>1 DEF SaveInv, Linked!GroupsSavedWhole
  <2> QED
    BY <2>2, <2>3
<1>2. Linked!GroupsSavedWhole'
  BY <1>1 DEF Linked!GroupsSavedWhole
<1>3. DOMAIN covers' = Savers /\ \A p \in Savers : covers'[p] \subseteq Linked!Records
  BY DEF SaveInv
<1>4. save' = [p \in Savers |-> save'[p]] /\ \A p \in Savers : SaveOK(save'[p])
  BY DEF SaveInv
<1>5. Linked!Records' = Linked!Records
  BY DEF Linked!Records
<1> QED
  BY <1>2, <1>3, <1>4, <1>5 DEF SaveInv

LEMMA SaveInvHolds ==
  ASSUME SaveInv, [Linked!Next]_linkedPart PROVE SaveInv'
<1>1. CASE UNCHANGED linkedPart
  BY <1>1 DEF linkedPart, SaveInv, Linked!GroupsSavedWhole, Linked!Records
<1>2. ASSUME NEW t \in LinkedTasks, Linked!ToggleTask(t) PROVE SaveInv'
  BY <1>2 DEF Linked!ToggleTask, SaveInv, Linked!GroupsSavedWhole, Linked!Records
<1>3. ASSUME NEW r \in Savers,
             \/ Linked!OpenForm(r) \/ Linked!BeginSave(r) \/ Linked!LockBooking(r) \/ Linked!LockTask(r)
             \/ Linked!ReadTasks(r) \/ Linked!CommitSave(r) \/ Linked!EditTask(r) \/ Linked!Abort(r)
      PROVE  SaveInv'
  <2>0. SaveOK(save[r]) /\ save = [q \in Savers |-> save[q]]
    BY DEF SaveInv
  <2>1. CASE Linked!OpenForm(r)
    <3>1. PICK root, v : save' = [save EXCEPT ![r].stage = "form", ![r].root = root, ![r].version = v]
      BY <2>1 DEF Linked!OpenForm
    <3> DEFINE w == [save[r] EXCEPT !.stage = "form", !.root = root, !.version = v]
    <3>2. save' = [save EXCEPT ![r] = w] /\ SaveOK(w)
      BY <2>0, <3>1 DEF SaveOK, Linked!New
    <3> QED
      BY <2>1, <3>2, StepOfSave DEF Linked!OpenForm
  <2>2. CASE Linked!BeginSave(r)
    <3>1. PICK todo : save' = [save EXCEPT ![r].stage = "locking", ![r].bookings = Linked!GroupBookings(save[r].root),
                                           ![r].tasks = Linked!GroupTasks(save[r].root), ![r].todo = todo]
      BY <2>2 DEF Linked!BeginSave
    <3> DEFINE w == [save[r] EXCEPT !.stage = "locking", !.bookings = Linked!GroupBookings(save[r].root),
                                    !.tasks = Linked!GroupTasks(save[r].root), !.todo = todo]
    <3>2. Linked!GroupBookings(save[r].root) \subseteq Linkable /\ Linked!GroupTasks(save[r].root) \subseteq LinkedTasks
      BY DEF Linked!GroupBookings, Linked!GroupTasks, Linked!Closure
    <3>3. save' = [save EXCEPT ![r] = w] /\ SaveOK(w)
      BY <2>0, <3>1, <3>2 DEF SaveOK, Linked!New
    <3> QED
      BY <2>2, <3>3, StepOfSave DEF Linked!BeginSave
  <2>3. CASE Linked!LockBooking(r)
    <3> DEFINE w == [save[r] EXCEPT !.todo = Tail(@)]
    <3>1. save' = [save EXCEPT ![r] = w] /\ SaveOK(w)
      BY <2>0, <2>3 DEF SaveOK, Linked!New, Linked!LockBooking
    <3> QED
      BY <2>3, <3>1, StepOfSave DEF Linked!LockBooking
  <2>4. CASE Linked!LockTask(r)
    <3> DEFINE w == [save[r] EXCEPT !.stage = "reading"]
    <3>1. save' = [save EXCEPT ![r] = w] /\ SaveOK(w)
      BY <2>0, <2>4 DEF SaveOK, Linked!New, Linked!LockTask
    <3> QED
      BY <2>4, <3>1, StepOfSave DEF Linked!LockTask
  <2>5. CASE Linked!ReadTasks(r)
    <3>1. PICK read : /\ save' = [save EXCEPT ![r].stage = "writing", ![r].read = read]
                      /\ DOMAIN read = save[r].tasks \ deleted
      <4> DEFINE logged == [t \in save[r].tasks \ deleted |-> IF t = save[r].root THEN log[t] \cup {r} ELSE log[t]]
      <4>1. save' = [save EXCEPT ![r].stage = "writing", ![r].read = logged] /\ DOMAIN logged = save[r].tasks \ deleted
        BY <2>5 DEF Linked!ReadTasks
      <4> HIDE DEF logged
      <4> QED
        BY <4>1
    <3> DEFINE w == [save[r] EXCEPT !.stage = "writing", !.read = read]
    <3>2. save' = [save EXCEPT ![r] = w] /\ SaveOK(w)
      BY <2>0, <3>1 DEF SaveOK, Linked!New
    <3> QED
      BY <2>5, <3>2, StepOfSave DEF Linked!ReadTasks
  <2>6. CASE Linked!CommitSave(r)
    <3> DEFINE written == save[r].bookings \cup (DOMAIN save[r].read \ deleted)
    <3>1. written \in SUBSET Linked!Records
      BY <2>0 DEF SaveOK, Linked!Records
    <3> QED
      BY <2>6, <3>1, NewSaveOK, WritingKeepsGroups DEF Linked!CommitSave
  <2>7. CASE Linked!EditTask(r)
    <3>1. PICK t \in LinkedTasks \ deleted :
            /\ writer' = [writer EXCEPT ![t] = r]
            /\ covers' = [covers EXCEPT ![r] = {t}]
            /\ save' = [save EXCEPT ![r].stage = "over"]
      BY <2>7 DEF Linked!EditTask
    <3> DEFINE w == [save[r] EXCEPT !.stage = "over"]
    <3>2. save' = [save EXCEPT ![r] = w] /\ SaveOK(w)
      BY <2>0, <3>1 DEF SaveOK, Linked!New
    <3>3. {t} \in SUBSET Linked!Records /\ DOMAIN writer' = Linked!Records
          /\ \A x \in Linked!Records : writer'[x] = IF x \in {t} THEN r ELSE writer[x]
      BY <3>1 DEF SaveInv, Linked!Records
    <3> QED
      BY <3>1, <3>2, <3>3, WritingKeepsGroups
  <2>8. CASE Linked!Abort(r)
    BY <2>8, NewSaveOK, StepOfSave DEF Linked!Abort
  <2> QED
    BY <1>3, <2>1, <2>2, <2>3, <2>4, <2>5, <2>6, <2>7, <2>8
<1> QED
  BY <1>1, <1>2, <1>3 DEF Linked!Next

\* No group of linked bookings is left with a half of each of two saves
\* (updateTaskWithLinkedBookingsAtomically, updateBooking).
THEOREM SavesAreWhole == Linked!Spec => []GroupsSavedWhole
<1>1. Linked!Init => SaveInv
  BY NewSaveOK DEF Linked!Init, SaveInv, Linked!GroupsSavedWhole
<1>2. SaveInv /\ [Linked!Next]_linkedPart => SaveInv'
  BY SaveInvHolds
<1>3. SaveInv => GroupsSavedWhole
  BY DEF SaveInv, GroupsSavedWhole
<1> QED
  BY <1>1, <1>2, <1>3, LinkedSpec, PTL

-----------------------------------------------------------------------------
(* Ranks: how many rows come before one.                                       *)

StrictOrder(R, S) ==
  /\ \A x \in S : <<x, x>> \notin R
  /\ \A x, y \in S : x # y => <<x, y>> \in R \/ <<y, x>> \in R
  /\ \A x, y, z \in S : <<x, y>> \in R /\ <<y, z>> \in R => <<x, z>> \in R

Before(R, S, x) == {y \in S : <<y, x>> \in R}
Rank(R, S, x) == Cardinality(Before(R, S, x))

LEMMA RanksAscend ==
  ASSUME NEW S, IsFiniteSet(S), NEW R, StrictOrder(R, S)
  PROVE  /\ \A x \in S : Rank(R, S, x) \in Nat /\ Rank(R, S, x) < Cardinality(S)
         /\ \A x, y \in S : <<x, y>> \in R => Rank(R, S, x) < Rank(R, S, y)
<1>0. Cardinality(S) \in Nat
  BY FS_CardinalityType
<1>1. \A x \in S : IsFiniteSet(Before(R, S, x)) /\ Cardinality(Before(R, S, x)) \in Nat
  BY FS_Subset, FS_CardinalityType DEF Before
<1>2. ASSUME NEW x \in S PROVE Cardinality(Before(R, S, x)) < Cardinality(S)
  <2>1. Before(R, S, x) \in SUBSET S /\ Before(R, S, x) # S
    BY DEF Before, StrictOrder
  <2> QED
    BY <1>0, <1>1, <2>1, FS_Subset
<1>3. ASSUME NEW x \in S, NEW y \in S, <<x, y>> \in R
      PROVE  Cardinality(Before(R, S, x)) < Cardinality(Before(R, S, y))
  <2>1. Before(R, S, x) \in SUBSET Before(R, S, y) /\ x \in Before(R, S, y) /\ x \notin Before(R, S, x)
    BY <1>3 DEF Before, StrictOrder
  <2>2. Cardinality(Before(R, S, x)) <= Cardinality(Before(R, S, y))
        /\ Cardinality(Before(R, S, x)) # Cardinality(Before(R, S, y))
    BY <1>1, <2>1, FS_Subset
  <2> QED
    BY <1>1, <2>2
<1> QED
  BY <1>1, <1>2, <1>3 DEF Rank

\* Every rank there can be is the rank of a row.
LEMMA RanksFill ==
  ASSUME NEW S, IsFiniteSet(S), NEW R, StrictOrder(R, S), NEW k \in Nat, k < Cardinality(S)
  PROVE  \E x \in S : Rank(R, S, x) = k
<1> DEFINE n == Cardinality(S)
           ranks == 0..(n - 1)
           f == [x \in S |-> Rank(R, S, x)]
<1>1. n \in Nat /\ IsFiniteSet(ranks) /\ Cardinality(ranks) = n
  <2>1. n \in Nat
    BY FS_CardinalityType
  <2> HIDE DEF n
  <2>2. n - 1 \in Int
    BY <2>1
  <2>3. IsFiniteSet(0..(n - 1)) /\ Cardinality(0..(n - 1)) = IF 0 > n - 1 THEN 0 ELSE (n - 1) - 0 + 1
    BY <2>2, FS_Interval
  <2> QED
    BY <2>1, <2>3
<1>2. \A x \in S : Rank(R, S, x) \in Nat /\ Rank(R, S, x) < n
  BY RanksAscend
<1>3. f \in [S -> ranks]
  <2>1. \A x \in S : Rank(R, S, x) \in ranks
    BY <1>1, <1>2
  <2> QED
    BY <2>1
<1>4. f \in Injection(S, ranks)
  <2>1. ASSUME NEW x \in S, NEW y \in S, x # y PROVE Rank(R, S, x) # Rank(R, S, y)
    <3>1. <<x, y>> \in R \/ <<y, x>> \in R
      BY <2>1 DEF StrictOrder
    <3>2. Rank(R, S, x) < Rank(R, S, y) \/ Rank(R, S, y) < Rank(R, S, x)
      BY <3>1, RanksAscend
    <3> QED
      BY <1>2, <3>2
  <2> QED
    BY <1>3, <2>1 DEF Injection, IsInjective
<1>5. f \in Surjection(S, ranks)
  <2> HIDE DEF f, n, ranks
  <2>1. Cardinality(S) = Cardinality(ranks)
    BY <1>1 DEF n
  <2> QED
    BY <1>1, <1>4, <2>1, FS_Injection
<1>6. k \in ranks
  BY <1>1
<1> QED
  BY <1>5, <1>6 DEF Surjection

\* Rows that are not empty have a first one.
LEMMA FirstExists ==
  ASSUME NEW S, IsFiniteSet(S), NEW R, StrictOrder(R, S), S # {}
  PROVE  \E x \in S : \A y \in S \ {x} : <<x, y>> \in R
<1>1. Cardinality(S) \in Nat /\ Cardinality(S) # 0
  BY FS_CardinalityType, FS_EmptySet
<1>2. PICK x \in S : Rank(R, S, x) = 0
  BY <1>1, RanksFill
<1>3. IsFiniteSet(Before(R, S, x))
  BY FS_Subset DEF Before
<1>4. Before(R, S, x) = {}
  BY <1>2, <1>3, FS_EmptySet DEF Rank
<1> QED
  BY <1>4 DEF Before, StrictOrder

\* A page behind which there is a row is full.
LEMMA PagesAreFull ==
  ASSUME NEW S, IsFiniteSet(S), NEW R, StrictOrder(R, S),
         NEW offset \in Nat, NEW size \in Nat, NEW b \in S, offset + size <= Rank(R, S, b)
  PROVE  Cardinality({x \in S : Rank(R, S, x) \in offset..(offset + size - 1)}) >= size
<1> DEFINE ranks == offset..(offset + size - 1)
           page == {x \in S : Rank(R, S, x) \in ranks}
           f == [k \in ranks |-> CHOOSE x \in S : Rank(R, S, x) = k]
<1>1. Cardinality(S) \in Nat /\ Rank(R, S, b) \in Nat /\ Rank(R, S, b) < Cardinality(S)
  BY FS_CardinalityType, RanksAscend
<1>2. ASSUME NEW k \in ranks PROVE \E x \in S : Rank(R, S, x) = k
  <2>1. k \in Nat /\ k < Cardinality(S)
    BY <1>1
  <2> QED
    BY <2>1, RanksFill
<1>3. \A k \in ranks : f[k] \in S /\ Rank(R, S, f[k]) = k
  BY <1>2
<1>4. f \in Injection(ranks, page)
  <2> HIDE DEF ranks
  <2>1. f \in [ranks -> page]
    BY <1>3
  <2> QED
    BY <1>3, <2>1 DEF Injection, IsInjective
<1>5. IsFiniteSet(page)
  BY FS_Subset
<1>6. Cardinality(ranks) <= Cardinality(page)
  <2> HIDE DEF ranks, page, f
  <2> QED
    BY <1>4, <1>5, FS_Injection
<1>7. Cardinality(ranks) = size
  BY FS_Interval
<1>8. Cardinality(page) \in Nat
  BY <1>5, FS_CardinalityType
<1> HIDE DEF ranks
<1> QED
  BY <1>6, <1>7, <1>8 DEF ranks

-----------------------------------------------------------------------------
(* The cursor of the booking sync.                                             *)

LEMMA SyncConstants ==
  /\ Purchased \subseteq Nat /\ IsFiniteSet(Purchased)
  /\ Overlap \in Nat /\ Lookback \in Nat /\ FullLookback \in Nat /\ Lag \in Nat /\ Days \in Nat
  /\ PageSize \in Nat \ {0} /\ Lag <= Overlap
<1>1. /\ Purchased \subseteq Nat /\ Sync!IsFiniteSet(Purchased)
      /\ {Overlap, Lookback, FullLookback, Lag, Days} \subseteq Nat
      /\ PageSize \in Nat \ {0} /\ Lag <= Overlap
  BY PartsAssumption DEF Sync!BookingSyncAssumption
<1> QED
  BY <1>1 DEF IsFiniteSet, Sync!IsFiniteSet

LEMMA SyncCardinality == \A S : Sync!Cardinality(S) = Cardinality(S)
BY DEF Cardinality, Sync!Cardinality, IsFiniteSet, Sync!IsFiniteSet

LEMMA SyncSpec == Sync!Spec => Sync!Init /\ [][Sync!Next]_syncPart
BY DEF Sync!Spec, Sync!vars, syncPart

\* What the next window is reckoned to cover: bookings of the window of the run
\* that this window would leave out.  Regiondo lists them all by the time the
\* run starts, however late it lists.
Old(b) == b \in DOMAIN bought /\ run.start <= bought[b] /\ bought[b] + Overlap < run.end

Place(b) == Cardinality({a \in Sync!InWindow : Sync!Precedes(a, b)})

SyncTypes ==
  /\ today \in Nat /\ today <= Days
  /\ order \in {"newest first", "oldest first"}
  /\ DOMAIN bought \subseteq Purchased
  /\ \A b \in DOMAIN bought : bought[b] \in Nat /\ bought[b] <= today
  /\ listed \subseteq DOMAIN bought
  /\ cursor = Sync!NoCursor \/ cursor \in 0..today
  /\ covered \in Int
  /\ DOMAIN run = DOMAIN Sync!Idle
  /\ run.start \in Int /\ run.end \in Nat /\ run.end <= today /\ run.start <= run.end
  /\ run.offset \in Nat /\ run.limit \in Nat
  /\ run.found \subseteq listed
  /\ run.stage \in {"idle", "listing", "importing"}

\* A booking that is not listed yet is not older than Regiondo's delay; and a
\* run that counts starts where the next window should.
Unlisted == \A b \in DOMAIN bought \ listed : today <= bought[b] + Lag

Window ==
  /\ cursor = Sync!NoCursor => covered = Days + 1
  /\ run.stage = "listing" => run.advance
  /\ run.advance /\ ~run.full /\ cursor # Sync!NoCursor => run.start = Sync!WindowStart(cursor)

\* The old bookings are listed; they were found or are still to come in the
\* list; and once all is found, they are stored, or the run does not count.
OldOnes ==
  \A b : Old(b) =>
    /\ b \in listed
    /\ run.stage = "listing" => b \in run.found \/ Place(b) >= run.offset
    /\ run.stage = "importing" /\ run.advance /\ ~run.failed => b \in run.found \cup imported

SyncInv == SyncTypes /\ Unlisted /\ Window /\ OldOnes /\ Sync!CursorLeavesNothing

\* A set of bookings in the order of Regiondo's list.
ListOrder(S) == {p \in S \X S : Sync!Precedes(p[1], p[2])}

LEMMA ListIsOrdered ==
  ASSUME SyncTypes, NEW S \in SUBSET DOMAIN bought
  PROVE  IsFiniteSet(S) /\ StrictOrder(ListOrder(S), S)
<1>1. S \subseteq Purchased /\ IsFiniteSet(S)
  BY SyncConstants, FS_Subset DEF SyncTypes
<1>2. \A x \in S : x \in Nat /\ bought[x] \in Nat
  BY <1>1, SyncConstants DEF SyncTypes
<1>3. \A x, y \in S : <<x, y>> \in ListOrder(S) <=> Sync!Precedes(x, y)
  BY DEF ListOrder
<1> DEFINE older(x, y) == bought[x] < bought[y] \/ (bought[x] = bought[y] /\ x < y)
<1>7. \A x, y : Sync!Precedes(x, y) <=> IF order = "oldest first" THEN older(x, y) ELSE x # y /\ ~older(x, y)
  BY DEF Sync!Precedes
<1>8. ASSUME NEW x \in S, NEW y \in S
      PROVE  ~older(x, x) /\ (x # y => older(x, y) \/ older(y, x)) /\ ~(older(x, y) /\ older(y, x))
  <2>1. x \in Nat /\ y \in Nat /\ bought[x] \in Nat /\ bought[y] \in Nat
    BY <1>2
  <2> QED
    BY <2>1
<1>9. ASSUME NEW x \in S, NEW y \in S, NEW z \in S, older(x, y), older(y, z) PROVE older(x, z)
  <2>1. /\ x \in Nat /\ y \in Nat /\ z \in Nat
        /\ bought[x] \in Nat /\ bought[y] \in Nat /\ bought[z] \in Nat
    BY <1>2
  <2> QED
    BY <1>9, <2>1
<1> HIDE DEF older
<1>4. \A x \in S : ~Sync!Precedes(x, x)
  BY <1>7, <1>8
<1>5. ASSUME NEW x \in S, NEW y \in S, x # y PROVE Sync!Precedes(x, y) \/ Sync!Precedes(y, x)
  BY <1>5, <1>7, <1>8
<1>6. ASSUME NEW x \in S, NEW y \in S, NEW z \in S, Sync!Precedes(x, y), Sync!Precedes(y, z)
      PROVE  Sync!Precedes(x, z)
  BY <1>6, <1>7, <1>8, <1>9
<1> QED
  BY <1>1, <1>3, <1>4, <1>5, <1>6 DEF StrictOrder

LEMMA WindowIsOrdered ==
  ASSUME SyncTypes
  PROVE  /\ IsFiniteSet(Sync!InWindow) /\ StrictOrder(ListOrder(Sync!InWindow), Sync!InWindow)
         /\ \A b \in Sync!InWindow : Place(b) = Rank(ListOrder(Sync!InWindow), Sync!InWindow, b)
         /\ \A b : Place(b) \in Nat
<1> DEFINE S == Sync!InWindow
<1>1. S \in SUBSET DOMAIN bought
  BY DEF SyncTypes, Sync!InWindow
<1>2. IsFiniteSet(S) /\ StrictOrder(ListOrder(S), S)
  BY <1>1, ListIsOrdered
<1>3. ASSUME NEW b \in S PROVE Before(ListOrder(S), S, b) = {a \in S : Sync!Precedes(a, b)}
  BY DEF Before, ListOrder
<1>4. ASSUME NEW b PROVE Place(b) \in Nat
  <2>1. {a \in S : Sync!Precedes(a, b)} \in SUBSET S
    OBVIOUS
  <2>2. IsFiniteSet({a \in S : Sync!Precedes(a, b)})
    BY <1>2, <2>1, FS_Subset
  <2> QED
    BY <2>2, FS_CardinalityType DEF Place
<1> QED
  BY <1>2, <1>3, <1>4 DEF Place, Rank

\* Bookings that come into the window move others back, never forward.
LEMMA PlacesMoveBack ==
  ASSUME SyncTypes, SyncTypes', NEW b,
         UNCHANGED order, run'.start = run.start, run'.end = run.end,
         listed \subseteq listed', \A a \in listed : bought'[a] = bought[a],
         b \in listed
  PROVE  Place(b)' >= Place(b)
<1> DEFINE early == {a \in Sync!InWindow : Sync!Precedes(a, b)}
<1>1. early \subseteq early'
  BY DEF Sync!InWindow, Sync!Precedes
<1>2. IsFiniteSet(early')
  <2>1. IsFiniteSet(Sync!InWindow')
    <3>1. Sync!InWindow' \in SUBSET Purchased
      BY DEF SyncTypes, Sync!InWindow
    <3> QED
      BY <3>1, SyncConstants, FS_Subset
  <2>2. early' \in SUBSET Sync!InWindow'
    OBVIOUS
  <2> HIDE DEF early
  <2> QED
    BY <2>1, <2>2, FS_Subset
<1>3. Cardinality(early) <= Cardinality(early') /\ Cardinality(early') \in Nat /\ Cardinality(early) \in Nat
  <2> HIDE DEF early
  <2>1. early \in SUBSET early'
    BY <1>1
  <2>2. IsFiniteSet(early) /\ Cardinality(early) <= Cardinality(early')
    BY <1>2, <2>1, FS_Subset
  <2> QED
    BY <1>2, <2>2, FS_CardinalityType
<1> QED
  BY <1>3 DEF Place

LEMMA PlacesAreNumbers ==
  ASSUME SyncTypes' PROVE \A b : Place(b)' \in Nat
<1>1. ASSUME NEW b PROVE Place(b)' \in Nat
  <2> DEFINE early == {a \in Sync!InWindow : Sync!Precedes(a, b)}
  <2>1. early' \in SUBSET Purchased
    BY DEF SyncTypes, Sync!InWindow
  <2> HIDE DEF early
  <2>2. Cardinality(early') \in Nat
    BY <2>1, SyncConstants, FS_Subset, FS_CardinalityType
  <2> QED
    BY <2>2 DEF Place, early
<1> QED
  BY <1>1

\* When a page is short, the rest of the window was before it.
LEMMA ShortPageIsLast ==
  ASSUME SyncTypes, Sync!Cardinality(Sync!Page) < PageSize, NEW b \in Sync!InWindow, Place(b) >= run.offset
  PROVE  b \in Sync!Page
<1> DEFINE S == Sync!InWindow
           R == ListOrder(S)
<1>1. /\ IsFiniteSet(S) /\ StrictOrder(R, S) /\ Place(b) \in Nat /\ run.offset \in Nat
      /\ PageSize \in Nat /\ \A x \in S : Place(x) = Rank(R, S, x)
  BY WindowIsOrdered, SyncConstants DEF SyncTypes
<1>2. Sync!Page = {x \in S : Rank(R, S, x) \in run.offset..(run.offset + PageSize - 1)}
  BY <1>1, SyncCardinality DEF Sync!Page, Place
<1> HIDE DEF S, R
<1>3. CASE run.offset + PageSize <= Rank(R, S, b)
  <2>1. b \in S
    BY DEF S
  <2>2. Cardinality({x \in S : Rank(R, S, x) \in run.offset..(run.offset + PageSize - 1)}) >= PageSize
    BY <1>1, <1>3, <2>1, PagesAreFull
  <2>3. Cardinality(Sync!Page) \in Nat
    <3>1. Sync!Page \in SUBSET S
      BY <1>2
    <3>2. IsFiniteSet(Sync!Page)
      BY <1>1, <3>1, FS_Subset
    <3> QED
      BY <3>2, FS_CardinalityType
  <2>4. Cardinality(Sync!Page) >= PageSize /\ Cardinality(Sync!Page) < PageSize
    BY <1>2, <2>2, SyncCardinality
  <2> QED
    BY <1>1, <2>3, <2>4
<1>4. CASE ~(run.offset + PageSize <= Rank(R, S, b))
  <2>1. b \in S /\ Rank(R, S, b) = Place(b)
    BY <1>1 DEF S
  <2>2. Rank(R, S, b) \in run.offset..(run.offset + PageSize - 1)
    BY <1>1, <1>4, <2>1
  <2> QED
    BY <1>2, <2>1, <2>2
<1> QED
  BY <1>3, <1>4

\* A step that leaves the run and the cursor alone, and takes no booking away.
LEMMA BookingsCome ==
  ASSUME SyncInv, SyncTypes', Unlisted', UNCHANGED <<order, cursor, covered, run>>,
         DOMAIN bought \subseteq DOMAIN bought', listed \subseteq listed', imported \subseteq imported',
         \A b \in DOMAIN bought : bought'[b] = bought[b],
         \A b \in DOMAIN bought' \ DOMAIN bought : bought'[b] = today
  PROVE  SyncInv'
<1>1. ASSUME NEW b, Old(b)' PROVE Old(b)
  <2>1. b \notin DOMAIN bought => bought'[b] = today /\ today >= run.end /\ Overlap \in Nat
    BY <1>1, SyncConstants DEF Old, SyncInv, SyncTypes
  <2>2. today \in Nat /\ run.end \in Nat
    BY DEF SyncInv, SyncTypes
  <2>3. bought'[b] + Overlap < run.end
    BY <1>1 DEF Old
  <2> QED
    BY <1>1, <2>1, <2>2, <2>3 DEF Old
<1>2. ASSUME NEW b, Old(b)'
      PROVE  /\ b \in listed'
             /\ run.stage = "listing" => b \in run.found \/ Place(b)' >= run.offset
             /\ run.stage = "importing" /\ run.advance /\ ~run.failed => b \in run.found \cup imported'
  <2>1. b \in listed /\ (run.stage = "listing" => b \in run.found \/ Place(b) >= run.offset)
        /\ (run.stage = "importing" /\ run.advance /\ ~run.failed => b \in run.found \cup imported)
    BY <1>1, <1>2 DEF SyncInv, OldOnes
  <2>2. Place(b)' >= Place(b)
    BY <2>1, PlacesMoveBack DEF SyncInv, SyncTypes
  <2>3. Place(b) \in Nat /\ Place(b)' \in Nat /\ run.offset \in Nat
    BY WindowIsOrdered, PlacesAreNumbers DEF SyncInv, SyncTypes
  <2> QED
    BY <2>1, <2>2, <2>3
<1>3. OldOnes'
  BY <1>2 DEF OldOnes
<1>4. Sync!CursorLeavesNothing'
  <2>1. ASSUME NEW b \in DOMAIN bought' \ imported', cursor # Sync!NoCursor, bought'[b] >= covered
        PROVE  bought'[b] >= Sync!WindowStart(cursor)
    <3>1. CASE b \in DOMAIN bought
      BY <2>1, <3>1 DEF SyncInv, Sync!CursorLeavesNothing
    <3>2. CASE b \notin DOMAIN bought
      <4>1. bought'[b] = today /\ cursor \in 0..today /\ today \in Nat /\ Overlap \in Nat
        BY <2>1, <3>2, SyncConstants DEF SyncInv, SyncTypes
      <4> QED
        BY <4>1 DEF Sync!WindowStart
    <3> QED
      BY <3>1, <3>2
  <2> QED
    BY <2>1 DEF Sync!CursorLeavesNothing, Sync!NoCursor, Sync!WindowStart
<1>5. Window'
  BY DEF SyncInv, Window, Sync!NoCursor, Sync!WindowStart
<1> QED
  BY <1>3, <1>4, <1>5 DEF SyncInv

\* A step of the run.
LEMMA RunTypes ==
  ASSUME SyncTypes, UNCHANGED <<today, order, bought, listed>>,
         cursor' = cursor \/ cursor' \in 0..today, covered' \in Int,
         DOMAIN run' = DOMAIN Sync!Idle,
         run'.start \in Int, run'.end \in Nat, run'.end <= today, run'.start <= run'.end,
         run'.offset \in Nat, run'.limit \in Nat, run'.found \subseteq listed,
         run'.stage \in {"idle", "listing", "importing"}
  PROVE  SyncTypes'
<1>1. /\ today' \in Nat /\ today' <= Days
      /\ order' \in {"newest first", "oldest first"}
      /\ DOMAIN bought' \subseteq Purchased
      /\ listed' \subseteq DOMAIN bought'
      /\ covered' \in Int
  BY DEF SyncTypes
<1>2. \A b \in DOMAIN bought' : bought'[b] \in Nat /\ bought'[b] <= today'
  BY DEF SyncTypes
<1>3. cursor' = Sync!NoCursor \/ cursor' \in 0..today'
  BY DEF SyncTypes
<1>4. DOMAIN run' = DOMAIN Sync!Idle'
  BY DEF Sync!Idle
<1>5. run'.end <= today' /\ run'.found \subseteq listed'
  OBVIOUS
<1> QED
  BY <1>1, <1>2, <1>3, <1>4, <1>5 DEF SyncTypes, Sync!NoCursor

\* A step of the run that leaves the cursor alone.
LEMMA RunGoesOn ==
  ASSUME SyncInv, SyncTypes', Window', OldOnes',
         UNCHANGED <<today, order, bought, listed, cursor, covered>>, imported \subseteq imported'
  PROVE  SyncInv'
<1>1. Unlisted'
  BY DEF SyncInv, Unlisted
<1>2. Sync!CursorLeavesNothing'
  BY DEF SyncInv, Sync!CursorLeavesNothing, Sync!NoCursor, Sync!WindowStart
<1> QED
  BY <1>1, <1>2 DEF SyncInv

LEMMA RunEnds ==
  ASSUME SyncInv, run' = Sync!Idle, UNCHANGED <<today, order, bought, listed, imported, cursor, covered>>
  PROVE  SyncInv'
<1>0. /\ DOMAIN run' = DOMAIN Sync!Idle
      /\ run'.start = 0 /\ run'.end = 0 /\ run'.offset = 0 /\ run'.limit = 0 /\ run'.found = {}
      /\ run'.stage = "idle" /\ ~run'.advance
  BY DEF Sync!Idle
<1>1. SyncTypes'
  <2>1. SyncTypes /\ today \in Nat /\ covered \in Int
    BY DEF SyncInv, SyncTypes
  <2> QED
    BY <1>0, <2>1, RunTypes
<1>2. Window'
  BY <1>0 DEF SyncInv, Window, Sync!NoCursor
<1>3. \A b : ~Old(b)'
  <2>1. \A a \in DOMAIN bought' : bought'[a] \in Nat
    BY <1>1 DEF SyncTypes
  <2> QED
    BY <1>0, <2>1, SyncConstants DEF Old
<1> QED
  BY <1>1, <1>2, <1>3, RunGoesOn DEF OldOnes

LEMMA StartKeeps ==
  ASSUME SyncInv, Sync!Start PROVE SyncInv'
<1>1. PICK full \in BOOLEAN, limit \in 0..1 :
        run' = [Sync!Idle EXCEPT !.stage = "listing", !.full = full, !.start = Sync!WindowStart(Sync!Anchor(full)),
                                 !.end = today, !.limit = limit, !.advance = TRUE]
  BY DEF Sync!Start
<1>2. /\ today \in Nat /\ Overlap \in Nat /\ Lookback \in Nat /\ FullLookback \in Nat /\ Lag \in Nat /\ Lag <= Overlap
      /\ cursor = Sync!NoCursor \/ cursor \in 0..today
  BY SyncConstants DEF SyncInv, SyncTypes
<1>3. Sync!WindowStart(Sync!Anchor(full)) \in Int /\ Sync!WindowStart(Sync!Anchor(full)) <= today
  BY <1>2 DEF Sync!WindowStart, Sync!Anchor
<1>4. UNCHANGED <<today, order, bought, listed, imported, cursor, covered>>
  BY DEF Sync!Start
<1>5. SyncTypes'
  <2>1. /\ DOMAIN run' = DOMAIN Sync!Idle
        /\ run'.start = Sync!WindowStart(Sync!Anchor(full)) /\ run'.end = today
        /\ run'.offset = 0 /\ run'.limit = limit /\ run'.found = {} /\ run'.stage = "listing"
    BY <1>1 DEF Sync!Idle
  <2> QED
    <3>1. SyncTypes /\ today \in Nat /\ covered \in Int
      BY DEF SyncInv, SyncTypes
    <3> QED
      BY <1>2, <1>3, <1>4, <2>1, <3>1, RunTypes
<1>6. Window'
  BY <1>1, <1>4 DEF SyncInv, Window, Sync!Idle, Sync!Anchor, Sync!NoCursor, Sync!WindowStart
<1>7. ASSUME NEW b, Old(b)' PROVE b \in listed' /\ Place(b)' >= run'.offset
  <2>1. b \in DOMAIN bought /\ bought[b] \in Nat /\ bought[b] + Overlap < today
    BY <1>1, <1>4, <1>7 DEF Old, Sync!Idle, SyncInv, SyncTypes
  <2>2. b \in listed
    BY <1>2, <2>1 DEF SyncInv, Unlisted
  <2>3. Place(b)' \in Nat /\ run'.offset = 0
    BY <1>1, <1>5, PlacesAreNumbers DEF Sync!Idle
  <2> QED
    BY <1>4, <2>2, <2>3
<1>8. run'.stage = "listing"
  BY <1>1 DEF Sync!Idle
<1> QED
  BY <1>4, <1>5, <1>6, <1>7, <1>8, RunGoesOn DEF OldOnes

LEMMA TargetedKeeps ==
  ASSUME SyncInv, NEW b, Sync!StartTargeted(b) PROVE SyncInv'
<1>0. /\ DOMAIN run' = DOMAIN Sync!Idle
      /\ run'.start = 0 /\ run'.end = 0 /\ run'.offset = 0 /\ run'.limit = 0 /\ run'.found = {b}
      /\ run'.stage = "importing" /\ ~run'.advance
      /\ b \in listed /\ UNCHANGED <<today, order, bought, listed, imported, cursor, covered>>
  BY DEF Sync!StartTargeted, Sync!Idle
<1>1. SyncTypes'
  <2>1. SyncTypes /\ today \in Nat /\ covered \in Int
    BY DEF SyncInv, SyncTypes
  <2> QED
    BY <1>0, <2>1, RunTypes
<1>2. Window'
  BY <1>0 DEF SyncInv, Window, Sync!NoCursor
<1>3. \A c : ~Old(c)'
  <2>1. \A a \in DOMAIN bought' : bought'[a] \in Nat
    BY <1>1 DEF SyncTypes
  <2> QED
    BY <1>0, <2>1, SyncConstants DEF Old
<1> QED
  BY <1>0, <1>1, <1>2, <1>3, RunGoesOn DEF OldOnes

LEMMA FetchKeeps ==
  ASSUME SyncInv, Sync!FetchPage PROVE SyncInv'
<1> DEFINE all == run.found \cup Sync!Page
           last == Sync!Cardinality(Sync!Page) < PageSize
           cut == last /\ run.limit > 0 /\ Sync!Cardinality(all) > run.limit
           kept == IF cut THEN {b \in all : Sync!Cardinality({a \in all : a < b}) < run.limit} ELSE all
<1>1. /\ run.stage = "listing"
      /\ run' = [run EXCEPT !.found = kept, !.offset = @ + PageSize, !.advance = ~cut,
                            !.stage = IF last THEN "importing" ELSE "listing"]
      /\ UNCHANGED <<today, order, bought, listed, imported, cursor, covered>>
  BY DEF Sync!FetchPage
<1>2. all \subseteq listed /\ kept \subseteq all /\ (~cut => kept = all)
  BY DEF SyncInv, SyncTypes, Sync!Page, Sync!InWindow
<1> HIDE DEF last, cut, kept
<1>3. /\ DOMAIN run' = DOMAIN Sync!Idle
      /\ run'.start = run.start /\ run'.end = run.end /\ run'.limit = run.limit /\ run'.full = run.full
      /\ run'.failed = run.failed /\ run'.found = kept /\ run'.offset = run.offset + PageSize
      /\ run'.advance = ~cut /\ run'.stage = IF last THEN "importing" ELSE "listing"
  BY <1>1 DEF SyncInv, SyncTypes, Sync!Idle
<1>4. run.offset \in Nat /\ PageSize \in Nat
  BY SyncConstants DEF SyncInv, SyncTypes
<1>5. SyncTypes'
  <2>1. /\ SyncTypes /\ covered \in Int /\ run.limit \in Nat
        /\ run.start \in Int /\ run.end \in Nat /\ run.end <= today /\ run.start <= run.end
    BY DEF SyncInv, SyncTypes
  <2>2. run'.offset \in Nat /\ run'.stage \in {"idle", "listing", "importing"} /\ run'.found \subseteq listed
    BY <1>2, <1>3, <1>4
  <2> QED
    BY <1>1, <1>3, <2>1, <2>2, RunTypes
<1>6. ASSUME NEW b, Old(b)'
      PROVE  /\ b \in listed'
             /\ run'.stage = "listing" => b \in run'.found \/ Place(b)' >= run'.offset
             /\ run'.stage = "importing" /\ run'.advance => b \in run'.found
  <2>1. Old(b)
    BY <1>1, <1>3, <1>6 DEF Old
  <2>2. b \in listed /\ (b \in run.found \/ Place(b) >= run.offset)
    BY <1>1, <2>1 DEF SyncInv, OldOnes
  <2>3. b \in Sync!InWindow /\ Place(b) \in Nat
    <3>1. bought[b] \in Nat /\ run.start \in Int /\ run.end \in Nat /\ Overlap \in Nat
          /\ run.start <= bought[b] /\ bought[b] + Overlap < run.end
      BY <2>1, SyncConstants DEF Old, SyncInv, SyncTypes
    <3> QED
      BY <2>2, <3>1, WindowIsOrdered DEF SyncInv, Sync!InWindow
  <2>4. Place(b)' = Place(b)
    BY <1>1, <1>3 DEF Place, Sync!InWindow, Sync!Precedes
  <2>5. b \in Sync!Page \/ b \in run.found \/ Place(b) >= run.offset + PageSize
    <3>1. Sync!Cardinality({a \in Sync!InWindow : Sync!Precedes(a, b)}) = Place(b)
      BY SyncCardinality DEF Place
    <3> QED
      BY <1>4, <2>2, <2>3, <3>1 DEF Sync!Page
  <2>6. last => b \in Sync!Page \/ b \in run.found
    BY <2>2, <2>3, ShortPageIsLast DEF SyncInv, last
  <2>7. ~last => kept = all /\ run'.stage = "listing"
    BY <1>2, <1>3 DEF cut
  <2>8. last /\ run'.advance => kept = all
    BY <1>2, <1>3
  <2>9. last => run'.stage = "importing"
    BY <1>3
  <2> QED
    BY <1>1, <1>3, <2>2, <2>4, <2>5, <2>6, <2>7, <2>8, <2>9
<1>7. Window'
  <2>1. run.advance
    BY <1>1 DEF SyncInv, Window
  <2>2. run'.stage = "listing" => run'.advance
    BY <1>3 DEF cut
  <2> QED
    BY <1>1, <1>3, <2>1, <2>2 DEF SyncInv, Window, Sync!NoCursor, Sync!WindowStart
<1>8. OldOnes'
  BY <1>6 DEF OldOnes
<1> QED
  BY <1>1, <1>5, <1>7, <1>8, RunGoesOn

LEMMA ImportKeeps ==
  ASSUME SyncInv, Sync!ImportCandidate PROVE SyncInv'
<1>1. PICK b \in run.found :
        \/ imported' = imported \cup {b} /\ run' = [run EXCEPT !.found = @ \ {b}]
        \/ run' = [run EXCEPT !.found = @ \ {b}, !.failed = TRUE] /\ UNCHANGED imported
  BY DEF Sync!ImportCandidate
<1>2. run.stage = "importing" /\ UNCHANGED <<today, order, bought, listed, cursor, covered>>
  BY DEF Sync!ImportCandidate
<1>3. /\ DOMAIN run' = DOMAIN Sync!Idle
      /\ run'.start = run.start /\ run'.end = run.end /\ run'.limit = run.limit /\ run'.full = run.full
      /\ run'.advance = run.advance /\ run'.stage = run.stage /\ run'.offset = run.offset
      /\ run'.found = run.found \ {b}
      /\ imported \subseteq imported'
      /\ (imported' = imported \cup {b} /\ run'.failed = run.failed) \/ run'.failed
  BY <1>1 DEF SyncInv, SyncTypes, Sync!Idle
<1>4. SyncTypes'
  BY <1>2, <1>3, RunTypes DEF SyncInv, SyncTypes
<1>5. Window'
  BY <1>2, <1>3 DEF SyncInv, Window, Sync!NoCursor, Sync!WindowStart
<1>6. ASSUME NEW c, Old(c)'
      PROVE  c \in listed' /\ (run'.advance /\ ~run'.failed => c \in run'.found \cup imported')
  <2>1. Old(c)
    BY <1>2, <1>3, <1>6 DEF Old
  <2> QED
    BY <1>2, <1>3, <2>1 DEF SyncInv, OldOnes
<1>7. OldOnes'
  BY <1>2, <1>3, <1>6 DEF OldOnes
<1> QED
  BY <1>2, <1>3, <1>4, <1>5, <1>7, RunGoesOn

\* The window of a run that counts hangs together with those before it, or
\* what is covered begins with it.
LEMMA FinishKeeps ==
  ASSUME SyncInv, Sync!FinishRun, run.advance, ~run.failed PROVE SyncInv'
<1>1. /\ run.stage = "importing" /\ run.found = {} /\ run' = Sync!Idle
      /\ cursor' = run.end /\ covered' = Sync!CoveredBy(run)
      /\ UNCHANGED <<today, order, bought, listed, imported>>
  BY DEF Sync!FinishRun
<1>2. /\ DOMAIN run' = DOMAIN Sync!Idle
      /\ run'.start = 0 /\ run'.end = 0 /\ run'.offset = 0 /\ run'.limit = 0 /\ run'.found = {}
      /\ run'.stage = "idle" /\ ~run'.advance
  BY <1>1 DEF Sync!Idle
<1>3. /\ today \in Nat /\ today <= Days /\ run.start \in Int /\ run.end \in Nat /\ run.end <= today /\ run.start <= run.end
      /\ covered \in Int /\ Overlap \in Nat /\ Days \in Nat /\ Lookback \in Nat /\ FullLookback \in Nat
  BY SyncConstants DEF SyncInv, SyncTypes
<1>4. covered' \in Int /\ covered' <= run.start
  BY <1>1, <1>3 DEF Sync!CoveredBy
<1>5. SyncTypes'
  <2>1. SyncTypes /\ run.end \in 0..today
    BY <1>3 DEF SyncInv
  <2>2. run'.end <= today /\ run'.start <= run'.end /\ cursor' \in 0..today /\ run'.found \subseteq listed
    BY <1>1, <1>2, <1>3, <2>1
  <2> QED
    BY <1>1, <1>2, <1>4, <2>1, <2>2, RunTypes
<1>6. cursor' # Sync!NoCursor
  BY <1>1, <1>3 DEF Sync!NoCursor
<1>7. ASSUME NEW b \in DOMAIN bought \ imported, bought[b] >= covered' PROVE bought[b] >= run.end - Overlap
  <2>0. bought[b] \in Nat
    BY DEF SyncInv, SyncTypes
  <2> SUFFICES ASSUME bought[b] + Overlap < run.end PROVE FALSE
    BY <1>3, <2>0
  <2>1. ~Old(b)
    BY <1>1 DEF SyncInv, OldOnes
  <2>2. bought[b] < run.start
    BY <1>3, <2>0, <2>1 DEF Old
  <2>3. covered' = covered /\ covered <= run.start
        /\ ~(run.full /\ cursor # Sync!NoCursor /\ run.start > Sync!WindowStart(cursor))
    BY <1>1, <1>3, <1>4, <1>7, <2>0, <2>2 DEF Sync!CoveredBy
  <2>4. cursor # Sync!NoCursor
    BY <1>3, <2>3 DEF SyncInv, Window
  <2>5. Sync!WindowStart(cursor) \in Int /\ run.start <= Sync!WindowStart(cursor)
    <3>1. cursor \in Int /\ Sync!WindowStart(cursor) \in Int
      <4>1. cursor \in 0..today
        BY <2>4 DEF SyncInv, SyncTypes
      <4> QED
        BY <1>3, <4>1 DEF Sync!WindowStart
    <3>2. ~run.full => run.start = Sync!WindowStart(cursor)
      BY <2>4 DEF SyncInv, Window
    <3> QED
      BY <1>3, <2>3, <2>4, <3>1, <3>2
  <2>6. bought[b] >= Sync!WindowStart(cursor)
    BY <1>7, <2>3, <2>4 DEF SyncInv, Sync!CursorLeavesNothing
  <2> QED
    BY <1>3, <2>0, <2>2, <2>5, <2>6
<1>8. Sync!CursorLeavesNothing'
  BY <1>1, <1>7 DEF Sync!CursorLeavesNothing, Sync!WindowStart, Sync!NoCursor
<1>9. Window'
  BY <1>2, <1>6 DEF Window, Sync!NoCursor
<1>10. \A b : ~Old(b)'
  <2>1. \A a \in DOMAIN bought' : bought'[a] \in Nat
    BY <1>5 DEF SyncTypes
  <2> QED
    BY <1>2, <1>3, <2>1 DEF Old
<1>11. Unlisted'
  BY <1>1 DEF SyncInv, Unlisted
<1> QED
  BY <1>5, <1>8, <1>9, <1>10, <1>11 DEF SyncInv, OldOnes

LEMMA SyncInvHolds ==
  ASSUME SyncInv, [Sync!Next]_syncPart PROVE SyncInv'
<1>0. SyncTypes /\ Unlisted
  BY DEF SyncInv
<1>1. CASE UNCHANGED syncPart
  <2>1. SyncTypes' /\ Unlisted'
    BY <1>0, <1>1 DEF syncPart, SyncTypes, Unlisted, Sync!NoCursor, Sync!Idle
  <2> QED
    BY <1>1, <2>1, BookingsCome DEF syncPart
<1>2. CASE Sync!NextDay
  <2>1. /\ today < Days /\ today' = today + 1
        /\ \A b \in DOMAIN bought \ listed : bought[b] + Lag > today
        /\ UNCHANGED <<order, bought, listed, imported, cursor, covered, run>>
    BY <1>2 DEF Sync!NextDay
  <2>2. today \in Nat /\ Days \in Nat /\ Lag \in Nat
    BY <1>0, SyncConstants DEF SyncTypes
  <2>3. today' \in Nat /\ today' <= Days
    BY <2>1, <2>2
  <2>4. \A b \in DOMAIN bought' : bought'[b] \in Nat /\ bought'[b] <= today'
    <3>1. \A b \in DOMAIN bought : bought[b] \in Nat /\ bought[b] <= today
      BY <1>0 DEF SyncTypes
    <3> QED
      BY <2>1, <2>2, <3>1
  <2>5. cursor' = Sync!NoCursor \/ cursor' \in 0..today'
    <3>1. cursor = Sync!NoCursor \/ cursor \in 0..today
      BY <1>0 DEF SyncTypes
    <3> QED
      BY <2>1, <2>2, <3>1
  <2>6. run'.end \in Nat /\ run'.end <= today'
    <3>1. run.end \in Nat /\ run.end <= today
      BY <1>0 DEF SyncTypes
    <3> QED
      BY <2>1, <2>2, <3>1
  <2>7. SyncTypes'
    BY <1>0, <2>1, <2>3, <2>4, <2>5, <2>6 DEF SyncTypes, Sync!NoCursor, Sync!Idle
  <2>8. ASSUME NEW b \in DOMAIN bought' \ listed' PROVE today' <= bought'[b] + Lag
    <3>1. bought[b] \in Nat /\ bought[b] + Lag > today
      BY <1>0, <2>1, <2>8 DEF SyncTypes
    <3> QED
      BY <2>1, <2>2, <3>1
  <2>9. Unlisted'
    BY <2>8 DEF Unlisted
  <2> QED
    BY <2>1, <2>7, <2>9, BookingsCome
<1>3. ASSUME NEW b \in Purchased, Sync!Buy(b) PROVE SyncInv'
  <2>1. /\ b \notin DOMAIN bought
        /\ DOMAIN bought' = DOMAIN bought \cup {b} /\ bought'[b] = today
        /\ \A c \in DOMAIN bought : bought'[c] = bought[c]
        /\ UNCHANGED <<today, order, listed, imported, cursor, covered, run>>
    BY <1>3 DEF Sync!Buy
  <2>2. today \in Nat /\ Lag \in Nat
    BY <1>0, SyncConstants DEF SyncTypes
  <2>3. SyncTypes'
    <3>0. \A c \in DOMAIN bought : bought[c] \in Nat /\ bought[c] <= today
      BY <1>0 DEF SyncTypes
    <3>1. \A c \in DOMAIN bought' : bought'[c] \in Nat /\ bought'[c] <= today
      BY <2>1, <2>2, <3>0
    <3>2. DOMAIN bought' \subseteq Purchased /\ listed' \subseteq DOMAIN bought'
      BY <1>0, <1>3, <2>1 DEF SyncTypes
    <3> QED
      BY <1>0, <2>1, <3>1, <3>2 DEF SyncTypes, Sync!NoCursor, Sync!Idle
  <2>4. Unlisted'
    BY <1>0, <2>1, <2>2 DEF Unlisted
  <2> QED
    BY <2>1, <2>3, <2>4, BookingsCome
<1>4. ASSUME NEW b \in Purchased, Sync!List(b) PROVE SyncInv'
  <2>1. b \in DOMAIN bought /\ listed' = listed \cup {b}
        /\ UNCHANGED <<today, order, bought, imported, cursor, covered, run>>
    BY <1>4 DEF Sync!List
  <2>2. SyncTypes'
    BY <1>0, <2>1 DEF SyncTypes, Sync!NoCursor, Sync!Idle
  <2>3. Unlisted'
    BY <1>0, <2>1 DEF Unlisted
  <2> QED
    BY <2>1, <2>2, <2>3, BookingsCome
<1>5. ASSUME NEW b \in Purchased, Sync!ImportElsewhere(b) PROVE SyncInv'
  <2>1. imported' = imported \cup {b} /\ UNCHANGED <<today, order, bought, listed, cursor, covered, run>>
    BY <1>5 DEF Sync!ImportElsewhere
  <2>2. SyncTypes' /\ Unlisted'
    BY <1>0, <2>1 DEF SyncTypes, Unlisted, Sync!NoCursor, Sync!Idle
  <2> QED
    BY <2>1, <2>2, BookingsCome
<1>6. CASE Sync!FinishRun
  <2>1. CASE run.advance /\ ~run.failed
    BY <1>6, <2>1, FinishKeeps
  <2>2. CASE ~(run.advance /\ ~run.failed)
    BY <1>6, <2>2, RunEnds DEF Sync!FinishRun
  <2> QED
    BY <2>1, <2>2
<1>7. CASE Sync!AbortRun
  BY <1>7, RunEnds DEF Sync!AbortRun
<1> QED
  BY <1>1, <1>2, <1>3, <1>4, <1>5, <1>6, <1>7, StartKeeps, TargetedKeeps, FetchKeeps, ImportKeeps DEF Sync!Next

LEMMA SyncInvInit == Sync!Init => SyncInv
<1> SUFFICES ASSUME Sync!Init PROVE SyncInv
  OBVIOUS
<1>1. /\ today = 0 /\ order \in {"newest first", "oldest first"} /\ DOMAIN bought = {} /\ listed = {} /\ imported = {}
      /\ cursor = Sync!NoCursor /\ covered = Days + 1 /\ run = Sync!Idle
  <2>1. DOMAIN <<>> = {}
    OBVIOUS
  <2> QED
    BY <2>1 DEF Sync!Init
<1>2. /\ run.start = 0 /\ run.end = 0 /\ run.offset = 0 /\ run.limit = 0 /\ run.found = {}
      /\ run.stage = "idle" /\ ~run.advance
  BY <1>1 DEF Sync!Idle
<1>3. SyncTypes
  <2>1. Days \in Nat /\ covered = Days + 1 /\ today = 0
    BY <1>1, SyncConstants
  <2>2. covered \in Int /\ today \in Nat /\ today <= Days
    BY <2>1
  <2>3. run.start <= run.end /\ run.start \in Int /\ run.end \in Nat /\ run.end <= today
    BY <1>2, <2>1
  <2> QED
    BY <1>1, <1>2, <2>2, <2>3 DEF SyncTypes
<1> QED
  BY <1>1, <1>2, <1>3 DEF SyncInv, Unlisted, Window, OldOnes, Old, Sync!CursorLeavesNothing

\* No cursor goes past a booking that is not imported
\* (runSyncRegiondoBookingsJob, fetchSupplierBookingsForWindow).
THEOREM SyncLeavesNothing == Sync!Spec => []CursorLeavesNothing
<1>1. SyncInv /\ [Sync!Next]_syncPart => SyncInv'
  BY SyncInvHolds
<1>2. SyncInv => CursorLeavesNothing
  BY DEF SyncInv, CursorLeavesNothing
<1> QED
  BY <1>1, <1>2, SyncInvInit, SyncSpec, PTL

-----------------------------------------------------------------------------
(* The lists that are walked page by page.                                     *)

LEMMA ListConstants == Rows \subseteq Nat /\ IsFiniteSet(Rows) /\ MaxTime \in Nat /\ MaxLimit \in Nat
<1>1. Rows \subseteq Nat /\ Lists!IsFiniteSet(Rows) /\ MaxTime \in Nat /\ MaxLimit \in Nat
  BY PartsAssumption DEF Lists!PagedListsAssumption
<1> QED
  BY <1>1 DEF IsFiniteSet, Lists!IsFiniteSet

LEMMA ListCardinality == \A S : Lists!Cardinality(S) = Cardinality(S)
BY DEF Cardinality, Lists!Cardinality, IsFiniteSet, Lists!IsFiniteSet

LEMMA ListSpec == Lists!Spec => Lists!Init /\ [][Lists!Next]_listPart
BY DEF Lists!Spec, Lists!vars, listPart

KeysOK == DOMAIN key \subseteq Rows /\ \A r \in DOMAIN key : key[r] \in Nat

WalkFields == {"list", "stage", "direction", "limit", "cursor", "listed", "untouched", "exact"}

WalkOK ==
  /\ DOMAIN walk = WalkFields
  /\ walk.direction \in {"asc", "desc"} /\ walk.stage \in {"open", "over"}
  /\ walk.limit \in Nat /\ walk.limit >= 1
  /\ DOMAIN walk.listed = Rows /\ \A r \in Rows : walk.listed[r] \in Nat
  /\ walk.untouched \subseteq DOMAIN key
  /\ walk.exact => walk.cursor.time \in Nat /\ walk.cursor.row \in Nat

\* In an open walk the rows that did not move are listed once before the
\* cursor, and not yet behind it.
WalkInv ==
  /\ KeysOK /\ WalkOK
  /\ walk.exact => \A r \in walk.untouched :
       walk.listed[r] = IF walk.stage = "open" /\ r \in Lists!Behind THEN 0 ELSE 1

\* Times and rows are in the order of the list.
LEMMA FollowsOrders ==
  ASSUME NEW s \in Nat, NEW x \in Nat, NEW t \in Nat, NEW y \in Nat, NEW u \in Nat, NEW z \in Nat
  PROVE  /\ ~Lists!Follows(s, x, s, x)
         /\ x # y => Lists!Follows(s, x, t, y) \/ Lists!Follows(t, y, s, x)
         /\ ~(Lists!Follows(s, x, t, y) /\ Lists!Follows(t, y, s, x))
         /\ Lists!Follows(s, x, t, y) /\ Lists!Follows(t, y, u, z) => Lists!Follows(s, x, u, z)
<1> DEFINE later(a, b, c, d) == a > c \/ (a = c /\ b > d)
<1>1. \A a, b, c, d : Lists!Follows(a, b, c, d) <=>
        IF walk.direction = "asc" THEN later(a, b, c, d) ELSE <<a, b>> # <<c, d>> /\ ~later(a, b, c, d)
  BY DEF Lists!Follows
<1>2. CASE walk.direction = "asc"
  <2>1. /\ ~later(s, x, s, x) /\ (x # y => later(s, x, t, y) \/ later(t, y, s, x))
        /\ ~(later(s, x, t, y) /\ later(t, y, s, x))
        /\ (later(s, x, t, y) /\ later(t, y, u, z) => later(s, x, u, z))
    OBVIOUS
  <2> HIDE DEF later
  <2> QED
    BY <1>1, <1>2, <2>1
<1>3. CASE walk.direction # "asc"
  <2> DEFINE earlier(a, b, c, d) == a < c \/ (a = c /\ b < d)
  <2>1. \A a, b, c, d \in Nat : <<a, b>> # <<c, d>> /\ ~later(a, b, c, d) <=> earlier(a, b, c, d)
    OBVIOUS
  <2>2. /\ ~earlier(s, x, s, x) /\ (x # y => earlier(s, x, t, y) \/ earlier(t, y, s, x))
        /\ ~(earlier(s, x, t, y) /\ earlier(t, y, s, x))
        /\ (earlier(s, x, t, y) /\ earlier(t, y, u, z) => earlier(s, x, u, z))
    OBVIOUS
  <2>3. \A a, b, c, d \in Nat : Lists!Follows(a, b, c, d) <=> earlier(a, b, c, d)
    <3> HIDE DEF later, earlier
    <3> QED
      BY <1>1, <1>3, <2>1
  <2> HIDE DEF later, earlier
  <2> QED
    BY <2>2, <2>3
<1> QED
  BY <1>2, <1>3

LEMMA FollowsChain ==
  \A s, x, t, y, u, z \in Nat :
    Lists!Follows(s, x, t, y) /\ Lists!Follows(t, y, u, z) => Lists!Follows(s, x, u, z)
BY FollowsOrders

\* x comes before y in the list; x comes after y.
Forward(S) == {p \in S \X S : Lists!Follows(key[p[2]], p[2], key[p[1]], p[1])}
Backward(S) == {p \in S \X S : Lists!Follows(key[p[1]], p[1], key[p[2]], p[2])}

LEMMA RowsAreOrdered ==
  ASSUME KeysOK, NEW S \in SUBSET DOMAIN key
  PROVE  IsFiniteSet(S) /\ StrictOrder(Forward(S), S) /\ StrictOrder(Backward(S), S)
<1>1. IsFiniteSet(S) /\ \A x \in S : x \in Nat /\ key[x] \in Nat
  BY ListConstants, FS_Subset DEF KeysOK
<1> DEFINE after(x, y) == Lists!Follows(key[x], x, key[y], y)
<1>2. \A x, y \in S : (<<x, y>> \in Forward(S) <=> after(y, x)) /\ (<<x, y>> \in Backward(S) <=> after(x, y))
  BY DEF Forward, Backward
<1>3. ASSUME NEW x \in S, NEW y \in S, NEW z \in S
      PROVE  /\ ~after(x, x) /\ (x # y => after(x, y) \/ after(y, x))
             /\ (after(x, y) /\ after(y, z) => after(x, z))
  BY <1>1, FollowsOrders
<1> HIDE DEF after
<1> QED
  BY <1>1, <1>2, <1>3 DEF StrictOrder

LEMMA PageIsFirst ==
  ASSUME KeysOK, WalkOK, NEW S \in SUBSET DOMAIN key, Cardinality(S) > walk.limit,
         NEW last, last = CHOOSE r \in Lists!PageOf(S) : \A q \in Lists!PageOf(S) \ {r} : Lists!Follows(key[r], r, key[q], q)
  PROVE  /\ last \in Lists!PageOf(S)
         /\ \A r \in Lists!PageOf(S) : ~Lists!Follows(key[r], r, key[last], last)
         /\ \A r \in S \ Lists!PageOf(S) : Lists!Follows(key[r], r, key[last], last)
<1> DEFINE page == Lists!PageOf(S)
           R == Forward(S)
<1>1. IsFiniteSet(S) /\ StrictOrder(R, S) /\ \A x \in S : x \in Nat /\ key[x] \in Nat
  BY RowsAreOrdered, ListConstants DEF KeysOK
<1>2. page = {r \in S : Rank(R, S, r) < walk.limit}
  <2>1. ASSUME NEW r \in S PROVE Before(R, S, r) = {q \in S : Lists!Follows(key[r], r, key[q], q)}
    BY DEF Before, Forward
  <2> QED
    BY <2>1, ListCardinality DEF Lists!PageOf, Rank
<1>3. walk.limit \in Nat /\ walk.limit >= 1 /\ Cardinality(S) \in Nat
  BY <1>1, FS_CardinalityType DEF WalkOK
<1>4. page # {} /\ page \in SUBSET S
  <2>1. \E x \in S : Rank(R, S, x) = 0
    BY <1>1, <1>3, RanksFill
  <2> QED
    BY <1>2, <1>3, <2>1
<1>5. last \in page /\ \A q \in page \ {last} : Lists!Follows(key[last], last, key[q], q)
  <2>1. IsFiniteSet(page) /\ StrictOrder(Backward(page), page)
    BY <1>4, RowsAreOrdered
  <2>2. \E x \in page : \A y \in page \ {x} : <<x, y>> \in Backward(page)
    <3> HIDE DEF page
    <3> QED
      BY <1>4, <2>1, FirstExists
  <2>3. \E x \in page : \A q \in page \ {x} : Lists!Follows(key[x], x, key[q], q)
    BY <2>2 DEF Backward
  <2> QED
    BY <2>3
<1>6. ASSUME NEW r \in page PROVE ~Lists!Follows(key[r], r, key[last], last)
  <2>1. r \in Nat /\ last \in Nat /\ key[r] \in Nat /\ key[last] \in Nat
    BY <1>1, <1>4, <1>5
  <2>2. r # last => Lists!Follows(key[last], last, key[r], r)
    BY <1>5
  <2>3. ~Lists!Follows(key[r], r, key[r], r)
        /\ ~(Lists!Follows(key[r], r, key[last], last) /\ Lists!Follows(key[last], last, key[r], r))
    BY <2>1, FollowsOrders
  <2> QED
    BY <2>2, <2>3
<1>7. ASSUME NEW r \in S \ page PROVE Lists!Follows(key[r], r, key[last], last)
  <2>1. r # last /\ last \in S
    BY <1>4, <1>5
  <2>2. Lists!Follows(key[r], r, key[last], last) \/ Lists!Follows(key[last], last, key[r], r)
    BY <1>1, <2>1, FollowsOrders
  <2>3. ~Lists!Follows(key[last], last, key[r], r)
    <3> SUFFICES ASSUME Lists!Follows(key[last], last, key[r], r) PROVE FALSE
      OBVIOUS
    <3>0. <<r, last>> \in R
      <4>1. \A x, y \in S : Lists!Follows(key[y], y, key[x], x) => <<x, y>> \in Forward(S)
        BY DEF Forward
      <4> QED
        BY <2>1, <4>1
    <3>1. Rank(R, S, r) < Rank(R, S, last) /\ Rank(R, S, last) < walk.limit
          /\ Rank(R, S, r) \in Nat /\ Rank(R, S, last) \in Nat
      BY <3>0, <1>1, <1>2, <1>5, <2>1, RanksAscend
    <3>2. Rank(R, S, r) < walk.limit
      BY <1>3, <3>1
    <3> QED
      BY <1>2, <1>7, <3>2
  <2> QED
    BY <2>2, <2>3
<1> QED
  BY <1>5, <1>6, <1>7

\* A page that nothing follows is all there is.
LEMMA LastPageIsAll ==
  ASSUME KeysOK, WalkOK, NEW S \in SUBSET DOMAIN key, ~(Cardinality(S) > walk.limit)
  PROVE  Lists!PageOf(S) = S
<1> DEFINE R == Forward(S)
<1>1. IsFiniteSet(S) /\ StrictOrder(R, S)
  BY RowsAreOrdered
<1>2. walk.limit \in Nat /\ Cardinality(S) \in Nat
  BY <1>1, FS_CardinalityType DEF WalkOK
<1>3. ASSUME NEW r \in S PROVE Lists!Cardinality({q \in S : Lists!Follows(key[r], r, key[q], q)}) < walk.limit
  <2>1. Before(R, S, r) = {q \in S : Lists!Follows(key[r], r, key[q], q)}
    BY DEF Before, Forward
  <2>2. Rank(R, S, r) \in Nat /\ Rank(R, S, r) < Cardinality(S)
    BY <1>1, RanksAscend
  <2> QED
    BY <1>2, <2>1, <2>2, ListCardinality DEF Rank
<1> QED
  BY <1>3 DEF Lists!PageOf

LEMMA PageKeeps ==
  ASSUME WalkInv, Lists!NextPage PROVE WalkInv'
<1> DEFINE S == Lists!Behind
           page == Lists!PageOf(S)
           last == CHOOSE r \in page : \A q \in page \ {r} : Lists!Follows(key[r], r, key[q], q)
           more == Lists!Cardinality(S) > walk.limit
           cursorAt == IF more THEN [time |-> Lists!Millis(walk.list, key[last]), row |-> last, given |-> TRUE]
                       ELSE Lists!NoCursor
           whole == walk.exact /\ (more => Lists!Millis(walk.list, key[last]) = key[last])
<1>1. /\ walk.stage = "open" /\ key' = key
      /\ walk' = [walk EXCEPT
           !.listed = [r \in Rows |-> IF r \in page THEN walk.listed[r] + 1 ELSE walk.listed[r]],
           !.stage = IF more THEN "open" ELSE "over", !.cursor = cursorAt, !.exact = whole]
  BY DEF Lists!NextPage
<1>2. KeysOK /\ WalkOK /\ S \in SUBSET DOMAIN key /\ page \subseteq S
  BY DEF WalkInv, Lists!Behind, Lists!PageOf
<1>3. more => /\ last \in page
              /\ \A r \in page : ~Lists!Follows(key[r], r, key[last], last)
              /\ \A r \in S \ page : Lists!Follows(key[r], r, key[last], last)
  BY <1>2, PageIsFirst, ListCardinality
<1>4. ~more => page = S
  BY <1>2, LastPageIsAll, ListCardinality
<1>5. \A r \in DOMAIN key : r \in Nat /\ key[r] \in Nat /\ r \in Rows
  BY <1>2, ListConstants DEF KeysOK
<1>6. \A r \in S : walk.cursor.given => Lists!Follows(key[r], r, walk.cursor.time, walk.cursor.row)
  BY DEF Lists!Behind
<1>7. \A r \in DOMAIN key \ S : walk.cursor.given /\ ~Lists!Follows(key[r], r, walk.cursor.time, walk.cursor.row)
  BY DEF Lists!Behind
<1> HIDE DEF S, page, last, more
<1>8. /\ DOMAIN walk' = WalkFields
      /\ \A r \in Rows : walk'.listed[r] = IF r \in page THEN walk.listed[r] + 1 ELSE walk.listed[r]
      /\ DOMAIN walk'.listed = Rows
      /\ walk'.stage = IF more THEN "open" ELSE "over"
      /\ walk'.cursor = cursorAt /\ walk'.exact = whole
      /\ walk'.direction = walk.direction /\ walk'.limit = walk.limit /\ walk'.untouched = walk.untouched
      /\ walk'.list = walk.list
  BY <1>1, <1>2 DEF WalkOK, WalkFields
<1>9. walk'.exact => walk.exact /\ (more => walk'.cursor = [time |-> key[last], row |-> last, given |-> TRUE])
  BY <1>8
<1>10. walk'.exact => walk'.cursor.time \in Nat /\ walk'.cursor.row \in Nat
  <2>1. CASE more
    BY <1>2, <1>3, <1>5, <1>9, <2>1
  <2>2. CASE ~more
    BY <1>8, <2>2 DEF Lists!NoCursor
  <2> QED
    BY <2>1, <2>2
<1>11. WalkOK'
  <2>1. \A r \in Rows : walk'.listed[r] \in Nat
    BY <1>2, <1>8 DEF WalkOK
  <2> QED
    BY <1>1, <1>2, <1>8, <1>10, <2>1 DEF WalkOK, WalkFields
<1>12. KeysOK'
  BY <1>1, <1>2 DEF KeysOK
<1>13. ASSUME walk'.exact, NEW r \in walk.untouched
       PROVE  walk'.listed[r] = IF walk'.stage = "open" /\ r \in Lists!Behind' THEN 0 ELSE 1
  <2>1. r \in DOMAIN key /\ r \in Rows /\ walk.listed[r] = IF r \in S THEN 0 ELSE 1
    BY <1>1, <1>2, <1>5, <1>9, <1>13 DEF WalkInv, WalkOK, S
  <2>2. CASE ~more
    BY <1>4, <1>8, <2>1, <2>2
  <2>3. CASE more
    <3>1. r \in Lists!Behind' <=> Lists!Follows(key[r], r, key[last], last)
      BY <1>1, <1>8, <1>9, <1>13, <2>1, <2>3 DEF Lists!Behind, Lists!Follows
    <3>2. CASE r \in page
      <4>1. r \notin Lists!Behind' /\ r \in S
        BY <1>2, <1>3, <2>3, <3>1, <3>2
      <4> QED
        BY <1>8, <2>1, <3>2, <4>1
    <3>3. CASE r \in S \ page
      BY <1>3, <1>8, <2>1, <2>3, <3>1, <3>3
    <3>4. CASE r \notin S
      <4>1. walk.cursor.given /\ ~Lists!Follows(key[r], r, walk.cursor.time, walk.cursor.row)
        BY <1>7, <2>1, <3>4
      <4>2. Lists!Follows(key[last], last, walk.cursor.time, walk.cursor.row)
        BY <1>2, <1>3, <1>6, <2>3, <4>1
      <4>3. /\ key[r] \in Nat /\ r \in Nat /\ key[last] \in Nat /\ last \in Nat
            /\ walk.cursor.time \in Nat /\ walk.cursor.row \in Nat
        BY <1>2, <1>3, <1>5, <1>9, <1>13, <2>1, <2>3 DEF WalkOK
      <4>4. ~Lists!Follows(key[r], r, key[last], last)
        <5>1. Lists!Follows(key[r], r, key[last], last)
                /\ Lists!Follows(key[last], last, walk.cursor.time, walk.cursor.row)
                => Lists!Follows(key[r], r, walk.cursor.time, walk.cursor.row)
          <6>1. PICK s \in Nat, x \in Nat, u \in Nat, y \in Nat, v \in Nat, z \in Nat :
                  /\ s = key[r] /\ x = r /\ u = key[last] /\ y = last
                  /\ v = walk.cursor.time /\ z = walk.cursor.row
            BY <4>3
          <6>2. Lists!Follows(s, x, u, y) /\ Lists!Follows(u, y, v, z) => Lists!Follows(s, x, v, z)
            BY FollowsOrders
          <6> QED
            BY <6>1, <6>2
        <5> QED
          BY <4>1, <4>2, <5>1
      <4> QED
        BY <1>2, <1>8, <2>1, <3>1, <3>4, <4>4
    <3> QED
      BY <3>2, <3>3, <3>4
  <2> QED
    BY <2>2, <2>3
<1> QED
  BY <1>8, <1>11, <1>12, <1>13 DEF WalkInv

\* A step that changes rows, and takes those it moves out of the untouched.
LEMMA RowsChange ==
  ASSUME WalkInv, KeysOK', NEW untouched \in SUBSET walk.untouched,
         walk' = [walk EXCEPT !.untouched = untouched] \/ (walk' = walk /\ untouched = walk.untouched),
         \A r \in untouched : r \in DOMAIN key' /\ key'[r] = key[r]
  PROVE  WalkInv'
<1>1. /\ DOMAIN walk' = WalkFields /\ walk'.untouched = untouched
      /\ walk'.direction = walk.direction /\ walk'.stage = walk.stage /\ walk'.limit = walk.limit
      /\ walk'.listed = walk.listed /\ walk'.cursor = walk.cursor /\ walk'.exact = walk.exact
  BY DEF WalkInv, WalkOK, WalkFields
<1>2. WalkOK'
  BY <1>1 DEF WalkInv, WalkOK, WalkFields
<1>3. ASSUME NEW r \in untouched PROVE r \in Lists!Behind' <=> r \in Lists!Behind
  BY <1>1 DEF Lists!Behind, Lists!Follows, WalkInv, WalkOK
<1> QED
  BY <1>1, <1>2, <1>3 DEF WalkInv

LEMMA WalkInvHolds ==
  ASSUME WalkInv, [Lists!Next]_listPart PROVE WalkInv'
<1>0. KeysOK /\ WalkOK /\ DOMAIN walk = WalkFields /\ walk.untouched \subseteq DOMAIN key
  BY DEF WalkInv, WalkOK, WalkFields
<1>1. CASE UNCHANGED listPart
  BY <1>1 DEF listPart, WalkInv, KeysOK, WalkOK, WalkFields, Lists!Behind, Lists!Follows
<1>2. CASE Lists!Start
  <2>1. PICK d \in {"asc", "desc"}, n \in 1..MaxLimit :
          walk' = [walk EXCEPT !.stage = "open", !.direction = d, !.limit = n, !.cursor = Lists!NoCursor,
                               !.listed = [r \in Rows |-> 0], !.untouched = DOMAIN key, !.exact = TRUE]
    BY <1>2 DEF Lists!Start, Lists!Directions
  <2>2. /\ DOMAIN walk' = WalkFields /\ walk'.stage = "open" /\ walk'.direction = d /\ walk'.limit = n
        /\ walk'.cursor = Lists!NoCursor /\ walk'.listed = [r \in Rows |-> 0] /\ walk'.untouched = DOMAIN key
        /\ key' = key
    BY <1>0, <1>2, <2>1 DEF WalkFields, Lists!Start
  <2>3. KeysOK' /\ WalkOK'
    BY <1>0, <2>2, ListConstants DEF KeysOK, WalkOK, WalkFields, Lists!NoCursor
  <2>4. Lists!Behind' = DOMAIN key
    BY <2>2 DEF Lists!Behind, Lists!NoCursor
  <2> QED
    BY <2>2, <2>3, <2>4 DEF WalkInv, KeysOK
<1>3. CASE Lists!NextPage
  BY <1>3, PageKeeps
<1>4. CASE Lists!GiveUp
  <2>1. key' = key /\ walk' = [walk EXCEPT !.stage = "over", !.untouched = {}]
    BY <1>4 DEF Lists!GiveUp
  <2>2. KeysOK' /\ WalkOK' /\ walk'.untouched = {}
    BY <1>0, <2>1 DEF KeysOK, WalkOK, WalkFields
  <2> QED
    BY <2>2 DEF WalkInv
<1>5. CASE Lists!Leave
  <2>1. /\ DOMAIN key' \subseteq DOMAIN key /\ \A r \in DOMAIN key' : key'[r] = key[r]
        /\ walk' = [walk EXCEPT !.untouched = @ \cap DOMAIN key']
    BY <1>5 DEF Lists!Leave
  <2>2. KeysOK'
    BY <1>0, <2>1 DEF KeysOK
  <2>3. PICK left \in SUBSET walk.untouched : left = walk.untouched \cap DOMAIN key'
    OBVIOUS
  <2>4. walk' = [walk EXCEPT !.untouched = left] /\ \A r \in left : r \in DOMAIN key' /\ key'[r] = key[r]
    BY <2>1, <2>3
  <2> QED
    BY <2>2, <2>4, RowsChange
<1>6. ASSUME NEW r \in Rows, Lists!Insert(r) PROVE WalkInv'
  <2>1. PICK t \in Lists!Times(walk.list) : key' = [q \in DOMAIN key \cup {r} |-> IF q = r THEN t ELSE key[q]]
    BY <1>6 DEF Lists!Insert
  <2>2. t \in Nat /\ r \notin DOMAIN key /\ walk' = walk
    BY <1>6, ListConstants DEF Lists!Times, Lists!Insert
  <2>3. KeysOK'
    BY <1>0, <2>1, <2>2 DEF KeysOK
  <2>4. \A q \in walk.untouched : q \in DOMAIN key' /\ key'[q] = key[q]
    BY <1>0, <2>1, <2>2
  <2> QED
    BY <1>0, <2>2, <2>3, <2>4, RowsChange
<1>7. ASSUME NEW r \in Rows, Lists!Move(r) PROVE WalkInv'
  <2>1. PICK t \in Lists!Times(walk.list) : key' = [key EXCEPT ![r] = t]
    BY <1>7 DEF Lists!Move
  <2>2. t \in Nat /\ walk' = [walk EXCEPT !.untouched = walk.untouched \ {r}]
    BY <1>7, ListConstants DEF Lists!Times, Lists!Move
  <2>3. KeysOK'
    BY <1>0, <2>1, <2>2 DEF KeysOK
  <2>4. \A q \in walk.untouched \ {r} : q \in DOMAIN key' /\ key'[q] = key[q]
    BY <1>0, <2>1
  <2> QED
    BY <2>2, <2>3, <2>4, RowsChange
<1> QED
  BY <1>1, <1>2, <1>3, <1>4, <1>5, <1>6, <1>7 DEF Lists!Next

LEMMA WalkInvInit == Lists!Init => WalkInv
<1> SUFFICES ASSUME Lists!Init PROVE WalkInv
  OBVIOUS
<1>1. DOMAIN key = {}
  <2>1. DOMAIN <<>> = {}
    OBVIOUS
  <2> QED
    BY <2>1 DEF Lists!Init
<1>2. PICK list : walk = [list |-> list, stage |-> "over", direction |-> "desc", limit |-> 1,
                          cursor |-> Lists!NoCursor, listed |-> [r \in Rows |-> 0], untouched |-> {}, exact |-> TRUE]
  BY DEF Lists!Init
<1> QED
  BY <1>1, <1>2 DEF WalkInv, KeysOK, WalkOK, WalkFields, Lists!NoCursor

\* A walk to the end of a list whose cursors were exact has seen every row once
\* that was there all the time and did not move (buildListBookingsQuery,
\* listAdminErrorEvents, listClientNotifications).  A cursor that loses the
\* microseconds of its row is not: the theorem says nothing of such a walk.
THEOREM WalksMissNothing == Lists!Spec => []EveryRowListedOnce
<1>1. WalkInv /\ [Lists!Next]_listPart => WalkInv'
  BY WalkInvHolds
<1>2. WalkInv => EveryRowListedOnce
  BY DEF WalkInv, EveryRowListedOnce, Lists!EveryRowListedOnce
<1> QED
  BY <1>1, <1>2, WalkInvInit, ListSpec, PTL

-----------------------------------------------------------------------------
(* The reservations of resources: how many units rows reserve.                 *)

Keys == Reserving \X Resources \X Slots

LEMMA ReservationConstants ==
  /\ NoBooking \notin Reserving
  /\ Capacity \in [Resources -> Nat] /\ MaxNeed \in Nat
  /\ \A s \in Slots : s[1] \in Nat /\ s[2] \in Nat
  /\ IsFiniteSet(Keys)
<1>1. /\ Reservations!IsFiniteSet(Reserving) /\ Reservations!IsFiniteSet(Resources) /\ Reservations!IsFiniteSet(Slots)
      /\ NoBooking \notin Reserving
      /\ Capacity \in [Resources -> Nat] /\ MaxNeed \in Nat
      /\ Slots \subseteq (Nat \X Nat)
  BY PartsAssumption DEF Reservations!ResourceConsumptionAssumption
<1>2. IsFiniteSet(Reserving) /\ IsFiniteSet(Resources) /\ IsFiniteSet(Slots)
  BY <1>1 DEF IsFiniteSet, Reservations!IsFiniteSet
<1> DEFINE pairs == (Reserving \X Resources) \X Slots
           f == [p \in pairs |-> <<p[1][1], p[1][2], p[2]>>]
<1>3. IsFiniteSet(pairs)
  BY <1>2, FS_Product
<1>4. f \in Surjection(pairs, Keys)
  <2>1. f \in [pairs -> Keys]
    BY DEF Keys
  <2>2. ASSUME NEW k \in Keys PROVE \E p \in pairs : f[p] = k
    <3>1. <<<<k[1], k[2]>>, k[3]>> \in pairs /\ k = <<k[1], k[2], k[3]>>
      BY DEF Keys
    <3>2. f[<<<<k[1], k[2]>>, k[3]>>] = k
      BY <3>1
    <3> QED
      BY <3>1, <3>2
  <2> HIDE DEF f, pairs
  <2> QED
    BY <2>1, <2>2 DEF Surjection
<1>5. IsFiniteSet(Keys)
  <2> HIDE DEF f, pairs
  <2> QED
    BY <1>3, <1>4, FS_Surjection
<1> QED
  BY <1>1, <1>5

LEMMA ReservationCardinality == \A S : Reservations!Cardinality(S) = Cardinality(S)
BY DEF Cardinality, Reservations!Cardinality, IsFiniteSet, Reservations!IsFiniteSet

LEMMA ReservationSpec == Reservations!Spec => Reservations!Init /\ [][Reservations!Next]_reservationPart
BY DEF Reservations!Spec, Reservations!vars, reservationPart

UnitsOf(rows, keys) == UNION {{k} \X (1..rows[k]) : k \in keys}

LEMMA UnitsAreNumbers ==
  ASSUME NEW rows \in [Keys -> Nat], NEW keys \in SUBSET Keys
  PROVE  /\ IsFiniteSet(UnitsOf(rows, keys))
         /\ Reservations!Units(rows, keys) = Cardinality(UnitsOf(rows, keys))
         /\ Reservations!Units(rows, keys) \in Nat
<1> DEFINE piece == [k \in keys |-> {k} \X (1..rows[k])]
           pieces == {{k} \X (1..rows[k]) : k \in keys}
<1>1. IsFiniteSet(keys)
  BY ReservationConstants, FS_Subset
<1>2. piece \in Surjection(keys, pieces)
  <2>1. piece \in [keys -> pieces] /\ \A p \in pieces : \E k \in keys : piece[k] = p
    OBVIOUS
  <2> HIDE DEF piece, pieces
  <2> QED
    BY <2>1 DEF Surjection
<1>3. IsFiniteSet(pieces)
  <2> HIDE DEF piece, pieces
  <2> QED
    BY <1>1, <1>2, FS_Surjection
<1>4. ASSUME NEW k \in keys PROVE IsFiniteSet({k} \X (1..rows[k]))
  <2>1. rows[k] \in Nat
    OBVIOUS
  <2>2. IsFiniteSet(1..rows[k])
    BY <2>1, FS_Interval
  <2>3. IsFiniteSet({k})
    BY FS_Singleton
  <2> QED
    BY <2>2, <2>3, FS_Product
<1>5. \A p \in pieces : IsFiniteSet(p)
  BY <1>4
<1>6. IsFiniteSet(UNION pieces)
  <2> HIDE DEF pieces
  <2> QED
    BY <1>3, <1>5, FS_UNION
<1>7. IsFiniteSet(UnitsOf(rows, keys))
  BY <1>6 DEF UnitsOf
<1> QED
  BY <1>7, FS_CardinalityType, ReservationCardinality DEF Reservations!Units, UnitsOf

LEMMA UnitIn ==
  ASSUME NEW rows \in [Keys -> Nat], NEW keys \in SUBSET Keys, NEW p
  PROVE  p \in UnitsOf(rows, keys) <=> \E k \in keys, i \in Nat : p = <<k, i>> /\ 1 <= i /\ i <= rows[k]
<1>1. ASSUME p \in UnitsOf(rows, keys) PROVE \E k \in keys, i \in Nat : p = <<k, i>> /\ 1 <= i /\ i <= rows[k]
  <2>1. PICK k \in keys : p \in {k} \X (1..rows[k])
    BY <1>1 DEF UnitsOf
  <2>2. p = <<k, p[2]>> /\ p[2] \in Nat /\ 1 <= p[2] /\ p[2] <= rows[k]
    BY <2>1
  <2> QED
    BY <2>2
<1>2. ASSUME NEW k \in keys, NEW i \in Nat, p = <<k, i>>, 1 <= i, i <= rows[k] PROVE p \in UnitsOf(rows, keys)
  <2>1. p \in {k} \X (1..rows[k])
    BY <1>2
  <2> QED
    BY <2>1 DEF UnitsOf
<1> QED
  BY <1>1, <1>2

\* Rows that reserve less, and fewer of them.
LEMMA FewerUnits ==
  ASSUME NEW rows \in [Keys -> Nat], NEW more \in [Keys -> Nat],
         NEW keys \in SUBSET Keys, NEW wider \in SUBSET Keys,
         \A k \in keys : k \in wider /\ rows[k] <= more[k]
  PROVE  Reservations!Units(rows, keys) <= Reservations!Units(more, wider)
<1>1. ASSUME NEW p \in UnitsOf(rows, keys) PROVE p \in UnitsOf(more, wider)
  <2>1. PICK k \in keys, i \in Nat : p = <<k, i>> /\ 1 <= i /\ i <= rows[k]
    BY UnitIn
  <2>2. k \in wider /\ i <= more[k]
    <3>1. k \in wider /\ rows[k] <= more[k] /\ rows[k] \in Nat /\ more[k] \in Nat
      OBVIOUS
    <3> QED
      BY <2>1, <3>1
  <2> QED
    BY <2>1, <2>2, UnitIn
<1> QED
  BY <1>1, UnitsAreNumbers, FS_Subset

\* One row that reserves n more.
LEMMA MoreUnits ==
  ASSUME NEW rows \in [Keys -> Nat], NEW more \in [Keys -> Nat], NEW keys \in SUBSET Keys,
         NEW n \in Nat, NEW key0 \in Keys,
         \A k \in Keys : more[k] <= IF k = key0 THEN rows[k] + n ELSE rows[k]
  PROVE  Reservations!Units(more, keys) <= Reservations!Units(rows, keys) + n
<1> DEFINE a == rows[key0]
           added == {key0} \X ((a + 1)..(a + n))
           old == UnitsOf(rows, keys)
<1>0. a \in Nat
  OBVIOUS
<1>1. IsFiniteSet(added) /\ Cardinality(added) = n
  <2>1. IsFiniteSet((a + 1)..(a + n)) /\ Cardinality((a + 1)..(a + n)) = n
    <3>1. a + 1 \in Int /\ a + n \in Int
      BY <1>0
    <3> HIDE DEF a
    <3>2. IsFiniteSet((a + 1)..(a + n)) /\ Cardinality((a + 1)..(a + n)) = IF a + 1 > a + n THEN 0 ELSE (a + n) - (a + 1) + 1
      BY <3>1, FS_Interval
    <3> QED
      BY <1>0, <3>2
  <2>2. IsFiniteSet({key0}) /\ Cardinality({key0}) = 1
    BY FS_Singleton
  <2> HIDE DEF a
  <2> DEFINE I == (a + 1)..(a + n)
  <2> HIDE DEF I
  <2>3. IsFiniteSet(I) /\ Cardinality(I) = n
    BY <2>1 DEF I
  <2>4. IsFiniteSet({key0} \X I) /\ Cardinality({key0} \X I) = Cardinality({key0}) * Cardinality(I)
    BY <2>2, <2>3, FS_Product
  <2>5. 1 * n = n
    OBVIOUS
  <2> QED
    BY <2>2, <2>3, <2>4, <2>5 DEF I
<1>2. ASSUME NEW p \in UnitsOf(more, keys) PROVE p \in old \cup added
  <2>1. PICK k \in keys, i \in Nat : p = <<k, i>> /\ 1 <= i /\ i <= more[k]
    BY UnitIn
  <2>2. CASE i <= rows[k]
    BY <2>1, <2>2, UnitIn
  <2>3. CASE ~(i <= rows[k])
    <3>1. rows[k] \in Nat /\ more[k] \in Nat /\ more[k] <= IF k = key0 THEN rows[k] + n ELSE rows[k]
      OBVIOUS
    <3>2. k = key0 /\ i \in (a + 1)..(a + n)
      BY <2>1, <2>3, <3>1
    <3> QED
      BY <2>1, <3>2
  <2> QED
    BY <2>2, <2>3
<1>3. /\ IsFiniteSet(old) /\ Cardinality(old) = Reservations!Units(rows, keys) /\ Cardinality(old) \in Nat
      /\ Cardinality(UnitsOf(more, keys)) = Reservations!Units(more, keys) /\ Cardinality(UnitsOf(more, keys)) \in Nat
  BY UnitsAreNumbers
<1> HIDE DEF old, added
<1>4. IsFiniteSet(old \cup added) /\ Cardinality(old \cup added) <= Cardinality(old) + n
  <2>1. /\ IsFiniteSet(old \cup added)
        /\ Cardinality(old \cup added) = Cardinality(old) + Cardinality(added) - Cardinality(old \cap added)
    BY <1>1, <1>3, FS_Union
  <2>2. Cardinality(old \cap added) \in Nat
    BY <1>3, FS_Intersection, FS_CardinalityType
  <2> QED
    BY <1>1, <1>3, <2>1, <2>2
<1>5. Cardinality(UnitsOf(more, keys)) <= Cardinality(old \cup added)
  BY <1>2, <1>4, FS_Subset
<1>6. Cardinality(old \cup added) \in Nat
  BY <1>4, FS_CardinalityType
<1> QED
  BY <1>3, <1>4, <1>5, <1>6

-----------------------------------------------------------------------------
(* The reservations of resources: rebuilds at once.                            *)

RowOK(b) == b.slot \in Slots /\ b.need \in [Resources -> Nat]

RebuildOK(w) ==
  /\ DOMAIN w = DOMAIN Reservations!Idle
  /\ w.booking \in Reserving \cup {NoBooking}
  /\ w.locked => w.booking \in Reserving

\* What a rebuild found to fit in fits in still, unless it is going to fail.
StillFits(w, bookings, rows) ==
  w.booking \in Reserving /\ w.fits /\ ~w.stale /\ ~w.passed =>
    \A x \in Resources :
      bookings[w.booking].need[x] > 0 =>
        Reservations!CapacityReserved(
          [k \in DOMAIN rows |-> IF k[1] = w.booking /\ k[3][2] > w.at THEN 0 ELSE rows[k]],
          x, bookings[w.booking].slot)
          + bookings[w.booking].need[x] <= Capacity[x]

CapacityTypes ==
  /\ reserved \in [Keys -> Nat]
  /\ DOMAIN booking = Reserving /\ \A b \in Reserving : RowOK(booking[b])
  /\ DOMAIN rebuild = Rebuilds /\ \A r \in Rebuilds : RebuildOK(rebuild[r])

CapacityInv ==
  /\ CapacityTypes
  /\ \A r \in Rebuilds : StillFits(rebuild[r], booking, reserved)
  /\ Reservations!CapacityNeverExceeded

\* What is left of the rows when one booking lets go of what is not over.
Left(rows, id, at) == [k \in DOMAIN rows |-> IF k[1] = id /\ k[3][2] > at THEN 0 ELSE rows[k]]

LEMMA LeftRows ==
  ASSUME NEW rows \in [Keys -> Nat], NEW id, NEW at
  PROVE  Left(rows, id, at) \in [Keys -> Nat] /\ \A k \in Keys : Left(rows, id, at)[k] <= rows[k]
<1>1. ASSUME NEW k \in Keys PROVE Left(rows, id, at)[k] \in Nat /\ Left(rows, id, at)[k] <= rows[k]
  <2>1. rows[k] \in Nat /\ Left(rows, id, at)[k] = IF k[1] = id /\ k[3][2] > at THEN 0 ELSE rows[k]
    BY DEF Left
  <2> QED
    BY <2>1
<1> QED
  BY <1>1 DEF Left

\* The rows that reserve x at an instant, and those that overlap a slot.
AtInstant(x, instant) == {k \in Keys : k[2] = x /\ k[3][1] <= instant /\ instant < k[3][2]}
InSlot(x, slot) == {k \in Keys : k[2] = x /\ Reservations!Overlapping(k[3], slot)}

CapacityHolds(rows) ==
  \A x \in Resources : \A instant \in {s[1] : s \in Slots} :
    Reservations!Units(rows, AtInstant(x, instant)) <= Capacity[x]

LEMMA CapacityMeans ==
  ASSUME reserved \in [Keys -> Nat] PROVE Reservations!CapacityNeverExceeded <=> CapacityHolds(reserved)
BY DEF Reservations!CapacityNeverExceeded, CapacityHolds, AtInstant

LEMMA FitsMeans ==
  ASSUME NEW w, NEW bookings, NEW rows \in [Keys -> Nat]
  PROVE  StillFits(w, bookings, rows) <=>
           (w.booking \in Reserving /\ w.fits /\ ~w.stale /\ ~w.passed =>
              \A x \in Resources :
                bookings[w.booking].need[x] > 0 =>
                  Reservations!Units(Left(rows, w.booking, w.at), InSlot(x, bookings[w.booking].slot))
                    + bookings[w.booking].need[x] <= Capacity[x])
<1>1. DOMAIN Left(rows, w.booking, w.at) = Keys
  BY DEF Left
<1>2. ASSUME NEW x PROVE Reservations!CapacityReserved(Left(rows, w.booking, w.at), x, bookings[w.booking].slot)
                         = Reservations!Units(Left(rows, w.booking, w.at), InSlot(x, bookings[w.booking].slot))
  BY <1>1 DEF Reservations!CapacityReserved, InSlot
<1>3. Left(rows, w.booking, w.at) = [k \in DOMAIN rows |-> IF k[1] = w.booking /\ k[3][2] > w.at THEN 0 ELSE rows[k]]
  BY DEF Left
<1> QED
  BY <1>2, <1>3 DEF StillFits

\* Fewer reservations hold the capacity as well.
LEMMA LessHolds ==
  ASSUME NEW rows \in [Keys -> Nat], NEW less \in [Keys -> Nat],
         \A k \in Keys : less[k] <= rows[k], CapacityHolds(rows)
  PROVE  CapacityHolds(less)
<1>1. ASSUME NEW x \in Resources, NEW instant \in {s[1] : s \in Slots}
      PROVE  Reservations!Units(less, AtInstant(x, instant)) <= Capacity[x]
  <2>1. AtInstant(x, instant) \in SUBSET Keys
    BY DEF AtInstant
  <2>2. Reservations!Units(less, AtInstant(x, instant)) <= Reservations!Units(rows, AtInstant(x, instant))
    BY <2>1, FewerUnits
  <2>3. Reservations!Units(rows, AtInstant(x, instant)) <= Capacity[x]
    BY DEF CapacityHolds
  <2>4. /\ Reservations!Units(less, AtInstant(x, instant)) \in Nat
        /\ Reservations!Units(rows, AtInstant(x, instant)) \in Nat /\ Capacity[x] \in Nat
    BY <2>1, UnitsAreNumbers, ReservationConstants
  <2> QED
    BY <2>2, <2>3, <2>4
<1> QED
  BY <1>1 DEF CapacityHolds

\* The rows of a booking, with what it needs in its slot.
LEMMA WithRows ==
  ASSUME CapacityTypes, NEW id \in Reserving, NEW rows \in [Keys -> Nat]
  PROVE  /\ Reservations!With(rows, id) \in [Keys -> Nat]
         /\ \A k \in Keys : Reservations!With(rows, id)[k] =
              IF k[1] = id /\ k[3] = booking[id].slot THEN rows[k] + booking[id].need[k[2]] ELSE rows[k]
<1>1. \A x \in Resources : booking[id].need[x] \in Nat
  BY DEF CapacityTypes, RowOK
<1>2. \A k \in Keys : Reservations!With(rows, id)[k] =
        IF k[1] = id /\ k[3] = booking[id].slot THEN rows[k] + booking[id].need[k[2]] ELSE rows[k]
  BY DEF Reservations!With
<1>3. ASSUME NEW k \in Keys PROVE Reservations!With(rows, id)[k] \in Nat
  <2>1. rows[k] \in Nat /\ k[2] \in Resources
    BY DEF Keys
  <2>2. booking[id].need[k[2]] \in Nat
    BY <1>1, <2>1
  <2> QED
    BY <1>2, <2>1, <2>2
<1>4. Reservations!With(rows, id) = [k \in Keys |-> Reservations!With(rows, id)[k]]
  BY DEF Reservations!With
<1> QED
  BY <1>2, <1>3, <1>4

\* Reservations that fit in beside what overlaps them hold the capacity.
LEMMA FittingHolds ==
  ASSUME CapacityTypes, NEW id \in Reserving, NEW rows \in [Keys -> Nat], CapacityHolds(rows),
         \A x \in Resources : booking[id].need[x] > 0 =>
           Reservations!Units(rows, InSlot(x, booking[id].slot)) + booking[id].need[x] <= Capacity[x]
  PROVE  CapacityHolds(Reservations!With(rows, id))
<1> DEFINE slot == booking[id].slot
           need(x) == booking[id].need[x]
           more == Reservations!With(rows, id)
<1>1. slot \in Slots /\ \A x \in Resources : need(x) \in Nat /\ Capacity[x] \in Nat
  BY ReservationConstants DEF CapacityTypes, RowOK
<1>2. more \in [Keys -> Nat] /\ \A k \in Keys : more[k] = IF k[1] = id /\ k[3] = slot THEN rows[k] + need(k[2]) ELSE rows[k]
  BY WithRows
<1> HIDE DEF more
<1>3. ASSUME NEW x \in Resources, NEW instant \in {s[1] : s \in Slots}
      PROVE  Reservations!Units(more, AtInstant(x, instant)) <= Capacity[x]
  <2> DEFINE K == AtInstant(x, instant)
  <2>1. K \in SUBSET Keys /\ \A k \in K : k[2] = x /\ k[3][1] <= instant /\ instant < k[3][2] /\ k \in Keys
    BY DEF AtInstant
  <2>2. Reservations!Units(rows, K) \in Nat /\ Reservations!Units(more, K) \in Nat
    BY <1>2, <2>1, UnitsAreNumbers
  <2>3. CASE need(x) > 0 /\ slot[1] <= instant /\ instant < slot[2]
    <3> DEFINE wide == InSlot(x, slot)
    <3>1. wide \in SUBSET Keys
      BY DEF InSlot
    <3>2. \A k \in K : k \in wide
      <4>1. ASSUME NEW k \in K PROVE k \in wide
        <5>1. k[3] \in Slots /\ k \in Keys /\ k[2] = x /\ k[3][1] <= instant /\ instant < k[3][2]
          BY <2>1 DEF Keys
        <5>2. k[3][1] \in Nat /\ k[3][2] \in Nat /\ slot[1] \in Nat /\ slot[2] \in Nat /\ instant \in Nat
          BY <1>1, <5>1, ReservationConstants
        <5>3. k[3][1] < slot[2] /\ slot[1] < k[3][2]
          BY <2>3, <5>1, <5>2
        <5> QED
          BY <5>1, <5>3 DEF InSlot, Reservations!Overlapping
      <4> QED
        BY <4>1
    <3>3. Reservations!Units(rows, K) <= Reservations!Units(rows, wide) /\ Reservations!Units(rows, wide) \in Nat
      <4>1. \A k \in K : k \in wide /\ rows[k] <= rows[k]
        BY <2>1, <3>2
      <4> HIDE DEF K, wide
      <4> QED
        BY <2>1, <3>1, <4>1, FewerUnits, UnitsAreNumbers
    <3> DEFINE key0 == <<id, x, slot>>
    <3>4. key0 \in Keys
      BY <1>1 DEF Keys
    <3> DEFINE here == [k \in Keys |-> IF k = key0 THEN more[k] ELSE rows[k]]
    <3>5. here \in [Keys -> Nat] /\ \A k \in Keys : here[k] <= IF k = key0 THEN rows[k] + need(x) ELSE rows[k]
      <4>1. ASSUME NEW k \in Keys PROVE here[k] \in Nat /\ here[k] <= IF k = key0 THEN rows[k] + need(x) ELSE rows[k]
        <5>1. rows[k] \in Nat /\ more[k] \in Nat
          BY <1>2
        <5>2. k = key0 => more[k] = rows[k] + need(x)
          BY <1>2, <3>4
        <5> HIDE DEF key0
        <5> QED
          BY <5>1, <5>2
      <4> HIDE DEF key0
      <4> QED
        BY <4>1
    <3>6. \A k \in K : k \in K /\ more[k] <= here[k]
      <4>1. ASSUME NEW k \in K PROVE more[k] <= here[k]
        <5>1. k \in Keys /\ k[2] = x /\ rows[k] \in Nat /\ more[k] \in Nat
          BY <1>2, <2>1
        <5>2. k = <<k[1], k[2], k[3]>>
          BY <5>1 DEF Keys
        <5>3. k # key0 => more[k] = rows[k]
          BY <1>2, <5>1, <5>2
        <5> HIDE DEF key0
        <5> QED
          BY <5>1, <5>3
      <4> QED
        BY <4>1
    <3> HIDE DEF key0, here, K, wide
    <3>7. Reservations!Units(here, K) <= Reservations!Units(rows, K) + need(x)
      BY <1>1, <2>1, <3>4, <3>5, MoreUnits
    <3>8. Reservations!Units(more, K) <= Reservations!Units(here, K)
      BY <1>2, <2>1, <3>5, <3>6, FewerUnits
    <3>9. Reservations!Units(rows, wide) + need(x) <= Capacity[x]
      BY <2>3 DEF wide
    <3>10. Reservations!Units(here, K) \in Nat /\ need(x) \in Nat /\ Capacity[x] \in Nat
      BY <1>1, <2>1, <3>5, UnitsAreNumbers
    <3> HIDE DEF need
    <3> QED
      BY <2>2, <3>3, <3>7, <3>8, <3>9, <3>10 DEF K
  <2>4. CASE ~(need(x) > 0 /\ slot[1] <= instant /\ instant < slot[2])
    <3>1. ASSUME NEW k \in K PROVE more[k] <= rows[k]
      <4>1. k \in Keys /\ k[2] = x /\ rows[k] \in Nat /\ k[3][1] <= instant /\ instant < k[3][2]
        BY <2>1
      <4>2. k[3] = slot => need(x) = 0
        BY <1>1, <2>4, <4>1
      <4>3. more[k] = rows[k]
        BY <1>2, <4>1, <4>2
      <4> QED
        BY <4>1, <4>3
    <3>2. Reservations!Units(more, K) <= Reservations!Units(rows, K)
      <4>1. \A k \in K : k \in K /\ more[k] <= rows[k]
        BY <3>1
      <4> HIDE DEF K
      <4> QED
        BY <1>2, <2>1, <4>1, FewerUnits
    <3>3. Reservations!Units(rows, K) <= Capacity[x] /\ Capacity[x] \in Nat
      BY <1>1 DEF CapacityHolds
    <3> HIDE DEF K
    <3> QED
      BY <2>2, <3>2, <3>3 DEF K
  <2> QED
    BY <2>3, <2>4
<1> QED
  BY <1>3 DEF CapacityHolds, more

LEMMA IdleFits ==
  ASSUME NEW bookings, NEW rows
  PROVE  RebuildOK(Reservations!Idle) /\ StillFits(Reservations!Idle, bookings, rows)
BY ReservationConstants DEF RebuildOK, StillFits, Reservations!Idle

\* What fits in fits in beside rows that reserve no more where it matters.
LEMMA FitsOn ==
  ASSUME CapacityTypes, NEW w, NEW rows \in [Keys -> Nat], NEW next \in [Keys -> Nat], StillFits(w, booking, rows),
         \A x \in Resources, k \in Keys :
           w.booking \in Reserving /\ booking[w.booking].need[x] > 0 /\ k \in InSlot(x, booking[w.booking].slot)
           => next[k] <= rows[k]
  PROVE  StillFits(w, booking, next)
<1> SUFFICES ASSUME w.booking \in Reserving, w.fits, ~w.stale, ~w.passed,
                    NEW x \in Resources, booking[w.booking].need[x] > 0
             PROVE  Reservations!Units(Left(next, w.booking, w.at), InSlot(x, booking[w.booking].slot))
                      + booking[w.booking].need[x] <= Capacity[x]
  BY FitsMeans
<1> DEFINE K == InSlot(x, booking[w.booking].slot)
           before == Left(rows, w.booking, w.at)
           after == Left(next, w.booking, w.at)
           n == booking[w.booking].need[x]
<1>1. K \in SUBSET Keys /\ before \in [Keys -> Nat] /\ after \in [Keys -> Nat]
  BY LeftRows DEF InSlot
<1>2. \A k \in K : k \in K /\ after[k] <= before[k]
  <2>1. ASSUME NEW k \in K PROVE after[k] <= before[k]
    <3>1. k \in Keys /\ next[k] <= rows[k] /\ next[k] \in Nat /\ rows[k] \in Nat
      BY <1>1
    <3>2. after[k] = (IF k[1] = w.booking /\ k[3][2] > w.at THEN 0 ELSE next[k])
          /\ before[k] = (IF k[1] = w.booking /\ k[3][2] > w.at THEN 0 ELSE rows[k])
      BY <3>1 DEF Left
    <3> HIDE DEF after, before
    <3> QED
      BY <3>1, <3>2
  <2> QED
    BY <2>1
<1>3. Reservations!Units(before, K) + n <= Capacity[x]
  BY FitsMeans
<1>4. n \in Nat /\ Capacity[x] \in Nat
  BY ReservationConstants DEF CapacityTypes, RowOK
<1> HIDE DEF K, before, after, n
<1>5. Reservations!Units(after, K) <= Reservations!Units(before, K)
      /\ Reservations!Units(after, K) \in Nat /\ Reservations!Units(before, K) \in Nat
  BY <1>1, <1>2, FewerUnits, UnitsAreNumbers
<1>6. Reservations!Units(after, K) + n <= Capacity[x]
  BY <1>3, <1>4, <1>5
<1> QED
  BY <1>6 DEF K, after, n

\* A rebuild commits rows that reserve more for its booking only, in its slot.
LEMMA CommittedKeeps ==
  ASSUME CapacityInv, NEW r \in Rebuilds, rebuild[r].booking \in Reserving,
         NEW rows \in [Keys -> Nat], NEW needed, NEW slot \in Slots,
         Reservations!Committed(r, rows, needed, slot), CapacityHolds(rows),
         \A k \in Keys : ~(rows[k] <= reserved[k]) => k[1] = rebuild[r].booking /\ k[2] \in needed /\ k[3] = slot
  PROVE  CapacityInv'
<1> DEFINE id == rebuild[r].booking
           passed(w) == Reservations!Needed(booking[w.booking]) \cap needed # {}
                        /\ Reservations!Overlapping(booking[w.booking].slot, slot)
           next(w) == [w EXCEPT !.stale = @ \/ (w.booking = id /\ rows # reserved), !.passed = @ \/ passed(w)]
<1>1. /\ CapacityTypes /\ reserved \in [Keys -> Nat]
      /\ \A q \in Rebuilds : RebuildOK(rebuild[q]) /\ StillFits(rebuild[q], booking, reserved)
  BY DEF CapacityInv, CapacityTypes
<1>2. /\ reserved' = rows /\ booking' = booking /\ DOMAIN rebuild' = Rebuilds
      /\ \A q \in Rebuilds : rebuild'[q] = IF q = r \/ rebuild[q] = Reservations!Idle THEN Reservations!Idle
                                           ELSE next(rebuild[q])
  BY DEF Reservations!Committed
<1>3. ASSUME NEW q \in Rebuilds PROVE RebuildOK(rebuild'[q]) /\ StillFits(rebuild'[q], booking, rows)
  <2>1. CASE q = r \/ rebuild[q] = Reservations!Idle
    <3>1. rebuild'[q] = Reservations!Idle
      BY <1>2, <2>1
    <3>2. RebuildOK(Reservations!Idle) /\ StillFits(Reservations!Idle, booking, rows)
      BY IdleFits
    <3> QED
      BY <3>1, <3>2
  <2>2. CASE ~(q = r \/ rebuild[q] = Reservations!Idle)
    <3> DEFINE w == rebuild[q]
               v == rebuild'[q]
    <3>1. v = next(w)
      BY <1>2, <2>2
    <3>2. /\ DOMAIN v = DOMAIN Reservations!Idle /\ v.booking = w.booking /\ v.at = w.at
          /\ v.fits = w.fits /\ v.locked = w.locked
          /\ ~v.stale => ~w.stale /\ ~(w.booking = id /\ rows # reserved)
          /\ ~v.passed => ~w.passed /\ ~passed(w)
      BY <1>1, <3>1 DEF RebuildOK, Reservations!Idle
    <3>3. RebuildOK(v)
      BY <1>1, <3>2 DEF RebuildOK
    <3>4. StillFits(v, booking, rows)
      <4>1. CASE w.booking \in Reserving /\ v.fits /\ ~v.stale /\ ~v.passed
        <5>1. StillFits(w, booking, rows)
          <6>1. ASSUME NEW x \in Resources, NEW k \in Keys, booking[w.booking].need[x] > 0,
                       k \in InSlot(x, booking[w.booking].slot), w.booking # id
                PROVE  rows[k] <= reserved[k]
            <7>1. SUFFICES ASSUME ~(rows[k] <= reserved[k]) PROVE FALSE
              OBVIOUS
            <7>2. k[2] \in needed /\ k[3] = slot /\ k[2] = x /\ Reservations!Overlapping(k[3], booking[w.booking].slot)
              BY <6>1, <7>1 DEF InSlot
            <7>3. x \in Reservations!Needed(booking[w.booking])
              BY <6>1 DEF Reservations!Needed
            <7>4. passed(w)
              BY <7>2, <7>3 DEF Reservations!Overlapping
            <7> QED
              BY <3>2, <4>1, <7>4
          <6>2. CASE w.booking = id
            <7>1. rows = reserved
              BY <3>2, <4>1, <6>2
            <7> QED
              BY <1>1, <7>1
          <6>3. CASE w.booking # id
            <7>1. StillFits(w, booking, reserved)
              BY <1>1
            <7>2. \A x \in Resources, k \in Keys :
                    w.booking \in Reserving /\ booking[w.booking].need[x] > 0 /\ k \in InSlot(x, booking[w.booking].slot)
                    => rows[k] <= reserved[k]
              BY <6>1, <6>3
            <7> HIDE DEF w
            <7> QED
              BY <1>1, <7>1, <7>2, FitsOn
          <6> QED
            BY <6>2, <6>3
        <5> HIDE DEF w, v
        <5> QED
          BY <3>2, <4>1, <5>1 DEF StillFits
      <4>2. CASE ~(w.booking \in Reserving /\ v.fits /\ ~v.stale /\ ~v.passed)
        <5> HIDE DEF w, v
        <5> QED
          BY <3>2, <4>2 DEF StillFits
      <4> QED
        BY <4>1, <4>2
    <3> QED
      BY <3>3, <3>4
  <2> QED
    BY <2>1, <2>2
<1>4. CapacityTypes'
  <2>1. \A b \in Reserving : RowOK(booking[b])
    BY <1>1 DEF CapacityTypes
  <2>2. DOMAIN booking = Reserving /\ Keys' = Keys
    BY <1>1 DEF CapacityTypes, Keys
  <2>3. \A q \in Rebuilds : RebuildOK(rebuild'[q])
    BY <1>3
  <2> QED
    BY <1>2, <2>1, <2>2, <2>3 DEF CapacityTypes, RowOK, RebuildOK, Reservations!Idle
<1>5. Reservations!CapacityNeverExceeded'
  BY <1>2 DEF Reservations!CapacityNeverExceeded, CapacityHolds, AtInstant
<1>6. \A q \in Rebuilds : StillFits(rebuild'[q], booking', reserved')
  BY <1>2, <1>3
<1> QED
  BY <1>4, <1>5, <1>6 DEF CapacityInv

\* A step that reserves nothing, and after which every rebuild fits in still.
LEMMA CapacityKept ==
  ASSUME CapacityInv, reserved' = reserved,
         DOMAIN booking' = Reserving, \A b \in Reserving : RowOK(booking'[b]),
         DOMAIN rebuild' = Rebuilds,
         \A q \in Rebuilds : RebuildOK(rebuild'[q]) /\ StillFits(rebuild'[q], booking', reserved)
  PROVE  CapacityInv'
<1>1. CapacityTypes'
  <2>1. reserved' \in [Keys' -> Nat]
    BY DEF CapacityInv, CapacityTypes, Keys
  <2> QED
    BY <2>1 DEF CapacityTypes, RowOK, RebuildOK, Reservations!Idle
<1>2. Reservations!CapacityNeverExceeded'
  BY DEF CapacityInv, Reservations!CapacityNeverExceeded
<1> QED
  BY <1>1, <1>2 DEF CapacityInv

LEMMA ReleaseKeeps ==
  ASSUME CapacityInv, NEW r \in Rebuilds, Reservations!Release(r) PROVE CapacityInv'
<1> DEFINE id == rebuild[r].booking
           rows == Reservations!Released(id, rebuild[r].at)
<1>1. CapacityTypes /\ RebuildOK(rebuild[r]) /\ reserved \in [Keys -> Nat] /\ CapacityHolds(reserved)
  BY CapacityMeans DEF CapacityInv, CapacityTypes
<1>2. id \in Reserving /\ Reservations!Committed(r, rows, {}, booking[id].slot)
  BY <1>1 DEF RebuildOK, Reservations!Release
<1>3. rows = Left(reserved, id, rebuild[r].at)
  BY DEF Reservations!Released, Left
<1>4. rows \in [Keys -> Nat] /\ \A k \in Keys : rows[k] <= reserved[k]
  BY <1>1, <1>3, LeftRows
<1>5. booking[id].slot \in Slots
  BY <1>1, <1>2 DEF CapacityTypes, RowOK
<1> HIDE DEF rows
<1>6. CapacityHolds(rows)
  BY <1>1, <1>4, LessHolds
<1> QED
  BY <1>2, <1>4, <1>5, <1>6, CommittedKeeps

LEMMA ReserveKeeps ==
  ASSUME CapacityInv, NEW r \in Rebuilds, Reservations!Reserve(r) PROVE CapacityInv'
<1> DEFINE w == rebuild[r]
           id == w.booking
           left == Left(reserved, id, w.at)
           rows == Reservations!With(left, id)
           needed == Reservations!Needed(booking[id])
<1>1. /\ CapacityTypes /\ RebuildOK(w) /\ reserved \in [Keys -> Nat] /\ CapacityHolds(reserved)
      /\ StillFits(w, booking, reserved)
  BY CapacityMeans DEF CapacityInv, CapacityTypes
<1>2. w.locked /\ ~w.stale /\ ~w.passed /\ w.fits /\ Reservations!Committed(r, rows, needed, booking[id].slot)
  BY DEF Reservations!Reserve, Reservations!Released, Left
<1>3. id \in Reserving
  BY <1>1, <1>2 DEF RebuildOK
<1>4. booking[id].slot \in Slots /\ \A x \in Resources : booking[id].need[x] \in Nat
  BY <1>1, <1>3 DEF CapacityTypes, RowOK
<1>5. left \in [Keys -> Nat] /\ \A k \in Keys : left[k] <= reserved[k]
  BY <1>1, LeftRows
<1>6. CapacityHolds(left)
  <2> HIDE DEF left
  <2> QED
    BY <1>1, <1>5, LessHolds
<1>7. \A x \in Resources : booking[id].need[x] > 0 =>
        Reservations!Units(left, InSlot(x, booking[id].slot)) + booking[id].need[x] <= Capacity[x]
  BY <1>1, <1>2, <1>3, FitsMeans
<1>8. rows \in [Keys -> Nat] /\ \A k \in Keys : rows[k] =
        IF k[1] = id /\ k[3] = booking[id].slot THEN left[k] + booking[id].need[k[2]] ELSE left[k]
  <2> HIDE DEF left
  <2> QED
    BY <1>1, <1>3, <1>5, WithRows
<1>9. CapacityHolds(rows)
  <2> HIDE DEF left
  <2> QED
    BY <1>1, <1>3, <1>5, <1>6, <1>7, FittingHolds
<1>10. ASSUME NEW k \in Keys, ~(rows[k] <= reserved[k]) PROVE k[1] = id /\ k[2] \in needed /\ k[3] = booking[id].slot
  <2>1. left[k] \in Nat /\ reserved[k] \in Nat /\ left[k] <= reserved[k] /\ k[2] \in Resources
    BY <1>1, <1>5 DEF Keys
  <2>2. booking[id].need[k[2]] \in Nat
    BY <1>4, <2>1
  <2> HIDE DEF left, rows
  <2>3. k[1] = id /\ k[3] = booking[id].slot /\ booking[id].need[k[2]] > 0
    BY <1>8, <1>10, <2>1, <2>2
  <2> QED
    BY <2>1, <2>3 DEF Reservations!Needed
<1> HIDE DEF rows, needed
<1> QED
  BY <1>2, <1>3, <1>4, <1>8, <1>9, <1>10, CommittedKeeps

LEMMA BeginKeeps ==
  ASSUME CapacityInv, NEW r \in Rebuilds, NEW b \in Reserving, Reservations!Begin(r, b) PROVE CapacityInv'
<1> DEFINE fits == Reservations!Fits(Reservations!Released(b, now), booking[b])
           w == [Reservations!Idle EXCEPT !.booking = b, !.at = now, !.fits = fits]
<1>1. rebuild' = [rebuild EXCEPT ![r] = w] /\ UNCHANGED <<booking, reserved>>
  BY DEF Reservations!Begin
<1>2. DOMAIN w = DOMAIN Reservations!Idle /\ w.booking = b /\ w.at = now /\ w.fits = fits /\ ~w.locked
  BY DEF Reservations!Idle
<1>3. RebuildOK(w)
  BY <1>2 DEF RebuildOK
<1>4. StillFits(w, booking, reserved)
  <2>1. w.fits => fits
    BY <1>2
  <2>2. fits => \A x \in Resources : booking[b].need[x] > 0 =>
          Reservations!CapacityReserved(
            [k \in DOMAIN reserved |-> IF k[1] = b /\ k[3][2] > now THEN 0 ELSE reserved[k]], x, booking[b].slot)
            + booking[b].need[x] <= Capacity[x]
    BY DEF Reservations!Fits, Reservations!Needed, Reservations!Released
  <2> HIDE DEF w, fits
  <2> QED
    BY <1>2, <2>1, <2>2 DEF StillFits
<1> HIDE DEF w
<1>5. CapacityTypes /\ \A q \in Rebuilds : RebuildOK(rebuild[q]) /\ StillFits(rebuild[q], booking, reserved)
  BY DEF CapacityInv, CapacityTypes
<1>6. \A q \in Rebuilds : rebuild'[q] = IF q = r THEN w ELSE rebuild[q]
  BY <1>1, <1>5 DEF CapacityTypes
<1>7. ASSUME NEW q \in Rebuilds PROVE RebuildOK(rebuild'[q]) /\ StillFits(rebuild'[q], booking, reserved)
  <2>1. CASE q = r
    BY <1>3, <1>4, <1>6, <2>1
  <2>2. CASE q # r
    <3>1. rebuild'[q] = rebuild[q]
      BY <1>6, <2>2
    <3> QED
      BY <1>5, <3>1
  <2> QED
    BY <2>1, <2>2
<1>8. DOMAIN rebuild' = Rebuilds /\ DOMAIN booking = Reserving /\ \A c \in Reserving : RowOK(booking[c])
  BY <1>1, <1>5 DEF CapacityTypes
<1> QED
  BY <1>1, <1>7, <1>8, CapacityKept

LEMMA CapacityInvHolds ==
  ASSUME CapacityInv, [Reservations!Next]_reservationPart PROVE CapacityInv'
<1>0. /\ CapacityTypes /\ DOMAIN rebuild = Rebuilds /\ DOMAIN booking = Reserving
      /\ \A b \in Reserving : RowOK(booking[b])
      /\ \A q \in Rebuilds : RebuildOK(rebuild[q]) /\ StillFits(rebuild[q], booking, reserved)
  BY DEF CapacityInv, CapacityTypes
<1>1. CASE UNCHANGED reservationPart \/ Reservations!Tick
  <2>1. UNCHANGED <<booking, reserved, rebuild>>
    BY <1>1 DEF reservationPart, Reservations!Tick
  <2> QED
    BY <1>0, <2>1, CapacityKept
<1>2. ASSUME NEW b \in Reserving, Reservations!ChangeBooking(b) PROVE CapacityInv'
  <2>1. PICK next \in Reservations!Booking : booking' = [booking EXCEPT ![b] = next]
    BY <1>2 DEF Reservations!ChangeBooking
  <2>2. RowOK(next)
    <3>1. next.slot \in Slots /\ next.need \in [Resources -> 0..MaxNeed] \cup [Resources -> {0}]
      BY DEF Reservations!Booking
    <3>2. next.need \in [Resources -> Nat]
      <4>1. 0..MaxNeed \subseteq Nat /\ {0} \subseteq Nat
        BY ReservationConstants
      <4> QED
        BY <3>1, <4>1
    <3> QED
      BY <3>1, <3>2 DEF RowOK
  <2>3. /\ reserved' = reserved /\ DOMAIN rebuild' = Rebuilds
        /\ \A q \in Rebuilds : rebuild'[q] = IF rebuild[q].booking = b THEN [rebuild[q] EXCEPT !.stale = TRUE]
                                             ELSE rebuild[q]
    BY <1>2 DEF Reservations!ChangeBooking
  <2>4. DOMAIN booking' = Reserving /\ \A c \in Reserving : RowOK(booking'[c]) /\ (c # b => booking'[c] = booking[c])
    BY <1>0, <2>1, <2>2
  <2>5. ASSUME NEW q \in Rebuilds PROVE RebuildOK(rebuild'[q]) /\ StillFits(rebuild'[q], booking', reserved)
    <3>1. CASE rebuild[q].booking = b
      <4>1. rebuild'[q] = [rebuild[q] EXCEPT !.stale = TRUE]
        BY <2>3, <3>1
      <4>2. DOMAIN rebuild'[q] = DOMAIN rebuild[q] /\ rebuild'[q].booking = rebuild[q].booking
            /\ rebuild'[q].locked = rebuild[q].locked /\ rebuild'[q].stale
        BY <1>0, <4>1 DEF RebuildOK, Reservations!Idle
      <4>3. RebuildOK(rebuild'[q])
        BY <1>0, <4>2 DEF RebuildOK
      <4>4. StillFits(rebuild'[q], booking', reserved)
        BY <4>2 DEF StillFits
      <4> QED
        BY <4>3, <4>4
    <3>2. CASE rebuild[q].booking # b
      <4>1. rebuild'[q] = rebuild[q]
        BY <2>3, <3>2
      <4>2. rebuild[q].booking \in Reserving => booking'[rebuild[q].booking] = booking[rebuild[q].booking]
        BY <2>4, <3>2
      <4>3. RebuildOK(rebuild[q]) /\ StillFits(rebuild[q], booking, reserved)
        BY <1>0
      <4>4. StillFits(rebuild[q], booking', reserved)
        BY <4>2, <4>3 DEF StillFits
      <4> QED
        BY <4>1, <4>3, <4>4
    <3> QED
      BY <3>1, <3>2
  <2> QED
    BY <2>3, <2>4, <2>5, CapacityKept
<1>3. ASSUME NEW r \in Rebuilds, NEW b \in Reserving, Reservations!Begin(r, b) PROVE CapacityInv'
  BY <1>3, BeginKeeps
<1>4. ASSUME NEW r \in Rebuilds, Reservations!LockBooking(r) PROVE CapacityInv'
  <2> DEFINE w == [rebuild[r] EXCEPT !.locked = TRUE]
  <2>1. rebuild' = [rebuild EXCEPT ![r] = w] /\ UNCHANGED <<booking, reserved>> /\ rebuild[r].booking # NoBooking
    <3>1. rebuild' = [rebuild EXCEPT ![r].locked = TRUE] /\ UNCHANGED <<booking, reserved>> /\ rebuild[r].booking # NoBooking
      BY <1>4 DEF Reservations!LockBooking
    <3> QED
      BY <1>0, <3>1
  <2>2. /\ DOMAIN w = DOMAIN Reservations!Idle /\ w.booking = rebuild[r].booking /\ w.at = rebuild[r].at
        /\ w.fits = rebuild[r].fits /\ w.stale = rebuild[r].stale /\ w.passed = rebuild[r].passed
    BY <1>0 DEF RebuildOK, Reservations!Idle
  <2> HIDE DEF w
  <2>3. RebuildOK(w)
    BY <1>0, <2>1, <2>2 DEF RebuildOK
  <2>4. StillFits(w, booking, reserved)
    <3>1. StillFits(rebuild[r], booking, reserved)
      BY <1>0
    <3> QED
      BY <2>2, <3>1 DEF StillFits
  <2>5. ASSUME NEW q \in Rebuilds PROVE RebuildOK(rebuild'[q]) /\ StillFits(rebuild'[q], booking, reserved)
    <3>1. CASE q = r
      BY <1>0, <2>1, <2>3, <2>4, <3>1
    <3>2. CASE q # r
      <4>1. rebuild'[q] = rebuild[q]
        BY <1>0, <2>1, <3>2
      <4> QED
        BY <1>0, <4>1
    <3> QED
      BY <3>1, <3>2
  <2>6. DOMAIN rebuild' = Rebuilds
    BY <1>0, <2>1
  <2> QED
    BY <1>0, <2>1, <2>5, <2>6, CapacityKept
<1>5. ASSUME NEW r \in Rebuilds, Reservations!Abort(r) PROVE CapacityInv'
  <2>1. rebuild' = [rebuild EXCEPT ![r] = Reservations!Idle] /\ UNCHANGED <<booking, reserved>>
    BY <1>5 DEF Reservations!Abort
  <2>2. ASSUME NEW q \in Rebuilds PROVE RebuildOK(rebuild'[q]) /\ StillFits(rebuild'[q], booking, reserved)
    <3>1. CASE q = r
      <4>1. rebuild'[q] = Reservations!Idle
        BY <1>0, <2>1, <3>1
      <4>2. RebuildOK(Reservations!Idle) /\ StillFits(Reservations!Idle, booking, reserved)
        BY IdleFits
      <4> QED
        BY <4>1, <4>2
    <3>2. CASE q # r
      <4>1. rebuild'[q] = rebuild[q]
        BY <1>0, <2>1, <3>2
      <4> QED
        BY <1>0, <4>1
    <3> QED
      BY <3>1, <3>2
  <2>3. DOMAIN rebuild' = Rebuilds
    BY <1>0, <2>1
  <2> QED
    BY <1>0, <2>1, <2>2, <2>3, CapacityKept
<1> QED
  BY <1>1, <1>2, <1>3, <1>4, <1>5, ReleaseKeeps, ReserveKeeps DEF Reservations!Next

LEMMA CapacityInvInit == Reservations!Init => CapacityInv
<1> SUFFICES ASSUME Reservations!Init PROVE CapacityInv
  OBVIOUS
<1>1. /\ reserved \in [Keys -> Nat] /\ \A k \in Keys : reserved[k] = 0
      /\ rebuild = [r \in Rebuilds |-> Reservations!Idle]
      /\ booking \in [Reserving -> Reservations!Booking]
  BY DEF Reservations!Init, Keys
<1>2. \A b \in Reservations!Booking : RowOK(b)
  <2>1. 0..MaxNeed \subseteq Nat /\ {0} \subseteq Nat
    BY ReservationConstants
  <2>2. ASSUME NEW b \in Reservations!Booking PROVE RowOK(b)
    <3>1. b.slot \in Slots /\ b.need \in [Resources -> 0..MaxNeed] \cup [Resources -> {0}]
      BY DEF Reservations!Booking
    <3>2. b.need \in [Resources -> Nat]
      BY <2>1, <3>1
    <3> QED
      BY <3>1, <3>2 DEF RowOK
  <2> QED
    BY <2>2
<1>3. \A r \in Rebuilds : rebuild[r] = Reservations!Idle
  BY <1>1
<1>4. \A r \in Rebuilds : RebuildOK(rebuild[r]) /\ StillFits(rebuild[r], booking, reserved)
  <2>1. RebuildOK(Reservations!Idle) /\ StillFits(Reservations!Idle, booking, reserved)
    BY IdleFits
  <2> QED
    BY <1>3, <2>1
<1>5. DOMAIN rebuild = Rebuilds
  BY <1>1
<1>6. ASSUME NEW x \in Resources, NEW instant \in {s[1] : s \in Slots}
      PROVE  Reservations!Units(reserved, AtInstant(x, instant)) <= Capacity[x]
  <2>1. AtInstant(x, instant) \in SUBSET Keys
    BY DEF AtInstant
  <2>2. UnitsOf(reserved, AtInstant(x, instant)) = {}
    <3> SUFFICES ASSUME NEW p \in UnitsOf(reserved, AtInstant(x, instant)) PROVE FALSE
      OBVIOUS
    <3>1. PICK k \in AtInstant(x, instant), i \in Nat : p = <<k, i>> /\ 1 <= i /\ i <= reserved[k]
      BY <1>1, <2>1, UnitIn
    <3> QED
      BY <1>1, <2>1, <3>1
  <2>3. Reservations!Units(reserved, AtInstant(x, instant)) = 0
    BY <1>1, <2>1, <2>2, UnitsAreNumbers, FS_EmptySet
  <2> QED
    BY <2>3, ReservationConstants
<1>7. Reservations!CapacityNeverExceeded
  BY <1>1, <1>6, CapacityMeans DEF CapacityHolds
<1> QED
  BY <1>1, <1>2, <1>4, <1>5, <1>7 DEF CapacityInv, CapacityTypes

\* No resource is reserved beyond its capacity, whichever rebuilds run at once
\* (rebuildConsumptionsForBooking).
THEOREM NothingIsOverbooked == Reservations!Spec => []CapacityNeverExceeded
<1>1. CapacityInv /\ [Reservations!Next]_reservationPart => CapacityInv'
  BY CapacityInvHolds
<1>2. CapacityInv => CapacityNeverExceeded
  BY DEF CapacityInv, CapacityNeverExceeded
<1> QED
  BY <1>1, <1>2, CapacityInvInit, ReservationSpec, PTL

-----------------------------------------------------------------------------
(* The run.                                                                    *)

\* A behaviour of the parts side by side is a behaviour of each of them.
LEMMA PartsRun ==
  MCSpec => /\ IntakeSpec /\ Linked!Spec /\ Lists!Spec
            /\ Reservations!Spec /\ Sync!Spec /\ Client!Spec
<1>1. MCInit => /\ IntakeInit /\ Linked!Init /\ Lists!Init
                /\ Reservations!Init /\ Sync!Init /\ Client!Init
  BY DEF MCInit
<1>2. [MCNext]_<<part, intakePart, linkedPart, listPart, reservationPart, syncPart, clientPart>> =>
        /\ [IntakeNext]_intakePart /\ [Linked!Next]_linkedPart /\ [Lists!Next]_listPart
        /\ [Reservations!Next]_reservationPart /\ [Sync!Next]_syncPart /\ [Client!Next]_clientPart
  BY DEF MCNext
<1>3. MCSpec => /\ IntakeInit /\ [][IntakeNext]_intakePart
                /\ Linked!Init /\ [][Linked!Next]_linkedPart
                /\ Lists!Init /\ [][Lists!Next]_listPart
                /\ Reservations!Init /\ [][Reservations!Next]_reservationPart
                /\ Sync!Init /\ [][Sync!Next]_syncPart
                /\ Client!Init /\ [][Client!Next]_clientPart
  BY <1>1, <1>2, PTL DEF MCSpec
<1> QED
  BY <1>3 DEF IntakeSpec, intakePart, Linked!Spec, Linked!vars, linkedPart, Lists!Spec, Lists!vars,
     listPart, Reservations!Spec, Reservations!vars, reservationPart, Sync!Spec, Sync!vars, syncPart,
     Client!Spec, Client!vars, clientPart

\* What the run checks of the six parts on a small instance holds of every one,
\* with the exceptions that the properties state.
THEOREM RecordsHold ==
  MCSpec => []( /\ IntakeOnce /\ GroupsSavedWhole /\ EveryRowListedOnce /\ CapacityNeverExceeded
                /\ CursorLeavesNothing /\ RequestsArePaced /\ TakenOrdersAreHandedOver )
BY PartsRun, MessagesMakeOneTask, SavesAreWhole, WalksMissNothing, NothingIsOverbooked, SyncLeavesNothing,
   Paced, OrdersHandedOver, PTL

=============================================================================
