--------------------------- MODULE WebhookDelivery ---------------------------
(***************************************************************************)
(* Outbound webhooks (backend/app/services/webhook_service.py), the task   *)
(* that delivers one (worker/tasks.py, deliver_webhook), the relay of rows *)
(* whose copy was lost, and the circuit breaker of a subscription          *)
(* (services/webhook_breaker.py).                                          *)
(*                                                                         *)
(* The deliveries are those of one subscription.  Every action is one      *)
(* committed transaction, one request to the receiver or the broker, or    *)
(* one failure between two of them.                                        *)
(*                                                                         *)
(* Abstractions.                                                           *)
(*  - Backoffs and the lease of a row being published only delay: a        *)
(*    pending row may be due, a published one overdue, at any time.  The   *)
(*    lease of a row in processing (900 s) matters: it outlives the worker *)
(*    unless the receiver is slow (a timeout of 10 s bounds each read of   *)
(*    the answer, not the answer).                                         *)
(*  - A copy of the task may be delivered any number of times.  A retry of *)
(*    the first, tokenless copy is that copy delivered again.  Copies that *)
(*    can only be skipped from here on are forgotten: those of an ended    *)
(*    row, and published ones of a row that was claimed since.             *)
(*  - Payloads, signatures and the review gate's text are left out; the    *)
(*    checks ahead of a request are one step with four results.            *)
(***************************************************************************)
EXTENDS Naturals, FiniteSets

CONSTANTS
    Deliveries,
    Relays,            \* claimed rows in the hands of a relay tick
    Workers,           \* Celery slots running deliver_webhook
    Editors,           \* people with an edit of the subscription under way
    MaxRetries,        \* the subscription's max_retries
    BreakerThreshold,  \* the subscription's breaker_threshold
    MAX_WEBHOOK_DISPATCH_ATTEMPTS,
    MaxFaults          \* bound: lost copies, dead processes, failed lookups
                       \* and publications, overrun leases of a behaviour

ASSUME WebhookAssumption ==
    /\ IsFiniteSet(Deliveries)
    /\ MaxRetries \in Nat
    /\ BreakerThreshold \in Nat \ {0}
    /\ MAX_WEBHOOK_DISPATCH_ATTEMPTS \in Nat \ {0}
    /\ MaxFaults \in Nat

VARIABLES
    status, token, attempt_count, dispatch_failures,  \* webhook_deliveries
    minted,      \* per delivery, how many uuid4 tokens were drawn
    enabled, consecutive_failures,   \* the subscription
    edit,        \* per editor, what its session will write at its commit
    copies,      \* (delivery, token) of the task copies in the broker
    relay,       \* the row each relay tick holds
    worker,      \* what each worker does
    faults,      \* history: faults so far
    overrun,     \* history: an answer outlasted the lease of its row
    answered,    \* history: deliveries the receiver answered with 2xx
    streak,      \* history: deliveries whose failure was counted since the
                 \* last success or re-enable
    survived     \* history: of those, the ones a re-enable left counted

row == <<status, token, attempt_count, dispatch_failures, minted>>
subscription == <<enabled, consecutive_failures, edit, streak, survived>>
vars == <<row, subscription, copies, relay, worker, overrun, faults, answered>>

Status == {"absent", "PENDING", "SENDING", "PROCESSING", "SUCCESS", "FAILED", "DLQ"}
Terminal == {"SUCCESS", "FAILED", "DLQ"}
NoToken == 0
Idle == [phase |-> "idle"]
Result == {"ok", "retryable", "refused"}
ActiveRelay == [delivery : Deliveries, token : Nat]
ActiveWorker ==
    [phase : {"claimed", "posting"}, delivery : Deliveries, token : Nat]
    \cup [phase : {"answered"}, delivery : Deliveries, token : Nat, result : Result]
Edit == [on : BOOLEAN, resets : BOOLEAN]

Init ==
    /\ status = [d \in Deliveries |-> "absent"]
    /\ token = [d \in Deliveries |-> NoToken]
    /\ attempt_count = [d \in Deliveries |-> 0]
    /\ dispatch_failures = [d \in Deliveries |-> 0]
    /\ minted = [d \in Deliveries |-> 0]
    /\ enabled = TRUE
    /\ consecutive_failures = 0
    /\ copies = {}
    /\ relay = [r \in Relays |-> Idle]
    /\ worker = [w \in Workers |-> Idle]
    /\ faults = 0
    /\ overrun = FALSE
    /\ edit = [e \in Editors |-> Idle]
    /\ answered = {} /\ streak = {} /\ survived = {}

Fault == faults < MaxFaults /\ faults' = faults + 1
Sets(d, s, t) ==
    /\ status' = [status EXCEPT ![d] = s]
    /\ token' = [token EXCEPT ![d] = t]
Mint(d) == minted' = [minted EXCEPT ![d] = @ + 1]
Fresh(d) == minted[d] + 1
CopiesOf(d) == {c \in copies : c[1] = d}

(***************************************************************************)
(* Emission, and the relay of rows without a live copy.                    *)
(***************************************************************************)
\* The row is committed, then its tokenless copy is sent, or that fails.
emit_event(d) ==
    /\ status[d] = "absent" /\ enabled
    /\ Sets(d, "PENDING", NoToken)
    /\ copies' = copies \cup {<<d, NoToken>>} \/ UNCHANGED copies
    /\ UNCHANGED <<attempt_count, dispatch_failures, minted, subscription, relay,
                   worker, overrun, faults, answered>>

\* A person replays a failed delivery: a fresh row, whoever is paused.
replay_delivery(d, original) ==
    /\ status[d] = "absent" /\ status[original] \in {"FAILED", "DLQ"}
    /\ Sets(d, "PENDING", NoToken)
    /\ copies' = copies \cup {<<d, NoToken>>} \/ UNCHANGED copies
    /\ UNCHANGED <<attempt_count, dispatch_failures, minted, subscription, relay,
                   worker, overrun, faults, answered>>

\* A worker that still goes on with the claim (d, t).
Works(d, t) ==
    \E w \in Workers : worker[w] # Idle /\ worker[w].delivery = d /\ worker[w].token = t

\* Mutant: the relay leaves rows in processing alone.
NeverLapses(d) == status[d] = "LAPSED"

\* The lease of a row in processing lapsed: its worker is gone, or waits for
\* a slow receiver.
Lapsed(d) == status[d] = "PROCESSING" /\ (Works(d, token[d]) => faults < MaxFaults)

\* Mutant: an expired row is published again under the token it had.
KeepsToken(d) == token[d] # NoToken

\* The token of a published copy outlives a long wait in the queue; a worker
\* whose lease lapsed is fenced with a new one.
PreservesToken(d) == status[d] # "PROCESSING" /\ token[d] # NoToken

claim_pending_webhook_dispatches(r, d) ==
    /\ relay[r] = Idle
    /\ status[d] \in {"PENDING", "SENDING"} \/ Lapsed(d)
    /\ IF status[d] = "PENDING" /\ dispatch_failures[d] >= MAX_WEBHOOK_DISPATCH_ATTEMPTS
       THEN Sets(d, "FAILED", token[d]) /\ UNCHANGED <<relay, minted>>
       ELSE LET t == IF PreservesToken(d) THEN token[d] ELSE Fresh(d) IN
            /\ Sets(d, "SENDING", t)
            /\ minted' = [minted EXCEPT ![d] = IF PreservesToken(d) THEN @ ELSE @ + 1]
            /\ relay' = [relay EXCEPT ![r] = [delivery |-> d, token |-> t]]
    /\ IF status[d] = "PROCESSING" /\ Works(d, token[d])
       THEN Fault /\ overrun' = TRUE
       ELSE UNCHANGED <<faults, overrun>>
    /\ UNCHANGED <<attempt_count, dispatch_failures, subscription, copies, worker, answered>>

PublishCopy(r) ==
    /\ relay[r] # Idle
    /\ copies' = copies \cup {<<relay[r].delivery, relay[r].token>>}
    /\ relay' = [relay EXCEPT ![r] = Idle]
    /\ UNCHANGED <<row, subscription, worker, overrun, faults, answered>>

\* The broker raises (it may have taken the copy): only the row that is still
\* being sent under this token goes back, or fails for good.
PublishRaises(r) ==
    LET d == relay[r].delivery
        n == dispatch_failures[d] + 1
    IN
    /\ relay[r] # Idle /\ Fault
    /\ copies' = copies \cup {<<d, relay[r].token>>} \/ UNCHANGED copies
    /\ IF status[d] = "SENDING" /\ token[d] = relay[r].token
       THEN /\ dispatch_failures' = [dispatch_failures EXCEPT ![d] = n]
            /\ Sets(d, IF n >= MAX_WEBHOOK_DISPATCH_ATTEMPTS THEN "FAILED" ELSE "PENDING",
                    token[d])
       ELSE UNCHANGED <<dispatch_failures, status, token>>
    /\ relay' = [relay EXCEPT ![r] = Idle]
    /\ UNCHANGED <<attempt_count, minted, subscription, worker, overrun, answered>>

RelayDies(r) ==
    /\ relay[r] # Idle /\ Fault
    /\ relay' = [relay EXCEPT ![r] = Idle]
    /\ UNCHANGED <<row, subscription, copies, worker, overrun, answered>>

LoseCopy(c) ==
    /\ c \in copies /\ Fault
    /\ copies' = copies \ {c}
    /\ UNCHANGED <<row, subscription, relay, worker, overrun, answered>>

(***************************************************************************)
(* One attempt (deliver).                                                  *)
(***************************************************************************)
\* A copy that does not match the row is skipped: no step.
Claims(w, d, t) ==
    /\ worker[w] = Idle
    /\ worker' = [worker EXCEPT ![w] = [phase |-> "claimed", delivery |-> d, token |-> t]]
    /\ Sets(d, "PROCESSING", t)
    /\ copies' = copies \ (CopiesOf(d) \ {<<d, NoToken>>})
    /\ UNCHANGED <<attempt_count, dispatch_failures, subscription, relay, overrun,
                   faults, answered>>

\* Mutant: the tokenless copy takes every row that has not ended.
FirstTakesOpenRow(w, d) ==
    /\ <<d, NoToken>> \in copies /\ status[d] \notin {"absent"} \cup Terminal
    /\ Claims(w, d, Fresh(d))
    /\ Mint(d)

\* The tokenless copy takes a pending row only.
ClaimFirst(w, d) ==
    /\ <<d, NoToken>> \in copies /\ status[d] = "PENDING"
    /\ Claims(w, d, Fresh(d))
    /\ Mint(d)

ClaimPublished(w, d) ==
    /\ <<d, token[d]>> \in copies /\ status[d] = "SENDING"
    /\ Claims(w, d, token[d])
    /\ UNCHANGED minted

\* Mutant: the outcome is written without a look at the row.
Unfenced(w) == worker[w].delivery \in Deliveries

\* The compare and set of _transition_processing_delivery.
Owns(w) ==
    /\ status[worker[w].delivery] = "PROCESSING"
    /\ token[worker[w].delivery] = worker[w].token

(***************************************************************************)
(* The breaker of the subscription.                                        *)
(***************************************************************************)
\* A success resets the count, whoever paused the subscription since.
SUCCESS_RESET ==
    /\ consecutive_failures' = 0
    /\ streak' = {}
    /\ UNCHANGED <<enabled, edit, survived>>

\* Mutant: the failure after the threshold pauses.
TripsLate(n) == enabled /\ n > BreakerThreshold

trip_if_due(n) == enabled /\ n >= BreakerThreshold

\* A delivery ended failed on the subscription's account: the increment and
\* the guarded trip are in the transaction of its outcome.
terminal_failure_values(d) ==
    LET n == consecutive_failures + 1 IN
    /\ consecutive_failures' = n
    /\ enabled' = (enabled /\ ~trip_if_due(n))
    /\ streak' = streak \cup {d}
    /\ UNCHANGED <<edit, survived>>

\* A person turns the subscription on or off.  The row is read without a
\* lock; an edit that would not change enabled writes none of this.
get_subscription(e, on) ==
    /\ edit[e] = Idle /\ enabled # on
    /\ edit' = [edit EXCEPT ![e] = [on |-> on, resets |-> on /\ consecutive_failures # 0]]
    /\ UNCHANGED <<row, enabled, consecutive_failures, streak, survived, copies, relay,
                   worker, overrun, faults, answered>>

\* The commit.  The session writes the columns that differ from what was
\* read: a count that was read as 0 is not reset, whatever it is by now.
update_subscription(e) ==
    /\ edit[e] # Idle
    /\ enabled' = edit[e].on
    /\ IF edit[e].resets
       THEN consecutive_failures' = 0 /\ streak' = {} /\ UNCHANGED survived
       ELSE /\ survived' = IF edit[e].on THEN survived \cup streak ELSE survived
            /\ UNCHANGED <<consecutive_failures, streak>>
    /\ edit' = [edit EXCEPT ![e] = Idle]
    /\ UNCHANGED <<row, copies, relay, worker, overrun, faults, answered>>

\* The request fails between the two (the target is refused, the events are
\* not valid, the secret cannot be stored): nothing is written.
EditFails(e) ==
    /\ edit[e] # Idle
    /\ edit' = [edit EXCEPT ![e] = Idle]
    /\ UNCHANGED <<row, enabled, consecutive_failures, streak, survived, copies, relay,
                   worker, overrun, faults, answered>>

(***************************************************************************)
(* Outcomes of an attempt.                                                 *)
(***************************************************************************)
Phase(w, phase) == worker[w].phase = phase
MovesTo(w, phase) == worker' = [worker EXCEPT ![w].phase = phase]

\* Mutant: the subscription is booked whoever owns the row.
BooksAnyway(w, s, booking) ==
    /\ worker' = [worker EXCEPT ![w] = Idle]
    /\ booking
    /\ IF Owns(w)
       THEN /\ Sets(worker[w].delivery, s, NoToken)
            /\ copies' = IF s \in Terminal THEN copies \ CopiesOf(worker[w].delivery) ELSE copies
       ELSE UNCHANGED <<status, token, copies>>
    /\ UNCHANGED <<attempt_count, dispatch_failures, minted, relay, overrun, answered>>

\* The attempt ends: the row goes to s and its subscription is booked, if
\* the worker still owns the row.
Ends(w, s, booking) ==
    /\ worker' = [worker EXCEPT ![w] = Idle]
    /\ IF Owns(w)
       THEN /\ Sets(worker[w].delivery, s, NoToken)
            /\ booking
            /\ copies' = IF s \in Terminal THEN copies \ CopiesOf(worker[w].delivery) ELSE copies
       ELSE UNCHANGED <<status, token, subscription, copies>>
    /\ UNCHANGED <<attempt_count, dispatch_failures, minted, relay, overrun, answered>>

NotBooked == UNCHANGED subscription

\* The subscription is read once: a pause after that comes too late.
DropPaused(w) ==
    /\ Phase(w, "claimed") /\ ~enabled
    /\ Ends(w, "FAILED", NotBooked)
    /\ UNCHANGED faults

\* Webhooks are gated or offline; or the target is unsafe or the signing
\* secret unreadable, which is the subscription's failure.
_mark_delivery_failed(w) ==
    /\ Phase(w, "claimed") /\ enabled
    /\ \/ Ends(w, "FAILED", NotBooked)
       \/ Ends(w, "FAILED", terminal_failure_values(worker[w].delivery))
    /\ UNCHANGED faults

\* The gate or the review cannot be looked up: the row waits again.
GateLookupFails(w) ==
    /\ Phase(w, "claimed") /\ enabled /\ Fault
    /\ Ends(w, "PENDING", NotBooked)

\* The attempt is counted before the request is sent.
CountAttempt(w) ==
    LET d == worker[w].delivery IN
    /\ Phase(w, "claimed") /\ enabled
    /\ IF Owns(w)
       THEN MovesTo(w, "posting") /\ attempt_count' = [attempt_count EXCEPT ![d] = @ + 1]
       ELSE worker' = [worker EXCEPT ![w] = Idle] /\ UNCHANGED attempt_count
    /\ UNCHANGED <<status, token, dispatch_failures, minted, subscription, copies, relay,
                   overrun, faults, answered>>

\* The request: 2xx; an error or a retryable status, whether the receiver got
\* it or not; a 4xx or a blocked target.
Post(w, result) ==
    LET d == worker[w].delivery IN
    /\ Phase(w, "posting")
    /\ worker' = [worker EXCEPT ![w] = [phase |-> "answered", delivery |-> d,
                                        token |-> @.token, result |-> result]]
    /\ answered' = IF result = "ok" THEN answered \cup {d} ELSE answered
    /\ UNCHANGED <<row, subscription, copies, relay, overrun, faults>>

\* Mutant: a retry budget of n allows n retries after the first attempt.
OneRetryMore(d) == attempt_count[d] <= MaxRetries

_has_retry_budget(d) == MaxRetries > 0 /\ attempt_count[d] < MaxRetries

RecordOutcome(w) ==
    LET d == worker[w].delivery
        again == worker[w].result = "retryable" /\ _has_retry_budget(d)
    IN
    /\ Phase(w, "answered")
    /\ \/ worker[w].result = "ok" /\ Ends(w, "SUCCESS", SUCCESS_RESET)
       \/ again /\ Ends(w, "PENDING", NotBooked)
       \/ worker[w].result = "retryable" /\ ~again
             /\ Ends(w, "DLQ", terminal_failure_values(d))
       \/ worker[w].result = "refused" /\ Ends(w, "FAILED", terminal_failure_values(d))
    /\ UNCHANGED faults

\* The process dies, or a transaction fails: deliver never sees its outcome
\* recorded and the lease of the row lapses.
WorkerDies(w) ==
    /\ worker[w] # Idle /\ Fault
    /\ worker' = [worker EXCEPT ![w] = Idle]
    /\ UNCHANGED <<row, subscription, copies, relay, overrun, answered>>

(***************************************************************************)
(* Specification.                                                          *)
(***************************************************************************)
Attempt(w) ==
    \/ DropPaused(w) \/ _mark_delivery_failed(w) \/ GateLookupFails(w)
    \/ CountAttempt(w)
    \/ \E result \in Result : Post(w, result)
    \/ RecordOutcome(w)

Next ==
    \/ \E d \in Deliveries :
          \/ emit_event(d)
          \/ \E original \in Deliveries : replay_delivery(d, original)
          \/ \E r \in Relays : claim_pending_webhook_dispatches(r, d)
          \/ \E w \in Workers : ClaimFirst(w, d) \/ ClaimPublished(w, d)
    \/ \E r \in Relays : PublishCopy(r) \/ PublishRaises(r) \/ RelayDies(r)
    \/ \E c \in copies : LoseCopy(c)
    \/ \E w \in Workers : Attempt(w) \/ WorkerDies(w)
    \/ \E e \in Editors : \/ \E on \in BOOLEAN : get_subscription(e, on)
                           \/ update_subscription(e) \/ EditFails(e)

Spec == Init /\ [][Next]_vars

\* Beat runs the relay, a claimed row is published or the relay ends; a free
\* worker takes a copy from the broker; a worker goes on with its attempt.
Fairness ==
    /\ WF_vars(\E r \in Relays, d \in Deliveries : claim_pending_webhook_dispatches(r, d))
    /\ WF_vars(\E r \in Relays : PublishCopy(r))
    /\ WF_vars(\E w \in Workers, d \in Deliveries : ClaimPublished(w, d))
    /\ \A w \in Workers : WF_vars(Attempt(w))

FairSpec == Spec /\ Fairness

(***************************************************************************)
(* Properties.                                                             *)
(***************************************************************************)
\* The values the columns and the processes can have.
TypeOK ==
    /\ status \in [Deliveries -> Status]
    /\ token \in [Deliveries -> Nat]
    /\ attempt_count \in [Deliveries -> Nat]
    /\ dispatch_failures \in [Deliveries -> 0 .. MAX_WEBHOOK_DISPATCH_ATTEMPTS]
    /\ minted \in [Deliveries -> Nat]
    /\ enabled \in BOOLEAN
    /\ consecutive_failures \in Nat
    /\ copies \subseteq Deliveries \X Nat
    /\ relay \in [Relays -> {Idle} \cup ActiveRelay]
    /\ worker \in [Workers -> {Idle} \cup ActiveWorker]
    /\ overrun \in BOOLEAN
    /\ faults \in 0 .. MaxFaults
    /\ answered \subseteq Deliveries
    /\ streak \subseteq Deliveries /\ survived \subseteq Deliveries
    /\ edit \in [Editors -> {Idle} \cup Edit]

\* Two attempts of a delivery overlap only when the receiver is slow, and
\* then under tokens of their own, so that the first to come back late does
\* not own the row (deliver, the relay), whichever copies of its task are
\* delivered.
OneAttempt ==
    \A v, w \in Workers :
        v # w /\ worker[v] # Idle /\ worker[w] # Idle
        /\ worker[v].delivery = worker[w].delivery
            => overrun /\ worker[v].token # worker[w].token

\* The receiver gets a delivery at most max_retries times (at least once),
\* and once more for every fault (the attempt is counted before the request).
AttemptBudget ==
    \A d \in Deliveries :
        attempt_count[d] <= (IF MaxRetries = 0 THEN 1 ELSE MaxRetries) + faults

\* The breaker's count is the number of deliveries that failed since it was
\* last reset, each of them counted once, and the outcome that reaches the
\* threshold pauses (terminal_failure_values, trip_if_due).  A subscription
\* is on at its threshold only by failures that a re-enable left counted: the
\* next one pauses it.
EachFailureCountsOnce ==
    /\ consecutive_failures = Cardinality(streak)
    /\ enabled => consecutive_failures < BreakerThreshold \/ streak \subseteq survived

\* A delivery as an item of AtLeastOnce: performed when the receiver answered
\* with 2xx.
state ==
    [d \in Deliveries |->
        IF status[d] = "absent" THEN "none"
        ELSE IF status[d] = "SUCCESS" THEN "done"
        ELSE IF status[d] \in {"FAILED", "DLQ"} THEN "dead"
        ELSE "open"]

Outbox == INSTANCE AtLeastOnce
          WITH Items <- Deliveries, MayReopen <- {}, performed <- answered

\* A success is only recorded of a delivery the receiver accepted, and a
\* delivery that ended stays as it ended.
ImplementsAtLeastOnce == Outbox!Spec

\* Every delivery ends, whatever is lost on the way (the relay's contract:
\* "the committed PENDING row is the recovery contract"): there are finitely
\* many and none comes back, so in the end none is open.
EveryDeliveryEnds == <>[](\A d \in Deliveries : state[d] # "open")
=============================================================================
