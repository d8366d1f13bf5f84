----------------------- MODULE WebhookDeliveryProofs -----------------------
(***************************************************************************)
(* Machine-checked proofs about WebhookDelivery, for every set of          *)
(* deliveries, relay ticks and workers, every retry budget and threshold,  *)
(* and any number of faults.                                               *)
(***************************************************************************)
EXTENDS WebhookDelivery, FiniteSetTheorems, TLAPS

Busy(w) == worker[w] # Idle

(***************************************************************************)
(* The inductive invariants.                                               *)
(***************************************************************************)
\* A row that has not ended has not spent its publications.
TypeInv ==
    /\ TypeOK
    /\ \A d \in Deliveries :
          status[d] \notin Terminal => dispatch_failures[d] < MAX_WEBHOOK_DISPATCH_ATTEMPTS

\* Tokens are drawn once per row, and a worker whose claim the row does not
\* show any more lost it to an overrun.
TokenInv ==
    /\ \A d \in Deliveries : /\ token[d] <= minted[d]
                             /\ status[d] = "SENDING" => token[d] # NoToken
    /\ \A w \in Workers : Busy(w) =>
          /\ 0 < worker[w].token
          /\ worker[w].token <= minted[worker[w].delivery]
          /\ Owns(w) \/ (overrun /\ token[worker[w].delivery] # worker[w].token)

\* The attempt that is under way on row d has been counted.
Counted(d) ==
    \E w \in Workers :
        worker[w].phase \in {"posting", "answered"} /\ worker[w].delivery = d /\ Owns(w)

Budget == (IF MaxRetries = 0 THEN 1 ELSE MaxRetries) + faults

\* A row that may be attempted once more has an attempt left.
BudgetInv ==
    \A d \in Deliveries :
        /\ attempt_count[d] <= Budget
        /\ status[d] \notin Terminal /\ ~Counted(d) => attempt_count[d] < Budget

\* What was counted has ended.
BreakerInv ==
    /\ EachFailureCountsOnce
    /\ \A d \in streak : status[d] \in Terminal

\* A worker works on a row that exists, and a good answer is remembered.
AnswerInv ==
    \A w \in Workers : Busy(w) =>
        /\ status[worker[w].delivery] # "absent"
        /\ worker[w].phase = "answered" /\ worker[w].result = "ok"
              => worker[w].delivery \in answered

(***************************************************************************)
(* Shapes.                                                                 *)
(***************************************************************************)
\* The fields of a busy worker and of a busy relay.
LEMMA WorkerShape ==
    ASSUME TypeOK, NEW w \in Workers
    PROVE  /\ Busy(w) => /\ worker[w].delivery \in Deliveries
                         /\ worker[w].token \in Nat
                         /\ worker[w].phase \in {"claimed", "posting", "answered"}
           /\ worker[w].phase = "answered" => worker[w].result \in Result
           /\ worker[w].phase # "idle" => Busy(w)
           /\ worker[w].phase \in {"claimed", "posting", "answered"} => Busy(w)
<1>1. worker[w] \in {Idle} \cup ActiveWorker
    BY DEF TypeOK
<1>2. CASE worker[w] = Idle
    BY <1>2 DEF Busy, Idle
<1>3. CASE worker[w] \in [phase : {"claimed", "posting"}, delivery : Deliveries, token : Nat]
    BY <1>3 DEF Busy, Idle
<1>4. CASE worker[w] \in [phase : {"answered"}, delivery : Deliveries, token : Nat,
                          result : Result]
    BY <1>4 DEF Busy, Idle
<1> QED BY <1>1, <1>2, <1>3, <1>4 DEF ActiveWorker

\* The fields of a busy relay.
LEMMA RelayShape ==
    ASSUME TypeOK, NEW r \in Relays, relay[r] # Idle
    PROVE  relay[r].delivery \in Deliveries /\ relay[r].token \in Nat
BY DEF TypeOK, ActiveRelay

(***************************************************************************)
(* The end of an attempt.  Eight outcomes share one shape.                 *)
(***************************************************************************)
\* The row of worker w goes to s, if it is still w's.
Closes(w, s) ==
    /\ Busy(w)
    /\ worker' = [worker EXCEPT ![w] = Idle]
    /\ UNCHANGED <<attempt_count, dispatch_failures, minted, relay, overrun, answered>>
    /\ \/ /\ Owns(w)
          /\ Sets(worker[w].delivery, s, NoToken)
          /\ copies' \subseteq copies
       \/ ~Owns(w) /\ UNCHANGED <<status, token, copies, subscription>>

\* What an outcome s asks of the attempt and books.
Outcome(w, s) ==
    LET d == worker[w].delivery IN
    \/ /\ s = "PENDING" /\ UNCHANGED subscription
       /\ Fault \/ (attempt_count[d] < MaxRetries /\ UNCHANGED faults)
    \/ /\ s = "SUCCESS" /\ UNCHANGED faults
       /\ worker[w].phase = "answered" /\ worker[w].result = "ok"
       /\ ~Owns(w) \/ SUCCESS_RESET
    \/ /\ s \in {"FAILED", "DLQ"} /\ UNCHANGED faults
       /\ UNCHANGED subscription \/ (Owns(w) /\ terminal_failure_values(d))

Ending(w) == \E s \in {"PENDING"} \cup Terminal : Closes(w, s) /\ Outcome(w, s)

\* The steps that end an attempt.
LEMMA EndingSteps ==
    ASSUME TypeOK, NEW w \in Workers,
           DropPaused(w) \/ _mark_delivery_failed(w) \/ GateLookupFails(w) \/ RecordOutcome(w)
    PROVE  Ending(w)
<1> DEFINE d == worker[w].delivery
<1>0. ASSUME NEW s, NEW ACTION booking, Busy(w), Ends(w, s, booking)
      PROVE  Closes(w, s) /\ IF Owns(w) THEN booking ELSE UNCHANGED subscription
    <2>1. CASE Owns(w)
        BY <1>0, <2>1 DEF Ends, Closes
    <2>2. CASE ~Owns(w)
        BY <1>0, <2>2 DEF Ends, Closes
    <2> QED BY <2>1, <2>2
<1>1. CASE DropPaused(w)
    <2>1. Busy(w) /\ Closes(w, "FAILED") /\ UNCHANGED subscription
        BY <1>1, <1>0, WorkerShape DEF DropPaused, Phase, NotBooked
    <2> QED BY <2>1, <1>1 DEF DropPaused, Ending, Outcome, Terminal
<1>2. CASE _mark_delivery_failed(w)
    <2>1. Busy(w)
        BY <1>2, WorkerShape DEF _mark_delivery_failed, Phase
    <2>2. /\ Closes(w, "FAILED")
          /\ UNCHANGED subscription \/ (Owns(w) /\ terminal_failure_values(d))
        <3>1. CASE Ends(w, "FAILED", NotBooked)
            BY <1>0, <2>1, <3>1 DEF NotBooked
        <3>2. CASE Ends(w, "FAILED", terminal_failure_values(d))
            BY <1>0, <2>1, <3>2
        <3> QED BY <1>2, <3>1, <3>2 DEF _mark_delivery_failed
    <2> QED BY <2>2, <1>2 DEF _mark_delivery_failed, Ending, Outcome, Terminal
<1>3. CASE GateLookupFails(w)
    <2>1. Busy(w) /\ Closes(w, "PENDING") /\ UNCHANGED subscription
        BY <1>3, <1>0, WorkerShape DEF GateLookupFails, Phase, NotBooked
    <2> QED BY <2>1, <1>3 DEF GateLookupFails, Ending, Outcome
<1>4. CASE RecordOutcome(w)
    <2>0. Busy(w) /\ UNCHANGED faults /\ worker[w].phase = "answered"
        BY <1>4, WorkerShape DEF RecordOutcome, Phase
    <2>1. CASE worker[w].result = "ok" /\ Ends(w, "SUCCESS", SUCCESS_RESET)
        <3>1. Closes(w, "SUCCESS") /\ (~Owns(w) \/ SUCCESS_RESET)
            BY <1>0, <2>0, <2>1
        <3> QED BY <3>1, <2>0, <2>1 DEF Ending, Outcome, Terminal
    <2>2. CASE _has_retry_budget(d) /\ Ends(w, "PENDING", NotBooked)
        <3>1. Closes(w, "PENDING") /\ UNCHANGED subscription
            BY <1>0, <2>0, <2>2 DEF NotBooked
        <3> QED BY <3>1, <2>0, <2>2 DEF Ending, Outcome, _has_retry_budget
    <2>3. ASSUME NEW s \in {"FAILED", "DLQ"}, Ends(w, s, terminal_failure_values(d))
          PROVE  Ending(w)
        <3>1. /\ Closes(w, s)
              /\ UNCHANGED subscription \/ (Owns(w) /\ terminal_failure_values(d))
            BY <1>0, <2>0, <2>3
        <3> QED BY <3>1, <2>0 DEF Ending, Outcome, Terminal
    <2> QED BY <1>4, <2>1, <2>2, <2>3 DEF RecordOutcome
<1> QED BY <1>1, <1>2, <1>3, <1>4

\* The steps of an edit of the subscription.
Edits(e) ==
    (\E on \in BOOLEAN : get_subscription(e, on)) \/ update_subscription(e) \/ EditFails(e)

\* They leave everything but the subscription alone.
LEMMA EditsLeave ==
    ASSUME NEW e \in Editors, Edits(e)
    PROVE  UNCHANGED <<row, copies, relay, worker, overrun, faults, answered>>
BY DEF Edits, get_subscription, update_subscription, EditFails

\* Every step, with the ends of attempts as one.
LEMMA Steps ==
    ASSUME TypeOK, [Next]_vars
    PROVE  \/ \E d \in Deliveries : emit_event(d) \/ \E o \in Deliveries : replay_delivery(d, o)
           \/ \E d \in Deliveries, r \in Relays : claim_pending_webhook_dispatches(r, d)
           \/ \E d \in Deliveries, w \in Workers : ClaimFirst(w, d) \/ ClaimPublished(w, d)
           \/ \E r \in Relays : PublishCopy(r) \/ PublishRaises(r) \/ RelayDies(r)
           \/ \E c \in copies : LoseCopy(c)
           \/ \E w \in Workers : Ending(w) \/ CountAttempt(w) \/ WorkerDies(w)
           \/ \E w \in Workers, result \in Result : Post(w, result)
           \/ \E e \in Editors : Edits(e)
           \/ UNCHANGED vars
BY EndingSteps DEF Next, Attempt, Edits

(***************************************************************************)
(* Types.                                                                  *)
(***************************************************************************)
\* The invariant TypeInv holds of the initial state.
LEMMA TypeInit == Init => TypeInv
<1> SUFFICES ASSUME Init PROVE TypeInv
    OBVIOUS
<1>1. worker \in [Workers -> {Idle} \cup ActiveWorker] /\ relay \in [Relays -> {Idle} \cup ActiveRelay]
    BY DEF Init
<1>2. /\ status \in [Deliveries -> Status] /\ token \in [Deliveries -> Nat]
      /\ attempt_count \in [Deliveries -> Nat] /\ minted \in [Deliveries -> Nat]
      /\ dispatch_failures \in [Deliveries -> 0 .. MAX_WEBHOOK_DISPATCH_ATTEMPTS]
    BY WebhookAssumption DEF Init, Status, NoToken
<1>3. \A d \in Deliveries : dispatch_failures[d] < MAX_WEBHOOK_DISPATCH_ATTEMPTS
    BY WebhookAssumption DEF Init
<1>4. /\ consecutive_failures \in Nat /\ copies = {} /\ answered = {} /\ streak = {}
      /\ survived = {} /\ edit \in [Editors -> {Idle} \cup Edit]
    BY DEF Init
<1>5. faults \in 0 .. MaxFaults
    BY WebhookAssumption DEF Init
<1>6. enabled \in BOOLEAN /\ overrun \in BOOLEAN
    BY DEF Init
<1> QED BY <1>1, <1>2, <1>3, <1>4, <1>5, <1>6 DEF TypeInv, TypeOK

\* The end of an attempt keeps the types.
LEMMA EndingTypes ==
    ASSUME TypeInv, NEW w \in Workers, Ending(w)
    PROVE  TypeInv'
<1> DEFINE d == worker[w].delivery
<1>1. PICK s \in {"PENDING"} \cup Terminal : Closes(w, s) /\ Outcome(w, s)
    BY DEF Ending
<1>2. d \in Deliveries
    BY <1>1, WorkerShape DEF TypeInv, Closes
<1>3. worker' \in [Workers -> {Idle} \cup ActiveWorker]
    BY <1>1 DEF TypeInv, TypeOK, Closes
<1>4. /\ enabled' \in BOOLEAN /\ consecutive_failures' \in Nat /\ streak' \subseteq Deliveries
      /\ survived' \subseteq Deliveries /\ edit' \in [Editors -> {Idle} \cup Edit]
      /\ faults' \in 0 .. MaxFaults
    <2>1. CASE UNCHANGED subscription
        BY <1>1, <2>1, WebhookAssumption
           DEF TypeInv, TypeOK, Outcome, Fault, subscription
    <2>2. CASE SUCCESS_RESET /\ UNCHANGED faults
        BY <2>2 DEF TypeInv, TypeOK, SUCCESS_RESET
    <2>3. CASE terminal_failure_values(d) /\ UNCHANGED faults
        BY <1>2, <2>3 DEF TypeInv, TypeOK, terminal_failure_values
    <2> QED BY <1>1, <2>1, <2>2, <2>3 DEF Outcome, Closes
<1>5. CASE Owns(w)
    BY <1>1, <1>2, <1>3, <1>4, <1>5
       DEF TypeInv, TypeOK, Closes, Sets, Owns, Status, NoToken, Terminal
<1>6. CASE ~Owns(w)
    BY <1>1, <1>3, <1>4, <1>6 DEF TypeInv, TypeOK, Closes
<1> QED BY <1>5, <1>6

\* Every step keeps the types.
LEMMA TypeStep == TypeInv /\ [Next]_vars => TypeInv'
<1> SUFFICES ASSUME TypeInv, [Next]_vars PROVE TypeInv'
    OBVIOUS
<1> USE WebhookAssumption
<1>1. ASSUME NEW d \in Deliveries,
             emit_event(d) \/ \E o \in Deliveries : replay_delivery(d, o)
      PROVE  TypeInv'
    <2>1. CASE emit_event(d)
        BY <2>1 DEF TypeInv, TypeOK, emit_event, Sets, Terminal, Status, NoToken, subscription
    <2>2. CASE \E o \in Deliveries : replay_delivery(d, o)
        BY <2>2 DEF TypeInv, TypeOK, replay_delivery, Sets, Terminal, Status, NoToken,
                    subscription
    <2> QED BY <1>1, <2>1, <2>2
<1>2. ASSUME NEW d \in Deliveries, NEW r \in Relays, claim_pending_webhook_dispatches(r, d)
      PROVE  TypeInv'
    <2> DEFINE t == IF PreservesToken(d) THEN token[d] ELSE Fresh(d)
    <2>1. t \in Nat /\ [delivery |-> d, token |-> t] \in ActiveRelay
        BY DEF TypeInv, TypeOK, Fresh, ActiveRelay
    <2>2. relay' \in [Relays -> {Idle} \cup ActiveRelay]
        <3>1. PICK h \in {Idle} \cup ActiveRelay :
                  UNCHANGED relay \/ relay' = [relay EXCEPT ![r] = h]
            BY <1>2, <2>1 DEF claim_pending_webhook_dispatches
        <3> QED BY <3>1 DEF TypeInv, TypeOK
    <2>3. faults' \in 0 .. MaxFaults /\ overrun' \in BOOLEAN
        <3>1. (Fault /\ overrun' = TRUE) \/ UNCHANGED <<faults, overrun>>
            BY <1>2 DEF claim_pending_webhook_dispatches
        <3>2. faults' \in 0 .. MaxFaults
            BY <3>1 DEF TypeInv, TypeOK, Fault
        <3>3. overrun' \in BOOLEAN
            BY <3>1 DEF TypeInv, TypeOK
        <3> QED BY <3>2, <3>3
    <2>4. minted' \in [Deliveries -> Nat]
        BY <1>2 DEF TypeInv, TypeOK, claim_pending_webhook_dispatches
    <2>5. \/ Sets(d, "FAILED", token[d])
          \/ Sets(d, "SENDING", t) /\ status[d] \notin Terminal
        BY <1>2 DEF claim_pending_webhook_dispatches, Lapsed, Terminal
    <2>6. /\ status' \in [Deliveries -> Status] /\ token' \in [Deliveries -> Nat]
          /\ \A e \in Deliveries : status'[e] \notin Terminal => status[e] \notin Terminal
        BY <2>1, <2>5 DEF TypeInv, TypeOK, Sets, Status, Terminal
    <2> QED BY <1>2, <2>2, <2>3, <2>4, <2>6
            DEF TypeInv, TypeOK, claim_pending_webhook_dispatches, subscription
<1>3. ASSUME NEW d \in Deliveries, NEW w \in Workers, ClaimFirst(w, d) \/ ClaimPublished(w, d)
      PROVE  TypeInv'
    <2>1. PICK t \in Nat : Claims(w, d, t) /\ status[d] \notin Terminal
        BY <1>3 DEF TypeInv, TypeOK, ClaimFirst, ClaimPublished, Fresh, Terminal
    <2>2. [phase |-> "claimed", delivery |-> d, token |-> t] \in ActiveWorker
        BY DEF ActiveWorker
    <2>3. worker' \in [Workers -> {Idle} \cup ActiveWorker]
        BY <2>1, <2>2 DEF TypeInv, TypeOK, Claims
    <2>4. minted' \in [Deliveries -> Nat]
        BY <1>3 DEF TypeInv, TypeOK, ClaimFirst, ClaimPublished, Mint
    <2>5. copies' \subseteq Deliveries \X Nat
        BY <2>1 DEF TypeInv, TypeOK, Claims
    <2> QED BY <2>1, <2>3, <2>4, <2>5 DEF TypeInv, TypeOK, Claims, Sets, Terminal, Status, subscription
<1>4. ASSUME NEW r \in Relays, PublishCopy(r) \/ PublishRaises(r) \/ RelayDies(r)
      PROVE  TypeInv'
    <2> DEFINE d == relay[r].delivery
    <2>1. d \in Deliveries /\ relay[r].token \in Nat
        BY <1>4, RelayShape DEF TypeInv, PublishCopy, PublishRaises, RelayDies
    <2>2. relay' \in [Relays -> {Idle} \cup ActiveRelay]
        BY <1>4 DEF TypeInv, TypeOK, PublishCopy, PublishRaises, RelayDies
    <2>3. CASE PublishCopy(r)
        BY <2>1, <2>2, <2>3 DEF TypeInv, TypeOK, PublishCopy, row, subscription
    <2>4. CASE PublishRaises(r)
        <3>1. copies' \subseteq Deliveries \X Nat /\ faults' \in 0 .. MaxFaults
            BY <2>1, <2>4 DEF TypeInv, TypeOK, PublishRaises, Fault
        <3>2. CASE status[d] = "SENDING" /\ token[d] = relay[r].token
            BY <2>1, <2>2, <2>4, <3>1, <3>2
               DEF TypeInv, TypeOK, PublishRaises, Sets, Terminal, Status, subscription
        <3>3. CASE ~(status[d] = "SENDING" /\ token[d] = relay[r].token)
            BY <2>2, <2>4, <3>1, <3>3 DEF TypeInv, TypeOK, PublishRaises, subscription
        <3> QED BY <3>2, <3>3
    <2>5. CASE RelayDies(r)
        BY <2>2, <2>5 DEF TypeInv, TypeOK, RelayDies, Fault, row, subscription
    <2> QED BY <1>4, <2>3, <2>4, <2>5
<1>5. ASSUME NEW c \in copies, LoseCopy(c)
      PROVE  TypeInv'
    BY <1>5 DEF TypeInv, TypeOK, LoseCopy, Fault, row, subscription
<1>6. ASSUME NEW w \in Workers, CountAttempt(w) \/ WorkerDies(w)
      PROVE  TypeInv'
    <2>1. Busy(w) /\ worker[w].delivery \in Deliveries
        BY <1>6, WorkerShape DEF TypeInv, CountAttempt, WorkerDies, Phase, Busy
    <2>2. CASE WorkerDies(w)
        BY <2>2 DEF TypeInv, TypeOK, WorkerDies, Fault, row, subscription
    <2>3. CASE CountAttempt(w)
        <3>1. worker[w] \in [phase : {"claimed", "posting"}, delivery : Deliveries, token : Nat]
            BY <2>3 DEF TypeInv, TypeOK, CountAttempt, Phase, ActiveWorker, Idle
        <3>2. [worker[w] EXCEPT !.phase = "posting"] \in ActiveWorker
            BY <3>1 DEF ActiveWorker
        <3>3. worker' \in [Workers -> {Idle} \cup ActiveWorker]
            BY <2>3, <3>2 DEF TypeInv, TypeOK, CountAttempt, MovesTo
        <3>4. attempt_count' \in [Deliveries -> Nat]
            BY <2>3 DEF TypeInv, TypeOK, CountAttempt
        <3> QED BY <2>3, <3>3, <3>4 DEF TypeInv, TypeOK, CountAttempt, subscription
    <2> QED BY <1>6, <2>2, <2>3
<1>7. ASSUME NEW w \in Workers, NEW result \in Result, Post(w, result)
      PROVE  TypeInv'
    <2>1. worker[w].delivery \in Deliveries /\ worker[w].token \in Nat
        BY <1>7, WorkerShape DEF TypeInv, Post, Phase
    <2>2. [phase |-> "answered", delivery |-> worker[w].delivery, token |-> worker[w].token,
           result |-> result] \in ActiveWorker
        BY <2>1 DEF ActiveWorker
    <2> QED BY <1>7, <2>1, <2>2 DEF TypeInv, TypeOK, Post, row, subscription
<1>8. ASSUME NEW e \in Editors, Edits(e)
      PROVE  TypeInv'
    <2>1. CASE \E on \in BOOLEAN : get_subscription(e, on)
        <3>1. PICK on \in BOOLEAN : get_subscription(e, on)
            BY <2>1
        <3>2. [on |-> on, resets |-> on /\ consecutive_failures # 0] \in Edit
            BY Zenon DEF Edit
        <3>3. edit' \in [Editors -> {Idle} \cup Edit]
            BY <3>1, <3>2 DEF TypeInv, TypeOK, get_subscription
        <3> QED BY <3>1, <3>3 DEF TypeInv, TypeOK, get_subscription, row
    <2>2. CASE update_subscription(e)
        <3>1. edit[e] \in Edit
            BY <2>2 DEF TypeInv, TypeOK, update_subscription
        <3>2. enabled' \in BOOLEAN
            BY <2>2, <3>1 DEF update_subscription, Edit
        <3>3. /\ consecutive_failures' \in Nat /\ streak' \subseteq Deliveries
              /\ survived' \subseteq Deliveries
            BY <2>2 DEF TypeInv, TypeOK, update_subscription
        <3>4. edit' \in [Editors -> {Idle} \cup Edit]
            BY <2>2 DEF TypeInv, TypeOK, update_subscription
        <3> QED BY <3>2, <3>3, <3>4, EditsLeave, <1>8 DEF TypeInv, TypeOK, row
    <2>3. CASE EditFails(e)
        BY <2>3 DEF TypeInv, TypeOK, EditFails, row
    <2> QED BY <1>8, <2>1, <2>2, <2>3 DEF Edits
<1>9. CASE UNCHANGED vars
    BY <1>9 DEF TypeInv, TypeOK, vars, row, subscription
<1> QED BY <1>1, <1>2, <1>3, <1>4, <1>5, <1>6, <1>7, <1>8, <1>9, Steps, EndingTypes DEF TypeInv

\* The columns and the processes have their values, whatever is lost.
THEOREM TypeCorrect == Spec => []TypeOK
<1>1. TypeInv => TypeOK
    BY DEF TypeInv
<1> QED BY <1>1, TypeInit, TypeStep, PTL DEF Spec

(***************************************************************************)
(* Tokens, and attempts that do not overlap.                               *)
(***************************************************************************)
AttemptInv == TypeInv /\ TokenInv /\ OneAttempt

\* Steps that write no row: workers only stop or go on.
LEMMA WorkersGoOn ==
    ASSUME AttemptInv, TypeInv', UNCHANGED <<status, token, minted>>, overrun => overrun',
           \A w \in Workers : Busy(w)' => /\ Busy(w)
                                          /\ worker'[w].delivery = worker[w].delivery
                                          /\ worker'[w].token = worker[w].token
    PROVE  AttemptInv'
<1>1. TokenInv'
    BY DEF AttemptInv, TokenInv, Owns
<1>2. OneAttempt'
    BY DEF AttemptInv, OneAttempt, Busy
<1> QED BY <1>1, <1>2 DEF AttemptInv

\* A step that takes row d from whoever works on it, to status s and token t.
LEMMA RowTaken ==
    ASSUME AttemptInv, TypeInv', NEW d \in Deliveries, NEW s, NEW t \in Nat,
           Sets(d, s, t), s # "PROCESSING", s = "SENDING" => t # NoToken,
           UNCHANGED worker, overrun => overrun',
           t <= minted'[d], \A e \in Deliveries : minted[e] <= minted'[e],
           \A w \in Workers : Busy(w) /\ worker[w].delivery = d
                                 => overrun' /\ t # worker[w].token
    PROVE  AttemptInv'
<1> USE DEF AttemptInv
<1>1. /\ status'[d] = s /\ token'[d] = t
      /\ \A e \in Deliveries \ {d} : status'[e] = status[e] /\ token'[e] = token[e]
    BY DEF TypeInv, TypeOK, Sets
<1>2. ASSUME NEW e \in Deliveries
      PROVE  token'[e] <= minted'[e] /\ (status'[e] = "SENDING" => token'[e] # NoToken)
    <2>1. token[e] \in Nat /\ minted[e] \in Nat /\ minted'[e] \in Nat
        BY DEF TypeInv, TypeOK
    <2> QED BY <1>1, <2>1 DEF TokenInv
<1>3. ASSUME NEW w \in Workers, Busy(w)'
      PROVE  /\ 0 < worker'[w].token
             /\ worker'[w].token <= minted'[worker'[w].delivery]
             /\ Owns(w)' \/ (overrun' /\ token'[worker'[w].delivery] # worker'[w].token)
    <2>1. Busy(w) /\ worker[w].delivery \in Deliveries /\ worker[w].token \in Nat
        BY <1>3, WorkerShape DEF TypeInv, Busy
    <2>2. minted[worker[w].delivery] \in Nat /\ minted'[worker[w].delivery] \in Nat
        BY <2>1 DEF TypeInv, TypeOK
    <2>3. 0 < worker'[w].token /\ worker'[w].token <= minted'[worker'[w].delivery]
        BY <2>1, <2>2 DEF TokenInv
    <2>4. CASE worker[w].delivery = d
        BY <1>1, <2>1, <2>3, <2>4
    <2>5. CASE worker[w].delivery # d
        BY <1>1, <2>1, <2>3, <2>5 DEF TokenInv, Owns
    <2> QED BY <2>4, <2>5
<1>4. OneAttempt'
    BY DEF OneAttempt
<1> QED BY <1>2, <1>3, <1>4 DEF TokenInv

\* A claim of a row that nobody owns, under a token that nobody has.
LEMMA RowClaimed ==
    ASSUME AttemptInv, TypeInv', NEW w \in Workers, NEW d \in Deliveries, NEW t \in Nat,
           Claims(w, d, t), status[d] # "PROCESSING",
           0 < t, t <= minted'[d], \A e \in Deliveries : minted[e] <= minted'[e],
           \A v \in Workers : Busy(v) /\ worker[v].delivery = d => t # worker[v].token
    PROVE  AttemptInv'
<1> USE DEF AttemptInv
<1>1. /\ status'[d] = "PROCESSING" /\ token'[d] = t
      /\ \A e \in Deliveries \ {d} : status'[e] = status[e] /\ token'[e] = token[e]
    BY DEF TypeInv, TypeOK, Sets, Claims
<1>2. /\ worker'[w].delivery = d /\ worker'[w].token = t /\ overrun' = overrun
      /\ \A v \in Workers \ {w} : worker'[v] = worker[v]
    BY DEF TypeInv, TypeOK, Claims
<1>3. ASSUME NEW e \in Deliveries
      PROVE  token'[e] <= minted'[e] /\ (status'[e] = "SENDING" => token'[e] # NoToken)
    <2>1. token[e] \in Nat /\ minted[e] \in Nat /\ minted'[e] \in Nat
        BY DEF TypeInv, TypeOK
    <2> QED BY <1>1, <2>1 DEF TokenInv
<1>4. ASSUME NEW v \in Workers \ {w}, Busy(v), worker[v].delivery = d
      PROVE  overrun /\ t # worker[v].token
    BY <1>4 DEF TokenInv, Owns
<1>5. ASSUME NEW v \in Workers, Busy(v)'
      PROVE  /\ 0 < worker'[v].token
             /\ worker'[v].token <= minted'[worker'[v].delivery]
             /\ Owns(v)' \/ (overrun' /\ token'[worker'[v].delivery] # worker'[v].token)
    <2>1. CASE v = w
        BY <1>1, <1>2, <2>1 DEF Owns
    <2>2. CASE v # w
        <3>1. Busy(v) /\ worker[v].delivery \in Deliveries /\ worker[v].token \in Nat
            BY <1>2, <1>5, <2>2, WorkerShape DEF TypeInv, Busy
        <3>2. minted[worker[v].delivery] \in Nat /\ minted'[worker[v].delivery] \in Nat
            BY <3>1 DEF TypeInv, TypeOK
        <3>3. 0 < worker'[v].token /\ worker'[v].token <= minted'[worker'[v].delivery]
            BY <1>2, <2>2, <3>1, <3>2 DEF TokenInv
        <3>4. CASE worker[v].delivery = d
            BY <1>1, <1>2, <1>4, <2>2, <3>1, <3>3, <3>4
        <3>5. CASE worker[v].delivery # d
            BY <1>1, <1>2, <2>2, <3>1, <3>3, <3>5 DEF TokenInv, Owns
        <3> QED BY <3>4, <3>5
    <2> QED BY <2>1, <2>2
<1>6. OneAttempt'
    BY <1>2, <1>4 DEF OneAttempt, Busy
<1> QED BY <1>3, <1>5, <1>6 DEF TokenInv

\* The end of an attempt: another worker of the row does not own it.
LEMMA RowClosed ==
    ASSUME AttemptInv, TypeInv', NEW w \in Workers, Ending(w)
    PROVE  AttemptInv'
<1> USE DEF AttemptInv
<1> DEFINE d == worker[w].delivery
<1>1. PICK s \in {"PENDING"} \cup Terminal : Closes(w, s)
    BY DEF Ending
<1>2. d \in Deliveries /\ worker[w].token \in Nat
    BY <1>1, WorkerShape DEF TypeInv, Closes
<1>3. /\ worker'[w] = Idle
      /\ \A v \in Workers \ {w} : worker'[v] = worker[v]
    BY <1>1 DEF TypeInv, TypeOK, Closes
<1>4. CASE ~Owns(w)
    <2>1. UNCHANGED <<status, token, minted, overrun>>
        BY <1>1, <1>4 DEF Closes
    <2> QED BY <1>3, <2>1, WorkersGoOn DEF Busy
<1>5. CASE Owns(w)
    <2>1. /\ status'[d] = s /\ token'[d] = NoToken
          /\ \A e \in Deliveries \ {d} : status'[e] = status[e] /\ token'[e] = token[e]
          /\ minted' = minted /\ overrun' = overrun
        BY <1>1, <1>2, <1>5 DEF TypeInv, TypeOK, Closes, Sets
    <2>2. ASSUME NEW e \in Deliveries
          PROVE  token'[e] <= minted'[e] /\ (status'[e] = "SENDING" => token'[e] # NoToken)
        <3>1. token[e] \in Nat /\ minted[e] \in Nat
            BY DEF TypeInv, TypeOK
        <3> QED BY <2>1, <3>1 DEF TokenInv, NoToken, Terminal
    <2>3. ASSUME NEW v \in Workers, Busy(v)'
          PROVE  /\ 0 < worker'[v].token
                 /\ worker'[v].token <= minted'[worker'[v].delivery]
                 /\ Owns(v)' \/ (overrun' /\ token'[worker'[v].delivery] # worker'[v].token)
        <3>1. v # w /\ Busy(v) /\ worker'[v] = worker[v]
            BY <1>3, <2>3 DEF Busy
        <3>2. worker[v].delivery \in Deliveries /\ worker[v].token \in Nat
            BY <3>1, WorkerShape DEF TypeInv
        <3>3. 0 < worker[v].token /\ worker[v].token <= minted[worker[v].delivery]
            BY <3>1 DEF TokenInv
        <3>4. CASE worker[v].delivery = d
            <4>1. overrun
                BY <1>1, <3>1, <3>4 DEF OneAttempt, Closes, Busy
            <4> QED BY <2>1, <3>1, <3>2, <3>3, <3>4, <4>1 DEF NoToken
        <3>5. CASE worker[v].delivery # d
            BY <2>1, <3>1, <3>2, <3>3, <3>5 DEF TokenInv, Owns
        <3> QED BY <3>4, <3>5
    <2>4. OneAttempt'
        BY <1>3, <2>1 DEF OneAttempt
    <2> QED BY <2>2, <2>3, <2>4 DEF TokenInv
<1> QED BY <1>4, <1>5

\* Tokens are drawn afresh, and whoever does not own its row is fenced.
LEMMA Fenced ==
    ASSUME AttemptInv, NEW w \in Workers, Busy(w), NEW d \in Deliveries,
           worker[w].delivery = d
    PROVE  /\ worker[w].token \in Nat /\ minted[d] \in Nat /\ token[d] \in Nat
           /\ 0 < worker[w].token /\ worker[w].token < Fresh(d)
           /\ status[d] # "PROCESSING" \/ token[d] # worker[w].token
                 => overrun /\ token[d] # worker[w].token
<1>1. worker[w].token \in Nat /\ minted[d] \in Nat /\ token[d] \in Nat
    BY WorkerShape DEF AttemptInv, TypeInv, TypeOK
<1> QED BY <1>1 DEF AttemptInv, TokenInv, Owns, Fresh

\* Every step keeps the tokens apart.
LEMMA AttemptStep == AttemptInv /\ [Next]_vars => AttemptInv'
<1> SUFFICES ASSUME AttemptInv, [Next]_vars PROVE AttemptInv'
    OBVIOUS
<1>0. TypeInv' /\ TypeOK /\ \A e \in Deliveries : minted[e] \in Nat /\ token[e] \in Nat
    BY TypeStep DEF AttemptInv, TypeInv, TypeOK
<1>1. ASSUME NEW d \in Deliveries,
             emit_event(d) \/ \E o \in Deliveries : replay_delivery(d, o)
      PROVE  AttemptInv'
    <2>1. /\ status[d] = "absent" /\ Sets(d, "PENDING", NoToken)
          /\ UNCHANGED <<worker, overrun, minted>>
        BY <1>1 DEF emit_event, replay_delivery
    <2>2. \A w \in Workers : Busy(w) /\ worker[w].delivery = d
                                => overrun /\ NoToken # worker[w].token
        BY <2>1, Fenced DEF NoToken
    <2> QED BY <1>0, <2>1, <2>2, RowTaken DEF NoToken
<1>2. ASSUME NEW d \in Deliveries, NEW r \in Relays, claim_pending_webhook_dispatches(r, d)
      PROVE  AttemptInv'
    <2> DEFINE t == IF PreservesToken(d) THEN token[d] ELSE Fresh(d)
    <2>0. /\ UNCHANGED worker
          /\ overrun => overrun'
          /\ status[d] = "PROCESSING" /\ Works(d, token[d]) => overrun'
        BY <1>2 DEF claim_pending_webhook_dispatches
    <2>1. CASE status[d] = "PENDING" /\ Sets(d, "FAILED", token[d]) /\ UNCHANGED minted
        <3>1. \A w \in Workers : Busy(w) /\ worker[w].delivery = d
                                    => overrun /\ token[d] # worker[w].token
            BY <2>1, Fenced
        <3> QED BY <1>0, <2>0, <2>1, <3>1, RowTaken DEF AttemptInv, TokenInv
    <2>2. CASE /\ Sets(d, "SENDING", t)
               /\ minted' = [minted EXCEPT ![d] = IF PreservesToken(d) THEN @ ELSE @ + 1]
        <3>1. t \in Nat /\ t # NoToken
            BY <1>0 DEF PreservesToken, Fresh, NoToken
        <3>2. t <= minted'[d] /\ \A e \in Deliveries : minted[e] <= minted'[e]
            BY <1>0, <2>2 DEF Fresh, AttemptInv, TypeInv, TypeOK, TokenInv
        <3>3. ASSUME NEW w \in Workers, Busy(w), worker[w].delivery = d
              PROVE  overrun' /\ t # worker[w].token
            <4>1. CASE PreservesToken(d)
                BY <2>0, <3>3, <4>1, Fenced DEF PreservesToken
            <4>2. CASE ~PreservesToken(d)
                <5>1. t # worker[w].token
                    BY <1>0, <3>3, <4>2, Fenced DEF Fresh
                <5>2. CASE status[d] = "PROCESSING" /\ token[d] = worker[w].token
                    BY <2>0, <3>3, <5>1, <5>2 DEF Works, Busy
                <5>3. CASE ~(status[d] = "PROCESSING" /\ token[d] = worker[w].token)
                    BY <2>0, <3>3, <5>1, <5>3, Fenced
                <5> QED BY <5>2, <5>3
            <4> QED BY <4>1, <4>2
        <3> QED BY <1>0, <2>0, <2>2, <3>1, <3>2, <3>3, RowTaken
    <2> QED BY <1>2, <2>1, <2>2 DEF claim_pending_webhook_dispatches
<1>3. ASSUME NEW d \in Deliveries, NEW w \in Workers, ClaimFirst(w, d)
      PROVE  AttemptInv'
    <2>1. \A v \in Workers : Busy(v) /\ worker[v].delivery = d => Fresh(d) # worker[v].token
        BY <1>0, Fenced DEF Fresh
    <2>2. /\ Fresh(d) \in Nat /\ 0 < Fresh(d) /\ Fresh(d) <= minted'[d]
          /\ \A e \in Deliveries : minted[e] <= minted'[e]
        BY <1>0, <1>3 DEF ClaimFirst, Fresh, Mint, AttemptInv, TypeInv, TypeOK
    <2> QED BY <1>0, <1>3, <2>1, <2>2, RowClaimed DEF ClaimFirst
<1>4. ASSUME NEW d \in Deliveries, NEW w \in Workers, ClaimPublished(w, d)
      PROVE  AttemptInv'
    <2>1. \A v \in Workers : Busy(v) /\ worker[v].delivery = d => token[d] # worker[v].token
        BY <1>4, Fenced DEF ClaimPublished
    <2>2. 0 < token[d] /\ token[d] <= minted'[d] /\ minted' = minted
        BY <1>0, <1>4 DEF ClaimPublished, AttemptInv, TokenInv, NoToken
    <2> QED BY <1>0, <1>4, <2>1, <2>2, RowClaimed DEF ClaimPublished
<1>5. ASSUME NEW r \in Relays, PublishRaises(r)
      PROVE  AttemptInv'
    <2> DEFINE d == relay[r].delivery
    <2>1. d \in Deliveries
        BY <1>0, <1>5, RelayShape DEF PublishRaises
    <2>2. UNCHANGED <<worker, minted, overrun>>
        BY <1>5 DEF PublishRaises
    <2>3. CASE status[d] = "SENDING" /\ token[d] = relay[r].token
        <3>1. PICK s \in {"FAILED", "PENDING"} : Sets(d, s, token[d])
            BY <1>5, <2>3 DEF PublishRaises
        <3>2. \A w \in Workers : Busy(w) /\ worker[w].delivery = d
                                    => overrun /\ token[d] # worker[w].token
            BY <2>1, <2>3, Fenced
        <3> QED BY <1>0, <2>1, <2>2, <3>1, <3>2, RowTaken DEF AttemptInv, TokenInv
    <2>4. CASE UNCHANGED <<status, token>>
        BY <1>0, <2>2, <2>4, WorkersGoOn DEF Busy
    <2> QED BY <1>5, <2>3, <2>4 DEF PublishRaises
<1>6. ASSUME NEW r \in Relays, PublishCopy(r) \/ RelayDies(r)
      PROVE  AttemptInv'
    BY <1>0, <1>6, WorkersGoOn DEF PublishCopy, RelayDies, row, Busy
<1>7. ASSUME NEW c \in copies, LoseCopy(c)
      PROVE  AttemptInv'
    BY <1>0, <1>7, WorkersGoOn DEF LoseCopy, row, Busy
<1>8. ASSUME NEW w \in Workers, CountAttempt(w) \/ WorkerDies(w)
      PROVE  AttemptInv'
    <2>1. UNCHANGED <<status, token, minted, overrun>>
        BY <1>8 DEF CountAttempt, WorkerDies, row
    <2>2. ASSUME NEW v \in Workers, Busy(v)'
          PROVE  /\ Busy(v) /\ worker'[v].delivery = worker[v].delivery
                 /\ worker'[v].token = worker[v].token
        <3>1. CASE v # w
            BY <1>0, <1>8, <2>2, <3>1 DEF CountAttempt, WorkerDies, MovesTo, Busy, TypeOK
        <3>2. CASE v = w
            <4>1. CountAttempt(w) /\ worker' = [worker EXCEPT ![w].phase = "posting"]
                BY <1>0, <1>8, <2>2, <3>2 DEF CountAttempt, WorkerDies, MovesTo, Busy, TypeOK
            <4>2. worker[w] \in [phase : {"claimed", "posting"}, delivery : Deliveries,
                                 token : Nat]
                BY <1>0, <4>1 DEF TypeOK, CountAttempt, Phase, ActiveWorker, Idle
            <4> QED BY <1>0, <3>2, <4>1, <4>2 DEF TypeOK, Busy, Idle
        <3> QED BY <3>1, <3>2
    <2> QED BY <1>0, <2>1, <2>2, WorkersGoOn
<1>9. ASSUME NEW w \in Workers, NEW result \in Result, Post(w, result)
      PROVE  AttemptInv'
    <2>1. UNCHANGED <<status, token, minted, overrun>>
        BY <1>9 DEF Post, row
    <2>2. Busy(w)
        BY <1>0, <1>9, WorkerShape DEF Post, Phase
    <2>3. \A v \in Workers : Busy(v)' => /\ Busy(v)
                                         /\ worker'[v].delivery = worker[v].delivery
                                         /\ worker'[v].token = worker[v].token
        BY <1>0, <1>9, <2>2 DEF Post, Busy, TypeOK
    <2> QED BY <1>0, <2>1, <2>3, WorkersGoOn
<1>10. ASSUME NEW e \in Editors, Edits(e)
       PROVE  AttemptInv'
    BY <1>0, <1>10, EditsLeave, WorkersGoOn DEF row, Busy
<1>11. CASE UNCHANGED vars
    BY <1>0, <1>11, WorkersGoOn DEF vars, row, Busy
<1> QED BY <1>0, <1>1, <1>2, <1>3, <1>4, <1>5, <1>6, <1>7, <1>8, <1>9, <1>10, <1>11, Steps,
           RowClosed

\* The invariant holds of the initial state.
LEMMA AttemptInit == Init => AttemptInv
<1> SUFFICES ASSUME Init PROVE AttemptInv
    OBVIOUS
<1>1. \A w \in Workers : ~Busy(w)
    BY DEF Init, Busy
<1>2. TokenInv
    BY <1>1 DEF Init, TokenInv, NoToken
<1> QED BY <1>1, <1>2, TypeInit DEF AttemptInv, OneAttempt, Busy

\* Attempts of a delivery overlap only after an overrun, and then under
\* tokens of their own.
THEOREM AttemptsAreApart == Spec => []OneAttempt
<1>1. AttemptInv => OneAttempt
    BY DEF AttemptInv
<1> QED BY <1>1, AttemptInit, AttemptStep, PTL DEF Spec

(***************************************************************************)
(* The retry budget.                                                       *)
(***************************************************************************)
\* Budgets and counts are numbers, and a budget grows with the faults.
LEMMA BudgetTypes ==
    ASSUME TypeOK, TypeOK'
    PROVE  /\ Budget \in Nat \ {0} /\ Budget' \in Nat
           /\ MaxRetries <= Budget
           /\ faults' = faults => Budget' = Budget
           /\ faults' = faults + 1 => Budget' = Budget + 1
           /\ \A d \in Deliveries : attempt_count[d] \in Nat
<1>1. MaxRetries \in Nat /\ faults \in Nat /\ faults' \in Nat
    BY WebhookAssumption DEF TypeOK
<1>2. \A d \in Deliveries : attempt_count[d] \in Nat
    BY DEF TypeOK
<1>3. PICK n \in Nat :
          n > 0 /\ MaxRetries <= n /\ Budget = n + faults /\ Budget' = n + faults'
    BY <1>1 DEF Budget
<1>4. /\ Budget \in Nat \ {0} /\ Budget' \in Nat
      /\ MaxRetries <= Budget
    <2>1. \A k \in Nat : n + k \in Nat \ {0} /\ MaxRetries <= n + k
        BY <1>1, <1>3
    <2>2. n + faults \in Nat \ {0} /\ n + faults' \in Nat \ {0} /\ MaxRetries <= n + faults
        BY <1>1, <2>1
    <2> QED BY <1>3, <2>2
<1>5. faults' = faults => Budget' = Budget
    BY <1>3
<1>6. faults' = faults + 1 => Budget' = Budget + 1
    BY <1>1, <1>3
<1> QED BY <1>2, <1>4, <1>5, <1>6

\* A step that counts no attempt keeps BudgetInv where a fault pays for it, an
\* attempt was left, the row ends, or it is as open and as counted as it was.
LEMMA BudgetKept ==
    ASSUME BudgetInv, TypeOK, TypeOK', UNCHANGED attempt_count,
           UNCHANGED faults \/ faults' = faults + 1,
           \/ faults' = faults + 1
           \/ \A d \in Deliveries :
                 \/ attempt_count[d] < Budget
                 \/ status'[d] \in Terminal
                 \/ /\ status'[d] \notin Terminal => status[d] \notin Terminal
                    /\ Counted(d) => Counted(d)'
    PROVE  BudgetInv'
<1> SUFFICES ASSUME NEW d \in Deliveries
             PROVE  /\ attempt_count'[d] <= Budget'
                    /\ status'[d] \notin Terminal /\ ~Counted(d)' => attempt_count'[d] < Budget'
    BY DEF BudgetInv
<1>1. /\ attempt_count[d] <= Budget
      /\ status[d] \notin Terminal /\ ~Counted(d) => attempt_count[d] < Budget
    BY DEF BudgetInv
<1>2. CASE faults' = faults + 1
    BY <1>1, <1>2, BudgetTypes
<1>3. CASE UNCHANGED faults /\ faults' # faults + 1
    BY <1>1, <1>3, BudgetTypes
<1> QED BY <1>2, <1>3

\* A row that is not in processing, and has not ended, has an attempt left.
LEMMA AttemptLeft ==
    ASSUME BudgetInv, NEW d \in Deliveries,
           status[d] \notin Terminal, status[d] # "PROCESSING"
    PROVE  attempt_count[d] < Budget
BY DEF BudgetInv, Counted, Owns

\* What is counted of a row stays counted while the row, and the workers that
\* own it, stay.
LEMMA CountedKept ==
    ASSUME NEW d \in Deliveries, status'[d] = status[d], token'[d] = token[d],
           \A w \in Workers : worker[w].delivery = d /\ Owns(w)
                  /\ worker[w].phase \in {"posting", "answered"}
               => worker'[w] = worker[w]
    PROVE  Counted(d) => Counted(d)'
BY DEF Counted, Owns

\* Every step keeps BudgetInv.
LEMMA BudgetStep == AttemptInv /\ BudgetInv /\ [Next]_vars => BudgetInv'
<1> SUFFICES ASSUME AttemptInv, BudgetInv, [Next]_vars PROVE BudgetInv'
    OBVIOUS
<1>0. TypeOK /\ TypeOK' /\ TypeInv
    BY AttemptStep DEF AttemptInv, TypeInv
<1>1. ASSUME NEW d \in Deliveries,
             emit_event(d) \/ \E o \in Deliveries : replay_delivery(d, o)
      PROVE  BudgetInv'
    <2>1. /\ status[d] = "absent" /\ Sets(d, "PENDING", NoToken)
          /\ UNCHANGED <<attempt_count, worker, faults>>
        BY <1>1 DEF emit_event, replay_delivery
    <2>2. attempt_count[d] < Budget
        BY <2>1, AttemptLeft DEF Terminal
    <2>3. ASSUME NEW e \in Deliveries, e # d
          PROVE  status'[e] = status[e] /\ (Counted(e) => Counted(e)')
        BY <1>0, <2>1, <2>3, CountedKept DEF Sets, TypeOK
    <2> QED BY <1>0, <2>1, <2>2, <2>3, BudgetKept
<1>2. ASSUME NEW d \in Deliveries, NEW r \in Relays, claim_pending_webhook_dispatches(r, d)
      PROVE  BudgetInv'
    <2>1. /\ \E s, t : Sets(d, s, t)
          /\ UNCHANGED <<attempt_count, worker>>
          /\ status[d] \in {"PENDING", "SENDING", "PROCESSING"}
        BY <1>2 DEF claim_pending_webhook_dispatches, Lapsed
    <2>2. CASE faults' = faults + 1
        BY <1>0, <2>1, <2>2, BudgetKept
    <2>3. CASE UNCHANGED faults /\ faults' # faults + 1
        <3>1. ~(status[d] = "PROCESSING" /\ Works(d, token[d]))
            BY <1>2, <2>3 DEF claim_pending_webhook_dispatches, Fault
        <3>2. ~Counted(d)
            <4> SUFFICES ASSUME NEW w \in Workers, worker[w].phase \in {"posting", "answered"},
                                worker[w].delivery = d, Owns(w)
                         PROVE  FALSE
                BY DEF Counted
            <4>1. Busy(w)
                BY <1>0, WorkerShape
            <4> QED BY <3>1, <4>1 DEF Works, Owns, Busy
        <3>3. attempt_count[d] < Budget
            BY <2>1, <3>2 DEF BudgetInv, Terminal
        <3>4. ASSUME NEW e \in Deliveries, e # d
              PROVE  status'[e] = status[e] /\ (Counted(e) => Counted(e)')
            BY <1>0, <2>1, <3>4, CountedKept DEF Sets, TypeOK
        <3> QED BY <1>0, <2>1, <2>3, <3>3, <3>4, BudgetKept
    <2> QED BY <1>2, <2>2, <2>3, <1>0 DEF claim_pending_webhook_dispatches, Fault, TypeOK
<1>3. ASSUME NEW d \in Deliveries, NEW w \in Workers, ClaimFirst(w, d) \/ ClaimPublished(w, d)
      PROVE  BudgetInv'
    <2>1. PICK t : Claims(w, d, t) /\ status[d] \in {"PENDING", "SENDING"}
        BY <1>3 DEF ClaimFirst, ClaimPublished
    <2>2. attempt_count[d] < Budget /\ UNCHANGED <<attempt_count, faults>>
        BY <2>1, AttemptLeft DEF Terminal, Claims
    <2>3. ASSUME NEW e \in Deliveries, e # d
          PROVE  status'[e] = status[e] /\ (Counted(e) => Counted(e)')
        <3>1. \A v \in Workers : worker[v].phase \in {"posting", "answered"}
                                    => worker'[v] = worker[v]
            BY <1>0, <2>1 DEF Claims, Idle, TypeOK
        <3>2. status'[e] = status[e] /\ token'[e] = token[e]
            BY <1>0, <2>1, <2>3 DEF Claims, Sets, TypeOK
        <3> QED BY <3>1, <3>2, CountedKept
    <2> QED BY <1>0, <2>2, <2>3, BudgetKept
<1>4. ASSUME NEW w \in Workers, Ending(w)
      PROVE  BudgetInv'
    <2> DEFINE d == worker[w].delivery
    <2>1. PICK s \in {"PENDING"} \cup Terminal : Closes(w, s) /\ Outcome(w, s)
        BY <1>4 DEF Ending
    <2>2. UNCHANGED attempt_count /\ d \in Deliveries /\ (UNCHANGED faults \/ faults' = faults + 1)
        BY <1>0, <2>1, WorkerShape DEF Closes, Outcome, Fault
    <2>3. CASE faults' = faults + 1
        BY <1>0, <2>2, <2>3, BudgetKept
    <2>4. CASE Owns(w) /\ UNCHANGED faults /\ faults' # faults + 1
        <3>1. attempt_count[d] < Budget \/ status'[d] \in Terminal
            <4>1. CASE s = "PENDING"
                BY <1>0, <2>1, <2>2, <2>4, <4>1, BudgetTypes, WebhookAssumption
                   DEF Outcome, Fault, Terminal
            <4>2. CASE s \in Terminal
                BY <1>0, <2>1, <2>2, <2>4, <4>2 DEF Closes, Sets, TypeOK
            <4> QED BY <4>1, <4>2
        <3>2. ASSUME NEW e \in Deliveries, e # d
              PROVE  status'[e] = status[e] /\ (Counted(e) => Counted(e)')
            <4>1. \A v \in Workers : worker[v].delivery = e => worker'[v] = worker[v]
                BY <1>0, <2>1, <3>2 DEF Closes, TypeOK
            <4>2. status'[e] = status[e] /\ token'[e] = token[e]
                BY <1>0, <2>1, <2>4, <3>2 DEF Closes, Sets, TypeOK
            <4> QED BY <4>1, <4>2, CountedKept
        <3> QED BY <1>0, <2>2, <2>4, <3>1, <3>2, BudgetKept
    <2>5. CASE ~Owns(w) /\ UNCHANGED faults
        <3>1. UNCHANGED <<status, token>>
            BY <2>1, <2>5 DEF Closes
        <3>2. \A v \in Workers : Owns(v) => worker'[v] = worker[v]
            BY <1>0, <2>1, <2>5 DEF Closes, TypeOK
        <3>3. \A e \in Deliveries : Counted(e) => Counted(e)'
            BY <3>1, <3>2, CountedKept
        <3> QED BY <1>0, <2>2, <2>5, <3>1, <3>3, BudgetKept
    <2> QED BY <2>2, <2>3, <2>4, <2>5
<1>5. ASSUME NEW w \in Workers, CountAttempt(w)
      PROVE  BudgetInv'
    <2> DEFINE d == worker[w].delivery
    <2>0. /\ Busy(w) /\ d \in Deliveries /\ worker[w].phase = "claimed"
          /\ UNCHANGED <<status, token, faults>>
        BY <1>0, <1>5, WorkerShape DEF CountAttempt, Phase
    <2>1. CASE Owns(w)
        <3>0. worker[w] \in [phase : {"claimed", "posting"}, delivery : Deliveries, token : Nat]
            BY <1>0, <2>0 DEF TypeOK, ActiveWorker, Idle
        <3>1. /\ worker' = [worker EXCEPT ![w].phase = "posting"]
              /\ attempt_count' = [attempt_count EXCEPT ![d] = @ + 1]
            BY <1>5, <2>1 DEF CountAttempt, MovesTo
        <3>2. /\ worker'[w].phase = "posting" /\ worker'[w].delivery = d
              /\ worker'[w].token = worker[w].token
              /\ \A v \in Workers \ {w} : worker'[v] = worker[v]
            BY <1>0, <3>0, <3>1 DEF TypeOK
        <3>3. ~Counted(d)
            <4> SUFFICES ASSUME NEW v \in Workers, worker[v].phase \in {"posting", "answered"},
                                worker[v].delivery = d, Owns(v)
                         PROVE  FALSE
                BY DEF Counted
            <4>1. v # w /\ Busy(v)
                BY <1>0, <2>0, WorkerShape
            <4> QED BY <2>0, <2>1, <4>1 DEF AttemptInv, OneAttempt, Owns, Busy
        <3>4. attempt_count[d] < Budget
            BY <2>0, <2>1, <3>3 DEF BudgetInv, Owns, Terminal
        <3>5. Counted(d)'
            BY <2>0, <2>1, <3>2 DEF Counted, Owns
        <3>6. attempt_count'[d] <= Budget' /\ Budget' = Budget
            BY <1>0, <2>0, <3>1, <3>4, BudgetTypes DEF TypeOK
        <3>7. ASSUME NEW e \in Deliveries, e # d
              PROVE  /\ attempt_count'[e] <= Budget'
                     /\ status'[e] \notin Terminal /\ ~Counted(e)' => attempt_count'[e] < Budget'
            <4>1. Counted(e) => Counted(e)'
                BY <2>0, <3>2, <3>7, CountedKept
            <4>2. attempt_count'[e] = attempt_count[e] /\ status'[e] = status[e]
                BY <1>0, <2>0, <3>1, <3>7 DEF TypeOK
            <4> QED BY <3>6, <4>1, <4>2 DEF BudgetInv
        <3>8. ASSUME NEW e \in Deliveries
              PROVE  /\ attempt_count'[e] <= Budget'
                     /\ status'[e] \notin Terminal /\ ~Counted(e)' => attempt_count'[e] < Budget'
            <4>1. CASE e = d
                <5>1. Counted(e)'
                    BY <2>0, <2>1, <3>2, <4>1 DEF Counted, Owns
                <5> QED BY <3>6, <4>1, <5>1
            <4>2. CASE e # d
                BY <3>7, <4>2
            <4> QED BY <4>1, <4>2
        <3> QED BY <3>8 DEF BudgetInv
    <2>2. CASE ~Owns(w)
        <3>1. worker' = [worker EXCEPT ![w] = Idle] /\ UNCHANGED attempt_count
            BY <1>5, <2>2 DEF CountAttempt
        <3>2. \A v \in Workers : Owns(v) => worker'[v] = worker[v]
            BY <1>0, <2>2, <3>1 DEF TypeOK
        <3>3. \A e \in Deliveries : Counted(e) => Counted(e)'
            BY <2>0, <3>2, CountedKept
        <3> QED BY <1>0, <2>0, <3>1, <3>3, BudgetKept
    <2> QED BY <2>1, <2>2
<1>6. ASSUME NEW w \in Workers, NEW result \in Result, Post(w, result)
      PROVE  BudgetInv'
    <2>1. UNCHANGED <<status, token, faults, attempt_count>>
        BY <1>6 DEF Post, row
    <2>2. /\ worker'[w].phase = "answered" /\ worker'[w].delivery = worker[w].delivery
          /\ worker'[w].token = worker[w].token
          /\ \A v \in Workers \ {w} : worker'[v] = worker[v]
        BY <1>0, <1>6 DEF Post, TypeOK
    <2>3. \A e \in Deliveries : Counted(e) => Counted(e)'
        BY <2>1, <2>2 DEF Counted, Owns
    <2> QED BY <1>0, <2>1, <2>3, BudgetKept
<1>7. ASSUME NEW w \in Workers, WorkerDies(w)
      PROVE  BudgetInv'
    BY <1>0, <1>7, BudgetKept DEF WorkerDies, Fault, row
<1>8. ASSUME NEW r \in Relays, PublishRaises(r) \/ RelayDies(r)
      PROVE  BudgetInv'
    BY <1>0, <1>8, BudgetKept DEF PublishRaises, RelayDies, Fault, row
<1>9. ASSUME NEW c \in copies, LoseCopy(c)
      PROVE  BudgetInv'
    BY <1>0, <1>9, BudgetKept DEF LoseCopy, Fault, row
<1>10. CASE \/ \E r \in Relays : PublishCopy(r)
            \/ \E e \in Editors : Edits(e)
            \/ UNCHANGED vars
    <2>1. UNCHANGED <<status, token, worker, faults, attempt_count>>
        BY <1>10, EditsLeave DEF PublishCopy, vars, row
    <2>2. \A e \in Deliveries : Counted(e) => Counted(e)'
        BY <2>1, CountedKept
    <2> QED BY <1>0, <2>1, <2>2, BudgetKept
<1> QED BY <1>0, <1>1, <1>2, <1>3, <1>4, <1>5, <1>6, <1>7, <1>8, <1>9, <1>10, Steps

\* The receiver gets a delivery at most max_retries times, and once more for
\* every fault.
THEOREM AttemptsAreBudgeted == Spec => []AttemptBudget
<1>1. Init => BudgetInv
    <2> SUFFICES ASSUME Init PROVE BudgetInv
        OBVIOUS
    <2>1. Budget \in Nat \ {0}
        BY WebhookAssumption DEF Init, Budget
    <2> QED BY <2>1 DEF Init, BudgetInv
<1>2. BudgetInv => AttemptBudget
    BY DEF BudgetInv, AttemptBudget, Budget
<1> QED BY <1>1, <1>2, AttemptInit, AttemptStep, BudgetStep, PTL DEF Spec

(***************************************************************************)
(* The breaker.                                                            *)
(***************************************************************************)
\* A row that ended stays as it ended.
LEMMA EndedStays ==
    ASSUME TypeOK, [Next]_vars, NEW e \in Deliveries, status[e] \in Terminal
    PROVE  status'[e] = status[e]
<1>1. ASSUME NEW d \in Deliveries, NEW s, NEW t, Sets(d, s, t), status[d] \notin Terminal
      PROVE  status'[e] = status[e]
    BY <1>1 DEF Sets, TypeOK
<1>2. ASSUME NEW d \in Deliveries,
             \/ emit_event(d) \/ \E o \in Deliveries : replay_delivery(d, o)
             \/ \E r \in Relays : claim_pending_webhook_dispatches(r, d)
             \/ \E w \in Workers : ClaimFirst(w, d) \/ ClaimPublished(w, d)
      PROVE  status'[e] = status[e]
    <2>1. status[d] \notin Terminal /\ \E s, t : Sets(d, s, t)
        BY <1>2 DEF emit_event, replay_delivery, claim_pending_webhook_dispatches, ClaimFirst,
                    ClaimPublished, Claims, Lapsed, Terminal
    <2> QED BY <1>1, <2>1
<1>3. ASSUME NEW r \in Relays, PublishRaises(r)
      PROVE  status'[e] = status[e]
    <2>1. relay[r].delivery \in Deliveries
        BY <1>3, RelayShape DEF PublishRaises
    <2>2. \/ UNCHANGED status
          \/ /\ status[relay[r].delivery] \notin Terminal
             /\ \E s, t : Sets(relay[r].delivery, s, t)
        BY <1>3 DEF PublishRaises, Terminal
    <2> QED BY <1>1, <2>1, <2>2
<1>4. ASSUME NEW w \in Workers, Ending(w)
      PROVE  status'[e] = status[e]
    <2>1. PICK s : Closes(w, s)
        BY <1>4 DEF Ending
    <2>2. worker[w].delivery \in Deliveries
        BY <2>1, WorkerShape DEF Closes
    <2>3. UNCHANGED status \/ (status[worker[w].delivery] \notin Terminal
                               /\ Sets(worker[w].delivery, s, NoToken))
        BY <2>1 DEF Closes, Owns, Terminal
    <2> QED BY <1>1, <2>2, <2>3
<1>5. CASE \/ \E r \in Relays : PublishCopy(r) \/ RelayDies(r)
           \/ \E c \in copies : LoseCopy(c)
           \/ \E w \in Workers : CountAttempt(w) \/ WorkerDies(w)
           \/ \E w \in Workers, result \in Result : Post(w, result)
           \/ \E x \in Editors : Edits(x)
           \/ UNCHANGED vars
    BY <1>5, EditsLeave DEF PublishCopy, RelayDies, LoseCopy, CountAttempt, WorkerDies, Post,
                            vars, row
<1> QED BY <1>2, <1>3, <1>4, <1>5, Steps

\* The subscription changes with the outcome of an attempt, or by a person.
LEMMA SubscriptionMoves ==
    ASSUME TypeOK, [Next]_vars
    PROVE  \/ UNCHANGED subscription
           \/ \E w \in Workers : Ending(w)
           \/ \E e \in Editors : Edits(e)
BY Steps DEF emit_event, replay_delivery, claim_pending_webhook_dispatches, ClaimFirst,
             ClaimPublished, Claims, PublishCopy, PublishRaises, RelayDies, LoseCopy,
             CountAttempt, WorkerDies, Post, vars

\* The count starts again.
LEMMA CountReset ==
    ASSUME consecutive_failures' = 0, streak' = {}
    PROVE  BreakerInv'
BY FS_EmptySet, WebhookAssumption DEF BreakerInv, EachFailureCountsOnce

\* Every step keeps the count.
LEMMA BreakerStep == TypeInv /\ BreakerInv /\ [Next]_vars => BreakerInv'
<1> SUFFICES ASSUME TypeInv, BreakerInv, [Next]_vars PROVE BreakerInv'
    OBVIOUS
<1>0. TypeOK /\ TypeOK'
    BY TypeStep DEF TypeInv
<1>1. \A e \in streak : e \in Deliveries /\ status'[e] \in Terminal
    BY <1>0, EndedStays DEF BreakerInv, TypeOK
<1>2. CASE UNCHANGED subscription
    BY <1>1, <1>2 DEF BreakerInv, EachFailureCountsOnce, subscription
<1>3. ASSUME NEW e \in Editors, Edits(e)
      PROVE  BreakerInv'
    <2>0. UNCHANGED status
        BY <1>3, EditsLeave DEF row
    <2>1. CASE UNCHANGED <<enabled, consecutive_failures, streak, survived>>
        BY <1>1, <2>1 DEF BreakerInv, EachFailureCountsOnce
    <2>2. CASE update_subscription(e) /\ edit[e].resets
        BY <2>2, CountReset DEF update_subscription
    <2>3. CASE update_subscription(e) /\ ~edit[e].resets
        <3>1. UNCHANGED <<consecutive_failures, streak>> /\ enabled' = edit[e].on
            BY <2>3 DEF update_subscription
        <3>2. edit[e].on => streak' \subseteq survived'
            BY <2>3 DEF update_subscription
        <3> QED BY <1>1, <3>1, <3>2 DEF BreakerInv, EachFailureCountsOnce
    <2> QED BY <1>3, <2>1, <2>2, <2>3 DEF Edits, get_subscription, EditFails
<1>4. ASSUME NEW w \in Workers, Ending(w)
      PROVE  BreakerInv'
    <2> DEFINE d == worker[w].delivery
    <2>1. PICK s \in {"PENDING"} \cup Terminal : Closes(w, s) /\ Outcome(w, s)
        BY <1>4 DEF Ending
    <2>2. CASE SUCCESS_RESET
        BY <2>2, CountReset DEF SUCCESS_RESET
    <2>3. CASE Owns(w) /\ s \in {"FAILED", "DLQ"} /\ terminal_failure_values(d)
        <3>1. d \in Deliveries /\ status[d] = "PROCESSING" /\ status'[d] \in Terminal
            BY <1>0, <2>1, <2>3, WorkerShape DEF Closes, Owns, Sets, TypeOK, Terminal
        <3>2. d \notin streak /\ IsFiniteSet(streak)
            BY <1>0, <3>1, FS_Subset, WebhookAssumption DEF BreakerInv, Terminal, TypeOK
        <3>3. Cardinality(streak') = Cardinality(streak) + 1
            BY <2>3, <3>2, FS_AddElement DEF terminal_failure_values
        <3>4. /\ consecutive_failures' = consecutive_failures + 1
              /\ enabled' => ~(consecutive_failures + 1 >= BreakerThreshold)
            BY <2>3, Zenon DEF terminal_failure_values, trip_if_due
        <3>5. enabled' => consecutive_failures' < BreakerThreshold
            BY <1>0, <3>4, WebhookAssumption DEF TypeOK
        <3>6. \A e \in streak' : status'[e] \in Terminal
            BY <1>1, <2>3, <3>1 DEF terminal_failure_values
        <3> QED BY <3>3, <3>4, <3>5, <3>6 DEF BreakerInv, EachFailureCountsOnce
    <2> QED BY <1>2, <2>1, <2>2, <2>3 DEF Outcome, Closes
<1> QED BY <1>0, <1>2, <1>3, <1>4, SubscriptionMoves

\* The breaker counts every failed delivery once, and the one that reaches
\* the threshold pauses the subscription, which is on at its threshold only by
\* failures that a re-enable left counted.
THEOREM FailuresAreCounted == Spec => []EachFailureCountsOnce
<1>1. Init => BreakerInv
    <2> SUFFICES ASSUME Init PROVE BreakerInv
        OBVIOUS
    <2>1. consecutive_failures = 0 /\ streak = {}
        BY DEF Init
    <2> QED BY <2>1, FS_EmptySet, WebhookAssumption DEF BreakerInv, EachFailureCountsOnce
<1>2. BreakerInv => EachFailureCountsOnce
    BY DEF BreakerInv
<1> QED BY <1>1, <1>2, TypeInit, TypeStep, BreakerStep, PTL DEF Spec


(***************************************************************************)
(* Refinement of AtLeastOnce.                                              *)
(***************************************************************************)
Open == {"PENDING", "SENDING", "PROCESSING"}

\* The moves of a row that AtLeastOnce knows.
Lawful(d, s) ==
    \/ status[d] = "absent" /\ s = "PENDING"
    \/ status[d] \in Open /\ s \in Open \cup {"FAILED", "DLQ"}
    \/ status[d] \in Open /\ s = "SUCCESS" /\ d \in answered

\* The end of an attempt moves the row of a worker lawfully.
LEMMA EndingIsLawful ==
    ASSUME TypeOK, AnswerInv, NEW w \in Workers, Ending(w)
    PROVE  /\ UNCHANGED answered
           /\ \/ UNCHANGED status
              \/ \E d \in Deliveries, s \in Status : Lawful(d, s) /\ \E t : Sets(d, s, t)
<1>1. PICK s \in {"PENDING"} \cup Terminal : Closes(w, s) /\ Outcome(w, s)
    BY DEF Ending
<1>2. Busy(w) /\ worker[w].delivery \in Deliveries /\ UNCHANGED answered
    BY <1>1, WorkerShape DEF Closes
<1>3. CASE Owns(w)
    <2>1. Sets(worker[w].delivery, s, NoToken) /\ status[worker[w].delivery] \in Open
        BY <1>1, <1>3 DEF Closes, Owns, Open
    <2>2. s = "SUCCESS" => worker[w].delivery \in answered
        BY <1>1, <1>2 DEF Outcome, AnswerInv
    <2>3. s \in Status
        BY DEF Status, Terminal
    <2>4. Lawful(worker[w].delivery, s)
        BY <2>1, <2>2 DEF Lawful, Open, Terminal
    <2> QED BY <1>2, <2>1, <2>3, <2>4
<1>4. CASE ~Owns(w)
    BY <1>1, <1>2, <1>4 DEF Closes
<1> QED BY <1>3, <1>4

\* Every step but a request leaves the good answers alone and moves at most
\* one row, lawfully.
LEMMA RowsMoveLawfully ==
    ASSUME TypeOK, AnswerInv, [Next]_vars
    PROVE  \/ UNCHANGED status /\ \E w \in Workers, result \in Result : Post(w, result)
           \/ UNCHANGED <<status, answered>>
           \/ /\ UNCHANGED answered
              /\ \E d \in Deliveries, s \in Status : Lawful(d, s) /\ \E t : Sets(d, s, t)
<1>1. ASSUME NEW d \in Deliveries, emit_event(d) \/ \E o \in Deliveries : replay_delivery(d, o)
      PROVE  UNCHANGED answered /\ Sets(d, "PENDING", NoToken) /\ Lawful(d, "PENDING")
    BY <1>1 DEF emit_event, replay_delivery, Lawful
<1>2. ASSUME NEW d \in Deliveries, NEW r \in Relays, claim_pending_webhook_dispatches(r, d)
      PROVE  UNCHANGED answered /\ \E s \in Status : Lawful(d, s) /\ \E t : Sets(d, s, t)
    <2>1. status[d] \in Open /\ UNCHANGED answered
        BY <1>2 DEF claim_pending_webhook_dispatches, Lapsed, Open
    <2>2. \E s \in {"FAILED", "SENDING"} : \E t : Sets(d, s, t)
        BY <1>2 DEF claim_pending_webhook_dispatches
    <2> QED BY <2>1, <2>2 DEF Lawful, Open, Status
<1>3. ASSUME NEW d \in Deliveries, NEW w \in Workers, ClaimFirst(w, d) \/ ClaimPublished(w, d)
      PROVE  UNCHANGED answered /\ \E s \in Status : Lawful(d, s) /\ \E t : Sets(d, s, t)
    <2>1. UNCHANGED answered /\ status[d] \in Open /\ \E t : Sets(d, "PROCESSING", t)
        BY <1>3 DEF ClaimFirst, ClaimPublished, Claims, Open
    <2> QED BY <2>1 DEF Lawful, Open, Status
<1>4. ASSUME NEW r \in Relays, PublishRaises(r)
      PROVE  /\ UNCHANGED answered
             /\ \/ UNCHANGED status
                \/ \E d \in Deliveries, s \in Status : Lawful(d, s) /\ \E t : Sets(d, s, t)
    <2>1. relay[r].delivery \in Deliveries /\ UNCHANGED answered
        BY <1>4, RelayShape DEF PublishRaises
    <2>2. \/ UNCHANGED status
          \/ /\ status[relay[r].delivery] = "SENDING"
             /\ \E s \in {"FAILED", "PENDING"} : \E t : Sets(relay[r].delivery, s, t)
        BY <1>4 DEF PublishRaises
    <2> QED BY <2>1, <2>2 DEF Lawful, Open, Status
<1>5. ASSUME NEW w \in Workers, NEW result \in Result, Post(w, result)
      PROVE  UNCHANGED status
    BY <1>5 DEF Post, row
<1>6. CASE \/ \E r \in Relays : PublishCopy(r) \/ RelayDies(r)
           \/ \E c \in copies : LoseCopy(c)
           \/ \E w \in Workers : CountAttempt(w) \/ WorkerDies(w)
           \/ \E e \in Editors : Edits(e)
           \/ UNCHANGED vars
    BY <1>6, EditsLeave DEF PublishCopy, RelayDies, LoseCopy, CountAttempt, WorkerDies, vars, row
<1>7. "PENDING" \in Status
    BY DEF Status
<1> QED BY <1>1, <1>2, <1>3, <1>4, <1>5, <1>6, <1>7, EndingIsLawful, Steps

\* No row disappears, and no good answer is forgotten.
LEMMA NothingVanishes ==
    ASSUME TypeOK, AnswerInv, [Next]_vars
    PROVE  /\ answered \subseteq answered'
           /\ \A e \in Deliveries : status[e] # "absent" => status'[e] # "absent"
<1>1. answered \subseteq answered'
    BY RowsMoveLawfully DEF Post
<1>2. ASSUME NEW d \in Deliveries, NEW s \in Status, NEW t, Sets(d, s, t), Lawful(d, s),
             NEW e \in Deliveries, status[e] # "absent"
      PROVE  status'[e] # "absent"
    BY <1>2 DEF Sets, Lawful, Open, TypeOK
<1> QED BY <1>1, <1>2, RowsMoveLawfully

\* A busy worker was as busy before, or has just claimed its row, counted its
\* attempt or had its answer.
LEMMA AnswerStep == AnswerInv /\ TypeOK /\ TypeOK' /\ [Next]_vars => AnswerInv'
<1> SUFFICES ASSUME AnswerInv, TypeOK, TypeOK', [Next]_vars,
                    NEW w \in Workers, Busy(w)'
             PROVE  /\ status'[worker'[w].delivery] # "absent"
                    /\ worker'[w].phase = "answered" /\ worker'[w].result = "ok"
                          => worker'[w].delivery \in answered'
    BY DEF AnswerInv
<1>1. CASE worker'[w] = worker[w]
    BY <1>1, NothingVanishes, WorkerShape DEF AnswerInv, Busy
<1>2. CASE worker'[w] # worker[w]
    <2> DEFINE Moves(v, x) ==
              /\ worker' = [worker EXCEPT ![v] = x]
              /\ x # Idle =>
                    \/ \E d \in Deliveries : ClaimFirst(v, d) \/ ClaimPublished(v, d)
                    \/ CountAttempt(v)
                    \/ \E result \in Result : Post(v, result)
    <2>0. \E v \in Workers : \E x : Moves(v, x)
        <3>1. CASE \E v \in Workers : Ending(v) \/ WorkerDies(v)
            BY <3>1 DEF Ending, Closes, WorkerDies
        <3>2. CASE \E v \in Workers : CountAttempt(v)
            BY <3>2 DEF CountAttempt, MovesTo
        <3>3. CASE \E v \in Workers, result \in Result : Post(v, result)
            BY <3>3 DEF Post
        <3>4. CASE \E d \in Deliveries, v \in Workers : ClaimFirst(v, d) \/ ClaimPublished(v, d)
            BY <3>4 DEF ClaimFirst, ClaimPublished, Claims
        <3>5. CASE \/ \E d \in Deliveries : \/ emit_event(d)
                                            \/ \E o \in Deliveries : replay_delivery(d, o)
                   \/ \E d \in Deliveries, r \in Relays : claim_pending_webhook_dispatches(r, d)
                   \/ \E r \in Relays : PublishCopy(r) \/ PublishRaises(r) \/ RelayDies(r)
                   \/ \E c \in copies : LoseCopy(c)
                   \/ \E e \in Editors : Edits(e)
                   \/ UNCHANGED vars
            <4>1. UNCHANGED worker
                BY <3>5, EditsLeave
                   DEF emit_event, replay_delivery, claim_pending_webhook_dispatches,
                       PublishCopy, PublishRaises, RelayDies, LoseCopy, vars
            <4> QED BY <1>2, <4>1
        <3> QED BY <3>1, <3>2, <3>3, <3>4, <3>5, Steps
    <2>1. PICK v \in Workers : \E x : Moves(v, x)
        BY <2>0
    <2>1a. PICK x : Moves(v, x)
        BY <2>1
    <2>2. v = w /\ worker'[w] = x /\ x # Idle
        BY <1>2, <2>1a DEF TypeOK, Busy
    <2>3. ASSUME NEW d \in Deliveries, ClaimFirst(w, d) \/ ClaimPublished(w, d)
          PROVE  /\ worker'[w].phase = "claimed" /\ worker'[w].delivery = d
                 /\ status'[d] # "absent"
        BY <2>3 DEF ClaimFirst, ClaimPublished, Claims, Sets, TypeOK
    <2>4. ASSUME CountAttempt(w)
          PROVE  /\ worker'[w].phase = "posting" /\ worker'[w].delivery = worker[w].delivery
                 /\ Busy(w)
        <3>1. worker[w] \in [phase : {"claimed", "posting"}, delivery : Deliveries, token : Nat]
            BY <2>4 DEF TypeOK, CountAttempt, Phase, ActiveWorker, Idle
        <3>2. worker' = [worker EXCEPT ![w].phase = "posting"]
            BY <2>2, <2>4 DEF CountAttempt, MovesTo, TypeOK, Busy
        <3> QED BY <2>4, <3>1, <3>2, WorkerShape DEF TypeOK, CountAttempt, Phase
    <2>5. ASSUME NEW result \in Result, Post(w, result)
          PROVE  /\ worker'[w].delivery = worker[w].delivery /\ worker'[w].result = result
                 /\ Busy(w)
                 /\ result = "ok" => worker[w].delivery \in answered'
        BY <2>5, WorkerShape DEF Post, Phase, TypeOK
    <2>6. CASE \E d \in Deliveries : ClaimFirst(w, d) \/ ClaimPublished(w, d)
        BY <2>3, <2>6
    <2>7. CASE CountAttempt(w)
        BY <2>4, <2>7, NothingVanishes, WorkerShape DEF AnswerInv
    <2>8. CASE \E result \in Result : Post(w, result)
        BY <2>5, <2>8, NothingVanishes, WorkerShape DEF AnswerInv
    <2> QED BY <2>1a, <2>2, <2>6, <2>7, <2>8
<1> QED BY <1>1, <1>2

\* What a row stands for as an item of AtLeastOnce.
Meaning(s) ==
    IF s = "absent" THEN "none"
    ELSE IF s = "SUCCESS" THEN "done"
    ELSE IF s \in {"FAILED", "DLQ"} THEN "dead"
    ELSE "open"

\* The refinement mapping, row by row, before and after a step.
LEMMA StateIsMeaning ==
    /\ \A d \in Deliveries : state[d] = Meaning(status[d])
    /\ \A d \in Deliveries : state'[d] = Meaning(status'[d])
BY DEF state, Meaning

\* A lawful move is a step of AtLeastOnce or none.
LEMMA LawfulIsAllowed ==
    ASSUME TypeOK, NEW d \in Deliveries, NEW s \in Status, NEW t, Sets(d, s, t), Lawful(d, s),
           UNCHANGED answered
    PROVE  Outbox!Next \/ UNCHANGED <<state, answered>>
<1>1. status'[d] = s /\ \A e \in Deliveries \ {d} : status'[e] = status[e]
    BY DEF Sets, TypeOK
<1>2. ASSUME NEW from, NEW to, Meaning(status[d]) = from, Meaning(s) = to
      PROVE  Outbox!Moves({d}, from, to)
    <2>1. \A e \in {d} : state[e] = from
        BY <1>2, StateIsMeaning
    <2>2. state' = [e \in Deliveries |-> IF e \in {d} THEN to ELSE state[e]]
        BY <1>1, <1>2, StateIsMeaning DEF state
    <2> QED BY <2>1, <2>2 DEF Outbox!Moves
<1>3. {d} \in SUBSET Deliveries
    OBVIOUS
<1>4. CASE status[d] = "absent" /\ s = "PENDING"
    <2>1. Outbox!Moves({d}, "none", "open")
        BY <1>2, <1>4 DEF Meaning
    <2> QED BY <1>3, <2>1 DEF Outbox!Next, Outbox!Create
<1>5. CASE status[d] \in Open /\ s \in {"FAILED", "DLQ"}
    <2>1. Outbox!Moves({d}, "open", "dead")
        BY <1>2, <1>5 DEF Meaning, Open
    <2> QED BY <1>3, <2>1 DEF Outbox!Next, Outbox!GiveUp
<1>6. CASE status[d] \in Open /\ s = "SUCCESS" /\ d \in answered
    <2>1. Outbox!Moves({d}, "open", "done")
        BY <1>2, <1>6 DEF Meaning, Open
    <2>2. {d} \subseteq answered
        BY <1>6
    <2> QED BY <1>3, <2>1, <2>2 DEF Outbox!Next, Outbox!Finish
<1>7. CASE status[d] \in Open /\ s \in Open
    <2>1. \A e \in Deliveries : Meaning(status'[e]) = Meaning(status[e])
        BY <1>1, <1>7 DEF Meaning, Open
    <2>2. state' = state
        BY <2>1, StateIsMeaning DEF state
    <2> QED BY <2>2
<1> QED BY <1>4, <1>5, <1>6, <1>7 DEF Lawful

\* Every step of the webhooks is a step of AtLeastOnce or a stutter.
LEMMA StepRefines ==
    TypeOK /\ AnswerInv /\ [Next]_vars => [Outbox!Next]_<<state, answered>>
<1> SUFFICES ASSUME TypeOK, AnswerInv, [Next]_vars
             PROVE  Outbox!Next \/ UNCHANGED <<state, answered>>
    OBVIOUS
<1>1. UNCHANGED status => UNCHANGED state
    BY DEF state
<1>2. ASSUME NEW w \in Workers, NEW result \in Result, Post(w, result), UNCHANGED status
      PROVE  Outbox!Next \/ UNCHANGED <<state, answered>>
    <2>1. CASE result = "ok"
        <3>1. /\ worker[w].delivery \in Deliveries
              /\ status[worker[w].delivery] # "absent"
            BY <1>2, WorkerShape DEF Post, Phase, AnswerInv
        <3>2. state[worker[w].delivery] # "none"
            BY <3>1, StateIsMeaning DEF Meaning
        <3>3. answered' = answered \cup {worker[w].delivery}
            BY <1>2, <2>1 DEF Post
        <3>4. Outbox!Perform(worker[w].delivery)
            BY <1>1, <1>2, <3>2, <3>3 DEF Outbox!Perform
        <3> QED BY <3>1, <3>4 DEF Outbox!Next
    <2>2. CASE result # "ok"
        BY <1>1, <1>2, <2>2 DEF Post
    <2> QED BY <2>1, <2>2
<1> QED BY <1>1, <1>2, LawfulIsAllowed, RowsMoveLawfully

\* The webhooks implement AtLeastOnce: a success is only recorded of a
\* delivery the receiver accepted, and a delivery that ended stays as it ended
\* (deliver, _transition_processing_delivery, the relay).
THEOREM WebhooksImplementAtLeastOnce == Spec => ImplementsAtLeastOnce
<1>1. Init => Outbox!Init
    BY DEF Init, Outbox!Init, state
<1>2. Init => AnswerInv
    BY DEF Init, AnswerInv, Busy
<1> QED BY <1>1, <1>2, AnswerStep, StepRefines, TypeCorrect, PTL
        DEF Spec, ImplementsAtLeastOnce, Outbox!Spec
=============================================================================
