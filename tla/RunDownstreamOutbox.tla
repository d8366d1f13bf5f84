------------------------ MODULE RunDownstreamOutbox ------------------------
(***************************************************************************)
(* The transactional outbox behind a finished test run                     *)
(* (backend/app/services/run_downstream_outbox.py), its publishers (the    *)
(* relay tick and worker/downstream_dispatch.py), the broker, the tracked  *)
(* consumers (worker/tasks.py, DownstreamTrackedTask) and the readiness    *)
(* gate of finalize_run (services/ingestion_pipeline.py).                  *)
(*                                                                         *)
(* Every action is one committed database transaction, one broker call or  *)
(* one failure of a process between two of them.  Each transaction locks   *)
(* the row it decides on (SELECT ... FOR UPDATE), so it is atomic here.    *)
(*                                                                         *)
(* Abstractions.                                                           *)
(*  - An intent stands for one row (run, operation, input_version); its    *)
(*    payload, queue, priority and error texts are left out.               *)
(*  - lease_expires_at and next_attempt_at always carry the same deadline  *)
(*    when both are set, and each status reads one of them: "deadline"     *)
(*    says whether it lies ahead or has passed (NULL counts as passed; of  *)
(*    a completed or failed row nobody reads it and it stays "ahead").     *)
(*    Elapse is the passing of time.                                       *)
(*  - A publisher is one claimed row in the hands of a relay tick or of    *)
(*    publish_staged_now; a batch of n rows is n publishers.               *)
(*  - "attempts" of a dispatched row only scales a backoff; it is kept     *)
(*    for waiting rows, where it decides.                                  *)
(*  - The broker is a set of (intent, token) copies: a copy may be         *)
(*    delivered any number of times (late acks, visibility timeout,        *)
(*    republication) or lost.                                              *)
(***************************************************************************)
EXTENDS Naturals, FiniteSets

CONSTANTS
    Runs,             \* test runs
    Intents,          \* outbox rows that may ever be staged
    RunOf,            \* the run of each intent
    Children,         \* intents staged by a finalization (the gated ones)
    LiveClose,        \* intents a session close publishes at once
    Publishers,       \* claimed rows that may be in flight at the same time
    Workers,          \* Celery worker slots
    Finalizers,       \* processes that may run finalize_run
    MAX_DISPATCH_ATTEMPTS,
    MAX_EXECUTION_ATTEMPTS,
    MAX_FINALIZATION_RECOVERY_ATTEMPTS,
    MaxRequeues,      \* bound: operator requeues of one intent
    TimeLimits        \* Celery kills a task before the lease it took expires

ASSUME OutboxAssumption ==
    /\ RunOf \in [Intents -> Runs]
    /\ Children \subseteq Intents
    /\ LiveClose \subseteq Intents
    /\ MAX_DISPATCH_ATTEMPTS \in Nat \ {0}
    /\ MAX_EXECUTION_ATTEMPTS \in Nat \ {0}
    /\ MAX_FINALIZATION_RECOVERY_ATTEMPTS \in Nat \ {0}
    /\ MaxRequeues \in Nat
    /\ TimeLimits \in BOOLEAN

VARIABLES
    status, deadline, token,   \* the columns of the outbox table
    dispatch_failures, execution_attempts, attempts,
    minted,      \* per run, how many uuid4 tokens were drawn for its rows
    queue,       \* per intent, the tokens of the copies in the broker
    job,         \* what each publisher holds
    work,        \* what each worker executes
    fin,         \* what each finalizer does
    armed,       \* per intent, the finalizers that were alive when the deadline
                 \* of its waiting row was set and still are
    finalized,   \* history: runs one finalization of which reached its end
    requeues,    \* history: how often an operator requeued each intent
    fence,       \* history: the run's minted tokens at the last requeue
    worked       \* history: tokens under which the business work was finished

counters == <<dispatch_failures, execution_attempts, attempts>>
table == <<status, deadline, token, counters>>
gate == <<fin, armed>>
history == <<finalized, requeues, fence, worked>>
vars == <<table, minted, queue, job, work, gate, history>>

Status == {"absent", "waiting", "pending", "sending", "published",
           "processing", "completed", "failed"}
NoToken == 0
IdleJob == [phase |-> "idle"]
IdleWork == [phase |-> "idle"]
IdleFin == [phase |-> "idle"]

ActiveJob == [phase : {"claimed", "sent", "raised"}, kind : {"relay", "now"},
              intent : Intents, token : Nat]
ActiveWork == [phase : {"running", "finished"}, intent : Intents, token : Nat]
ActiveFin == [phase : {"claimed", "steps", "raised"}, run : Runs, token : Nat]

\* A column with the value v in the rows of S.
Put(column, S, v) == [i \in Intents |-> IF i \in S THEN v ELSE column[i]]

(***************************************************************************)
(* Staging (stage_downstream_operation): ON CONFLICT DO NOTHING, so only   *)
(* absent rows are inserted, with a NULL token and zero counters.          *)
(***************************************************************************)
New(S) == {i \in S : status[i] = "absent"}

stage_downstream_operation(S, initial_status) ==
    /\ status' = Put(status, New(S), initial_status)
    /\ deadline' = Put(deadline, New(S),
                       IF initial_status = "waiting" THEN "ahead" ELSE "passed")
    /\ UNCHANGED <<token, counters>>

ChildrenOf(run) == {i \in Children : RunOf[i] = run}
WaitingOf(run) == {i \in Intents : RunOf[i] = run /\ status[i] = "waiting"}
DueWaitingOf(run) == {i \in WaitingOf(run) : deadline[i] = "passed"}

\* A transaction that stages one directly dispatchable intent: a session
\* close, the AI summary of a pipeline, the re-post of an accepted report.
StageIntent(i) ==
    /\ i \notin Children
    /\ status[i] = "absent"
    /\ stage_downstream_operation({i}, "pending")
    /\ UNCHANGED <<minted, queue, job, work, gate, history>>

\* The sentinel path ends its own processing and stages the children ready
\* in one transaction.
process_sentinel(run) ==
    /\ \E S \in SUBSET ChildrenOf(run) :
          New(S) # {} /\ stage_downstream_operation(S, "pending")
    /\ finalized' = finalized \cup {run}
    /\ UNCHANGED <<minted, queue, job, work, gate, requeues, fence, worked>>

(***************************************************************************)
(* finalize_run: step 1 stages the children "waiting", the isolated steps  *)
(* follow, the last transaction opens the gate.  The same code runs in an  *)
(* ingestion task (no token) and in the recovery task (its token).         *)
(***************************************************************************)
Alive(f) == {g \in Finalizers : g = f \/ fin[g].phase # "idle"}

GoIdle(f) ==
    /\ fin' = [fin EXCEPT ![f] = IdleFin]
    /\ armed' = [i \in Intents |-> armed[i] \ {f}]

\* Mutant: the children are staged ready, ahead of the steps.
StageChildrenReady(f, run, t) ==
    \E S \in SUBSET ChildrenOf(run) :
        /\ S # {}
        /\ stage_downstream_operation(S, "pending")
        /\ armed' = armed
        /\ fin' = [fin EXCEPT ![f] = [phase |-> "steps", run |-> run, token |-> t]]

stage_finalize_operations(f, run, t) ==
    \E S \in SUBSET ChildrenOf(run) :
        /\ S # {}
        /\ stage_downstream_operation(S, "waiting")
        /\ armed' = Put(armed, New(S), Alive(f))
        /\ fin' = [fin EXCEPT ![f] = [phase |-> "steps", run |-> run, token |-> t]]

finalize_run(f, run) ==
    /\ fin[f].phase = "idle"
    /\ stage_finalize_operations(f, run, NoToken)
    /\ UNCHANGED <<minted, queue, job, work, history>>

\* The recovery task enters finalize_run for a run it has claimed.
RecoveryFinalizes(f) ==
    /\ fin[f].phase = "claimed"
    /\ stage_finalize_operations(f, fin[f].run, fin[f].token)
    /\ UNCHANGED <<minted, queue, job, work, history>>

activate_finalize_operations(f) ==
    LET W == WaitingOf(fin[f].run) IN
    /\ fin[f].phase = "steps"
    /\ status' = Put(status, W, "pending")
    /\ deadline' = Put(deadline, W, "passed")
    /\ token' = Put(token, W, NoToken)
    /\ attempts' = Put(attempts, W, 0)
    /\ finalized' = finalized \cup {fin[f].run}
    /\ GoIdle(f)
    /\ UNCHANGED <<dispatch_failures, execution_attempts, minted, queue, job, work,
                   requeues, fence, worked>>

\* An exception of finalize_run: the ingestion task ends (Celery may start it
\* again), the recovery task goes on to release its lease.
FinalizeRaises(f) ==
    /\ fin[f].phase \in {"claimed", "steps"}
    /\ IF fin[f].token = NoToken
       THEN GoIdle(f)
       ELSE /\ fin' = [fin EXCEPT ![f].phase = "raised"]
            /\ UNCHANGED armed
    /\ UNCHANGED <<table, minted, queue, job, work, history>>

\* The process of a finalizer dies or is killed by its time limit.
FinalizerDies(f) ==
    /\ fin[f].phase # "idle"
    /\ GoIdle(f)
    /\ UNCHANGED <<table, minted, queue, job, work, history>>

(***************************************************************************)
(* Recovery of a gate left behind by a lost worker.  The run row is locked *)
(* (SKIP LOCKED), all its waiting rows get one token and one deadline.     *)
(***************************************************************************)
\* n is the largest number of recoveries spent by the rows of S.
SpentAttempts(n, S) ==
    /\ \E i \in S : attempts[i] = n
    /\ \A i \in S : attempts[i] <= n

\* Mutant: a gate whose recoveries are spent is skipped.
SkipSpentGate(run) == UNCHANGED <<table, minted, gate>>

\* All waiting rows of the run fail when their recoveries are spent.
ExhaustRecovery(run) ==
    /\ status' = Put(status, WaitingOf(run), "failed")
    /\ token' = Put(token, WaitingOf(run), NoToken)
    /\ UNCHANGED <<deadline, counters, minted, gate>>

\* Mutant: the claim leases the due rows only.
LeaseDueRows(f, run, spent) ==
    LET W == DueWaitingOf(run)
        t == minted[run] + 1
    IN  /\ token' = Put(token, W, t)
        /\ deadline' = Put(deadline, W, "ahead")
        /\ attempts' = Put(attempts, W, spent + 1)
        /\ armed' = Put(armed, W, Alive(f))
        /\ minted' = [minted EXCEPT ![run] = t]
        /\ fin' = [fin EXCEPT ![f] = [phase |-> "claimed", run |-> run, token |-> t]]
        /\ UNCHANGED <<status, dispatch_failures, execution_attempts>>

LeaseWaitingRows(f, run, spent) ==
    LET W == WaitingOf(run)
        t == minted[run] + 1
    IN  /\ token' = Put(token, W, t)
        /\ deadline' = Put(deadline, W, "ahead")
        /\ attempts' = Put(attempts, W, spent + 1)
        /\ armed' = Put(armed, W, Alive(f))
        /\ minted' = [minted EXCEPT ![run] = t]
        /\ fin' = [fin EXCEPT ![f] = [phase |-> "claimed", run |-> run, token |-> t]]
        /\ UNCHANGED <<status, dispatch_failures, execution_attempts>>

claim_waiting_finalizations(f, run) ==
    /\ fin[f].phase = "idle"
    /\ DueWaitingOf(run) # {}
    /\ \E spent \in 0 .. MAX_FINALIZATION_RECOVERY_ATTEMPTS :
          /\ SpentAttempts(spent, DueWaitingOf(run))
          /\ IF spent >= MAX_FINALIZATION_RECOVERY_ATTEMPTS
             THEN ExhaustRecovery(run)
             ELSE LeaseWaitingRows(f, run, spent)
    /\ UNCHANGED <<queue, job, work, history>>

\* The release of a failed recovery: only the rows that still carry its
\* token.  The backoff is shorter than a task may run: nothing holds it back.
mark_waiting_finalization_recovery_failed(f) ==
    LET W == {i \in WaitingOf(fin[f].run) : token[i] = fin[f].token} IN
    /\ fin[f].phase = "raised"
    /\ token' = Put(token, W, NoToken)
    /\ deadline' = Put(deadline, W, "ahead")
    /\ fin' = [fin EXCEPT ![f] = IdleFin]
    /\ armed' = [i \in Intents |-> IF i \in W THEN {} ELSE armed[i] \ {f}]
    /\ UNCHANGED <<status, counters, minted, queue, job, work, history>>

(***************************************************************************)
(* Claiming a row for publication.                                         *)
(***************************************************************************)
\* Mutant: the relay does not look at rows a dead worker left processing.
IgnoreDeadWorkers(i) ==
    /\ deadline[i] = "passed"
    /\ status[i] \in {"pending", "sending", "published"}

Dispatchable(i) ==
    /\ deadline[i] = "passed"
    /\ status[i] \in {"pending", "sending", "published", "processing"}

NeedsToken(i) == status[i] = "processing" \/ token[i] = NoToken

Exhausted(i) ==
    /\ status[i] = "pending"
    /\ dispatch_failures[i] >= MAX_DISPATCH_ATTEMPTS

\* The claim transition shared by the relay and the immediate publish: a
\* fresh token only for a new publication or after a dead worker.
_lease_for_dispatch(p, i, kind) ==
    LET t == IF NeedsToken(i) THEN minted[RunOf[i]] + 1 ELSE token[i]
    IN  /\ deadline' = Put(deadline, {i}, "ahead")
        /\ UNCHANGED counters
        /\ IF Exhausted(i)
           THEN /\ status' = Put(status, {i}, "failed")
                /\ UNCHANGED <<token, minted, job>>
           ELSE /\ status' = Put(status, {i}, "sending")
                /\ token' = Put(token, {i}, t)
                /\ minted' = [minted EXCEPT ![RunOf[i]] = IF NeedsToken(i) THEN t ELSE @]
                /\ job' = [job EXCEPT ![p] = [phase |-> "claimed", kind |-> kind,
                                              intent |-> i, token |-> t]]

claim_downstream_dispatches(p, i) ==
    /\ job[p].phase = "idle"
    /\ Dispatchable(i)
    /\ _lease_for_dispatch(p, i, "relay")
    /\ UNCHANGED <<queue, work, gate, history>>

claim_staged_dispatches(p, i) ==
    /\ job[p].phase = "idle"
    /\ i \in LiveClose
    /\ Dispatchable(i) /\ status[i] = "pending"
    /\ _lease_for_dispatch(p, i, "now")
    /\ UNCHANGED <<queue, work, gate, history>>

(***************************************************************************)
(* Publishing and marking.  Between the claim, the broker call and the     *)
(* mark the publisher holds no lock and may die.                           *)
(***************************************************************************)
Enqueued(p) == [queue EXCEPT ![job[p].intent] = @ \cup {job[p].token}]

_publish_downstream(p) ==
    /\ job[p].phase = "claimed"
    /\ queue' = Enqueued(p)
    /\ job' = [job EXCEPT ![p].phase = "sent"]
    /\ UNCHANGED <<table, minted, work, gate, history>>

\* The broker call raises, with or without having accepted the message.
PublishRaises(p) ==
    /\ job[p].phase = "claimed"
    /\ job[p].kind = "relay"
    /\ queue' \in {queue, Enqueued(p)}
    /\ job' = [job EXCEPT ![p].phase = "raised"]
    /\ UNCHANGED <<table, minted, work, gate, history>>

\* The transaction of the mark raises after the message was sent.
MarkRaises(p) ==
    /\ job[p].phase = "sent"
    /\ job[p].kind = "relay"
    /\ job' = [job EXCEPT ![p].phase = "raised"]
    /\ UNCHANGED <<table, minted, queue, work, gate, history>>

\* The row of the publisher, if it is still sending under the same token.
Sending(p) ==
    {i \in Intents : /\ job[p].phase # "idle" /\ job[p].intent = i
                     /\ token[i] = job[p].token /\ status[i] = "sending"}

\* Mutant: the mark trusts the row as the publisher claimed it (no refresh of
\* the session's object), so a row a consumer has taken is overwritten.
MarkFromStaleRow(p) ==
    LET S == {i \in {job[p].intent} : token[i] = job[p].token} IN
    /\ job[p].phase = "sent"
    /\ status' = Put(status, S, "published")
    /\ deadline' = Put(deadline, S, "ahead")
    /\ job' = [job EXCEPT ![p] = IdleJob]
    /\ UNCHANGED <<token, counters, minted, queue, work, gate, history>>

mark_downstream_dispatch_published(p) ==
    /\ job[p].phase = "sent"
    /\ status' = Put(status, Sending(p), "published")
    /\ deadline' = Put(deadline, Sending(p), "ahead")
    /\ job' = [job EXCEPT ![p] = IdleJob]
    /\ UNCHANGED <<token, counters, minted, queue, work, gate, history>>

mark_downstream_dispatch_failed(p) ==
    LET failures(i) == dispatch_failures[i] + 1 IN
    /\ job[p].phase = "raised"
    /\ dispatch_failures' = [i \in Intents |->
          IF i \in Sending(p) THEN failures(i) ELSE dispatch_failures[i]]
    /\ status' = [i \in Intents |->
          IF i \in Sending(p)
          THEN IF failures(i) >= MAX_DISPATCH_ATTEMPTS THEN "failed" ELSE "pending"
          ELSE status[i]]
    /\ deadline' = Put(deadline, Sending(p), "ahead")
    /\ job' = [job EXCEPT ![p] = IdleJob]
    /\ UNCHANGED <<token, execution_attempts, attempts, minted, queue, work, gate,
                   history>>

\* The publisher dies, or publish_staged_now defers to the relay.
PublisherStops(p) ==
    /\ job[p].phase # "idle"
    /\ job' = [job EXCEPT ![p] = IdleJob]
    /\ UNCHANGED <<table, minted, queue, work, gate, history>>

(***************************************************************************)
(* The tracked consumer.                                                   *)
(***************************************************************************)
Admits(i, t) == token[i] = t /\ status[i] \in {"sending", "published"}

\* Mutant: one execution too many.
AcceptOneTooMany(w, i, t) ==
    /\ execution_attempts[i] <= MAX_EXECUTION_ATTEMPTS
    /\ status' = Put(status, {i}, "processing")
    /\ execution_attempts' = Put(execution_attempts, {i}, execution_attempts[i] + 1)
    /\ work' = [work EXCEPT ![w] = [phase |-> "running", intent |-> i, token |-> t]]

AcceptOrExhaust(w, i, t) ==
    IF execution_attempts[i] + 1 > MAX_EXECUTION_ATTEMPTS
    THEN /\ status' = Put(status, {i}, "failed")
         /\ UNCHANGED <<execution_attempts, work>>
    ELSE /\ status' = Put(status, {i}, "processing")
         /\ execution_attempts' = Put(execution_attempts, {i}, execution_attempts[i] + 1)
         /\ work' = [work EXCEPT ![w] = [phase |-> "running", intent |-> i, token |-> t]]

\* A delivery the row admits: it becomes the execution of the intent, or the
\* row fails because its executions are spent.  The message is acknowledged
\* late, so a copy stays with the broker while the worker runs.
begin_downstream_execution(w, i, t) ==
    /\ work[w].phase = "idle"
    /\ t \in queue[i]
    /\ Admits(i, t)
    /\ AcceptOrExhaust(w, i, t)
    /\ deadline' = Put(deadline, {i}, "ahead")
    /\ UNCHANGED <<token, dispatch_failures, attempts, minted, queue, job, gate, history>>

\* A delivery the row does not admit is acknowledged as a duplicate.
RefuseDelivery(i, t) ==
    /\ t \in queue[i]
    /\ ~Admits(i, t)
    /\ queue' = [queue EXCEPT ![i] = @ \ {t}]
    /\ UNCHANGED <<table, minted, job, work, gate, history>>

\* The broker loses a copy.
LoseMessage(i, t) ==
    /\ t \in queue[i]
    /\ Admits(i, t)
    /\ queue' = [queue EXCEPT ![i] = @ \ {t}]
    /\ UNCHANGED <<table, minted, job, work, gate, history>>

\* The task body returns: its business effects are durable.
BusinessWorkDone(w) ==
    /\ work[w].phase = "running"
    /\ work' = [work EXCEPT ![w].phase = "finished"]
    /\ worked' = [worked EXCEPT ![work[w].intent] = @ \cup {work[w].token}]
    /\ UNCHANGED <<table, minted, queue, job, gate, finalized, requeues, fence>>

Executes(w, i) == work[w].phase # "idle" /\ work[w].intent = i

\* Mutant: the completion fence checks the status and not the token.
HeldUnderAnyToken(w) == {i \in Intents : Executes(w, i) /\ status[i] = "processing"}

\* The row of the worker, if the worker's execution is still the row's own.
Held(w) ==
    {i \in Intents : /\ Executes(w, i)
                     /\ token[i] = work[w].token /\ status[i] = "processing"}

\* The worker leaves its task: the delivery is acknowledged, other copies of
\* the same message may remain.
Acknowledge(w) ==
    /\ work' = [work EXCEPT ![w] = IdleWork]
    /\ queue' \in {queue, [queue EXCEPT ![work[w].intent] = @ \ {work[w].token}]}

\* Mutant: the row is completed when the execution begins its work.
CompleteBeforeWork(w) ==
    /\ work[w].phase = "running"
    /\ status' = Put(status, Held(w), "completed")
    /\ deadline' = Put(deadline, Held(w), "ahead")
    /\ Acknowledge(w)
    /\ UNCHANGED <<token, counters, minted, job, gate, history>>

complete_downstream_execution(w) ==
    /\ work[w].phase = "finished"
    /\ status' = Put(status, Held(w), "completed")
    /\ deadline' = Put(deadline, Held(w), "ahead")
    /\ Acknowledge(w)
    /\ UNCHANGED <<token, counters, minted, job, gate, history>>

fail_downstream_execution(w) ==
    /\ work[w].phase = "running"
    /\ status' = [i \in Intents |->
          IF i \in Held(w)
          THEN IF execution_attempts[i] >= MAX_EXECUTION_ATTEMPTS
               THEN "failed" ELSE "pending"
          ELSE status[i]]
    /\ deadline' = Put(deadline, Held(w), "ahead")
    /\ Acknowledge(w)
    /\ UNCHANGED <<token, counters, minted, job, gate, history>>

defer_downstream_execution(w) ==
    /\ work[w].phase = "running"
    /\ status' = Put(status, Held(w), "pending")
    /\ execution_attempts' = [i \in Intents |->
          IF i \in Held(w) /\ execution_attempts[i] > 0
          THEN execution_attempts[i] - 1 ELSE execution_attempts[i]]
    /\ deadline' = Put(deadline, Held(w), "ahead")
    /\ Acknowledge(w)
    /\ UNCHANGED <<token, dispatch_failures, attempts, minted, job, gate, history>>

\* The worker process is lost; the unacknowledged message stays.
WorkerDies(w) ==
    /\ work[w].phase # "idle"
    /\ work' = [work EXCEPT ![w] = IdleWork]
    /\ UNCHANGED <<table, minted, queue, job, gate, history>>

(***************************************************************************)
(* Operator and time.                                                      *)
(***************************************************************************)
ResetRow(i) ==
    /\ attempts' = Put(attempts, {i}, 0)
    /\ dispatch_failures' = Put(dispatch_failures, {i}, 0)
    /\ execution_attempts' = Put(execution_attempts, {i}, 0)
    /\ token' = Put(token, {i}, NoToken)

requeue_failed_downstream_operations(i) ==
    /\ status[i] = "failed"
    /\ requeues[i] < MaxRequeues
    /\ status' = Put(status, {i}, "pending")
    /\ deadline' = Put(deadline, {i}, "passed")
    /\ ResetRow(i)
    /\ requeues' = [requeues EXCEPT ![i] = @ + 1]
    /\ fence' = [fence EXCEPT ![i] = minted[RunOf[i]]]
    /\ UNCHANGED <<minted, queue, job, work, gate, finalized, worked>>

\* A deadline passes.  With TimeLimits, not before every task that was alive
\* when it was set has ended: EXECUTION_LEASE_SECONDS and the FINALIZATION_
\* RECOVERY deadlines (2100 s) exceed the hard task limit (1860 s).
Elapse(i) ==
    /\ status[i] \in {"waiting", "pending", "sending", "published", "processing"}
    /\ deadline[i] = "ahead"
    /\ TimeLimits =>
          /\ status[i] = "processing" => ~\E w \in Workers : Executes(w, i)
          /\ status[i] = "waiting" => armed[i] = {}
    /\ deadline' = Put(deadline, {i}, "passed")
    /\ UNCHANGED <<status, token, counters, minted, queue, job, work, gate, history>>

(***************************************************************************)
(* The specification.                                                      *)
(***************************************************************************)
Init ==
    /\ status = [i \in Intents |-> "absent"]
    /\ deadline = [i \in Intents |-> "ahead"]
    /\ token = [i \in Intents |-> NoToken]
    /\ dispatch_failures = [i \in Intents |-> 0]
    /\ execution_attempts = [i \in Intents |-> 0]
    /\ attempts = [i \in Intents |-> 0]
    /\ minted = [r \in Runs |-> 0]
    /\ queue = [i \in Intents |-> {}]
    /\ job = [p \in Publishers |-> IdleJob]
    /\ work = [w \in Workers |-> IdleWork]
    /\ fin = [f \in Finalizers |-> IdleFin]
    /\ armed = [i \in Intents |-> {}]
    /\ finalized = {}
    /\ requeues = [i \in Intents |-> 0]
    /\ fence = [i \in Intents |-> 0]
    /\ worked = [i \in Intents |-> {}]

FinalizerStep(f) ==
    \/ \E run \in Runs : finalize_run(f, run) \/ claim_waiting_finalizations(f, run)
    \/ RecoveryFinalizes(f)
    \/ activate_finalize_operations(f)
    \/ FinalizeRaises(f)
    \/ FinalizerDies(f)
    \/ mark_waiting_finalization_recovery_failed(f)

PublisherStep(p) ==
    \/ \E i \in Intents : claim_downstream_dispatches(p, i) \/ claim_staged_dispatches(p, i)
    \/ _publish_downstream(p)
    \/ PublishRaises(p)
    \/ MarkRaises(p)
    \/ mark_downstream_dispatch_published(p)
    \/ mark_downstream_dispatch_failed(p)
    \/ PublisherStops(p)

WorkerStep(w) ==
    \/ \E i \in Intents : \E t \in queue[i] : begin_downstream_execution(w, i, t)
    \/ BusinessWorkDone(w)
    \/ complete_downstream_execution(w)
    \/ fail_downstream_execution(w)
    \/ defer_downstream_execution(w)
    \/ WorkerDies(w)

Next ==
    \/ \E i \in Intents : StageIntent(i)
    \/ \E run \in Runs : process_sentinel(run)
    \/ \E f \in Finalizers : FinalizerStep(f)
    \/ \E p \in Publishers : PublisherStep(p)
    \/ \E w \in Workers : WorkerStep(w)
    \/ \E i \in Intents : \E t \in queue[i] : RefuseDelivery(i, t) \/ LoseMessage(i, t)
    \/ \E i \in Intents : requeue_failed_downstream_operations(i) \/ Elapse(i)

Spec == Init /\ [][Next]_vars

(***************************************************************************)
(* Fairness.  Time passes; beat starts the relay and the recovery every    *)
(* minute, so a row that is due again and again is claimed; processes end  *)
(* (hard task limits); a row that is published again and again is in the   *)
(* end accepted and delivered by the broker; an execution that is tried    *)
(* again and again in the end returns or raises something other than a     *)
(* deferral.  Crashes, losses and failures stay possible at every step.    *)
(***************************************************************************)
PublisherEnds(p) ==
    \/ mark_downstream_dispatch_published(p)
    \/ mark_downstream_dispatch_failed(p)
    \/ PublisherStops(p)

ExecutionReturns(i) ==
    \E w \in Workers : /\ Executes(w, i)
                       /\ BusinessWorkDone(w) \/ fail_downstream_execution(w)

WorkerEnds(w) ==
    \/ complete_downstream_execution(w)
    \/ WorkerDies(w)

FinalizerEnds(f) ==
    \/ RecoveryFinalizes(f)
    \/ activate_finalize_operations(f)
    \/ FinalizeRaises(f)
    \/ FinalizerDies(f)
    \/ mark_waiting_finalization_recovery_failed(f)

Fairness ==
    /\ \A i \in Intents :
          /\ WF_vars(Elapse(i))
          /\ SF_vars(\E p \in Publishers : claim_downstream_dispatches(p, i))
          /\ SF_vars(\E p \in Publishers :
                        job[p] # IdleJob /\ job[p].intent = i /\ _publish_downstream(p))
          /\ SF_vars(\E w \in Workers : \E t \in queue[i] :
                        begin_downstream_execution(w, i, t))
          /\ SF_vars(ExecutionReturns(i))
    /\ \A p \in Publishers : WF_vars(PublisherEnds(p))
    /\ \A w \in Workers : WF_vars(WorkerEnds(w))
    /\ \A f \in Finalizers : WF_vars(FinalizerEnds(f))
    /\ \A run \in Runs :
          SF_vars(\E f \in Finalizers : claim_waiting_finalizations(f, run))

FairSpec == Spec /\ Fairness

(***************************************************************************)
(* Safety.                                                                 *)
(***************************************************************************)
\* Type correctness of every variable; the three retry budgets of a row stay
\* within the constants of the service.
TypeOK ==
    /\ status \in [Intents -> Status]
    /\ deadline \in [Intents -> {"ahead", "passed"}]
    /\ token \in [Intents -> Nat]
    /\ dispatch_failures \in [Intents -> 0 .. MAX_DISPATCH_ATTEMPTS]
    /\ execution_attempts \in [Intents -> 0 .. MAX_EXECUTION_ATTEMPTS]
    /\ attempts \in [Intents -> 0 .. MAX_FINALIZATION_RECOVERY_ATTEMPTS]
    /\ minted \in [Runs -> Nat]
    /\ queue \in [Intents -> SUBSET Nat]
    /\ job \in [Publishers -> ActiveJob \cup {IdleJob}]
    /\ work \in [Workers -> ActiveWork \cup {IdleWork}]
    /\ fin \in [Finalizers -> ActiveFin \cup {IdleFin}]
    /\ armed \in [Intents -> SUBSET Finalizers]
    /\ finalized \subseteq Runs
    /\ requeues \in [Intents -> 0 .. MaxRequeues]
    /\ fence \in [Intents -> Nat]
    /\ worked \in [Intents -> SUBSET Nat]

\* Two workers execute one intent at the same time only when one has outlived its
\* lease, and then under different tokens, so at most one of them can still settle
\* the row: begin fences copies with the row's status, no publisher's late mark
\* takes a claimed row back from its consumer, and _lease_for_dispatch says "A
\* dead processing worker gets a fresh token".
OneExecution ==
    \A i \in Intents : \A v, w \in Workers :
        Executes(v, i) /\ Executes(w, i) /\ v # w
            => ~TimeLimits /\ work[v].token # work[w].token

\* The half of it that needs no task limits.
OneTokenPerExecution ==
    \A i \in Intents : \A v, w \in Workers :
        Executes(v, i) /\ Executes(w, i) /\ work[v].token = work[w].token => v = w

\* A completed row was completed under a token whose own execution finished
\* the business work: a stale worker cannot close the row of its successor
\* (complete_downstream_execution).
CompletedByItsOwnWork ==
    \A i \in Intents : status[i] = "completed" => token[i] \in worked[i]

\* After an operator's requeue no message published before it is admitted
\* again: "The claim mints a fresh token, which fences any copy of the failed
\* publication still sitting in a queue".
RequeueFencesOldCopies ==
    \A i \in Intents : \A t \in queue[i] : Admits(i, t) => t > fence[i]

Dispatched == {"pending", "sending", "published", "processing", "completed"}

\* The readiness gate, as far as finalization and the relay go: a child is
\* dispatchable only once some finalization of its run reached its end, or an
\* operator requeued the child (finalize_run, activate_finalize_operations).
GateOpensAtTheEnd ==
    \A i \in Children :
        status[i] \in Dispatched /\ requeues[i] = 0 => RunOf[i] \in finalized

\* While the task limits hold, at most one recovery works on a run's gate:
\* claim_waiting_finalizations re-arms all the waiting rows of the run.
RecoveryExclusive ==
    TimeLimits =>
        \A f, g \in Finalizers :
            /\ fin[f].phase # "idle" /\ fin[g].phase # "idle"
            /\ fin[f].token # NoToken /\ fin[g].token # NoToken
            /\ fin[f].run = fin[g].run
            => f = g

(***************************************************************************)
(* Liveness.                                                               *)
(***************************************************************************)
\* Every dispatchable intent is in the end completed or failed, through any
\* number of crashes, losses and duplicates: the relay recovers dead
\* publishers and dead workers and the two budgets end every retry loop.
EveryIntentSettles ==
    \A i \in Intents :
        status[i] \in Dispatched ~> status[i] \in {"completed", "failed"}

\* No gate is stranded: "Lease stale finalization gates so a lost worker
\* cannot strand them" (claim_waiting_finalizations).
NoGateStranded ==
    \A i \in Children : status[i] = "waiting" ~> status[i] # "waiting"

(***************************************************************************)
(* What the outbox promises, and the refinement mapping.                   *)
(***************************************************************************)
\* A row as an item of AtLeastOnce: its business work was performed when some
\* execution of it returned.
state ==
    [i \in Intents |->
        CASE status[i] = "absent" -> "none"
          [] status[i] = "completed" -> "done"
          [] status[i] = "failed" -> "dead"
          [] OTHER -> "open"]

performed == {i \in Intents : worked[i] # {}}

Outbox == INSTANCE AtLeastOnce WITH Items <- Intents, MayReopen <- Intents

\* The outbox delivers at least once: no row is completed before its business
\* work was performed, none is lost or taken back once it ended, and only an
\* operator reopens one that failed.
ImplementsAtLeastOnce == Outbox!Spec
=============================================================================
