--------------------- MODULE RunDownstreamOutboxProofs ---------------------
(***************************************************************************)
(* Machine-checked proofs about RunDownstreamOutbox, for every number of   *)
(* runs, intents, publishers, workers and finalizers and every value of    *)
(* the retry budgets.                                                      *)
(***************************************************************************)
EXTENDS RunDownstreamOutbox, TLAPS

(***************************************************************************)
(* Type correctness.                                                       *)
(***************************************************************************)
\* The initial state is well typed.
LEMMA InitTypeOK == Init => TypeOK
BY OutboxAssumption
DEF Init, TypeOK, ActiveJob, ActiveWork, ActiveFin, IdleJob, IdleWork, IdleFin, Status, NoToken

\* A publisher, a worker and a finalizer that is not idle holds a full record,
\* and keeps one when its phase moves on.
LEMMA Active ==
    ASSUME TypeOK
    PROVE  /\ \A p \in Publishers : job[p].phase # "idle" =>
                 /\ job[p] \in ActiveJob
                 /\ \A ph \in {"claimed", "sent", "raised"} :
                       [job[p] EXCEPT !.phase = ph] \in ActiveJob
           /\ \A w \in Workers : work[w].phase # "idle" =>
                 /\ work[w] \in ActiveWork
                 /\ [work[w] EXCEPT !.phase = "finished"] \in ActiveWork
           /\ \A f \in Finalizers : fin[f].phase # "idle" =>
                 /\ fin[f] \in ActiveFin
                 /\ [fin[f] EXCEPT !.phase = "raised"] \in ActiveFin
BY DEF TypeOK, ActiveJob, ActiveWork, ActiveFin, IdleJob, IdleWork, IdleFin

\* A row that has spent its publications has failed: the first test of
\* _lease_for_dispatch never holds.
DispatchBudget ==
    \A i \in Intents : dispatch_failures[i] >= MAX_DISPATCH_ATTEMPTS => status[i] = "failed"

\* Every step keeps the types and the retry budgets.
LEMMA NextTypeOK == TypeOK /\ DispatchBudget /\ [Next]_vars => TypeOK'
<1> SUFFICES ASSUME TypeOK, DispatchBudget, [Next]_vars PROVE TypeOK'
    OBVIOUS
<1> USE OutboxAssumption DEF NoToken, table, counters, gate, history, Put, Status
<1>1. ASSUME NEW i \in Intents, StageIntent(i) PROVE TypeOK'
    BY <1>1 DEF StageIntent, TypeOK, stage_downstream_operation
<1>2. ASSUME NEW run \in Runs, process_sentinel(run) PROVE TypeOK'
    BY <1>2 DEF process_sentinel, TypeOK, stage_downstream_operation
<1>3. ASSUME NEW f \in Finalizers, FinalizerStep(f) PROVE TypeOK'
  <2>1. ASSUME NEW run \in Runs, finalize_run(f, run) PROVE TypeOK'
    BY <2>1 DEF finalize_run, stage_finalize_operations, TypeOK,
       stage_downstream_operation, ActiveFin, Alive
  <2>2. ASSUME NEW run \in Runs, claim_waiting_finalizations(f, run) PROVE TypeOK'
    <3>1. CASE ExhaustRecovery(run)
        BY <2>2, <3>1 DEF claim_waiting_finalizations, ExhaustRecovery, TypeOK
    <3>2. ASSUME NEW spent \in 0 .. MAX_FINALIZATION_RECOVERY_ATTEMPTS - 1,
                 LeaseWaitingRows(f, run, spent)
          PROVE  TypeOK'
        BY <2>2, <3>2 DEF claim_waiting_finalizations, LeaseWaitingRows, TypeOK,
           ActiveFin, Alive
    <3> QED BY <2>2, <3>1, <3>2 DEF claim_waiting_finalizations
  <2>3. CASE RecoveryFinalizes(f)
    BY <2>3 DEF RecoveryFinalizes, stage_finalize_operations, TypeOK,
       stage_downstream_operation, ActiveFin, IdleFin, Alive
  <2>4. CASE activate_finalize_operations(f)
    BY <2>4 DEF activate_finalize_operations, TypeOK, GoIdle, ActiveFin, IdleFin
  <2>5. CASE FinalizeRaises(f)
    <3>1. CASE fin[f].token = NoToken
        BY <2>5, <3>1 DEF FinalizeRaises, TypeOK, GoIdle
    <3>2. CASE fin[f].token # NoToken
        <4>1. [fin[f] EXCEPT !.phase = "raised"] \in ActiveFin
            BY <2>5, Active DEF FinalizeRaises
        <4>2. fin' \in [Finalizers -> ActiveFin \cup {IdleFin}]
            BY <2>5, <3>2, <4>1 DEF FinalizeRaises, TypeOK
        <4> QED BY <2>5, <3>2, <4>2 DEF FinalizeRaises, TypeOK
    <3> QED BY <3>1, <3>2
  <2>6. CASE FinalizerDies(f)
    BY <2>6 DEF FinalizerDies, TypeOK, GoIdle, ActiveFin, IdleFin
  <2>7. CASE mark_waiting_finalization_recovery_failed(f)
    BY <2>7 DEF mark_waiting_finalization_recovery_failed, TypeOK, ActiveFin, IdleFin
  <2> QED BY <1>3, <2>1, <2>2, <2>3, <2>4, <2>5, <2>6, <2>7 DEF FinalizerStep
<1>4. ASSUME NEW p \in Publishers, PublisherStep(p) PROVE TypeOK'
  <2>1. ASSUME NEW i \in Intents, NEW kind \in {"relay", "now"},
               _lease_for_dispatch(p, i, kind),
               UNCHANGED <<queue, work, gate, history>>
        PROVE  TypeOK'
    BY <2>1 DEF _lease_for_dispatch, TypeOK, ActiveJob
  <2>2. ASSUME NEW i \in Intents,
               claim_downstream_dispatches(p, i) \/ claim_staged_dispatches(p, i)
        PROVE  TypeOK'
    BY <2>1, <2>2 DEF claim_downstream_dispatches, claim_staged_dispatches
  <2>3. CASE _publish_downstream(p)
    BY <2>3, Active DEF _publish_downstream, Enqueued, TypeOK, ActiveJob
  <2>4. CASE PublishRaises(p)
    <3>1. job[p] \in ActiveJob /\ [job[p] EXCEPT !.phase = "raised"] \in ActiveJob
        BY <2>4, Active DEF PublishRaises
    <3>2. job' \in [Publishers -> ActiveJob \cup {IdleJob}]
        BY <2>4, <3>1 DEF PublishRaises, TypeOK
    <3>3. queue' \in [Intents -> SUBSET Nat]
        BY <2>4, <3>1 DEF PublishRaises, Enqueued, TypeOK, ActiveJob
    <3> QED BY <2>4, <3>2, <3>3 DEF PublishRaises, TypeOK
  <2>5. CASE MarkRaises(p)
    BY <2>5, Active DEF MarkRaises, TypeOK
  <2>6. CASE mark_downstream_dispatch_published(p)
    BY <2>6 DEF mark_downstream_dispatch_published, TypeOK
  <2>7. CASE mark_downstream_dispatch_failed(p)
    BY <2>7 DEF mark_downstream_dispatch_failed, TypeOK, Sending, DispatchBudget
  <2>8. CASE PublisherStops(p)
    BY <2>8 DEF PublisherStops, TypeOK
  <2> QED BY <1>4, <2>2, <2>3, <2>4, <2>5, <2>6, <2>7, <2>8 DEF PublisherStep
<1>5. ASSUME NEW w \in Workers, WorkerStep(w) PROVE TypeOK'
  <2>1. ASSUME NEW i \in Intents, NEW t \in queue[i], begin_downstream_execution(w, i, t)
        PROVE  TypeOK'
    BY <2>1 DEF begin_downstream_execution, AcceptOrExhaust, TypeOK, ActiveWork
  <2>2. CASE BusinessWorkDone(w)
    BY <2>2, Active DEF BusinessWorkDone, TypeOK, ActiveWork
  <2>3. CASE complete_downstream_execution(w)
    BY <2>3 DEF complete_downstream_execution, Acknowledge, TypeOK
  <2>4. CASE fail_downstream_execution(w)
    BY <2>4 DEF fail_downstream_execution, Acknowledge, TypeOK
  <2>5. CASE defer_downstream_execution(w)
    BY <2>5 DEF defer_downstream_execution, Acknowledge, TypeOK
  <2>6. CASE WorkerDies(w)
    BY <2>6 DEF WorkerDies, TypeOK
  <2> QED BY <1>5, <2>1, <2>2, <2>3, <2>4, <2>5, <2>6 DEF WorkerStep
<1>6. ASSUME NEW i \in Intents, NEW t \in queue[i], RefuseDelivery(i, t) \/ LoseMessage(i, t)
      PROVE  TypeOK'
    BY <1>6 DEF RefuseDelivery, LoseMessage, TypeOK
<1>7. ASSUME NEW i \in Intents, requeue_failed_downstream_operations(i) PROVE TypeOK'
    BY <1>7 DEF requeue_failed_downstream_operations, ResetRow, TypeOK
<1>8. ASSUME NEW i \in Intents, Elapse(i) PROVE TypeOK'
    BY <1>8 DEF Elapse, TypeOK
<1>9. CASE UNCHANGED vars
    BY <1>9 DEF vars, TypeOK
<1> QED
    BY <1>1, <1>2, <1>3, <1>4, <1>5, <1>6, <1>7, <1>8, <1>9 DEF Next

\* Only a failed publication spends the publication budget, and the last one
\* fails the row.
LEMMA NextDispatchBudget ==
    TypeOK /\ TypeOK' /\ DispatchBudget /\ [Next]_vars => DispatchBudget'
<1> SUFFICES ASSUME TypeOK, TypeOK', DispatchBudget, [Next]_vars,
                    NEW j \in Intents, dispatch_failures'[j] >= MAX_DISPATCH_ATTEMPTS
             PROVE  status'[j] = "failed"
    BY DEF DispatchBudget
<1> USE OutboxAssumption DEF table, counters, gate, history, Put, TypeOK, DispatchBudget
<1>1. CASE UNCHANGED <<status, dispatch_failures>>
    BY <1>1
<1>2. ASSUME NEW i \in Intents, StageIntent(i) PROVE status'[j] = "failed"
    BY <1>2 DEF StageIntent, stage_downstream_operation, New
<1>3. ASSUME NEW run \in Runs, process_sentinel(run) PROVE status'[j] = "failed"
    BY <1>3 DEF process_sentinel, stage_downstream_operation, New
<1>4. ASSUME NEW f \in Finalizers, FinalizerStep(f) PROVE status'[j] = "failed"
  <2>1. ASSUME NEW run, NEW t, stage_finalize_operations(f, run, t)
        PROVE  UNCHANGED dispatch_failures /\ (status[j] = "failed" => status'[j] = "failed")
    BY <2>1 DEF stage_finalize_operations, stage_downstream_operation, New
  <2>2. ASSUME NEW run \in Runs, claim_waiting_finalizations(f, run)
        PROVE  status'[j] = "failed"
    BY <2>2 DEF claim_waiting_finalizations, ExhaustRecovery, LeaseWaitingRows
  <2>3. CASE activate_finalize_operations(f)
    BY <2>3 DEF activate_finalize_operations, WaitingOf
  <2> QED
    BY <1>1, <1>4, <2>1, <2>2, <2>3
    DEF FinalizerStep, finalize_run, RecoveryFinalizes, FinalizeRaises, FinalizerDies,
        mark_waiting_finalization_recovery_failed
<1>5. ASSUME NEW p \in Publishers, PublisherStep(p) PROVE status'[j] = "failed"
  <2>1. ASSUME NEW i \in Intents,
               claim_downstream_dispatches(p, i) \/ claim_staged_dispatches(p, i)
        PROVE  status'[j] = "failed"
    BY <2>1 DEF claim_downstream_dispatches, claim_staged_dispatches,
       _lease_for_dispatch, Dispatchable
  <2>2. CASE mark_downstream_dispatch_published(p)
    BY <2>2 DEF mark_downstream_dispatch_published, Sending
  <2>3. CASE mark_downstream_dispatch_failed(p)
    BY <2>3 DEF mark_downstream_dispatch_failed, Sending
  <2> QED
    BY <1>1, <1>5, <2>1, <2>2, <2>3
    DEF PublisherStep, _publish_downstream, PublishRaises, MarkRaises, PublisherStops
<1>6. ASSUME NEW w \in Workers, WorkerStep(w) PROVE status'[j] = "failed"
  <2>1. ASSUME NEW i \in Intents, NEW t \in queue[i], begin_downstream_execution(w, i, t)
        PROVE  status'[j] = "failed"
    BY <2>1 DEF begin_downstream_execution, AcceptOrExhaust, Admits
  <2>2. CASE complete_downstream_execution(w)
    BY <2>2 DEF complete_downstream_execution, Held
  <2>3. CASE fail_downstream_execution(w)
    BY <2>3 DEF fail_downstream_execution, Held
  <2>4. CASE defer_downstream_execution(w)
    BY <2>4 DEF defer_downstream_execution, Held
  <2> QED
    BY <1>1, <1>6, <2>1, <2>2, <2>3, <2>4 DEF WorkerStep, BusinessWorkDone, WorkerDies
<1>7. ASSUME NEW i \in Intents, requeue_failed_downstream_operations(i)
      PROVE  status'[j] = "failed"
    BY <1>7 DEF requeue_failed_downstream_operations, ResetRow
<1> QED
    BY <1>1, <1>2, <1>3, <1>4, <1>5, <1>6, <1>7
    DEF Next, vars, RefuseDelivery, LoseMessage, Elapse

\* Type correctness: every reachable state has the declared types, and no row
\* ever spends more than its dispatch, execution and recovery budgets.
THEOREM TypeCorrect == Spec => []TypeOK
<1>1. Init => TypeOK /\ DispatchBudget
    BY InitTypeOK, OutboxAssumption DEF Init, DispatchBudget
<1>2. TypeOK /\ DispatchBudget /\ [Next]_vars => TypeOK' /\ DispatchBudget'
    BY NextTypeOK, NextDispatchBudget
<1> QED BY <1>1, <1>2, PTL DEF Spec

(***************************************************************************)
(* Tokens.  Every token in the table, in the broker and in the hands of a  *)
(* process was minted for the row's run, so a fresh one differs from all   *)
(* of them; and the row's token is newer than its last requeue.            *)
(***************************************************************************)
Minted(i, t) == t \in 1 .. minted[RunOf[i]]

TokensMinted ==
    /\ \A i \in Intents : token[i] <= minted[RunOf[i]]
    /\ \A i \in Intents : fence[i] <= minted[RunOf[i]]
    /\ \A i \in Intents : token[i] # NoToken => token[i] > fence[i]
    /\ \A i \in Intents : \A t \in queue[i] : Minted(i, t)
    /\ \A p \in Publishers : job[p].phase # "idle" => Minted(job[p].intent, job[p].token)
    /\ \A w \in Workers : work[w].phase # "idle" => Minted(work[w].intent, work[w].token)

\* Every step keeps the tokens minted and newer than the last requeue.
LEMMA NextTokensMinted == TypeOK /\ TypeOK' /\ TokensMinted /\ [Next]_vars => TokensMinted'
<1> SUFFICES ASSUME TypeOK, TypeOK', TokensMinted, [Next]_vars PROVE TokensMinted'
    OBVIOUS
<1> USE OutboxAssumption
    DEF NoToken, table, counters, gate, history, Put, TypeOK, TokensMinted, Minted,
        ActiveJob, ActiveWork, IdleJob, IdleWork
<1>1. CASE UNCHANGED <<token, minted, queue, job, work, fence>>
    BY <1>1
<1>2. ASSUME NEW i \in Intents, StageIntent(i) PROVE TokensMinted'
    BY <1>1, <1>2 DEF StageIntent, stage_downstream_operation
<1>3. ASSUME NEW run \in Runs, process_sentinel(run) PROVE TokensMinted'
    BY <1>1, <1>3 DEF process_sentinel, stage_downstream_operation
<1>4. ASSUME NEW f \in Finalizers, FinalizerStep(f) PROVE TokensMinted'
  <2>1. ASSUME NEW run \in Runs, ExhaustRecovery(run),
               UNCHANGED <<queue, job, work, fence>>
        PROVE  TokensMinted'
    BY <2>1 DEF ExhaustRecovery
  <2>2. ASSUME NEW run \in Runs, NEW spent, LeaseWaitingRows(f, run, spent),
               UNCHANGED <<queue, job, work, fence>>
        PROVE  TokensMinted'
    BY <2>2 DEF LeaseWaitingRows, WaitingOf
  <2>3. CASE activate_finalize_operations(f)
    BY <2>3 DEF activate_finalize_operations
  <2>4. CASE mark_waiting_finalization_recovery_failed(f)
    BY <2>4 DEF mark_waiting_finalization_recovery_failed
  <2> QED
    BY <1>1, <1>4, <2>1, <2>2, <2>3, <2>4
    DEF FinalizerStep, finalize_run, RecoveryFinalizes, FinalizeRaises, FinalizerDies,
        stage_finalize_operations, stage_downstream_operation, claim_waiting_finalizations
<1>5. ASSUME NEW p \in Publishers, PublisherStep(p) PROVE TokensMinted'
  <2>1. ASSUME NEW i \in Intents, NEW kind, _lease_for_dispatch(p, i, kind),
               UNCHANGED <<queue, work, fence>>
        PROVE  TokensMinted'
    <3> DEFINE t == IF NeedsToken(i) THEN minted[RunOf[i]] + 1 ELSE token[i]
    <3>1. CASE UNCHANGED <<token, minted, job>>
        BY <2>1, <3>1
    <3>2. CASE /\ token' = Put(token, {i}, t)
               /\ minted' = [minted EXCEPT ![RunOf[i]] = IF NeedsToken(i) THEN t ELSE @]
               /\ job' = [job EXCEPT ![p] = [phase |-> "claimed", kind |-> kind,
                                             intent |-> i, token |-> t]]
        <4>1. /\ RunOf[i] \in Runs /\ t \in Nat /\ t > 0 /\ t > fence[i]
              /\ t <= minted'[RunOf[i]]
            BY <3>2 DEF NeedsToken
        <4>2. \A r \in Runs : minted[r] <= minted'[r]
            BY <3>2, <4>1 DEF NeedsToken
        <4> HIDE DEF t
        <4>3. \A j \in Intents : token'[j] <= minted'[RunOf[j]]
            BY <3>2, <4>1, <4>2
        <4>4. \A j \in Intents : fence'[j] <= minted'[RunOf[j]]
            BY <2>1, <4>2
        <4>5. \A j \in Intents : token'[j] # NoToken => token'[j] > fence'[j]
            BY <2>1, <3>2, <4>1
        <4>6. \A j \in Intents : \A u \in queue'[j] : Minted(j, u)'
            BY <2>1, <4>2
        <4>7. \A q \in Publishers :
                 job'[q].phase # "idle" => Minted(job[q].intent, job[q].token)'
            <5>1. job'[p].intent = i /\ job'[p].token = t
                BY <3>2
            <5>2. \A q \in Publishers \ {p} : job'[q] = job[q]
                BY <3>2
            <5>3. ASSUME NEW q \in Publishers \ {p}, job[q].phase # "idle"
                  PROVE  job'[q].token \in 1 .. minted'[RunOf[job'[q].intent]]
                <6>1. job[q] \in ActiveJob
                    BY <5>3, Active
                <6>2. RunOf[job[q].intent] \in Runs
                    BY <6>1
                <6>3. job[q].token \in 1 .. minted[RunOf[job[q].intent]]
                    BY <5>3
                <6>4. /\ minted[RunOf[job[q].intent]] <= minted'[RunOf[job[q].intent]]
                      /\ minted[RunOf[job[q].intent]] \in Nat
                      /\ minted'[RunOf[job[q].intent]] \in Nat
                    BY <4>2, <6>2
                <6> QED BY <5>2, <6>3, <6>4
            <5>4. ASSUME NEW q \in Publishers, job'[q].phase # "idle"
                  PROVE  job'[q].token \in 1 .. minted'[RunOf[job'[q].intent]]
                <6>1. CASE q = p
                    BY <4>1, <5>1, <6>1
                <6>2. CASE q # p
                    BY <5>2, <5>3, <5>4, <6>2
                <6> QED BY <6>1, <6>2
            <5> QED BY <5>4
        <4>8. \A w \in Workers :
                 work'[w].phase # "idle" => Minted(work[w].intent, work[w].token)'
            BY <2>1, <4>2, Active
        <4> QED BY <4>3, <4>4, <4>5, <4>6, <4>7, <4>8
    <3> QED BY <2>1, <3>1, <3>2 DEF _lease_for_dispatch
  <2>2. CASE _publish_downstream(p)
    BY <2>2, Active DEF _publish_downstream, Enqueued
  <2>3. CASE PublishRaises(p)
    <3>1. job[p] \in ActiveJob /\ Minted(job[p].intent, job[p].token)
        BY <2>3, Active DEF PublishRaises
    <3>2. \A i \in Intents : \A t \in queue'[i] : Minted(i, t)'
        BY <2>3, <3>1 DEF PublishRaises, Enqueued
    <3>3. \A q \in Publishers :
             job'[q].phase # "idle" => Minted(job[q].intent, job[q].token)'
        BY <2>3, <3>1, Active DEF PublishRaises
    <3> QED BY <2>3, <3>2, <3>3 DEF PublishRaises
  <2>4. CASE MarkRaises(p)
    BY <2>4, Active DEF MarkRaises
  <2>5. CASE UNCHANGED <<token, minted, queue, work, fence>> /\ job' = [job EXCEPT ![p] = IdleJob]
    BY <2>5
  <2> QED
    BY <1>5, <2>1, <2>2, <2>3, <2>4, <2>5
    DEF PublisherStep, claim_downstream_dispatches, claim_staged_dispatches,
        mark_downstream_dispatch_published, mark_downstream_dispatch_failed, PublisherStops
<1>6. ASSUME NEW w \in Workers, WorkerStep(w) PROVE TokensMinted'
  <2>1. ASSUME NEW i \in Intents, NEW t \in queue[i], begin_downstream_execution(w, i, t)
        PROVE  TokensMinted'
    <3>1. \A v \in Workers :
             work'[v].phase # "idle" => Minted(work[v].intent, work[v].token)'
        <4>1. \A v \in Workers : \/ work'[v] = work[v]
                                 \/ work'[v].intent = i /\ work'[v].token = t
            BY <2>1 DEF begin_downstream_execution, AcceptOrExhaust
        <4>2. Minted(i, t) /\ UNCHANGED minted
            BY <2>1 DEF begin_downstream_execution
        <4> QED BY <4>1, <4>2
    <3> QED BY <2>1, <3>1 DEF begin_downstream_execution
  <2>2. CASE BusinessWorkDone(w)
    BY <2>2, Active DEF BusinessWorkDone
  <2>3. CASE Acknowledge(w) /\ UNCHANGED <<token, minted, job, fence>>
    <3>1. \A i \in Intents : queue'[i] \subseteq queue[i]
        <4>1. CASE queue' = queue
            BY <4>1
        <4>2. CASE queue' = [queue EXCEPT ![work[w].intent] = @ \ {work[w].token}]
            BY <4>2
        <4> QED BY <2>3, <4>1, <4>2 DEF Acknowledge
    <3>2. \A v \in Workers :
             work'[v].phase # "idle" => Minted(work[v].intent, work[v].token)'
        BY <2>3 DEF Acknowledge
    <3> QED BY <2>3, <3>1, <3>2
  <2>4. CASE WorkerDies(w)
    BY <2>4 DEF WorkerDies
  <2> QED
    BY <1>6, <2>1, <2>2, <2>3, <2>4
    DEF WorkerStep, complete_downstream_execution, fail_downstream_execution,
        defer_downstream_execution
<1>7. ASSUME NEW i \in Intents, NEW t \in queue[i], RefuseDelivery(i, t) \/ LoseMessage(i, t)
      PROVE  TokensMinted'
    BY <1>7 DEF RefuseDelivery, LoseMessage
<1>8. ASSUME NEW i \in Intents, requeue_failed_downstream_operations(i) PROVE TokensMinted'
    BY <1>8 DEF requeue_failed_downstream_operations, ResetRow
<1> QED
    BY <1>1, <1>2, <1>3, <1>4, <1>5, <1>6, <1>7, <1>8 DEF Next, vars, Elapse

(***************************************************************************)
(* The fence.  A live execution that carries the row's token finds the row *)
(* processing; so a second delivery of the token is never admitted beside  *)
(* it, and no one but the execution of the current token settles the row.  *)
(***************************************************************************)
TokenMeansProcessing ==
    \A w \in Workers : \A i \in Intents :
        Executes(w, i) /\ work[w].token = token[i] => status[i] = "processing"

FinishedWorked ==
    \A w \in Workers :
        work[w].phase = "finished" => work[w].token \in worked[work[w].intent]

Fence == /\ OneTokenPerExecution
         /\ TokenMeansProcessing
         /\ FinishedWorked
         /\ CompletedByItsOwnWork

\* Steps that leave the executions alone keep the fence when they settle no
\* row and hand no executing row's token to another status.
LEMMA FenceKept ==
    ASSUME TypeOK, Fence, UNCHANGED <<work, worked>>,
           \A w \in Workers : \A i \in Intents :
               Executes(w, i) /\ work[w].token = token'[i] => status'[i] = "processing",
           \A i \in Intents :
               status'[i] = "completed" => status[i] = "completed" /\ token'[i] = token[i]
    PROVE  Fence'
BY DEF Fence, OneTokenPerExecution, TokenMeansProcessing, FinishedWorked,
       CompletedByItsOwnWork, Executes

\* The worker w leaves its execution: what remains is fenced as before if the
\* rows it settles are the ones it holds.
LEMMA FenceOnExit ==
    ASSUME TypeOK, Fence, NEW w \in Workers,
           work' = [work EXCEPT ![w] = IdleWork], UNCHANGED <<token, worked>>,
           \A i \in Intents : i \notin Held(w) => status'[i] = status[i],
           \A i \in Held(w) : status'[i] = "completed" => work[w].phase = "finished"
    PROVE  Fence'
<1> USE DEF Fence, OneTokenPerExecution, TokenMeansProcessing, FinishedWorked,
            CompletedByItsOwnWork, Executes, Held, IdleWork, TypeOK
<1>1. \A v \in Workers : work'[v].phase # "idle" => v # w /\ work'[v] = work[v]
    OBVIOUS
<1>2. \A v \in Workers, i \in Intents : v # w /\ Executes(v, i) => work[v].token # token[i] \/ i \notin Held(w)
    OBVIOUS
<1>3. OneTokenPerExecution'
    BY <1>1
<1>4. TokenMeansProcessing'
    BY <1>1, <1>2
<1>5. FinishedWorked'
    BY <1>1
<1>6. CompletedByItsOwnWork'
    OBVIOUS
<1> QED BY <1>3, <1>4, <1>5, <1>6

\* Every step keeps the fence.
LEMMA NextFence ==
    TypeOK /\ TypeOK' /\ TokensMinted /\ Fence /\ [Next]_vars => Fence'
<1> SUFFICES ASSUME TypeOK, TypeOK', TokensMinted, Fence, [Next]_vars PROVE Fence'
    OBVIOUS
<1> USE OutboxAssumption DEF NoToken, table, counters, gate, history, Put
<1>0. \A w \in Workers : \A i \in Intents :
         Executes(w, i) => /\ work[w].token \in Nat /\ work[w].token > 0
                           /\ work[w].token <= minted[RunOf[i]]
    BY Active DEF Executes, TokensMinted, Minted, ActiveWork, TypeOK
<1>a. \A w \in Workers : \A i \in Intents :
         Executes(w, i) /\ work[w].token = token[i] => status[i] = "processing"
    BY DEF Fence, TokenMeansProcessing
<1>1. CASE UNCHANGED <<status, token, work, worked>>
    BY <1>1, <1>a, FenceKept
<1>2. ASSUME NEW i \in Intents, StageIntent(i) PROVE Fence'
    BY <1>2, <1>a, FenceKept DEF StageIntent, stage_downstream_operation, New, TypeOK
<1>3. ASSUME NEW run \in Runs, process_sentinel(run) PROVE Fence'
    BY <1>3, <1>a, FenceKept DEF process_sentinel, stage_downstream_operation, New, TypeOK
<1>4. ASSUME NEW f \in Finalizers, FinalizerStep(f) PROVE Fence'
  <2>1. ASSUME NEW run, NEW t, stage_finalize_operations(f, run, t), UNCHANGED <<work, worked>>
        PROVE  Fence'
    BY <2>1, <1>a, FenceKept
    DEF stage_finalize_operations, stage_downstream_operation, New, TypeOK
  <2>2. ASSUME NEW run \in Runs, ExhaustRecovery(run), UNCHANGED <<work, worked>>
        PROVE  Fence'
    BY <2>2, <1>0, <1>a, FenceKept DEF ExhaustRecovery, WaitingOf, TypeOK
  <2>3. ASSUME NEW run \in Runs, NEW spent, LeaseWaitingRows(f, run, spent),
               UNCHANGED <<work, worked>>
        PROVE  Fence'
    BY <2>3, <1>0, <1>a, FenceKept DEF LeaseWaitingRows, WaitingOf, TypeOK
  <2>4. CASE activate_finalize_operations(f)
    BY <2>4, <1>0, <1>a, FenceKept DEF activate_finalize_operations, WaitingOf, TypeOK
  <2>5. CASE mark_waiting_finalization_recovery_failed(f)
    BY <2>5, <1>0, <1>a, FenceKept
    DEF mark_waiting_finalization_recovery_failed, WaitingOf, TypeOK
  <2> QED
    BY <1>1, <1>4, <2>1, <2>2, <2>3, <2>4, <2>5
    DEF FinalizerStep, finalize_run, RecoveryFinalizes, FinalizeRaises, FinalizerDies,
        claim_waiting_finalizations
<1>5. ASSUME NEW p \in Publishers, PublisherStep(p) PROVE Fence'
  <2>1. ASSUME NEW i \in Intents, NEW kind, _lease_for_dispatch(p, i, kind),
               Dispatchable(i), UNCHANGED <<work, worked>>
        PROVE  Fence'
    <3>1. CASE Exhausted(i)
        BY <2>1, <3>1, <1>a, FenceKept DEF _lease_for_dispatch, Exhausted, TypeOK
    <3>2. CASE ~Exhausted(i) /\ NeedsToken(i)
        <4>1. /\ token' = Put(token, {i}, minted[RunOf[i]] + 1)
              /\ status' = Put(status, {i}, "sending")
            BY <2>1, <3>2 DEF _lease_for_dispatch
        <4>2. RunOf[i] \in Runs /\ minted[RunOf[i]] \in Nat
            BY DEF TypeOK
        <4>3. \A w \in Workers : Executes(w, i) => work[w].token # token'[i]
            BY <1>0, <4>1, <4>2
        <4>4. \A j \in Intents \ {i} : token'[j] = token[j] /\ status'[j] = status[j]
            BY <4>1
        <4>5. status'[i] = "sending"
            BY <4>1
        <4> QED BY <2>1, <4>3, <4>4, <4>5, <1>a, FenceKept
    <3>3. CASE ~Exhausted(i) /\ ~NeedsToken(i)
        BY <2>1, <3>3, <1>a, FenceKept DEF _lease_for_dispatch, NeedsToken, TypeOK
    <3> QED BY <3>1, <3>2, <3>3
  <2>2. CASE mark_downstream_dispatch_published(p)
    BY <2>2, <1>a, FenceKept DEF mark_downstream_dispatch_published, Sending, TypeOK
  <2>3. CASE mark_downstream_dispatch_failed(p)
    BY <2>3, <1>a, FenceKept DEF mark_downstream_dispatch_failed, Sending, TypeOK
  <2> QED
    BY <1>1, <1>5, <2>1, <2>2, <2>3
    DEF PublisherStep, claim_downstream_dispatches, claim_staged_dispatches,
        _publish_downstream, PublishRaises, MarkRaises, PublisherStops
<1>6. ASSUME NEW w \in Workers, WorkerStep(w) PROVE Fence'
  <2>1. ASSUME NEW i \in Intents, NEW t \in queue[i], begin_downstream_execution(w, i, t)
        PROVE  Fence'
    <3>1. CASE UNCHANGED work
        BY <2>1, <3>1, <1>a, FenceKept
        DEF begin_downstream_execution, AcceptOrExhaust, Admits, TypeOK
    <3>2. CASE /\ status' = Put(status, {i}, "processing")
               /\ work' = [work EXCEPT ![w] = [phase |-> "running", intent |-> i, token |-> t]]
        <4>1. token[i] = t /\ status[i] # "processing" /\ status[i] # "completed"
            BY <2>1 DEF begin_downstream_execution, Admits
        <4>2. UNCHANGED <<token, worked>>
            BY <2>1 DEF begin_downstream_execution
        <4>3. \A v \in Workers : Executes(v, i) => work[v].token # t
            BY <4>1, <1>a
        <4>4. \A v \in Workers : v # w => work'[v] = work[v]
            BY <3>2 DEF TypeOK
        <4>5. work'[w].phase = "running" /\ work'[w].intent = i /\ work'[w].token = t
            BY <3>2 DEF TypeOK
        <4>6. OneTokenPerExecution'
            <5>1. ASSUME NEW j \in Intents, NEW u \in Workers, NEW v \in Workers,
                         Executes(u, j)', Executes(v, j)', work'[u].token = work'[v].token
                  PROVE  u = v
                <6>1. CASE u # w /\ v # w
                    BY <5>1, <6>1, <4>4 DEF Fence, OneTokenPerExecution, Executes
                <6>2. CASE u = w /\ v # w
                    BY <5>1, <6>2, <4>3, <4>4, <4>5 DEF Executes
                <6>3. CASE v = w /\ u # w
                    BY <5>1, <6>3, <4>3, <4>4, <4>5 DEF Executes
                <6> QED BY <6>1, <6>2, <6>3
            <5> QED BY <5>1 DEF OneTokenPerExecution
        <4>7. TokenMeansProcessing'
            <5>1. ASSUME NEW v \in Workers, NEW j \in Intents,
                         Executes(v, j)', work'[v].token = token'[j]
                  PROVE  status'[j] = "processing"
                <6>1. CASE j = i
                    BY <3>2, <6>1 DEF TypeOK
                <6>2. CASE j # i
                    <7>1. v # w
                        BY <5>1, <6>2, <4>5 DEF Executes
                    <7>2. status[j] = "processing"
                        BY <5>1, <7>1, <4>2, <4>4, <1>a DEF Executes
                    <7> QED BY <7>2, <6>2, <3>2
                <6> QED BY <6>1, <6>2
            <5> QED BY <5>1 DEF TokenMeansProcessing
        <4>8. FinishedWorked'
            BY <4>2, <4>4, <4>5 DEF Fence, FinishedWorked
        <4>9. CompletedByItsOwnWork'
            BY <3>2, <4>2 DEF Fence, CompletedByItsOwnWork, TypeOK
        <4> QED BY <4>6, <4>7, <4>8, <4>9 DEF Fence
    <3> QED BY <2>1, <3>1, <3>2 DEF begin_downstream_execution, AcceptOrExhaust
  <2>2. CASE BusinessWorkDone(w)
    <3>1. work[w] \in ActiveWork /\ UNCHANGED <<token, status>>
        BY <2>2, Active DEF BusinessWorkDone
    <3>2. \A v \in Workers : /\ work'[v].phase # "idle" <=> work[v].phase # "idle"
                             /\ work'[v].phase # "idle" =>
                                  work'[v].token = work[v].token /\ work'[v].intent = work[v].intent
        BY <2>2, <3>1 DEF BusinessWorkDone, TypeOK, ActiveWork
    <3>3. \A i \in Intents : worked[i] \subseteq worked'[i]
        BY <2>2, <3>1 DEF BusinessWorkDone, TypeOK, ActiveWork
    <3>4. work[w].token \in worked'[work[w].intent]
        BY <2>2, <3>1 DEF BusinessWorkDone, TypeOK, ActiveWork
    <3>5. \A v \in Workers : v # w => work'[v] = work[v]
        BY <2>2 DEF BusinessWorkDone, TypeOK
    <3>6. OneTokenPerExecution' /\ TokenMeansProcessing'
        BY <3>1, <3>2 DEF Fence, OneTokenPerExecution, TokenMeansProcessing, Executes
    <3>7. FinishedWorked'
        BY <3>1, <3>2, <3>3, <3>4, <3>5, Active DEF Fence, FinishedWorked, ActiveWork
    <3>8. CompletedByItsOwnWork'
        BY <3>1, <3>3 DEF Fence, CompletedByItsOwnWork
    <3> QED BY <3>6, <3>7, <3>8 DEF Fence
  <2>3. CASE complete_downstream_execution(w)
    <3>1. \A i \in Intents : i \notin Held(w) => status'[i] = status[i]
        BY <2>3 DEF complete_downstream_execution, TypeOK
    <3>2. \A i \in Held(w) : status'[i] = "completed" => work[w].phase = "finished"
        BY <2>3 DEF complete_downstream_execution, Held
    <3>3. work' = [work EXCEPT ![w] = IdleWork] /\ UNCHANGED <<token, worked>>
        BY <2>3 DEF complete_downstream_execution, Acknowledge
    <3> QED BY <3>1, <3>2, <3>3, FenceOnExit
  <2>4. CASE fail_downstream_execution(w)
    <3>1. \A i \in Intents : i \notin Held(w) => status'[i] = status[i]
        BY <2>4 DEF fail_downstream_execution, TypeOK
    <3>2. \A i \in Held(w) : status'[i] = "completed" => work[w].phase = "finished"
        BY <2>4 DEF fail_downstream_execution, Held
    <3>3. work' = [work EXCEPT ![w] = IdleWork] /\ UNCHANGED <<token, worked>>
        BY <2>4 DEF fail_downstream_execution, Acknowledge
    <3> QED BY <3>1, <3>2, <3>3, FenceOnExit
  <2>5. CASE defer_downstream_execution(w)
    <3>1. \A i \in Intents : i \notin Held(w) => status'[i] = status[i]
        BY <2>5 DEF defer_downstream_execution, TypeOK
    <3>2. \A i \in Held(w) : status'[i] = "completed" => work[w].phase = "finished"
        BY <2>5 DEF defer_downstream_execution, Held
    <3>3. work' = [work EXCEPT ![w] = IdleWork] /\ UNCHANGED <<token, worked>>
        BY <2>5 DEF defer_downstream_execution, Acknowledge
    <3> QED BY <3>1, <3>2, <3>3, FenceOnExit
  <2>6. CASE WorkerDies(w)
    <3>1. \A i \in Held(w) : status[i] # "completed"
        BY DEF Held
    <3> QED BY <2>6, <3>1, FenceOnExit DEF WorkerDies
  <2> QED BY <1>6, <2>1, <2>2, <2>3, <2>4, <2>5, <2>6 DEF WorkerStep
<1>7. ASSUME NEW i \in Intents, requeue_failed_downstream_operations(i) PROVE Fence'
    BY <1>7, <1>0, <1>a, FenceKept DEF requeue_failed_downstream_operations, ResetRow, TypeOK
<1> QED
    BY <1>1, <1>2, <1>3, <1>4, <1>5, <1>6, <1>7
    DEF Next, vars, RefuseDelivery, LoseMessage, Elapse

\* The inductive invariant of the tokens.
TokenInv == TypeOK /\ DispatchBudget /\ TokensMinted /\ Fence

\* The inductive invariant of the tokens holds of every reachable state.
LEMMA TokenInvariant == Spec => []TokenInv
<1>1. Init => TokenInv
  <2> SUFFICES ASSUME Init PROVE TokenInv
    OBVIOUS
  <2>1. TypeOK
    BY InitTypeOK
  <2>2. DispatchBudget
    BY OutboxAssumption DEF Init, DispatchBudget
  <2>3. TokensMinted
    BY OutboxAssumption DEF Init, TokensMinted, IdleJob, IdleWork, NoToken
  <2>4. Fence
    BY DEF Init, Fence, OneTokenPerExecution, TokenMeansProcessing, FinishedWorked,
           CompletedByItsOwnWork, Executes, IdleWork
  <2> QED BY <2>1, <2>2, <2>3, <2>4 DEF TokenInv
<1>2. TokenInv /\ [Next]_vars => TokenInv'
    BY NextTypeOK, NextDispatchBudget, NextTokensMinted, NextFence DEF TokenInv
<1> QED BY <1>1, <1>2, PTL DEF Spec

\* Even without the task limits, live executions of one intent carry different
\* tokens (begin_downstream_execution, _lease_for_dispatch).
THEOREM ExecutionsHaveTheirOwnToken == Spec => []OneTokenPerExecution
<1>1. TokenInv => OneTokenPerExecution
    BY DEF TokenInv, Fence
<1> QED BY <1>1, TokenInvariant, PTL

\* Even without the task limits, the token of a completed row is one under
\* which the business work was done (complete_downstream_execution).
THEOREM CompletionsAreFenced == Spec => []CompletedByItsOwnWork
<1>1. TokenInv => CompletedByItsOwnWork
    BY DEF TokenInv, Fence
<1> QED BY <1>1, TokenInvariant, PTL

\* A copy published before a requeue is never admitted after it
\* (requeue_failed_downstream_operations, begin_downstream_execution).
THEOREM RequeuesAreFenced == Spec => []RequeueFencesOldCopies
<1>1. TokenInv => RequeueFencesOldCopies
  <2> SUFFICES ASSUME TokenInv, NEW i \in Intents, NEW t \in queue[i], Admits(i, t)
               PROVE  t > fence[i]
    BY DEF RequeueFencesOldCopies
  <2>1. t = token[i]
    BY DEF Admits
  <2>2. t \in 1 .. minted[RunOf[i]]
    BY DEF TokenInv, TokensMinted, Minted
  <2>3. minted[RunOf[i]] \in Nat
    BY OutboxAssumption DEF TokenInv, TypeOK
  <2> QED BY <2>1, <2>2, <2>3 DEF TokenInv, TokensMinted, NoToken
<1> QED BY <1>1, TokenInvariant, PTL

(***************************************************************************)
(* With the task limits, a live execution holds its row: the lease of a    *)
(* processing row runs out only after its worker has gone.                 *)
(***************************************************************************)
HoldsRow(w, i) == /\ work[w].token = token[i]
                  /\ status[i] = "processing"
                  /\ deadline[i] = "ahead"

HolderKeepsRow ==
    TimeLimits =>
        \A w \in Workers : \A i \in Intents : Executes(w, i) => HoldsRow(w, i)

\* A step that starts no execution and leaves the executing rows alone keeps
\* every worker's hold.
LEMMA HoldKept ==
    ASSUME HolderKeepsRow,
           \A w \in Workers : \A i \in Intents :
               Executes(w, i)' =>
                   /\ Executes(w, i)
                   /\ work'[w].token = work[w].token
                   /\ TimeLimits => /\ token'[i] = token[i]
                                    /\ status'[i] = status[i]
                                    /\ deadline'[i] = deadline[i]
    PROVE  HolderKeepsRow'
BY DEF HolderKeepsRow, HoldsRow

\* Every step keeps every worker's hold.
LEMMA NextHolder ==
    TypeOK /\ TypeOK' /\ Fence /\ HolderKeepsRow /\ [Next]_vars => HolderKeepsRow'
<1> SUFFICES ASSUME TypeOK, TypeOK', Fence, HolderKeepsRow, [Next]_vars
             PROVE  HolderKeepsRow'
    OBVIOUS
<1> USE OutboxAssumption DEF table, counters, gate, history, Put
<1>a. \A w \in Workers : \A i \in Intents :
         TimeLimits /\ Executes(w, i) => status[i] = "processing" /\ deadline[i] = "ahead"
    BY DEF HolderKeepsRow, HoldsRow
<1>b. UNCHANGED work => \A w \in Workers : \A i \in Intents :
         Executes(w, i)' => Executes(w, i) /\ work'[w].token = work[w].token
    BY DEF Executes
<1>1. CASE UNCHANGED <<status, token, deadline, work>>
    BY <1>1, <1>b, HoldKept
<1>2. ASSUME NEW i \in Intents, StageIntent(i) PROVE HolderKeepsRow'
    BY <1>2, <1>a, <1>b, HoldKept DEF StageIntent, stage_downstream_operation, New
<1>3. ASSUME NEW run \in Runs, process_sentinel(run) PROVE HolderKeepsRow'
    BY <1>3, <1>a, <1>b, HoldKept DEF process_sentinel, stage_downstream_operation, New
<1>4. ASSUME NEW f \in Finalizers, FinalizerStep(f) PROVE HolderKeepsRow'
  <2>1. ASSUME NEW run, NEW t, stage_finalize_operations(f, run, t), UNCHANGED work
        PROVE  HolderKeepsRow'
    BY <2>1, <1>a, <1>b, HoldKept
    DEF stage_finalize_operations, stage_downstream_operation, New
  <2>2. ASSUME NEW run \in Runs, ExhaustRecovery(run), UNCHANGED work
        PROVE  HolderKeepsRow'
    BY <2>2, <1>a, <1>b, HoldKept DEF ExhaustRecovery, WaitingOf
  <2>3. ASSUME NEW run \in Runs, NEW spent, LeaseWaitingRows(f, run, spent), UNCHANGED work
        PROVE  HolderKeepsRow'
    BY <2>3, <1>a, <1>b, HoldKept DEF LeaseWaitingRows, WaitingOf
  <2>4. CASE activate_finalize_operations(f)
    BY <2>4, <1>a, <1>b, HoldKept DEF activate_finalize_operations, WaitingOf
  <2>5. CASE mark_waiting_finalization_recovery_failed(f)
    BY <2>5, <1>a, <1>b, HoldKept DEF mark_waiting_finalization_recovery_failed, WaitingOf
  <2> QED
    BY <1>1, <1>4, <2>1, <2>2, <2>3, <2>4, <2>5
    DEF FinalizerStep, finalize_run, RecoveryFinalizes, FinalizeRaises, FinalizerDies,
        claim_waiting_finalizations
<1>5. ASSUME NEW p \in Publishers, PublisherStep(p) PROVE HolderKeepsRow'
  <2>1. ASSUME NEW i \in Intents, NEW kind, _lease_for_dispatch(p, i, kind),
               Dispatchable(i), UNCHANGED work
        PROVE  HolderKeepsRow'
    <3>1. \A j \in Intents \ {i} : /\ status'[j] = status[j] /\ token'[j] = token[j]
                                   /\ deadline'[j] = deadline[j]
        BY <2>1 DEF _lease_for_dispatch
    <3>2. TimeLimits => \A w \in Workers : ~Executes(w, i)
        BY <2>1, <1>a DEF Dispatchable
    <3> QED BY <2>1, <3>1, <3>2, <1>b, HoldKept
  <2>2. CASE mark_downstream_dispatch_published(p)
    BY <2>2, <1>a, <1>b, HoldKept DEF mark_downstream_dispatch_published, Sending
  <2>3. CASE mark_downstream_dispatch_failed(p)
    BY <2>3, <1>a, <1>b, HoldKept DEF mark_downstream_dispatch_failed, Sending
  <2> QED
    BY <1>1, <1>5, <2>1, <2>2, <2>3
    DEF PublisherStep, claim_downstream_dispatches, claim_staged_dispatches,
        _publish_downstream, PublishRaises, MarkRaises, PublisherStops
<1>6. ASSUME NEW w \in Workers, WorkerStep(w) PROVE HolderKeepsRow'
  <2>1. ASSUME NEW i \in Intents, NEW t \in queue[i], begin_downstream_execution(w, i, t)
        PROVE  HolderKeepsRow'
    <3>1. /\ status[i] # "processing" /\ token[i] = t /\ UNCHANGED token
          /\ deadline' = Put(deadline, {i}, "ahead")
        BY <2>1 DEF begin_downstream_execution, Admits
    <3>2. \A j \in Intents \ {i} : status'[j] = status[j] /\ deadline'[j] = deadline[j]
        BY <2>1, <3>1 DEF begin_downstream_execution, AcceptOrExhaust
    <3>3. TimeLimits => \A v \in Workers : ~Executes(v, i)
        BY <3>1, <1>a
    <3>4. CASE UNCHANGED work
        BY <3>1, <3>2, <3>3, <3>4, <1>b, HoldKept
    <3>5. CASE /\ status' = Put(status, {i}, "processing")
               /\ work' = [work EXCEPT ![w] = [phase |-> "running", intent |-> i, token |-> t]]
        <4>1. ASSUME TimeLimits, NEW v \in Workers, NEW j \in Intents, Executes(v, j)'
              PROVE  HoldsRow(v, j)'
            <5>1. CASE v = w
                <6>1. j = i /\ work'[v].token = t
                    BY <3>5, <4>1, <5>1 DEF Executes, TypeOK
                <6> QED BY <3>1, <3>5, <6>1 DEF HoldsRow
            <5>2. CASE v # w
                <6>1. work'[v] = work[v] /\ Executes(v, j)
                    BY <3>5, <4>1, <5>2 DEF Executes, TypeOK
                <6>2. j # i
                    BY <3>3, <4>1, <6>1
                <6> QED
                    BY <3>1, <3>2, <4>1, <6>1, <6>2 DEF HolderKeepsRow, HoldsRow
            <5> QED BY <5>1, <5>2
        <4> QED BY <4>1 DEF HolderKeepsRow
    <3> QED BY <2>1, <3>4, <3>5 DEF begin_downstream_execution, AcceptOrExhaust
  <2>2. CASE BusinessWorkDone(w)
    <3>1. work[w] \in ActiveWork
        BY <2>2, Active DEF BusinessWorkDone
    <3>2. \A v \in Workers : \A i \in Intents :
             Executes(v, i)' => Executes(v, i) /\ work'[v].token = work[v].token
        BY <2>2, <3>1 DEF BusinessWorkDone, Executes, TypeOK, ActiveWork
    <3> QED BY <2>2, <3>2, HoldKept DEF BusinessWorkDone
  <2>3. ASSUME work' = [work EXCEPT ![w] = IdleWork], UNCHANGED token,
               \A i \in Intents : i \notin Held(w) =>
                   status'[i] = status[i] /\ deadline'[i] = deadline[i]
        PROVE  HolderKeepsRow'
    <3>1. \A v \in Workers : \A i \in Intents :
             Executes(v, i)' => v # w /\ work'[v] = work[v] /\ Executes(v, i)
        BY <2>3 DEF Executes, TypeOK, IdleWork
    <3>2. \A v \in Workers : \A i \in Intents :
             TimeLimits /\ v # w /\ Executes(v, i) => i \notin Held(w)
        BY DEF HolderKeepsRow, HoldsRow, Held, Fence, OneTokenPerExecution
    <3> QED BY <2>3, <3>1, <3>2, HoldKept
  <2> QED
    BY <1>6, <2>1, <2>2, <2>3
    DEF WorkerStep, complete_downstream_execution, fail_downstream_execution,
        defer_downstream_execution, Acknowledge, WorkerDies
<1>7. ASSUME NEW i \in Intents, requeue_failed_downstream_operations(i)
      PROVE  HolderKeepsRow'
    BY <1>7, <1>a, <1>b, HoldKept DEF requeue_failed_downstream_operations, ResetRow
<1>8. ASSUME NEW i \in Intents, Elapse(i) PROVE HolderKeepsRow'
  <2>1. TimeLimits => \A w \in Workers : ~Executes(w, i)
    BY <1>8, <1>a DEF Elapse
  <2>2. \A j \in Intents \ {i} : deadline'[j] = deadline[j]
    BY <1>8 DEF Elapse
  <2> QED BY <1>8, <2>1, <2>2, <1>b, HoldKept DEF Elapse
<1> QED
    BY <1>1, <1>2, <1>3, <1>4, <1>5, <1>6, <1>7, <1>8
    DEF Next, vars, RefuseDelivery, LoseMessage

\* Two workers execute one intent at the same time only without the task limits,
\* and then under different tokens (begin_downstream_execution, the claims and
\* every late mark).
THEOREM ExecutionIsExclusive == Spec => []OneExecution
<1>1. Init => HolderKeepsRow
    BY DEF Init, HolderKeepsRow, Executes, IdleWork
<1>2. TokenInv /\ TokenInv' /\ HolderKeepsRow /\ [Next]_vars => HolderKeepsRow'
    BY NextHolder DEF TokenInv
<1>3. TokenInv /\ HolderKeepsRow => OneExecution
    <2> SUFFICES ASSUME TokenInv, HolderKeepsRow, NEW i \in Intents,
                        NEW v \in Workers, NEW w \in Workers,
                        Executes(v, i), Executes(w, i), v # w
                 PROVE ~TimeLimits /\ work[v].token # work[w].token
        BY DEF OneExecution
    <2>1. work[v].token # work[w].token
        BY DEF TokenInv, Fence, OneTokenPerExecution
    <2>2. ~TimeLimits
        BY <2>1 DEF HolderKeepsRow, HoldsRow
    <2> QED BY <2>1, <2>2
<1> QED BY <1>1, <1>2, <1>3, TokenInvariant, PTL DEF Spec

(***************************************************************************)
(* The gate.                                                               *)
(***************************************************************************)
\* Steps that move no child into the dispatched states keep the gate.
LEMMA GateKept ==
    ASSUME GateOpensAtTheEnd, finalized \subseteq finalized',
           \A i \in Intents : requeues'[i] = 0 => requeues[i] = 0,
           \A i \in Children : status'[i] \in Dispatched =>
               \/ status[i] \in Dispatched
               \/ RunOf[i] \in finalized'
               \/ requeues'[i] # 0
    PROVE  GateOpensAtTheEnd'
BY OutboxAssumption DEF GateOpensAtTheEnd

\* Every step keeps the gate.
LEMMA NextGate == TypeOK /\ TypeOK' /\ GateOpensAtTheEnd /\ [Next]_vars => GateOpensAtTheEnd'
<1> SUFFICES ASSUME TypeOK, TypeOK', GateOpensAtTheEnd, [Next]_vars
             PROVE  GateOpensAtTheEnd'
    OBVIOUS
<1> USE OutboxAssumption DEF table, counters, gate, history, Put, Dispatched
<1>1. CASE UNCHANGED <<status, finalized, requeues>>
    BY <1>1, GateKept
<1>2. ASSUME NEW i \in Intents, StageIntent(i) PROVE GateOpensAtTheEnd'
    BY <1>2, GateKept DEF StageIntent, stage_downstream_operation, New
<1>3. ASSUME NEW run \in Runs, process_sentinel(run) PROVE GateOpensAtTheEnd'
    BY <1>3, GateKept DEF process_sentinel, stage_downstream_operation, New, ChildrenOf
<1>4. ASSUME NEW f \in Finalizers, FinalizerStep(f) PROVE GateOpensAtTheEnd'
  <2>1. ASSUME NEW run, NEW t, stage_finalize_operations(f, run, t),
               UNCHANGED <<finalized, requeues>>
        PROVE  GateOpensAtTheEnd'
    BY <2>1, GateKept DEF stage_finalize_operations, stage_downstream_operation
  <2>2. ASSUME NEW run \in Runs, ExhaustRecovery(run), UNCHANGED <<finalized, requeues>>
        PROVE  GateOpensAtTheEnd'
    BY <2>2, GateKept DEF ExhaustRecovery
  <2>3. ASSUME NEW run \in Runs, NEW spent, LeaseWaitingRows(f, run, spent),
               UNCHANGED <<finalized, requeues>>
        PROVE  GateOpensAtTheEnd'
    BY <1>1, <2>3 DEF LeaseWaitingRows
  <2>4. CASE activate_finalize_operations(f)
    BY <2>4, GateKept DEF activate_finalize_operations, WaitingOf
  <2> QED
    BY <1>1, <1>4, <2>1, <2>2, <2>3, <2>4
    DEF FinalizerStep, finalize_run, RecoveryFinalizes, FinalizeRaises, FinalizerDies,
        claim_waiting_finalizations, mark_waiting_finalization_recovery_failed
<1>5. ASSUME NEW p \in Publishers, PublisherStep(p) PROVE GateOpensAtTheEnd'
  <2>1. ASSUME NEW i \in Intents, NEW kind, _lease_for_dispatch(p, i, kind),
               Dispatchable(i), UNCHANGED <<finalized, requeues>>
        PROVE  GateOpensAtTheEnd'
    BY <2>1, GateKept DEF _lease_for_dispatch, Dispatchable
  <2>2. CASE mark_downstream_dispatch_published(p)
    BY <2>2, GateKept DEF mark_downstream_dispatch_published, Sending
  <2>3. CASE mark_downstream_dispatch_failed(p)
    BY <2>3, GateKept DEF mark_downstream_dispatch_failed, Sending
  <2> QED
    BY <1>1, <1>5, <2>1, <2>2, <2>3
    DEF PublisherStep, claim_downstream_dispatches, claim_staged_dispatches,
        _publish_downstream, PublishRaises, MarkRaises, PublisherStops
<1>6. ASSUME NEW w \in Workers, WorkerStep(w) PROVE GateOpensAtTheEnd'
  <2>1. ASSUME NEW i \in Intents, NEW t \in queue[i], begin_downstream_execution(w, i, t)
        PROVE  GateOpensAtTheEnd'
    BY <2>1, GateKept DEF begin_downstream_execution, AcceptOrExhaust, Admits
  <2>2. CASE complete_downstream_execution(w)
    BY <2>2, GateKept DEF complete_downstream_execution, Held
  <2>3. CASE fail_downstream_execution(w)
    BY <2>3, GateKept DEF fail_downstream_execution, Held
  <2>4. CASE defer_downstream_execution(w)
    BY <2>4, GateKept DEF defer_downstream_execution, Held
  <2> QED
    BY <1>1, <1>6, <2>1, <2>2, <2>3, <2>4 DEF WorkerStep, BusinessWorkDone, WorkerDies
<1>7. ASSUME NEW i \in Intents, requeue_failed_downstream_operations(i)
      PROVE  GateOpensAtTheEnd'
    BY <1>7, GateKept DEF requeue_failed_downstream_operations, TypeOK
<1> QED
    BY <1>1, <1>2, <1>3, <1>4, <1>5, <1>6, <1>7
    DEF Next, vars, RefuseDelivery, LoseMessage, Elapse

\* A child is dispatchable only after a finalization of its run reached its
\* end, unless an operator requeued it (finalize_run,
\* activate_finalize_operations).
THEOREM GateIsKept == Spec => []GateOpensAtTheEnd
<1>1. Init => GateOpensAtTheEnd
    BY OutboxAssumption DEF Init, GateOpensAtTheEnd, Dispatched
<1>2. TypeOK /\ TypeOK' /\ GateOpensAtTheEnd /\ [Next]_vars => GateOpensAtTheEnd'
    BY NextGate
<1> QED BY <1>1, <1>2, TypeCorrect, PTL DEF Spec

(***************************************************************************)
(* Recovery.  With the task limits, every waiting row of a run on which a  *)
(* recovery works is leased and held back by that recovery, so no second   *)
(* one finds a due row.                                                    *)
(***************************************************************************)
Recovers(f, run) == fin[f].phase # "idle" /\ fin[f].token # NoToken /\ fin[f].run = run

RecoveryHoldsGate ==
    \A f \in Finalizers : \A i \in Intents :
        Recovers(f, RunOf[i]) /\ status[i] = "waiting" =>
            deadline[i] = "ahead" /\ f \in armed[i]

OnlyRecoveryReleases == \A f \in Finalizers : fin[f].phase = "raised" => fin[f].token # NoToken

OneRecovery ==
    \A run \in Runs : \A f, g \in Finalizers : Recovers(f, run) /\ Recovers(g, run) => f = g

RecoveryInv == OnlyRecoveryReleases /\ (TimeLimits => RecoveryHoldsGate /\ OneRecovery)

\* A step that starts no recovery and takes no waiting row from one keeps the
\* recovery invariant.
LEMMA RecoveryKept ==
    ASSUME RecoveryInv, OnlyRecoveryReleases',
           TimeLimits => \A f \in Finalizers : \A run \in Runs :
               Recovers(f, run)' => Recovers(f, run),
           TimeLimits => \A f \in Finalizers : \A i \in Intents :
               Recovers(f, RunOf[i])' /\ status'[i] = "waiting" =>
                   \/ deadline'[i] = "ahead" /\ f \in armed'[i]
                   \/ /\ status[i] = "waiting"
                      /\ deadline[i] = "ahead" => deadline'[i] = "ahead"
                      /\ f \in armed[i] => f \in armed'[i]
    PROVE  RecoveryInv'
BY OutboxAssumption DEF RecoveryInv, RecoveryHoldsGate, OneRecovery

\* Every step keeps the recovery invariant.
LEMMA NextRecovery == TypeOK /\ TypeOK' /\ RecoveryInv /\ [Next]_vars => RecoveryInv'
<1> SUFFICES ASSUME TypeOK, TypeOK', RecoveryInv, [Next]_vars PROVE RecoveryInv'
    OBVIOUS
<1> USE OutboxAssumption DEF table, counters, gate, history, Put
<1>a. OnlyRecoveryReleases
    BY DEF RecoveryInv
<1>b. UNCHANGED fin =>
         /\ OnlyRecoveryReleases'
         /\ \A f \in Finalizers : \A run \in Runs : Recovers(f, run)' => Recovers(f, run)
    BY <1>a DEF OnlyRecoveryReleases, Recovers
<1>0. ASSUME UNCHANGED gate,
             \A i \in Intents : status'[i] = "waiting" =>
                 status[i] = "waiting" /\ deadline'[i] = deadline[i]
      PROVE  RecoveryInv'
    BY <1>0, <1>b, RecoveryKept
<1>1. CASE UNCHANGED <<status, deadline, gate>>
    BY <1>1, <1>0
<1>2. ASSUME NEW i \in Intents, StageIntent(i) PROVE RecoveryInv'
    BY <1>2, <1>0 DEF StageIntent, stage_downstream_operation, New
<1>3. ASSUME NEW run \in Runs, process_sentinel(run) PROVE RecoveryInv'
    BY <1>3, <1>0 DEF process_sentinel, stage_downstream_operation, New
<1>4. ASSUME NEW f \in Finalizers, FinalizerStep(f) PROVE RecoveryInv'
  <2>1. ASSUME NEW run \in Runs, NEW t \in Nat, stage_finalize_operations(f, run, t),
               t # NoToken => Recovers(f, run)
        PROVE  RecoveryInv'
    <3>1. fin' = [fin EXCEPT ![f] = [phase |-> "steps", run |-> run, token |-> t]]
        BY <2>1 DEF stage_finalize_operations
    <3>2. /\ fin'[f].phase = "steps" /\ fin'[f].run = run /\ fin'[f].token = t
          /\ \A g \in Finalizers \ {f} : fin'[g] = fin[g]
        BY <3>1 DEF TypeOK
    <3>3. OnlyRecoveryReleases'
        BY <1>a, <3>2 DEF OnlyRecoveryReleases
    <3>4. \A g \in Finalizers : \A r \in Runs : Recovers(g, r)' => Recovers(g, r)
        BY <2>1, <3>2 DEF Recovers
    <3>5. PICK S \in SUBSET ChildrenOf(run) :
             /\ stage_downstream_operation(S, "waiting")
             /\ armed' = Put(armed, New(S), Alive(f))
        BY <2>1 DEF stage_finalize_operations
    <3>6. \A i \in New(S) : i \in Intents => deadline'[i] = "ahead" /\ armed'[i] = Alive(f)
        BY <3>5 DEF stage_downstream_operation
    <3>7. \A i \in Intents : i \notin New(S) =>
             deadline'[i] = deadline[i] /\ armed'[i] = armed[i] /\ status'[i] = status[i]
        BY <3>5 DEF stage_downstream_operation
    <3>8. \A g \in Finalizers : \A r \in Runs : Recovers(g, r) => g \in Alive(f)
        BY DEF Recovers, Alive
    <3> QED BY <3>3, <3>4, <3>6, <3>7, <3>8, RecoveryKept
  <2>2. ASSUME NEW run \in Runs, ExhaustRecovery(run) PROVE RecoveryInv'
    BY <2>2, <1>0 DEF ExhaustRecovery
  <2>3. ASSUME NEW run \in Runs, NEW spent, LeaseWaitingRows(f, run, spent),
               DueWaitingOf(run) # {}
        PROVE  RecoveryInv'
    <3> DEFINE t == minted[run] + 1
    <3>1. fin' = [fin EXCEPT ![f] = [phase |-> "claimed", run |-> run, token |-> t]]
        BY <2>3 DEF LeaseWaitingRows
    <3>2. /\ fin'[f].phase = "claimed" /\ fin'[f].run = run
          /\ \A g \in Finalizers \ {f} : fin'[g] = fin[g]
        BY <3>1 DEF TypeOK
    <3>3. OnlyRecoveryReleases'
        BY <1>a, <3>2 DEF OnlyRecoveryReleases
    <3>4. TimeLimits => \A g \in Finalizers : ~Recovers(g, run)
        BY <2>3 DEF RecoveryInv, RecoveryHoldsGate, DueWaitingOf, WaitingOf
    <3>5. \A g \in Finalizers : \A r \in Runs :
             Recovers(g, r)' => (g = f /\ r = run) \/ (g # f /\ Recovers(g, r))
        BY <3>2 DEF Recovers
    <3>6. TimeLimits => OneRecovery'
        BY <3>4, <3>5 DEF RecoveryInv, OneRecovery
    <3>7. UNCHANGED status /\ \A i \in WaitingOf(run) : deadline'[i] = "ahead" /\ f \in armed'[i]
        BY <2>3 DEF LeaseWaitingRows, WaitingOf, Alive
    <3>8. \A i \in Intents : i \notin WaitingOf(run) =>
             deadline'[i] = deadline[i] /\ armed'[i] = armed[i]
        BY <2>3 DEF LeaseWaitingRows
    <3>9. TimeLimits => RecoveryHoldsGate'
        <4> SUFFICES ASSUME TimeLimits, NEW g \in Finalizers, NEW i \in Intents,
                            Recovers(g, RunOf[i])', status'[i] = "waiting"
                     PROVE  deadline'[i] = "ahead" /\ g \in armed'[i]
            BY DEF RecoveryHoldsGate
        <4>1. CASE RunOf[i] = run
            BY <4>1, <3>4, <3>5, <3>7 DEF WaitingOf
        <4>2. CASE RunOf[i] # run
            BY <4>2, <3>5, <3>7, <3>8 DEF WaitingOf, RecoveryInv, RecoveryHoldsGate
        <4> QED BY <4>1, <4>2
    <3> QED BY <3>3, <3>6, <3>9 DEF RecoveryInv
  <2>4. ASSUME fin' = [fin EXCEPT ![f] = IdleFin],
               \A i \in Intents : status'[i] = "waiting" =>
                   /\ status[i] = "waiting"
                   /\ deadline[i] = "ahead" => deadline'[i] = "ahead",
               TimeLimits => \A g \in Finalizers : \A i \in Intents :
                   /\ g # f /\ status'[i] = "waiting"
                   /\ Recovers(g, RunOf[i]) /\ g \in armed[i]
                   => g \in armed'[i]
        PROVE  RecoveryInv'
    <3>1. OnlyRecoveryReleases'
        BY <1>a, <2>4 DEF OnlyRecoveryReleases, IdleFin, TypeOK
    <3>2. \A g \in Finalizers : \A r \in Runs : Recovers(g, r)' => g # f /\ Recovers(g, r)
        BY <2>4 DEF Recovers, IdleFin, TypeOK
    <3> QED BY <2>4, <3>1, <3>2, RecoveryKept
  <2>5. CASE activate_finalize_operations(f)
    BY <2>4, <2>5 DEF activate_finalize_operations, GoIdle
  <2>6. CASE FinalizeRaises(f)
    <3>1. CASE fin[f].token = NoToken
        BY <2>4, <2>6, <3>1 DEF FinalizeRaises, GoIdle
    <3>2. CASE fin[f].token # NoToken
        <4>1. fin[f] \in ActiveFin /\ fin' = [fin EXCEPT ![f].phase = "raised"]
            BY <2>6, <3>2, Active DEF FinalizeRaises
        <4>2. /\ fin'[f].phase = "raised" /\ fin'[f].run = fin[f].run
              /\ fin'[f].token = fin[f].token
              /\ \A g \in Finalizers \ {f} : fin'[g] = fin[g]
            BY <4>1 DEF TypeOK, ActiveFin
        <4>3. OnlyRecoveryReleases'
            BY <1>a, <3>2, <4>2 DEF OnlyRecoveryReleases
        <4>4. \A g \in Finalizers : \A r \in Runs : Recovers(g, r)' => Recovers(g, r)
            BY <2>6, <4>2 DEF Recovers, FinalizeRaises
        <4> QED BY <2>6, <3>2, <4>3, <4>4, RecoveryKept DEF FinalizeRaises
    <3> QED BY <3>1, <3>2
  <2>7. CASE FinalizerDies(f)
    BY <2>4, <2>7 DEF FinalizerDies, GoIdle
  <2>8. CASE mark_waiting_finalization_recovery_failed(f)
    <3>1. fin[f] \in ActiveFin /\ Recovers(f, fin[f].run)
        BY <2>8, <1>a, Active DEF mark_waiting_finalization_recovery_failed,
           OnlyRecoveryReleases, Recovers
    <3>2. TimeLimits => \A g \in Finalizers : g # f => ~Recovers(g, fin[f].run)
        BY <3>1 DEF RecoveryInv, OneRecovery, ActiveFin
    <3>3. \A i \in Intents : RunOf[i] # fin[f].run => armed'[i] = armed[i] \ {f}
        BY <2>8 DEF mark_waiting_finalization_recovery_failed, WaitingOf
    <3> QED BY <2>4, <2>8, <3>2, <3>3 DEF mark_waiting_finalization_recovery_failed
  <2>9. ASSUME NEW run \in Runs, finalize_run(f, run) PROVE RecoveryInv'
    BY <2>1, <2>9 DEF finalize_run, NoToken
  <2>10. CASE RecoveryFinalizes(f)
    <3>1. fin[f] \in ActiveFin
        BY <2>10, Active DEF RecoveryFinalizes
    <3>2. fin[f].run \in Runs /\ fin[f].token \in Nat
        BY <3>1 DEF ActiveFin
    <3>3. fin[f].token # NoToken => Recovers(f, fin[f].run)
        BY <2>10 DEF Recovers, RecoveryFinalizes
    <3> QED BY <2>1, <2>10, <3>2, <3>3 DEF RecoveryFinalizes
  <2> QED
    BY <1>4, <2>2, <2>3, <2>5, <2>6, <2>7, <2>8, <2>9, <2>10
    DEF FinalizerStep, claim_waiting_finalizations
<1>5. ASSUME NEW p \in Publishers, PublisherStep(p) PROVE RecoveryInv'
  <2>1. ASSUME NEW i \in Intents, NEW kind, _lease_for_dispatch(p, i, kind),
               Dispatchable(i), UNCHANGED gate
        PROVE  RecoveryInv'
    BY <2>1, <1>0 DEF _lease_for_dispatch, Dispatchable
  <2>2. CASE mark_downstream_dispatch_published(p)
    BY <2>2, <1>0 DEF mark_downstream_dispatch_published, Sending
  <2>3. CASE mark_downstream_dispatch_failed(p)
    BY <2>3, <1>0 DEF mark_downstream_dispatch_failed, Sending
  <2> QED
    BY <1>1, <1>5, <2>1, <2>2, <2>3
    DEF PublisherStep, claim_downstream_dispatches, claim_staged_dispatches,
        _publish_downstream, PublishRaises, MarkRaises, PublisherStops
<1>6. ASSUME NEW w \in Workers, WorkerStep(w) PROVE RecoveryInv'
  <2>1. ASSUME NEW i \in Intents, NEW t \in queue[i], begin_downstream_execution(w, i, t)
        PROVE  RecoveryInv'
    BY <2>1, <1>0 DEF begin_downstream_execution, AcceptOrExhaust
  <2>2. CASE complete_downstream_execution(w)
    BY <2>2, <1>0 DEF complete_downstream_execution, Held
  <2>3. CASE fail_downstream_execution(w)
    BY <2>3, <1>0 DEF fail_downstream_execution, Held
  <2>4. CASE defer_downstream_execution(w)
    BY <2>4, <1>0 DEF defer_downstream_execution, Held
  <2> QED
    BY <1>1, <1>6, <2>1, <2>2, <2>3, <2>4 DEF WorkerStep, BusinessWorkDone, WorkerDies
<1>7. ASSUME NEW i \in Intents, requeue_failed_downstream_operations(i) PROVE RecoveryInv'
    BY <1>7, <1>0 DEF requeue_failed_downstream_operations
<1>8. ASSUME NEW i \in Intents, Elapse(i) PROVE RecoveryInv'
  <2>1. TimeLimits /\ status[i] = "waiting" => armed[i] = {}
    BY <1>8 DEF Elapse
  <2>2. TimeLimits /\ status[i] = "waiting" => \A f \in Finalizers : ~Recovers(f, RunOf[i])
    BY <2>1 DEF RecoveryInv, RecoveryHoldsGate
  <2>3. \A j \in Intents \ {i} : deadline'[j] = deadline[j]
    BY <1>8 DEF Elapse
  <2> QED BY <1>8, <2>2, <2>3, <1>b, RecoveryKept DEF Elapse
<1> QED
    BY <1>1, <1>2, <1>3, <1>4, <1>5, <1>6, <1>7, <1>8
    DEF Next, vars, RefuseDelivery, LoseMessage

\* With the task limits, at most one recovery works on the gate of a run
\* (claim_waiting_finalizations, mark_waiting_finalization_recovery_failed).
THEOREM RecoveryIsExclusive == Spec => []RecoveryExclusive
<1>1. Init => RecoveryInv
    BY DEF Init, RecoveryInv, OnlyRecoveryReleases, RecoveryHoldsGate, OneRecovery, Recovers,
           IdleFin
<1>2. TypeOK /\ TypeOK' /\ RecoveryInv /\ [Next]_vars => RecoveryInv'
    BY NextRecovery
<1>3. TypeOK /\ RecoveryInv => RecoveryExclusive
  <2> SUFFICES ASSUME TypeOK, RecoveryInv, TimeLimits,
                      NEW f \in Finalizers, NEW g \in Finalizers,
                      fin[f].phase # "idle", fin[g].phase # "idle",
                      fin[f].token # NoToken, fin[g].token # NoToken,
                      fin[f].run = fin[g].run
               PROVE  f = g
    BY DEF RecoveryExclusive
  <2>1. fin[f].run \in Runs
    BY Active DEF ActiveFin
  <2> QED BY <2>1 DEF RecoveryInv, OneRecovery, Recovers
<1> QED BY <1>1, <1>2, <1>3, TypeCorrect, PTL DEF Spec
=============================================================================
