------------------- MODULE RunDownstreamOutboxRefinement -------------------
(***************************************************************************)
(* The transactional outbox implements AtLeastOnce, for every number of    *)
(* runs, intents, publishers, workers and finalizers: machine-checked      *)
(* proof that every step of RunDownstreamOutbox is a step of AtLeastOnce   *)
(* or leaves its two variables unchanged.                                  *)
(***************************************************************************)
EXTENDS RunDownstreamOutboxProofs

\* What a status means to AtLeastOnce.
Meaning(s) ==
    CASE s = "absent" -> "none"
      [] s = "completed" -> "done"
      [] s = "failed" -> "dead"
      [] OTHER -> "open"

Waits == {"waiting", "pending", "sending", "published", "processing"}

\* A row of the outbox is the item its status stands for.
LEMMA StateIsMeaning ==
    /\ \A i \in Intents : state[i] = Meaning(status[i])
    /\ \A i \in Intents : state'[i] = Meaning(status'[i])
BY DEF state, Meaning

\* A step after which every row stands for what it stood for, and no work was
\* performed, is a stutter of AtLeastOnce.
LEMMA Stutters ==
    ASSUME \A i \in Intents : Meaning(status'[i]) = Meaning(status[i]), UNCHANGED worked
    PROVE  UNCHANGED <<state, performed>>
<1>1. state' = state
    BY StateIsMeaning DEF state
<1> QED BY <1>1 DEF performed

\* A step that moves the rows of S from one state to another.
LEMMA RowsMove ==
    ASSUME NEW S \in SUBSET Intents, NEW from, NEW to,
           \A i \in S : Meaning(status[i]) = from /\ Meaning(status'[i]) = to,
           \A i \in Intents \ S : Meaning(status'[i]) = Meaning(status[i]),
           UNCHANGED worked
    PROVE  Outbox!Moves(S, from, to)
<1>1. \A i \in S : state[i] = from
    BY StateIsMeaning
<1>2. state' = [i \in Intents |-> IF i \in S THEN to ELSE state[i]]
    BY StateIsMeaning DEF state
<1> QED BY <1>1, <1>2 DEF Outbox!Moves, performed

\* The three steps that change what rows stand for, as steps of AtLeastOnce.
LEMMA Allowed ==
    ASSUME NEW S \in SUBSET Intents,
           \/ Outbox!Moves(S, "none", "open")
           \/ Outbox!Moves(S, "open", "done") /\ S \subseteq performed
           \/ Outbox!Moves(S, "open", "dead")
           \/ Outbox!Moves(S, "dead", "open")
    PROVE  Outbox!Next
BY DEF Outbox!Next, Outbox!Create, Outbox!Finish, Outbox!GiveUp, Outbox!Reopen

\* Staging opens rows that were absent.
LEMMA StagingOpens ==
    ASSUME TypeOK, NEW S \in SUBSET Intents, NEW s \in {"waiting", "pending"},
           stage_downstream_operation(S, s), UNCHANGED worked
    PROVE  Outbox!Next
<1>1. Outbox!Moves(New(S), "none", "open")
  <2>1. New(S) \in SUBSET Intents
    BY DEF New
  <2>2. \A i \in New(S) : Meaning(status[i]) = "none" /\ Meaning(status'[i]) = "open"
    BY <2>1 DEF New, stage_downstream_operation, Put, Meaning
  <2>3. \A i \in Intents \ New(S) : Meaning(status'[i]) = Meaning(status[i])
    BY DEF stage_downstream_operation, Put
  <2> QED BY <2>1, <2>2, <2>3, RowsMove
<1> QED BY <1>1, Allowed DEF New

\* Rows that wait fail.
LEMMA RowsGiveUp ==
    ASSUME TypeOK, NEW S \in SUBSET Intents,
           \A i \in S : status[i] \in Waits /\ status'[i] = "failed",
           \A i \in Intents \ S : status'[i] = status[i],
           UNCHANGED worked
    PROVE  Outbox!Next
<1>1. \A i \in S : Meaning(status[i]) = "open" /\ Meaning(status'[i]) = "dead"
    BY DEF Waits, Meaning
<1>2. Outbox!Moves(S, "open", "dead")
    BY <1>1, RowsMove
<1> QED BY <1>2, Allowed

\* Rows that wait go on waiting.
LEMMA RowsWait ==
    ASSUME TypeOK, NEW S \in SUBSET Intents,
           \A i \in S : status[i] \in Waits /\ status'[i] \in Waits,
           \A i \in Intents \ S : status'[i] = status[i],
           UNCHANGED worked
    PROVE  UNCHANGED <<state, performed>>
<1>1. \A i \in Intents : Meaning(status'[i]) = Meaning(status[i])
    BY DEF Waits, Meaning
<1> QED BY <1>1, Stutters

\* The same of one row.
LEMMA OneRowMoves ==
    ASSUME TypeOK, NEW i \in Intents,
           status[i] \in Waits, status'[i] \in Waits \cup {"failed"},
           \A j \in Intents \ {i} : status'[j] = status[j],
           UNCHANGED worked
    PROVE  Outbox!Next \/ UNCHANGED <<state, performed>>
<1> DEFINE S == {i}
<1>1. S \in SUBSET Intents /\ \A j \in S : status[j] \in Waits
    OBVIOUS
<1>2. \A j \in Intents \ S : status'[j] = status[j]
    OBVIOUS
<1>3. CASE status'[i] = "failed"
  <2>1. \A j \in S : status'[j] = "failed"
    BY <1>3
  <2> HIDE DEF S
  <2> QED BY <1>1, <1>2, <2>1, RowsGiveUp
<1>4. CASE status'[i] \in Waits
  <2>1. \A j \in S : status'[j] \in Waits
    BY <1>4
  <2> HIDE DEF S
  <2> QED BY <1>1, <1>2, <2>1, RowsWait
<1> QED BY <1>3, <1>4

(***************************************************************************)
(* A worker executes rows that were staged: rows are never deleted.        *)
(***************************************************************************)
ExecutesStaged ==
    \A w \in Workers : \A i \in Intents : Executes(w, i) => status[i] # "absent"

\* No step makes a row absent, and an execution begins with a row that is
\* sending or published.
LEMMA NextExecutesStaged ==
    TypeOK /\ ExecutesStaged /\ [Next]_vars => ExecutesStaged'
<1> SUFFICES ASSUME TypeOK, ExecutesStaged, [Next]_vars PROVE ExecutesStaged'
    OBVIOUS
<1>1. \A i \in Intents : status[i] # "absent" => status'[i] # "absent"
  <2> USE DEF table, Put
  <2>1. ASSUME NEW S, NEW s \in {"waiting", "pending"}, stage_downstream_operation(S, s)
        PROVE  \A i \in Intents : status[i] # "absent" => status'[i] # "absent"
    BY <2>1 DEF stage_downstream_operation
  <2>2. ASSUME NEW f \in Finalizers, FinalizerStep(f)
        PROVE  \A i \in Intents : status[i] # "absent" => status'[i] # "absent"
    BY <2>1, <2>2
    DEF FinalizerStep, finalize_run, stage_finalize_operations, RecoveryFinalizes,
        claim_waiting_finalizations, ExhaustRecovery, LeaseWaitingRows,
        activate_finalize_operations, FinalizeRaises, FinalizerDies,
        mark_waiting_finalization_recovery_failed
  <2>3. ASSUME NEW p \in Publishers, PublisherStep(p)
        PROVE  \A i \in Intents : status[i] # "absent" => status'[i] # "absent"
    BY <2>3
    DEF PublisherStep, claim_downstream_dispatches, claim_staged_dispatches,
        _lease_for_dispatch, _publish_downstream, PublishRaises, MarkRaises,
        mark_downstream_dispatch_published, mark_downstream_dispatch_failed, PublisherStops
  <2>4. ASSUME NEW w \in Workers, WorkerStep(w)
        PROVE  \A i \in Intents : status[i] # "absent" => status'[i] # "absent"
    BY <2>4
    DEF WorkerStep, begin_downstream_execution, AcceptOrExhaust, BusinessWorkDone,
        complete_downstream_execution, fail_downstream_execution,
        defer_downstream_execution, WorkerDies
  <2> QED BY <2>1, <2>2, <2>3, <2>4
          DEF Next, vars, StageIntent, process_sentinel, RefuseDelivery, LoseMessage,
              requeue_failed_downstream_operations, Elapse
<1>2. ASSUME NEW w \in Workers, NEW i \in Intents, Executes(w, i)', ~Executes(w, i)
      PROVE  status'[i] = "processing"
  <2> USE DEF Executes
  <2>1. ASSUME NEW v \in Workers, NEW j \in Intents, NEW t \in queue[j],
               begin_downstream_execution(v, j, t)
        PROVE  status'[i] = "processing"
    BY <1>2, <2>1 DEF begin_downstream_execution, AcceptOrExhaust, TypeOK, Put
  <2>2. ASSUME NEW v \in Workers, WorkerStep(v),
               ~\E j \in Intents : \E t \in queue[j] : begin_downstream_execution(v, j, t)
        PROVE  FALSE
    <3>1. CASE BusinessWorkDone(v)
      <4>1. work[v].phase = "running" /\ work' = [work EXCEPT ![v].phase = "finished"]
        BY <3>1 DEF BusinessWorkDone
      <4>2. work[v] \in ActiveWork /\ work \in [Workers -> ActiveWork \cup {IdleWork}]
        BY <4>1, Active DEF TypeOK
      <4>3. work'[v].intent = work[v].intent
        BY <4>1, <4>2 DEF ActiveWork
      <4>4. w # v => work'[w] = work[w]
        BY <4>1, <4>2
      <4> QED BY <1>2, <4>1, <4>3, <4>4
    <3>2. CASE work' = [work EXCEPT ![v] = IdleWork]
        BY <1>2, <3>2 DEF TypeOK, IdleWork
    <3> QED BY <2>2, <3>1, <3>2
            DEF WorkerStep, complete_downstream_execution, Acknowledge,
                fail_downstream_execution, defer_downstream_execution, WorkerDies
  <2>3. CASE UNCHANGED work
    BY <1>2, <2>3
  <2> QED BY <2>1, <2>2, <2>3
          DEF Next, vars, StageIntent, process_sentinel, FinalizerStep, finalize_run,
              RecoveryFinalizes, claim_waiting_finalizations, activate_finalize_operations,
              FinalizeRaises, FinalizerDies, mark_waiting_finalization_recovery_failed,
              PublisherStep, claim_downstream_dispatches, claim_staged_dispatches,
              _publish_downstream, PublishRaises, MarkRaises,
              mark_downstream_dispatch_published, mark_downstream_dispatch_failed,
              PublisherStops, RefuseDelivery, LoseMessage,
              requeue_failed_downstream_operations, Elapse
<1> QED BY <1>1, <1>2 DEF ExecutesStaged

\* An operator reopens a failed row.
LEMMA RequeueReopens ==
    ASSUME TypeOK, NEW i \in Intents, requeue_failed_downstream_operations(i)
    PROVE  Outbox!Next
<1>1. /\ \A j \in {i} : Meaning(status[j]) = "dead" /\ Meaning(status'[j]) = "open"
      /\ \A j \in Intents \ {i} : Meaning(status'[j]) = Meaning(status[j])
      /\ UNCHANGED worked
    BY DEF requeue_failed_downstream_operations, Put, Meaning, TypeOK
<1>2. Outbox!Moves({i}, "dead", "open")
    BY <1>1, RowsMove
<1> QED BY <1>2, Allowed

\* A finalizer stages, opens or exhausts a gate.
LEMMA FinalizerStepRefines ==
    ASSUME TypeOK, NEW f \in Finalizers, FinalizerStep(f)
    PROVE  Outbox!Next \/ UNCHANGED <<state, performed>>
<1> USE DEF history
<1>1. ASSUME NEW run, NEW t, stage_finalize_operations(f, run, t), UNCHANGED worked
      PROVE  Outbox!Next
  <2>1. PICK S \in SUBSET ChildrenOf(run) : stage_downstream_operation(S, "waiting")
    BY <1>1 DEF stage_finalize_operations
  <2>2. S \in SUBSET Intents
    BY OutboxAssumption DEF ChildrenOf
  <2> QED BY <1>1, <2>1, <2>2, StagingOpens
<1>2. ASSUME NEW run \in Runs, claim_waiting_finalizations(f, run)
      PROVE  Outbox!Next \/ UNCHANGED <<state, performed>>
  <2>1. CASE ExhaustRecovery(run)
    <3>1. /\ WaitingOf(run) \in SUBSET Intents
          /\ \A i \in WaitingOf(run) : status[i] \in Waits /\ status'[i] = "failed"
          /\ \A i \in Intents \ WaitingOf(run) : status'[i] = status[i]
        BY <2>1 DEF ExhaustRecovery, WaitingOf, Put, Waits
    <3> QED BY <1>2, <3>1, RowsGiveUp DEF claim_waiting_finalizations
  <2>2. CASE \E spent \in 0 .. MAX_FINALIZATION_RECOVERY_ATTEMPTS :
                LeaseWaitingRows(f, run, spent)
    BY <1>2, <2>2, Stutters DEF claim_waiting_finalizations, LeaseWaitingRows
  <2> QED BY <1>2, <2>1, <2>2 DEF claim_waiting_finalizations
<1>3. CASE activate_finalize_operations(f)
  <2> DEFINE W == WaitingOf(fin[f].run)
  <2>1. /\ W \in SUBSET Intents
        /\ \A i \in W : status[i] \in Waits /\ status'[i] \in Waits
        /\ \A i \in Intents \ W : status'[i] = status[i]
        /\ UNCHANGED worked
    BY <1>3 DEF activate_finalize_operations, WaitingOf, Put, Waits
  <2> QED BY <2>1, RowsWait
<1>4. CASE \/ FinalizeRaises(f) \/ FinalizerDies(f)
           \/ mark_waiting_finalization_recovery_failed(f)
    BY <1>4, Stutters
    DEF FinalizeRaises, FinalizerDies, mark_waiting_finalization_recovery_failed, table
<1> QED BY <1>1, <1>2, <1>3, <1>4
        DEF FinalizerStep, finalize_run, RecoveryFinalizes

\* A publisher moves a row among its open states or gives it up.
LEMMA PublisherStepRefines ==
    ASSUME TypeOK, NEW p \in Publishers, PublisherStep(p)
    PROVE  Outbox!Next \/ UNCHANGED <<state, performed>>
<1> USE DEF history
<1>1. ASSUME NEW i \in Intents, NEW kind, Dispatchable(i),
             _lease_for_dispatch(p, i, kind), UNCHANGED worked
      PROVE  Outbox!Next \/ UNCHANGED <<state, performed>>
  <2>1. /\ status[i] \in Waits
        /\ \A j \in Intents \ {i} : status'[j] = status[j]
    BY <1>1 DEF Dispatchable, _lease_for_dispatch, Put, Waits
  <2>2. status'[i] \in {"failed", "sending"}
    BY <1>1 DEF _lease_for_dispatch, Put
  <2>3. CASE status'[i] = "failed"
    BY <1>1, <2>1, <2>3, OneRowMoves
  <2>4. CASE status'[i] = "sending"
    BY <1>1, <2>1, <2>4, OneRowMoves DEF Waits
  <2> QED BY <2>2, <2>3, <2>4
<1>2. ASSUME NEW i \in Intents,
             claim_downstream_dispatches(p, i) \/ claim_staged_dispatches(p, i)
      PROVE  Outbox!Next \/ UNCHANGED <<state, performed>>
    BY <1>1, <1>2 DEF claim_downstream_dispatches, claim_staged_dispatches
<1>3. Sending(p) \in SUBSET Intents /\ \A i \in Sending(p) : status[i] \in Waits /\ i = job[p].intent
    BY DEF Sending, Waits
<1>4. CASE mark_downstream_dispatch_published(p)
  <2>1. /\ \A i \in Sending(p) : status'[i] \in Waits
        /\ \A i \in Intents \ Sending(p) : status'[i] = status[i]
        /\ UNCHANGED worked
    BY <1>3, <1>4 DEF mark_downstream_dispatch_published, Put, Waits
  <2> QED BY <1>3, <2>1, RowsWait
<1>5. CASE mark_downstream_dispatch_failed(p)
  <2>1. /\ \A i \in Sending(p) : status'[i] \in {"failed", "pending"}
        /\ \A i \in Intents \ Sending(p) : status'[i] = status[i]
        /\ UNCHANGED worked
    BY <1>3, <1>5 DEF mark_downstream_dispatch_failed
  <2>2. \/ \A i \in Sending(p) : status'[i] = "failed"
        \/ \A i \in Sending(p) : status'[i] = "pending"
    BY <1>3, <2>1
  <2>3. CASE \A i \in Sending(p) : status'[i] = "failed"
    BY <1>3, <2>1, <2>3, RowsGiveUp
  <2>4. CASE \A i \in Sending(p) : status'[i] = "pending"
    BY <1>3, <2>1, <2>4, RowsWait DEF Waits
  <2> QED BY <2>2, <2>3, <2>4
<1>6. CASE \/ _publish_downstream(p) \/ PublishRaises(p) \/ MarkRaises(p) \/ PublisherStops(p)
    BY <1>6, Stutters
    DEF _publish_downstream, PublishRaises, MarkRaises, PublisherStops, table
<1> QED BY <1>2, <1>4, <1>5, <1>6 DEF PublisherStep

\* A worker performs, then completes; or it hands the row back or gives it up.
LEMMA WorkerStepRefines ==
    ASSUME TypeOK, Fence, ExecutesStaged, NEW w \in Workers, WorkerStep(w)
    PROVE  Outbox!Next \/ UNCHANGED <<state, performed>>
<1> USE DEF history
<1>1. ASSUME NEW i \in Intents, NEW t \in queue[i], begin_downstream_execution(w, i, t)
      PROVE  Outbox!Next \/ UNCHANGED <<state, performed>>
  <2>1. /\ status[i] \in Waits /\ status'[i] \in {"failed", "processing"}
        /\ \A j \in Intents \ {i} : status'[j] = status[j]
        /\ UNCHANGED worked
    BY <1>1 DEF begin_downstream_execution, Admits, AcceptOrExhaust, Put, Waits
  <2>2. CASE status'[i] = "failed"
    BY <2>1, <2>2, OneRowMoves
  <2>3. CASE status'[i] = "processing"
    BY <2>1, <2>3, OneRowMoves DEF Waits
  <2> QED BY <2>1, <2>2, <2>3
<1>2. CASE BusinessWorkDone(w)
  <2> DEFINE i == work[w].intent
  <2>1. i \in Intents
    BY <1>2, Active DEF BusinessWorkDone, ActiveWork
  <2>2. UNCHANGED status
    BY <1>2 DEF BusinessWorkDone, table
  <2>3. state' = state
    BY <2>2, StateIsMeaning DEF state
  <2>4. worked' = [worked EXCEPT ![i] = @ \cup {work[w].token}] /\ worked \in [Intents -> SUBSET Nat]
    BY <1>2 DEF BusinessWorkDone, TypeOK
  <2>5. performed' = performed \cup {i}
    BY <2>1, <2>4 DEF performed
  <2>6. CASE state[i] # "none"
    <3>1. Outbox!Perform(i)
        BY <2>3, <2>5, <2>6 DEF Outbox!Perform
    <3> QED BY <2>1, <3>1 DEF Outbox!Next
  <2>7. state[i] # "none"
    BY <1>2, <2>1, StateIsMeaning DEF BusinessWorkDone, ExecutesStaged, Executes, Meaning, TypeOK, Status
  <2> QED BY <2>6, <2>7
<1>3. Held(w) \in SUBSET Intents /\ \A i \in Held(w) : status[i] \in Waits /\ i = work[w].intent
    BY DEF Held, Executes, Waits
<1>4. CASE complete_downstream_execution(w)
  <2>1. \A i \in Held(w) : Meaning(status[i]) = "open" /\ Meaning(status'[i]) = "done"
    BY <1>3, <1>4 DEF complete_downstream_execution, Put, Meaning, Waits
  <2>2. \A i \in Intents \ Held(w) : Meaning(status'[i]) = Meaning(status[i])
    BY <1>4 DEF complete_downstream_execution, Put
  <2>3. Outbox!Moves(Held(w), "open", "done")
    BY <1>3, <1>4, <2>1, <2>2, RowsMove DEF complete_downstream_execution
  <2>4. Held(w) \subseteq performed
    BY <1>3, <1>4 DEF complete_downstream_execution, Fence, FinishedWorked, performed
  <2> QED BY <1>3, <2>3, <2>4, Allowed
<1>5. CASE fail_downstream_execution(w)
  <2>1. /\ \A i \in Held(w) : status'[i] \in {"failed", "pending"}
        /\ \A i \in Intents \ Held(w) : status'[i] = status[i]
        /\ UNCHANGED worked
    BY <1>3, <1>5 DEF fail_downstream_execution
  <2>2. \/ \A i \in Held(w) : status'[i] = "failed"
        \/ \A i \in Held(w) : status'[i] = "pending"
    BY <1>3, <2>1
  <2>3. CASE \A i \in Held(w) : status'[i] = "failed"
    BY <1>3, <2>1, <2>3, RowsGiveUp
  <2>4. CASE \A i \in Held(w) : status'[i] = "pending"
    BY <1>3, <2>1, <2>4, RowsWait DEF Waits
  <2> QED BY <2>2, <2>3, <2>4
<1>6. CASE defer_downstream_execution(w)
  <2>1. /\ \A i \in Held(w) : status'[i] \in Waits
        /\ \A i \in Intents \ Held(w) : status'[i] = status[i]
        /\ UNCHANGED worked
    BY <1>3, <1>6 DEF defer_downstream_execution, Put, Waits
  <2> QED BY <1>3, <2>1, RowsWait
<1>7. CASE WorkerDies(w)
    BY <1>7, Stutters DEF WorkerDies, table
<1> QED BY <1>1, <1>2, <1>4, <1>5, <1>6, <1>7 DEF WorkerStep

\* Every step of the outbox is a step of AtLeastOnce or a stutter.
LEMMA StepRefines ==
    TokenInv /\ ExecutesStaged /\ [Next]_vars => [Outbox!Next]_<<state, performed>>
<1> SUFFICES ASSUME TokenInv, ExecutesStaged, [Next]_vars
             PROVE  Outbox!Next \/ UNCHANGED <<state, performed>>
    OBVIOUS
<1> USE DEF TokenInv
<1>1. ASSUME NEW i \in Intents, StageIntent(i) PROVE Outbox!Next
  <2>1. {i} \in SUBSET Intents /\ stage_downstream_operation({i}, "pending") /\ UNCHANGED worked
    BY <1>1 DEF StageIntent, history
  <2> QED BY <2>1, StagingOpens
<1>2. ASSUME NEW run \in Runs, process_sentinel(run) PROVE Outbox!Next
  <2>1. PICK S \in SUBSET ChildrenOf(run) : stage_downstream_operation(S, "pending")
    BY <1>2 DEF process_sentinel
  <2>2. S \in SUBSET Intents
    BY OutboxAssumption DEF ChildrenOf
  <2>3. UNCHANGED worked
    BY <1>2 DEF process_sentinel
  <2> QED BY <2>1, <2>2, <2>3, StagingOpens
<1>3. ASSUME NEW i \in Intents, NEW t \in queue[i], RefuseDelivery(i, t) \/ LoseMessage(i, t)
      PROVE  UNCHANGED <<state, performed>>
    BY <1>3, Stutters DEF RefuseDelivery, LoseMessage, table, history
<1>4. ASSUME NEW i \in Intents, Elapse(i) PROVE UNCHANGED <<state, performed>>
    BY <1>4, Stutters DEF Elapse, history
<1>5. CASE UNCHANGED vars
    BY <1>5, Stutters DEF vars, table, history
<1> QED BY <1>1, <1>2, <1>3, <1>4, <1>5, FinalizerStepRefines, PublisherStepRefines,
           WorkerStepRefines, RequeueReopens
        DEF Next

\* The outbox implements AtLeastOnce: no row is completed before its business
\* work was performed, no row that ended is lost or taken back, and only an
\* operator's requeue reopens one that failed (run_downstream_outbox.py).
THEOREM OutboxImplementsAtLeastOnce == Spec => ImplementsAtLeastOnce
<1>1. Init => Outbox!Init
    BY DEF Init, Outbox!Init, state, performed
<1>2. Init => ExecutesStaged
    BY DEF Init, ExecutesStaged, Executes, IdleWork
<1>3. TokenInv => TypeOK
    BY DEF TokenInv
<1> QED BY <1>1, <1>2, <1>3, NextExecutesStaged, StepRefines, TokenInvariant, PTL
        DEF Spec, ImplementsAtLeastOnce, Outbox!Spec
=============================================================================
