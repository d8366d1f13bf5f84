----------------------- MODULE AgentPipelineRunProofs -----------------------
(***************************************************************************)
(* Proofs about AgentPipelineRun, for every set of workers and stages and  *)
(* every bound.  A step of the graph is Quiet: it moves its own worker and *)
(* the stage rows and nothing else, so each invariant about the row, the   *)
(* broker or the review meets the thirteen stage actions as one step.      *)
(*                                                                         *)
(*  - PipelineTypeCorrect                                                  *)
(*  - RunningRowsAreLeased, ResultsAreFenced     (FenceInv)                *)
(*  - LeasesAreExclusive, RejectionsStand        (TokensInv)               *)
(*  - CancellationIsSticky                       (CancelInv, StatusMoves)  *)
(*  - RowsImplementTheirLifecycle                (StatusMoves, FenceInv)   *)
(*  - AttemptsAreBounded                         (CeilingInv)              *)
(*  - ExtraAttemptsArePaidFor                    (PaidInv)                 *)
(*  - RetriesAreScheduled                        (RetryInv)                *)
(*  - AcceptancesMatchTheirEvidence              (ShowsLatestEvidence)     *)
(***************************************************************************)
EXTENDS AgentPipelineRun, FiniteSetTheorems, TLAPS

StageStatus == {"pending", "running", "completed", "failed", "skipped"}

\* Worker w goes on with its message and its token, fenced or not.
Moves(w) ==
    /\ work[w].phase \notin {"idle", "raised"}
    /\ work'[w] \in ActiveWork
    /\ work'[w].token = work[w].token
    /\ work'[w].fenced = work[w].fenced
    /\ work'[w].msg = work[w].msg
    /\ work' = [work EXCEPT ![w] = work'[w]]

\* What a step of the graph may do: it moves its own worker and the stage
\* rows, never the row of the run, its review or the broker.
Quiet(w) ==
    /\ Moves(w)
    /\ stage' \in [Stages -> StageStatus]
    /\ checkpoint' \in [Stages -> Nat]
    /\ UNCHANGED <<row, reviews, broker, minted, history>>

\* A worker that is not idle carries a message, a token and a stage.
LEMMA LiveIsActive ==
    ASSUME TypeOK, NEW w \in Workers, work[w].phase # "idle"
    PROVE  work[w] \in ActiveWork
BY DEF TypeOK, ActiveWork, IdleWork

\* A worker that changes its phase moves only itself.
LEMMA MovePhase ==
    ASSUME TypeOK, NEW w \in Workers, work[w].phase \notin {"idle", "raised"},
           NEW p \in Phase, Goes(w, p)
    PROVE  Moves(w)
<1>1. work[w] \in ActiveWork
  BY LiveIsActive
<1>2. work'[w] = [work[w] EXCEPT !.phase = p]
  BY DEF Goes, TypeOK
<1>3. work' = [work EXCEPT ![w] = work'[w]]
  BY DEF Goes, TypeOK
<1>4. /\ work'[w] \in ActiveWork
      /\ work'[w].token = work[w].token /\ work'[w].fenced = work[w].fenced
      /\ work'[w].msg = work[w].msg
  BY <1>1, <1>2 DEF ActiveWork
<1> QED
  BY <1>3, <1>4 DEF Moves

\* A worker that marks a stage done in its memory moves only itself.
LEMMA MoveDone ==
    ASSUME TypeOK, NEW w \in Workers, work[w].phase \notin {"idle", "raised"},
           NEW s \in At, work' = [work EXCEPT ![w].done = @ \cup {s}]
    PROVE  Moves(w)
<1>1. work[w] \in ActiveWork
  BY LiveIsActive
<1>2. work'[w] = [work[w] EXCEPT !.done = work[w].done \cup {s}]
  BY DEF TypeOK
<1>3. work' = [work EXCEPT ![w] = work'[w]]
  BY DEF TypeOK
<1>4. /\ work'[w] \in ActiveWork
      /\ work'[w].token = work[w].token /\ work'[w].fenced = work[w].fenced
      /\ work'[w].msg = work[w].msg
  BY <1>1, <1>2 DEF ActiveWork
<1> QED
  BY <1>3, <1>4 DEF Moves

\* A written stage row is typed.
LEMMA WriteStageType ==
    ASSUME TypeOK, NEW s, NEW v \in StageStatus, WriteStage(s, v)
    PROVE  stage' \in [Stages -> StageStatus]
BY DEF WriteStage, TypeOK, StageStatus

\* The steps of the graph move their own worker and the stage rows only.
LEMMA StageStepQuiet ==
    ASSUME PipelineAssumption, TypeOK, NEW w \in Workers, StageStep(w)
    PROVE  Quiet(w)
<1> USE DEF Quiet
<1>a. /\ stage \in [Stages -> StageStatus]
      /\ checkpoint \in [Stages -> Nat]
  BY DEF TypeOK, StageStatus
<1>1. ASSUME NEW s \in Stages, _write_stage_skipped(w, s) PROVE Quiet(w)
  <2>1. work[w].phase \notin {"idle", "raised"}
    BY <1>1 DEF _write_stage_skipped, AtBoundary
  <2>2. Moves(w)
    BY <1>1, <2>1, MoveDone DEF _write_stage_skipped, At
  <2>3. stage' \in [Stages -> StageStatus]
    BY <1>1, <1>a, WriteStageType DEF _write_stage_skipped, StageStatus
  <2> QED
    BY <1>a, <1>1, <2>2, <2>3 DEF _write_stage_skipped, stages
<1>2. ASSUME NEW s \in Stages, _mark_stage_restored(w, s) PROVE Quiet(w)
  <2>1. work[w].phase \notin {"idle", "raised"}
    BY <1>2 DEF _mark_stage_restored, AtBoundary
  <2>2. Moves(w)
    BY <1>2, <2>1, MoveDone DEF _mark_stage_restored, At
  <2>3. stage' \in [Stages -> StageStatus]
    BY <1>2, <1>a, WriteStageType DEF _mark_stage_restored, StageStatus
  <2> QED
    BY <1>a, <1>2, <2>2, <2>3 DEF _mark_stage_restored, stages
<1>3. ASSUME NEW s \in Stages, BeginStage(w, s) PROVE Quiet(w)
  <2>1. work[w].phase \notin {"idle", "raised"} /\ work[w] \in ActiveWork
    BY <1>3, LiveIsActive DEF BeginStage, AtBoundary
  <2>2. work'[w] = [work[w] EXCEPT !.phase = "stage", !.at = s]
    BY <1>3 DEF BeginStage, TypeOK
  <2>3. work' = [work EXCEPT ![w] = work'[w]]
    BY <1>3 DEF BeginStage, TypeOK
  <2>4. /\ work'[w] \in ActiveWork
        /\ work'[w].token = work[w].token /\ work'[w].fenced = work[w].fenced
        /\ work'[w].msg = work[w].msg
    BY <2>1, <2>2 DEF ActiveWork, At, Phase
  <2> QED
    BY <1>a, <1>3, <2>1, <2>3, <2>4 DEF BeginStage, stages, Moves
<1>4. ASSUME mark_stage_running(w) PROVE Quiet(w)
  <2>1. work[w].phase \notin {"idle", "raised"}
    BY <1>4 DEF mark_stage_running
  <2>2. Moves(w)
    BY <1>4, <2>1, MovePhase DEF mark_stage_running, Phase
  <2>3. stage' \in [Stages -> StageStatus]
    BY <1>4, <1>a, WriteStageType DEF mark_stage_running, StageStatus
  <2> QED
    BY <1>a, <1>4, <2>2, <2>3 DEF mark_stage_running, stages
<1>5. ASSUME mark_stage_done(w) PROVE Quiet(w)
  <2>1. work[w].phase \notin {"idle", "raised"}
    BY <1>5 DEF mark_stage_done
  <2>2. Moves(w)
    BY <1>5, <2>1, MovePhase DEF mark_stage_done, Phase
  <2>3. stage' \in [Stages -> StageStatus]
    BY <1>5, <1>a, WriteStageType DEF mark_stage_done, StageStatus
  <2> QED
    BY <1>a, <1>5, <2>2, <2>3 DEF mark_stage_done, stages
<1>6. ASSUME NodeReturns(w) PROVE Quiet(w)
  <2>1. work[w].phase \notin {"idle", "raised"}
    BY <1>6 DEF NodeReturns
  <2>2. Moves(w)
    BY <1>6, <2>1, MovePhase DEF NodeReturns, Phase
  <2> QED
    BY <1>a, <1>6, <2>2 DEF NodeReturns, stages
<1>7. ASSUME _mark_stage_failed(w) PROVE Quiet(w)
  <2>1. work[w].phase \notin {"idle", "raised"}
    BY <1>7 DEF _mark_stage_failed
  <2>2. Moves(w)
    BY <1>7, <2>1, MovePhase DEF _mark_stage_failed, Phase
  <2>3. stage' \in [Stages -> StageStatus]
    BY <1>7, <1>a, WriteStageType DEF _mark_stage_failed, StageStatus
  <2> QED
    BY <1>a, <1>7, <2>2, <2>3 DEF _mark_stage_failed, stages
<1>8. ASSUME LeaseLost(w) PROVE Quiet(w)
  <2>1. work[w].phase \notin {"idle", "raised"}
    BY <1>8 DEF LeaseLost
  <2>2. Moves(w)
    BY <1>8, <2>1, MovePhase DEF LeaseLost, Phase
  <2> QED
    BY <1>a, <1>8, <2>2 DEF LeaseLost, stages
<1>9. ASSUME fence_or_raise(w) PROVE Quiet(w)
  <2>1. work[w].phase \notin {"idle", "raised"}
    BY <1>9 DEF fence_or_raise
  <2>2. Moves(w)
    BY <1>9, <2>1, MovePhase DEF fence_or_raise, Phase
  <2> QED
    BY <1>a, <1>9, <2>2 DEF fence_or_raise, stages
<1>10. ASSUME _mark_stage_executed(w) PROVE Quiet(w)
  <2>1. work[w].phase \notin {"idle", "raised"}
    BY <1>10 DEF _mark_stage_executed
  <2>2. Moves(w)
    BY <1>10, <2>1, MovePhase DEF _mark_stage_executed, Phase
  <2>3. stage' \in [Stages -> StageStatus]
    BY <1>10, <1>a, WriteStageType DEF _mark_stage_executed, StageStatus
  <2> QED
    BY <1>a, <1>10, <2>2, <2>3 DEF _mark_stage_executed, stages
<1>11. ASSUME _raise_if_pipeline_cancelled(w) PROVE Quiet(w)
  <2>1. work[w].phase \notin {"idle", "raised"}
    BY <1>11 DEF _raise_if_pipeline_cancelled
  <2>2. Moves(w)
    BY <1>11, <2>1, MovePhase DEF _raise_if_pipeline_cancelled, Phase
  <2> QED
    BY <1>a, <1>11, <2>2 DEF _raise_if_pipeline_cancelled, stages
<1>12. ASSUME GraphRaises(w) PROVE Quiet(w)
  <2>1. work[w].phase \notin {"idle", "raised"}
    BY <1>12 DEF GraphRaises
  <2>2. Moves(w)
    BY <1>12, <2>1, MovePhase DEF GraphRaises, Phase
  <2> QED
    BY <1>a, <1>12, <2>2 DEF GraphRaises, stages
<1>13. ASSUME _checkpoint_stage(w) PROVE Quiet(w)
  <2>1. work[w].phase \notin {"idle", "raised"} /\ work[w] \in ActiveWork
    BY <1>13, LiveIsActive DEF _checkpoint_stage
  <2>2. work'[w] = [work[w] EXCEPT !.phase = "graph", !.at = "none",
                                   !.done = work[w].done \cup {work[w].at}]
    BY <1>13 DEF _checkpoint_stage, TypeOK
  <2>3. work' = [work EXCEPT ![w] = work'[w]]
    BY <1>13 DEF _checkpoint_stage, TypeOK
  <2>4. /\ work'[w] \in ActiveWork
        /\ work'[w].token = work[w].token /\ work'[w].fenced = work[w].fenced
        /\ work'[w].msg = work[w].msg
    <3> DEFINE D == work[w].done \cup {work[w].at}
    <3>1. D \in SUBSET At
      BY <2>1 DEF ActiveWork
    <3>2. "none" \in At /\ "graph" \in Phase
      BY DEF At, Phase
    <3>3. work'[w] = [work[w] EXCEPT !.phase = "graph", !.at = "none", !.done = D]
      BY <2>2
    <3> HIDE DEF D
    <3> QED
      BY <2>1, <3>1, <3>2, <3>3 DEF ActiveWork
  <2>5. checkpoint' \in [Stages -> Nat]
    BY <1>a, <1>13, <2>1 DEF _checkpoint_stage, ActiveWork
  <2> QED
    BY <1>a, <1>13, <2>1, <2>3, <2>4, <2>5 DEF _checkpoint_stage, Moves
<1> QED
  BY <1>1, <1>2, <1>3, <1>4, <1>5, <1>6, <1>7, <1>8, <1>9, <1>10, <1>11, <1>12, <1>13 DEF StageStep

\* A moved worker is typed.
LEMMA MovesType ==
    ASSUME TypeOK, NEW w \in Workers, Moves(w)
    PROVE  work' \in [Workers -> ActiveWork \cup {IdleWork}]
BY DEF TypeOK, Moves

\* A quiet step keeps the types.
LEMMA QuietType ==
    ASSUME TypeOK, NEW w \in Workers, Quiet(w)
    PROVE  TypeOK'
<1>1. work' \in [Workers -> ActiveWork \cup {IdleWork}]
  BY MovesType DEF Quiet
<1> QED
  BY <1>1 DEF TypeOK, Quiet, StageStatus, row, reviews, broker, history

\* A worker that starts an attempt is typed.
LEMMA StartsType ==
    ASSUME TypeOK, NEW w \in Workers, NEW m \in Message, NEW f \in BOOLEAN,
           NEW R \in SUBSET Stages, Starts(w, m, f, R)
    PROVE  work' \in [Workers -> ActiveWork \cup {IdleWork}]
<1>1. [phase |-> "graph", msg |-> m, token |-> minted + 1, fenced |-> f, at |-> "none",
       done |-> {}, restore |-> R] \in ActiveWork
  BY DEF TypeOK, ActiveWork, Phase, At
<1> QED
  BY <1>1 DEF TypeOK, Starts

\* A worker that is done is typed.
LEMMA RetiresType ==
    ASSUME TypeOK, NEW w \in Workers, work' = [work EXCEPT ![w] = IdleWork]
    PROVE  work' \in [Workers -> ActiveWork \cup {IdleWork}]
BY DEF TypeOK

\* The creation of a run keeps the types.
LEMMA CreateType ==
    ASSUME PipelineAssumption, TypeOK, NEW w \in Workers, NEW m \in queue,
           _create_pipeline_run(w, m)
    PROVE  TypeOK'
<1>1. m \in Message
  BY DEF TypeOK
<1>2. work' \in [Workers -> ActiveWork \cup {IdleWork}]
  <2>1. Starts(w, m, FALSE, {})
    BY DEF _create_pipeline_run
  <2>2. {} \in SUBSET Stages
    OBVIOUS
  <2> QED
    BY <1>1, <2>1, <2>2, StartsType, Zenon
<1>3. queue' \subseteq Message /\ deliveries' \in Nat
  BY DEF _create_pipeline_run, TypeOK, CountDelivery
<1> QED
  BY <1>2, <1>3 DEF TypeOK, _create_pipeline_run, BecomesRunning, reviews

\* The claim of a resume keeps the types.
LEMMA ClaimType ==
    ASSUME PipelineAssumption, TypeOK, NEW w \in Workers, NEW m \in queue,
           _claim_pipeline_resume(w, m)
    PROVE  TypeOK'
<1>1. m \in Message
  BY DEF TypeOK
<1>2. work' \in [Workers -> ActiveWork \cup {IdleWork}]
  BY <1>1, StartsType DEF _claim_pipeline_resume, Checkpointed
<1>3. deliveries' \in Nat
  BY DEF _claim_pipeline_resume, TypeOK, CountDelivery
<1>4. stage' \in [Stages -> StageStatus]
  BY DEF _claim_pipeline_resume, TypeOK, StageStatus
<1> QED
  BY <1>2, <1>3, <1>4 DEF TypeOK, _claim_pipeline_resume, BecomesRunning, reviews, StageStatus

\* A refused delivery keeps the types.
LEMMA RefuseType ==
    ASSUME PipelineAssumption, TypeOK, NEW w \in Workers, NEW m \in queue,
           RefuseDelivery(w, m)
    PROVE  TypeOK'
<1>1. m \in Message
  BY DEF TypeOK
<1>2. work' \in [Workers -> ActiveWork \cup {IdleWork}]
  <2>1. [phase |-> "raised", msg |-> m, token |-> NoToken, fenced |-> FALSE,
         at |-> "none", done |-> {}, restore |-> {}] \in ActiveWork
    BY <1>1 DEF ActiveWork, Phase, At, NoToken
  <2> QED
    BY <2>1 DEF RefuseDelivery, TypeOK
<1>3. queue' \subseteq Message /\ deliveries' \in Nat
  BY DEF RefuseDelivery, TypeOK, CountDelivery, Acknowledged
<1> QED
  BY <1>2, <1>3 DEF TypeOK, RefuseDelivery, row, reviews, stages, history

\* A finished run keeps the types.
LEMMA FinishType ==
    ASSUME TypeOK, NEW w \in Workers, FinishPipeline(w)
    PROVE  TypeOK'
<1>1. work[w].phase \notin {"idle", "raised"} /\ work[w] \in ActiveWork
  BY LiveIsActive DEF FinishPipeline
<1>2. work[w].token \in Nat
  BY <1>1 DEF ActiveWork
<1>3. work' \in [Workers -> ActiveWork \cup {IdleWork}]
  BY <1>1, MovePhase, MovesType DEF FinishPipeline, Phase
<1>4. stage' \in [Stages -> StageStatus]
  BY <1>2 DEF FinishPipeline, SweepStages, TypeOK, StageStatus
<1>5. /\ status' \in {"completed", "passed"}
      /\ quality' \in {"normal", "degraded"}
      /\ evidence' \in Nat /\ reviewed' \in Nat
      /\ review' \in {"none", "pending", "accepted", "rejected"}
  <2>1. PICK human \in BOOLEAN, e \in Evidence(w) :
           /\ status' = IF passes_without_review(human) THEN "passed" ELSE "completed"
           /\ IF human \/ Reported
              THEN evidence' = e /\ stage_run_review_request(e)
              ELSE UNCHANGED reviews
    BY DEF FinishPipeline
  <2>2. e \in Nat
    BY <1>2 DEF Evidence, TypeOK
  <2> QED
    BY <2>1, <2>2 DEF FinishPipeline, stage_run_review_request, create_run_review_request,
                      reviews, TypeOK
<1> QED
  BY <1>2, <1>3, <1>4, <1>5
  DEF TypeOK, FinishPipeline, release_lease_fields, NoToken, broker, StageStatus

\* A failed run keeps the types.
LEMMA FailType ==
    ASSUME TypeOK, NEW w \in Workers, FailPipeline(w)
    PROVE  TypeOK'
<1>1. work[w].phase \notin {"idle", "raised"} /\ work[w] \in ActiveWork
  BY LiveIsActive DEF FailPipeline
<1>2. work[w].token \in Nat
  BY <1>1 DEF ActiveWork
<1>3. work' \in [Workers -> ActiveWork \cup {IdleWork}]
  BY <1>1, MovePhase, MovesType DEF FailPipeline, Phase
<1>4. stage' \in [Stages -> StageStatus]
  BY <1>2 DEF FailPipeline, SweepStages, TypeOK, StageStatus
<1> QED
  BY <1>3, <1>4
  DEF TypeOK, FailPipeline, release_lease_fields, NoToken, broker, reviews, history,
      StageStatus

\* A failed write of the result moves its worker only.
LEMMA FinalizeRaisesQuiet ==
    ASSUME TypeOK, NEW w \in Workers, FinalizeRaises(w)
    PROVE  Quiet(w)
<1>1. Moves(w)
  BY MovePhase DEF FinalizeRaises, Phase
<1> QED
  BY <1>1 DEF FinalizeRaises, Quiet, stages, TypeOK, StageStatus

\* A task ends: its worker is idle and its message at most leaves the queue.
LEMMA TaskEndType ==
    ASSUME PipelineAssumption, TypeOK, NEW w \in Workers,
           TaskReturns(w) \/ TaskRaises(w) \/ _schedule_pipeline_retry(w)
    PROVE  TypeOK'
<1>1. work' \in [Workers -> ActiveWork \cup {IdleWork}] /\ queue' \subseteq Message
  BY RetiresType DEF TaskReturns, TaskRaises, _schedule_pipeline_retry, Retires,
                     Acknowledged, TypeOK
<1>2. CASE TaskReturns(w)
  BY <1>1, <1>2 DEF TypeOK, TaskReturns, row, reviews, stages, history
<1>4. CASE TaskRaises(w)
  BY <1>1, <1>4 DEF TypeOK, TaskRaises, row, reviews, stages, history
<1>3. CASE _schedule_pipeline_retry(w)
  <2>1. NextAttempt \in Nat
    BY DEF NextAttempt, TypeOK
  <2>2. unsent' \subseteq Nat
    BY <1>3, <2>1 DEF _schedule_pipeline_retry, TypeOK
  <2> QED
    BY <1>1, <1>3, <2>2 DEF TypeOK, _schedule_pipeline_retry, reviews, stages, history
<1> QED
  BY <1>2, <1>3, <1>4

\* Messages put into the broker are messages.
LEMMA MessageTypes ==
    ASSUME TypeOK
    PROVE  /\ \A n \in Nat : ScheduledResume(n) \in Message
           /\ ManualResume(manual + 1) \in Message
           /\ NextAttempt \in Nat
BY DEF TypeOK, ScheduledResume, ManualResume, Message, NextAttempt

\* The steps of the broker and of a manual retry keep the types.
LEMMA BrokerType ==
    ASSUME PipelineAssumption, TypeOK,
           \/ \E m \in queue : ResumeRaises(m)
           \/ \E n \in unsent : SendRetry(n) \/ LoseRetry(n)
           \/ ReaperCommitFails \/ retry_pipeline
    PROVE  TypeOK'
<1>a. queue \subseteq Message /\ unsent \subseteq Nat /\ manual \in 0 .. MaxManual
  BY DEF TypeOK
<1>1. queue' \subseteq Message /\ unsent' \subseteq Nat /\ manual' \in 0 .. MaxManual
  <2>1. CASE \E m \in queue : ResumeRaises(m)
    BY <1>a, <2>1 DEF ResumeRaises
  <2>2. CASE \E n \in unsent : SendRetry(n) \/ LoseRetry(n)
    BY <1>a, <2>2, MessageTypes DEF SendRetry, LoseRetry
  <2>3. CASE ReaperCommitFails
    BY <1>a, <2>3, MessageTypes DEF ReaperCommitFails
  <2>4. CASE retry_pipeline
    BY <1>a, <2>4, MessageTypes DEF retry_pipeline, Retryable, PipelineAssumption
  <2> QED
    BY <2>1, <2>2, <2>3, <2>4
<1> QED
  BY <1>1 DEF TypeOK, ResumeRaises, SendRetry, LoseRetry, ReaperCommitFails, retry_pipeline,
              row, reviews, stages, history

\* Renewal, lapse, cancel and review keep the types.
LEMMA RowType ==
    ASSUME PipelineAssumption, TypeOK,
           \/ \E w \in Workers : renew_lease(w)
           \/ LeaseLapses \/ request_cancel
           \/ \E decision \in {"accepted", "rejected"} : settle_review(decision)
    PROVE  TypeOK'
<1>1. ASSUME NEW w \in Workers, renew_lease(w) PROVE TypeOK'
  BY <1>1 DEF TypeOK, renew_lease, reviews, stages, broker, history
<1>2. CASE LeaseLapses
  BY <1>2 DEF TypeOK, LeaseLapses, reviews, stages, broker, history
<1>3. CASE request_cancel
  BY <1>3 DEF TypeOK, request_cancel, reviews, stages, broker, history
<1>4. ASSUME NEW decision \in {"accepted", "rejected"}, settle_review(decision)
      PROVE  TypeOK'
  BY <1>4 DEF TypeOK, settle_review, stages, broker, history
<1> QED
  BY <1>1, <1>2, <1>3, <1>4

\* The reaper keeps the types.
LEMMA ReapType ==
    ASSUME PipelineAssumption, TypeOK, reap_stuck_agent_pipelines
    PROVE  TypeOK'
<1>1. queue' \subseteq Message
  BY MessageTypes DEF reap_stuck_agent_pipelines, TypeOK
<1> QED
  BY <1>1 DEF TypeOK, reap_stuck_agent_pipelines, reviews, stages, history

\* The retry of an invocation keeps the types.
LEMMA RetryInvocationType ==
    ASSUME PipelineAssumption, TypeOK, retry_invocation
    PROVE  TypeOK'
<1>1. NextAttempt \in Nat
  BY MessageTypes
<1>2. unsent' \subseteq Nat
  BY <1>1 DEF retry_invocation, TypeOK
<1>3. manual' \in 0 .. MaxManual
  BY DEF retry_invocation, Retryable, TypeOK, PipelineAssumption
<1> QED
  BY <1>2, <1>3 DEF TypeOK, retry_invocation, reviews, stages, history

\* A lost worker keeps the types.
LEMMA WorkerDiesType ==
    ASSUME PipelineAssumption, TypeOK, NEW w \in Workers, WorkerDies(w)
    PROVE  TypeOK'
<1>1. work' \in [Workers -> ActiveWork \cup {IdleWork}]
  BY RetiresType DEF WorkerDies
<1>2. queue' \subseteq Message
  BY DEF WorkerDies, Acknowledged, TypeOK
<1>3. deaths' \in 0 .. MaxDeaths
  BY DEF WorkerDies, TypeOK, PipelineAssumption
<1> QED
  BY <1>1, <1>2, <1>3 DEF TypeOK, WorkerDies, row, reviews, stages

\* Types are inductive.
LEMMA TypeStep ==
    ASSUME PipelineAssumption, TypeOK, [Next]_vars
    PROVE  TypeOK'
<1>1. ASSUME NEW w \in Workers, Receive(w) PROVE TypeOK'
  BY <1>1, CreateType, ClaimType, RefuseType DEF Receive
<1>2. ASSUME NEW w \in Workers, StageStep(w) PROVE TypeOK'
  BY <1>2, StageStepQuiet, QuietType
<1>3. ASSUME NEW w \in Workers, EndStep(w) PROVE TypeOK'
  BY <1>3, FinishType, FailType, FinalizeRaisesQuiet, QuietType, TaskEndType DEF EndStep
<1>4. ASSUME NEW w \in Workers, WorkerDies(w) PROVE TypeOK'
  BY <1>4, WorkerDiesType
<1>5. ASSUME UserStep PROVE TypeOK'
  BY <1>5, BrokerType, RowType, RetryInvocationType DEF UserStep
<1>6. CASE UNCHANGED vars
  BY <1>6 DEF vars, row, reviews, stages, broker, history, TypeOK
<1> QED
  BY <1>1, <1>2, <1>3, <1>4, <1>5, <1>6, BrokerType, RowType, ReapType DEF Next

\* Every reachable state of a pipeline run is well typed: its status is one of
\* workflow_run_state.py, every worker is idle or carries a message and a
\* token, and the bounds on retries and lost workers are kept.
THEOREM PipelineTypeCorrect == Spec => []TypeOK
<1>1. Init => TypeOK
  BY PipelineAssumption
  DEF Init, TypeOK, NoToken, TriggerMessage, Message, IdleWork, PipelineAssumption
<1>2. TypeOK /\ [Next]_vars => TypeOK'
  BY PipelineAssumption, TypeStep
<1> QED
  BY <1>1, <1>2, PTL DEF Spec

(***************************************************************************)
(* The fence.  RunningIsLeased and ResumedResultsAreFenced are not         *)
(* inductive by themselves: that the token of the row is the one of the latest claim *)
(* while the row runs, and that no worker carries a token still to be      *)
(* drawn, is what makes a rotated token unlike every token in use; and     *)
(* only the task of the creation works without being fenced.               *)
(***************************************************************************)
TokensMinted ==
    /\ fencing_token <= minted
    /\ claimed <= minted
    /\ \A w \in Workers :
          Live(w) => /\ work[w].token <= minted
                     /\ work[w].phase # "raised" => work[w].token # NoToken

RunsUnderLatestClaim == status = "running" => fencing_token = claimed

UnfencedIsTheCreation ==
    /\ status = "absent" => minted = 0
    /\ \A w \in Workers :
          Live(w) /\ ~work[w].fenced /\ work[w].phase # "raised"
              => work[w].token = CreationToken

FenceInv == /\ TokensMinted /\ UnfencedIsTheCreation /\ RunsUnderLatestClaim
            /\ RunningIsLeased /\ ResumedResultsAreFenced

\* A worker that works carries a token: the row was created.
LEMMA WorkingIsCreated ==
    ASSUME TypeOK, FenceInv, NEW w \in Workers, work[w].phase \notin {"idle", "raised"}
    PROVE  status # "absent"
<1>1. work[w].token \in Nat /\ work[w].token # NoToken /\ work[w].token <= minted
  BY LiveIsActive DEF ActiveWork, FenceInv, TokensMinted, Live
<1> QED
  BY <1>1 DEF FenceInv, UnfencedIsTheCreation, NoToken

\* A quiet step draws no token and writes none to the row.
LEMMA QuietFence ==
    ASSUME TypeOK, FenceInv, NEW w \in Workers, Quiet(w)
    PROVE  FenceInv'
<1>1. ASSUME NEW v \in Workers
      PROVE  /\ Live(v)' => /\ Live(v) /\ work'[v].token = work[v].token
                            /\ work'[v].fenced = work[v].fenced
             /\ v # w => work'[v] = work[v]
  BY DEF Quiet, Moves, TypeOK, Live
<1>2. work[w].token # NoToken
  BY DEF FenceInv, TokensMinted, Quiet, Moves, Live
<1>3. TokensMinted'
  BY <1>1, <1>2 DEF FenceInv, TokensMinted, Quiet, row, history, Live
<1>4. RunningIsLeased'
  BY <1>1 DEF FenceInv, RunningIsLeased, Quiet, row
<1>5. UnfencedIsTheCreation'
  BY <1>1 DEF FenceInv, UnfencedIsTheCreation, Quiet, Moves, row, Live
<1> QED
  BY <1>3, <1>4, <1>5 DEF FenceInv, RunsUnderLatestClaim, ResumedResultsAreFenced, Quiet, row, history

\* A worker that starts carries the token just drawn; only that of the
\* creation, the first one, is not fenced.
LEMMA StartFence ==
    ASSUME TypeOK, FenceInv, NEW w \in Workers, NEW m, NEW f, NEW R,
           Starts(w, m, f, R), f \/ status = "absent", BecomesRunning
    PROVE  FenceInv'
<1>1. work'[w].token = minted + 1 /\ minted' = minted + 1 /\ minted \in Nat
  BY DEF Starts, BecomesRunning, TypeOK
<1>2. \A v \in Workers : v # w => work'[v] = work[v]
  BY DEF Starts, TypeOK
<1>3. \A v \in Workers : work[v].phase # "idle" => work[v].token \in Nat
  BY LiveIsActive DEF ActiveWork
<1>4. TokensMinted'
  BY <1>1, <1>2, <1>3 DEF FenceInv, TokensMinted, BecomesRunning, Live, NoToken
<1>5. work'[w].fenced = f
  BY DEF Starts, TypeOK
<1>6. UnfencedIsTheCreation'
  BY <1>1, <1>2, <1>5
  DEF FenceInv, UnfencedIsTheCreation, BecomesRunning, Live, CreationToken
<1> QED
  BY <1>4, <1>6 DEF FenceInv, RunsUnderLatestClaim, RunningIsLeased, ResumedResultsAreFenced,
              BecomesRunning

\* A refused delivery of an invocation raises without a token.
LEMMA RefuseFence ==
    ASSUME TypeOK, FenceInv, NEW w \in Workers, NEW m \in queue, RefuseDelivery(w, m)
    PROVE  FenceInv'
<1>1. ASSUME NEW v \in Workers
      PROVE  \/ work'[v] = work[v]
             \/ work'[v].phase = "raised" /\ work'[v].token = NoToken
  BY DEF RefuseDelivery, TypeOK
<1>2. TokensMinted'
  BY <1>1 DEF FenceInv, TokensMinted, RefuseDelivery, row, history, Live, NoToken, TypeOK
<1>3. RunningIsLeased'
  BY <1>1 DEF FenceInv, RunningIsLeased, RefuseDelivery, row, Live
<1>4. UnfencedIsTheCreation'
  BY <1>1 DEF FenceInv, UnfencedIsTheCreation, RefuseDelivery, row, Live
<1> QED
  BY <1>2, <1>3, <1>4 DEF FenceInv, RunsUnderLatestClaim, ResumedResultsAreFenced, RefuseDelivery,
                    row, history

\* A fenced worker that ends the row holds it: the row runs, and under the
\* latest claim.
LEMMA FinishFence ==
    ASSUME TypeOK, FenceInv, NEW w \in Workers, FinishPipeline(w)
    PROVE  FenceInv'
<1>1. work[w].phase = "graph" /\ work[w].token # NoToken
  BY DEF FenceInv, TokensMinted, FinishPipeline, Live
<1>2. work[w].fenced => work[w].token = claimed
  BY <1>1 DEF FenceInv, RunningIsLeased, RunsUnderLatestClaim, HoldsRow, FinishPipeline, Live
<1>9. ~work[w].fenced => work[w].token = CreationToken
  BY <1>1 DEF FenceInv, UnfencedIsTheCreation, Live
<1>3. Moves(w)
  BY <1>1, MovePhase DEF FinishPipeline, Phase
<1>4. ASSUME NEW v \in Workers
      PROVE  Live(v)' => /\ Live(v) /\ work'[v].token = work[v].token
                         /\ work'[v].fenced = work[v].fenced
  BY <1>3 DEF Moves, TypeOK, Live
<1>5. \A v \in Workers : v # w => work'[v] = work[v]
  BY <1>3 DEF Moves, TypeOK
<1>6. TokensMinted'
  BY <1>1, <1>4, <1>5 DEF FenceInv, TokensMinted, FinishPipeline, release_lease_fields, Live,
                          NoToken, TypeOK
<1>7. status' \in {"completed", "passed"} /\ lease' = "none" /\ fencing_token' = NoToken
  BY DEF FinishPipeline, release_lease_fields
<1>8. result' = CreationToken \/ result' = claimed'
  BY <1>2, <1>9 DEF FinishPipeline
<1>10. UnfencedIsTheCreation'
  BY <1>1, <1>4, <1>5, <1>7 DEF FenceInv, UnfencedIsTheCreation, Live
<1> QED
  BY <1>6, <1>7, <1>8, <1>10 DEF FenceInv, RunsUnderLatestClaim, RunningIsLeased,
                                 ResumedResultsAreFenced

\* A run fails under the token of its row, and gives up the lease with it.
LEMMA FailFence ==
    ASSUME TypeOK, FenceInv, NEW w \in Workers, FailPipeline(w)
    PROVE  FenceInv'
<1>1. work[w].phase = "failing" /\ work[w].token # NoToken
  BY DEF FenceInv, TokensMinted, FailPipeline, Live
<1>3. Moves(w)
  BY <1>1, MovePhase DEF FailPipeline, Phase
<1>4. ASSUME NEW v \in Workers
      PROVE  Live(v)' => /\ Live(v) /\ work'[v].token = work[v].token
                         /\ work'[v].fenced = work[v].fenced
  BY <1>3 DEF Moves, TypeOK, Live
<1>5. \A v \in Workers : v # w => work'[v] = work[v]
  BY <1>3 DEF Moves, TypeOK
<1>6. TokensMinted'
  BY <1>1, <1>4, <1>5 DEF FenceInv, TokensMinted, FailPipeline, release_lease_fields, Live,
                          NoToken, TypeOK, history
<1>7. status' = "failed" /\ lease' = "none" /\ fencing_token' = NoToken
  BY DEF FailPipeline, release_lease_fields
<1>8. UnfencedIsTheCreation'
  BY <1>1, <1>4, <1>5, <1>7 DEF FenceInv, UnfencedIsTheCreation, Live
<1> QED
  BY <1>6, <1>7, <1>8 DEF FenceInv, RunsUnderLatestClaim, RunningIsLeased,
                          ResumedResultsAreFenced

\* Worker w becomes idle; a failed row may go on to retry_wait.
LEMMA RetireFence ==
    ASSUME TypeOK, FenceInv, NEW w \in Workers,
           work' = [work EXCEPT ![w] = IdleWork],
           UNCHANGED <<fencing_token, lease, minted, claimed, result>>,
           status' = status \/ (status = "failed" /\ status' = "retry_wait")
    PROVE  FenceInv'
<1>1. ASSUME NEW v \in Workers
      PROVE  Live(v)' => work'[v] = work[v]
  BY DEF TypeOK, Live, IdleWork
<1>2. TokensMinted'
  BY <1>1 DEF FenceInv, TokensMinted, Live
<1>3. RunningIsLeased'
  BY <1>1 DEF FenceInv, RunningIsLeased, Live
<1>4. UnfencedIsTheCreation'
  BY <1>1 DEF FenceInv, UnfencedIsTheCreation, Live
<1> QED
  BY <1>2, <1>3, <1>4 DEF FenceInv, RunsUnderLatestClaim, ResumedResultsAreFenced

\* A step of no worker that leaves token and claims alone and neither starts
\* nor ends a running row.
LEMMA RowFence ==
    ASSUME TypeOK, FenceInv,
           UNCHANGED <<fencing_token, minted, work, claimed, result>>,
           status' = status \/ (status # "running" /\ status' \in {"retry_wait", "failed"})
             \/ (status = "completed" /\ status' = "passed"),
           (lease' = "none") <=> (lease = "none")
    PROVE  FenceInv'
<1>1. TokensMinted'
  BY DEF FenceInv, TokensMinted, Live
<1>2. RunningIsLeased'
  BY DEF FenceInv, RunningIsLeased, Live
<1>3. UnfencedIsTheCreation'
  BY DEF FenceInv, UnfencedIsTheCreation, Live
<1> QED
  BY <1>1, <1>2, <1>3 DEF FenceInv, RunsUnderLatestClaim, ResumedResultsAreFenced

\* The rotated token is larger than every token in use.
LEMMA ReapFence ==
    ASSUME TypeOK, FenceInv, reap_stuck_agent_pipelines
    PROVE  FenceInv'
<1>1. \A v \in Workers : Live(v) => work[v].token \in Nat /\ work[v].token <= minted
  BY LiveIsActive DEF ActiveWork, FenceInv, TokensMinted, Live
<1>2. /\ minted \in Nat /\ claimed \in Nat
      /\ minted' = minted + 1 /\ fencing_token' = minted + 1
      /\ work' = work /\ claimed' = claimed
      /\ lease' = "none" /\ status' \in {"retry_wait", "failed"}
  BY DEF reap_stuck_agent_pipelines, TypeOK, history
<1>3. TokensMinted'
  BY <1>1, <1>2 DEF FenceInv, TokensMinted, Live
<1>4. RunningIsLeased'
  BY <1>1, <1>2 DEF RunningIsLeased, Live
<1>5. UnfencedIsTheCreation'
  BY <1>2 DEF FenceInv, UnfencedIsTheCreation, Live
<1> QED
  BY <1>2, <1>3, <1>4, <1>5 DEF FenceInv, RunsUnderLatestClaim, ResumedResultsAreFenced

\* The fences are inductive, given types.
LEMMA FenceStep ==
    ASSUME PipelineAssumption, TypeOK, FenceInv, [Next]_vars
    PROVE  FenceInv'
<1>1. ASSUME NEW w \in Workers, Receive(w) PROVE FenceInv'
  <2>1. ASSUME NEW m \in queue, _create_pipeline_run(w, m) PROVE FenceInv'
    BY <2>1, StartFence DEF _create_pipeline_run
  <2>2. ASSUME NEW m \in queue, _claim_pipeline_resume(w, m) PROVE FenceInv'
    BY <2>2, StartFence DEF _claim_pipeline_resume
  <2> QED
    BY <1>1, <2>1, <2>2, RefuseFence DEF Receive
<1>2. ASSUME NEW w \in Workers, StageStep(w) PROVE FenceInv'
  BY <1>2, StageStepQuiet, QuietFence
<1>3. ASSUME NEW w \in Workers, EndStep(w) PROVE FenceInv'
  <2>1. CASE TaskReturns(w)
    BY <2>1, RetireFence DEF TaskReturns, Retires, row, history
  <2>2. CASE TaskRaises(w)
    BY <2>2, RetireFence DEF TaskRaises, Retires, row, history
  <2>3. CASE _schedule_pipeline_retry(w)
    BY <2>3, RetireFence DEF _schedule_pipeline_retry, Retires, history
  <2> QED
    BY <1>3, <2>1, <2>2, <2>3, FinishFence, FailFence, FinalizeRaisesQuiet, QuietFence
    DEF EndStep
<1>4. ASSUME NEW w \in Workers, WorkerDies(w) PROVE FenceInv'
  BY <1>4, RetireFence DEF WorkerDies, row
<1>5. ASSUME NEW w \in Workers, renew_lease(w) PROVE FenceInv'
  BY <1>5, RowFence DEF renew_lease, history
<1>6. CASE LeaseLapses
  BY <1>6, RowFence DEF LeaseLapses, history
<1>7. CASE \/ \E m \in queue : ResumeRaises(m)
           \/ \E n \in unsent : SendRetry(n) \/ LoseRetry(n)
           \/ ReaperCommitFails \/ retry_pipeline \/ UNCHANGED vars
  BY <1>7, RowFence DEF ResumeRaises, SendRetry, LoseRetry, ReaperCommitFails,
                        retry_pipeline, vars, row, history
<1>8. CASE request_cancel
  BY <1>8, RowFence DEF request_cancel, history, FenceInv, RunningIsLeased
<1>9. CASE retry_invocation
  BY <1>9, RowFence DEF retry_invocation, history
<1>10. ASSUME NEW decision \in {"accepted", "rejected"}, settle_review(decision)
       PROVE  FenceInv'
  BY <1>10, RowFence DEF settle_review, history
<1> QED
  BY <1>1, <1>2, <1>3, <1>4, <1>5, <1>6, <1>7, <1>8, <1>9, <1>10, ReapFence
  DEF Next, UserStep

\* Types and fences hold in every reachable state.
LEMMA FenceAlways == Spec => [](TypeOK /\ FenceInv)
<1>1. Init => TypeOK /\ FenceInv
  BY PipelineAssumption
  DEF Init, TypeOK, NoToken, TriggerMessage, Message, IdleWork, PipelineAssumption,
      FenceInv, TokensMinted, UnfencedIsTheCreation, RunsUnderLatestClaim, RunningIsLeased,
      ResumedResultsAreFenced, Live
<1>2. TypeOK /\ FenceInv /\ [Next]_vars => (TypeOK /\ FenceInv)'
  BY PipelineAssumption, TypeStep, FenceStep
<1> QED
  BY <1>1, <1>2, PTL DEF Spec

\* The row is running exactly while it carries a lease, and a worker that
\* carries the row's token works on a running row (acquire_lease_fields,
\* release_lease_fields, the reaper's rotation), for any number of workers,
\* stages, attempts and faults.
THEOREM RunningRowsAreLeased == Spec => []RunningIsLeased
<1>1. FenceInv => RunningIsLeased
  BY DEF FenceInv
<1> QED
  BY <1>1, FenceAlways, PTL

\* A row finished by a resumed attempt was finished by the attempt that
\* claimed it last: no stale holder that was given a token completes the newer
\* attempt (_mark_pipeline_done), for any number of workers, stages, attempts
\* and faults.
THEOREM ResultsAreFenced == Spec => []ResumedResultsAreFenced
<1>1. FenceInv => ResumedResultsAreFenced
  BY DEF FenceInv
<1> QED
  BY <1>1, FenceAlways, PTL

(***************************************************************************)
(* The tokens of the workers.  A step moves one worker at most, and hands  *)
(* out no token but the one it has just drawn, so no two workers carry the *)
(* same one; and a worker that was not given its token has the trigger in  *)
(* its hands.                                                              *)
(***************************************************************************)
Keeps(w) ==
    /\ Live(w)
    /\ work'[w].token = work[w].token
    /\ work'[w].fenced = work[w].fenced
    /\ work'[w].msg = work[w].msg

\* A worker that has just been given a message.
Begins(w) ==
    /\ work'[w].token = minted + 1
    /\ minted' = minted + 1
    /\ ~work'[w].fenced => work'[w].msg = TriggerMessage

Refused(w) ==
    /\ work'[w].token = NoToken
    /\ ~work'[w].fenced
    /\ work'[w].msg = TriggerMessage

OneWorkerMoves(w) ==
    /\ \A v \in Workers \ {w} : work'[v] = work[v]
    /\ Live(w)' => Keeps(w) \/ Begins(w) \/ Refused(w)

TokensInv ==
    /\ \A v, w \in Workers :
          /\ Live(v) /\ Live(w)
          /\ work[v].token = work[w].token /\ work[v].token # NoToken
          => v = w
    /\ \A w \in Workers :
          Live(w) => /\ work[w].fenced => work[w].token # NoToken
                     /\ ~work[w].fenced => work[w].msg = TriggerMessage

\* Every step moves one worker at most.
LEMMA WorkStep ==
    ASSUME PipelineAssumption, TypeOK, [Next]_vars
    PROVE  work' = work \/ \E w \in Workers : OneWorkerMoves(w)
<1>1. ASSUME NEW w \in Workers, Moves(w) PROVE OneWorkerMoves(w)
  BY <1>1 DEF Moves, OneWorkerMoves, Keeps, Live, TypeOK
<1>2. ASSUME NEW w \in Workers, work' = [work EXCEPT ![w] = IdleWork]
      PROVE  OneWorkerMoves(w)
  BY <1>2 DEF OneWorkerMoves, Live, IdleWork, TypeOK
<1>3. ASSUME NEW w \in Workers, NEW m, NEW f, NEW R, Starts(w, m, f, R),
             BecomesRunning, f \/ m = TriggerMessage, f \in BOOLEAN
      PROVE  OneWorkerMoves(w)
  BY <1>3 DEF Starts, OneWorkerMoves, Begins, BecomesRunning, TypeOK
<1>4. ASSUME NEW w \in Workers, Receive(w)
      PROVE  work' = work \/ OneWorkerMoves(w)
  <2>1. ASSUME NEW m \in queue, _create_pipeline_run(w, m) PROVE OneWorkerMoves(w)
    BY <1>3, <2>1 DEF _create_pipeline_run
  <2>2. ASSUME NEW m \in queue, _claim_pipeline_resume(w, m) PROVE OneWorkerMoves(w)
    BY <1>3, <2>2 DEF _claim_pipeline_resume
  <2>3. ASSUME NEW m \in queue, RefuseDelivery(w, m)
        PROVE  work' = work \/ OneWorkerMoves(w)
    BY <2>3 DEF RefuseDelivery, OneWorkerMoves, Refused, TypeOK
  <2> QED
    BY <1>4, <2>1, <2>2, <2>3 DEF Receive
<1>5. ASSUME NEW w \in Workers, EndStep(w) PROVE OneWorkerMoves(w)
  <2>1. CASE FinishPipeline(w)
    BY <1>1, <2>1, MovePhase DEF FinishPipeline, Phase
  <2>2. CASE FailPipeline(w)
    BY <1>1, <2>2, MovePhase DEF FailPipeline, Phase
  <2>3. CASE FinalizeRaises(w)
    BY <1>1, <2>3, FinalizeRaisesQuiet DEF Quiet
  <2>4. CASE TaskReturns(w) \/ TaskRaises(w) \/ _schedule_pipeline_retry(w)
    BY <1>2, <2>4 DEF TaskReturns, TaskRaises, _schedule_pipeline_retry, Retires
  <2> QED
    BY <1>5, <2>1, <2>2, <2>3, <2>4 DEF EndStep
<1>6. ASSUME NEW w \in Workers, WorkerDies(w) PROVE OneWorkerMoves(w)
  BY <1>2, <1>6 DEF WorkerDies
<1>7. CASE \/ \E w \in Workers : renew_lease(w)
           \/ \E m \in queue : ResumeRaises(m)
           \/ \E n \in unsent : SendRetry(n) \/ LoseRetry(n)
           \/ LeaseLapses \/ reap_stuck_agent_pipelines \/ ReaperCommitFails
           \/ UserStep \/ UNCHANGED vars
  BY <1>7 DEF renew_lease, ResumeRaises, SendRetry, LoseRetry, LeaseLapses,
              reap_stuck_agent_pipelines, ReaperCommitFails, UserStep, request_cancel,
              retry_pipeline, retry_invocation, settle_review, vars
<1> QED
  BY <1>1, <1>4, <1>5, <1>6, <1>7, StageStepQuiet DEF Next, Quiet

\* No step gives a token to two workers.
LEMMA TokensStep ==
    ASSUME PipelineAssumption, TypeOK, FenceInv, TokensInv, [Next]_vars
    PROVE  TokensInv'
<1>1. CASE work' = work
  BY <1>1 DEF TokensInv, Live
<1>2. ASSUME NEW w \in Workers, OneWorkerMoves(w) PROVE TokensInv'
  <2>1. minted \in Nat /\ \A v \in Workers : Live(v) => work[v].token \in Nat
                                                     /\ work[v].token <= minted
    BY LiveIsActive DEF ActiveWork, Live, FenceInv, TokensMinted, TypeOK
  <2>2. ASSUME NEW v \in Workers, v # w, Live(v)', Live(w)',
               work'[v].token = work'[w].token, work'[v].token # NoToken
        PROVE  FALSE
    BY <1>2, <2>1, <2>2 DEF OneWorkerMoves, Keeps, Begins, Refused, TokensInv, Live
  <2>3. ASSUME NEW v \in Workers, Live(v)'
        PROVE  /\ work'[v].fenced => work'[v].token # NoToken
               /\ ~work'[v].fenced => work'[v].msg = TriggerMessage
    BY <1>2, <2>1, <2>3 DEF OneWorkerMoves, Keeps, Begins, Refused, TokensInv, Live, NoToken
  <2>4. ASSUME NEW u \in Workers, NEW v \in Workers, Live(u)', Live(v)',
               work'[u].token = work'[v].token, work'[u].token # NoToken
        PROVE  u = v
    <3>1. CASE u = w \/ v = w
      BY <2>2, <2>4, <3>1
    <3>2. CASE u # w /\ v # w
      BY <1>2, <2>4, <3>2 DEF OneWorkerMoves, TokensInv, Live
    <3> QED
      BY <3>1, <3>2
  <2> QED
    BY <2>3, <2>4 DEF TokensInv
<1> QED
  BY <1>1, <1>2, WorkStep

\* Types, fences and the workers' tokens hold in every reachable state.
LEMMA TokensAlways == Spec => [](TypeOK /\ FenceInv /\ TokensInv)
<1>1. Init => TokensInv
  BY DEF Init, TokensInv, Live, IdleWork
<1>2. TypeOK /\ FenceInv /\ TokensInv /\ [Next]_vars => TokensInv'
  BY PipelineAssumption, TokensStep
<1> QED
  BY <1>1, <1>2, FenceAlways, PTL DEF Spec

\* At most one of the tasks that were given a token passes the fence of the
\* run, whatever is paused, reaped, resumed and redelivered (acquire_lease_fields,
\* the reaper's rotation): the lease is exclusive among them, for any number of
\* workers.
THEOREM LeasesAreExclusive == Spec => []LeaseIsExclusive
<1>1. TokensInv => LeaseIsExclusive
  BY DEF TokensInv, LeaseIsExclusive, verify_lease
<1> QED
  BY <1>1, TokensAlways, PTL

(***************************************************************************)
(* A rejection.                                                            *)
(***************************************************************************)
\* While a rejected row stays failed, only a task of the trigger overwrites
\* what the reviewer said.
LEMMA RejectionStep ==
    ASSUME PipelineAssumption, TypeOK, FenceInv, TokensInv, [Next]_vars,
           status = "failed", error = "rejected"
    PROVE  \/ status' = "failed" /\ error' = "rejected"
           \/ \E w \in Workers : /\ Live(w) /\ work[w].msg = TriggerMessage
                                 /\ work'[w] # work[w]
<1> DEFINE Stands == status' = "failed" /\ error' = "rejected"
           Undone(w) == Live(w) /\ work[w].msg = TriggerMessage /\ work'[w] # work[w]
<1>1. ASSUME NEW w \in Workers, Receive(w) PROVE Stands
  BY <1>1 DEF Receive, _create_pipeline_run, _claim_pipeline_resume, Claimable,
              RefuseDelivery, row
<1>2. ASSUME NEW w \in Workers, Quiet(w) PROVE Stands
  BY <1>2 DEF Quiet, row
<1>3. ASSUME NEW w \in Workers, EndStep(w) PROVE Stands \/ Undone(w)
  <2>1. CASE FinishPipeline(w)
    BY <2>1 DEF FinishPipeline
  <2>2. CASE FailPipeline(w)
    <3>1. Live(w) /\ work[w].phase = "failing" /\ work'[w] # work[w]
      <4>1. work[w].phase = "failing" /\ work[w] \in ActiveWork
        BY <2>2, LiveIsActive DEF FailPipeline
      <4>2. work'[w] = [work[w] EXCEPT !.phase = "raised"]
        BY <2>2 DEF FailPipeline, Goes, TypeOK
      <4>3. work'[w].phase = "raised"
        BY <4>1, <4>2 DEF ActiveWork
      <4> QED
        BY <4>1, <4>3 DEF Live
    <3>2. work[w].fenced => work[w].token = fencing_token /\ work[w].token # NoToken
      BY <2>2, <3>1 DEF FailPipeline, HoldsRow, TokensInv
    <3>3. ~work[w].fenced
      BY <3>1, <3>2 DEF FenceInv, RunningIsLeased
    <3> QED
      BY <3>1, <3>3 DEF TokensInv
  <2>3. CASE FinalizeRaises(w) \/ TaskReturns(w) \/ TaskRaises(w)
    BY <2>3 DEF FinalizeRaises, TaskReturns, TaskRaises, row
  <2>4. CASE _schedule_pipeline_retry(w)
    <3>1. work[w].phase = "raised" /\ work'[w] = IdleWork /\ work[w].msg = TriggerMessage
      BY <2>4 DEF _schedule_pipeline_retry, Retires, Reschedules, TypeOK
    <3> QED
      BY <3>1 DEF Live, IdleWork
  <2> QED
    BY <1>3, <2>1, <2>2, <2>3, <2>4 DEF EndStep
<1>4. ASSUME NEW w \in Workers, WorkerDies(w) \/ renew_lease(w) PROVE Stands
  BY <1>4 DEF WorkerDies, renew_lease, row
<1>5. CASE \/ \E m \in queue : ResumeRaises(m)
           \/ \E n \in unsent : SendRetry(n) \/ LoseRetry(n)
           \/ LeaseLapses \/ ReaperCommitFails \/ UNCHANGED vars
  BY <1>5 DEF ResumeRaises, SendRetry, LoseRetry, LeaseLapses, ReaperCommitFails, vars, row
<1>6. CASE reap_stuck_agent_pipelines \/ UserStep
  BY <1>6 DEF reap_stuck_agent_pipelines, UserStep, request_cancel, retry_pipeline,
              retry_invocation, Retryable, settle_review, row
<1> QED
  BY <1>1, <1>2, <1>3, <1>4, <1>5, <1>6, StageStepQuiet DEF Next

\* A reviewer's rejection stands against every resume, scheduled, manual or
\* stale, every reap and every fenced result; only a task of the trigger that
\* is still at work undoes it ("otherwise that already-queued worker can
\* resurrect a review-rejected pipeline", _claim_pipeline_resume).
THEOREM RejectionsStand == Spec => RejectionStands
<1>1. TypeOK /\ FenceInv /\ TokensInv /\ [Next]_vars =>
         [status = "failed" /\ error = "rejected"
          => \/ status' = "failed" /\ error' = "rejected"
             \/ \E w \in Workers : /\ Live(w) /\ work[w].msg = TriggerMessage
                                   /\ work'[w] # work[w]]_vars
  BY PipelineAssumption, RejectionStep
<1> QED
  BY <1>1, TokensAlways, PTL DEF Spec, RejectionStands

(***************************************************************************)
(* Cancellation.                                                           *)
(***************************************************************************)
\* A run that does not exist yet is not cancelled and has made no attempt.
CancelInv == status = "absent" => cancel_requested = "no" /\ attempt = 0

\* How a step may change the status, the cancel flag and the attempt: only a
\* creation and a claim make a row run and count an attempt, and the claim
\* finds the flag unset.
StatusMoves ==
    /\ status' = "absent" => status = "absent"
    /\ \/ cancel_requested' = cancel_requested
       \/ status \in {"running", "retry_wait"} /\ cancel_requested' = "requested"
    /\ attempt' = attempt \/ status' = "running"
    /\ status' = "running" => status \in {"running", "absent"} \/ cancel_requested = "no"

\* Every step changes the status of the row in one of the listed ways.
LEMMA StatusStep ==
    ASSUME PipelineAssumption, TypeOK, [Next]_vars
    PROVE  StatusMoves
<1> USE DEF StatusMoves
<1>1. ASSUME NEW w \in Workers, Receive(w) PROVE StatusMoves
  BY <1>1 DEF Receive, _create_pipeline_run, _claim_pipeline_resume, Claimable, BecomesRunning,
              RefuseDelivery, row
<1>2. ASSUME NEW w \in Workers, Quiet(w) PROVE StatusMoves
  BY <1>2 DEF Quiet, row
<1>3. ASSUME NEW w \in Workers, EndStep(w) PROVE StatusMoves
  <2>1. CASE FinishPipeline(w) \/ FailPipeline(w)
    BY <2>1 DEF FinishPipeline, FailPipeline
  <2>2. CASE TaskReturns(w) \/ TaskRaises(w) \/ _schedule_pipeline_retry(w)
    BY <2>2 DEF TaskReturns, TaskRaises, _schedule_pipeline_retry, row
  <2> QED
    BY <1>2, <1>3, <2>1, <2>2, FinalizeRaisesQuiet DEF EndStep
<1>4. ASSUME NEW w \in Workers, WorkerDies(w) \/ renew_lease(w) PROVE StatusMoves
  BY <1>4 DEF WorkerDies, renew_lease, row
<1>5. CASE \/ \E m \in queue : ResumeRaises(m)
           \/ \E n \in unsent : SendRetry(n) \/ LoseRetry(n)
           \/ LeaseLapses \/ ReaperCommitFails \/ UNCHANGED vars
  BY <1>5 DEF ResumeRaises, SendRetry, LoseRetry, LeaseLapses, ReaperCommitFails, vars, row
<1>6. CASE reap_stuck_agent_pipelines
  BY <1>6 DEF reap_stuck_agent_pipelines
<1>7. CASE UserStep
  BY <1>7 DEF UserStep, request_cancel, retry_pipeline, retry_invocation, settle_review, row
<1> QED
  BY <1>1, <1>2, <1>3, <1>4, <1>5, <1>6, <1>7, StageStepQuiet DEF Next

\* A cancelled run that is not running never runs again, by any resume, retry,
\* redelivery or late scheduler ("a cancelled run is never resumable, by any
\* path", _claim_pipeline_resume).
THEOREM CancellationIsSticky == Spec => CancelIsSticky
<1>1. Init => TypeOK /\ CancelInv
  BY PipelineAssumption
  DEF Init, TypeOK, NoToken, TriggerMessage, Message, IdleWork, PipelineAssumption, CancelInv
<1>2. TypeOK /\ CancelInv /\ [Next]_vars => (TypeOK /\ CancelInv)'
  BY PipelineAssumption, TypeStep, StatusStep DEF CancelInv, StatusMoves
<1>3. TypeOK /\ CancelInv /\ [Next]_vars =>
         [cancel_requested = "requested" /\ status # "running"
          => cancel_requested' = "requested" /\ status' # "running"]_vars
  BY PipelineAssumption, StatusStep DEF CancelInv, StatusMoves
<1> QED
  BY <1>1, <1>2, <1>3, PTL DEF Spec, CancelIsSticky

(***************************************************************************)
(* The row implements RunLifecycle: every step of the model is one of its  *)
(* steps or leaves status, attempt and cancel flag alone.                  *)
(***************************************************************************)
IsCancelled == cancel_requested = "requested"

LifecycleStep == [Lifecycle!Next]_<<status, attempt, IsCancelled>>

\* An edge of the table that begins no attempt is a step of the life of a run,
\* unless it brings a cancelled run back.
LEMMA EdgeIsAStep ==
    ASSUME NEW to \in {"retry_wait", "completed", "passed", "failed"},
           status' = to, UNCHANGED <<attempt, cancel_requested>>,
           \/ status = to
           \/ status = "running" /\ to # "passed"
           \/ status = "retry_wait" /\ to = "failed"
           \/ status = "completed" /\ to \in {"passed", "failed"}
           \/ status = "failed" /\ to = "retry_wait" /\ ~IsCancelled
    PROVE  LifecycleStep
<1>1. UNCHANGED <<attempt, IsCancelled>>
  BY DEF IsCancelled
<1>2. CASE status = to
  BY <1>1, <1>2 DEF LifecycleStep
<1>3. CASE status # to
  <2>1. <<status, to>> \in Lifecycle!TRANSITIONS /\ (status = "failed" => ~IsCancelled)
    BY <1>3 DEF Lifecycle!TRANSITIONS
  <2>2. Lifecycle!Move(to)
    BY <1>1, <2>1 DEF Lifecycle!Move, IsCancelled
  <2> QED
    BY <2>2 DEF LifecycleStep, Lifecycle!Next
<1> QED
  BY <1>2, <1>3

\* A creation or a claim begins an attempt of a run that nobody cancelled.
LEMMA BeginIsAStep ==
    ASSUME status \in {"absent", "failed", "retry_wait", "completed"},
           BecomesRunning, attempt' = attempt + 1,
           cancel_requested = "no", UNCHANGED cancel_requested
    PROVE  LifecycleStep
<1>1. <<status, "running">> \in Lifecycle!TRANSITIONS
  BY DEF Lifecycle!TRANSITIONS
<1>2. Lifecycle!Begin
  BY <1>1 DEF Lifecycle!Begin, BecomesRunning
<1> QED
  BY <1>2 DEF LifecycleStep, Lifecycle!Next

\* A step that leaves the status, the attempt and the flag alone stutters.
LEMMA SameLife ==
    ASSUME UNCHANGED <<status, attempt, cancel_requested>>
    PROVE  LifecycleStep
BY DEF LifecycleStep, IsCancelled

\* Every step of the model is a step of the life of a run, or stutters.
LEMMA LifecycleMoves ==
    ASSUME PipelineAssumption, TypeOK, FenceInv, CancelInv, [Next]_vars
    PROVE  LifecycleStep
<1>1. ASSUME NEW w \in Workers, NEW m \in queue, _create_pipeline_run(w, m)
      PROVE  LifecycleStep
  <2>1. cancel_requested = "no" /\ attempt' = attempt + 1
    BY <1>1 DEF _create_pipeline_run, CancelInv
  <2> QED
    BY <1>1, <2>1, BeginIsAStep DEF _create_pipeline_run
<1>2. ASSUME NEW w \in Workers, NEW m \in queue, _claim_pipeline_resume(w, m)
      PROVE  LifecycleStep
  BY <1>2, BeginIsAStep DEF _claim_pipeline_resume, Claimable, is_resumable
<1>3. ASSUME NEW w \in Workers, NEW m \in queue, RefuseDelivery(w, m)
      PROVE  LifecycleStep
  BY <1>3, SameLife DEF RefuseDelivery, row
<1>4. ASSUME NEW w \in Workers, Quiet(w) PROVE LifecycleStep
  BY <1>4, SameLife DEF Quiet, row
<1>5. ASSUME NEW w \in Workers, FinishPipeline(w) PROVE LifecycleStep
  <2>1. /\ status \in {"running", "completed"} /\ status' \in {"completed", "passed"}
        /\ UNCHANGED <<attempt, cancel_requested>>
    BY <1>5 DEF FinishPipeline
  <2>2. CASE status = "running" /\ status' = "passed"
    <3>1. Lifecycle!CompleteAndPass
      BY <2>1, <2>2 DEF Lifecycle!CompleteAndPass
    <3> QED
      BY <3>1 DEF LifecycleStep, Lifecycle!Next
  <2>3. CASE ~(status = "running" /\ status' = "passed")
    BY <2>1, <2>3, EdgeIsAStep
  <2> QED
    BY <2>2, <2>3
<1>6. ASSUME NEW w \in Workers, FailPipeline(w) PROVE LifecycleStep
  <2>1. status # "absent"
    BY <1>6, WorkingIsCreated DEF FailPipeline
  <2>2. status \in {"running", "retry_wait", "completed", "failed"}
    BY <1>6, <2>1 DEF FailPipeline, TypeOK
  <2> QED
    BY <1>6, <2>2, EdgeIsAStep DEF FailPipeline
<1>7. ASSUME NEW w \in Workers, TaskReturns(w) \/ TaskRaises(w) \/ FinalizeRaises(w)
      PROVE  LifecycleStep
  BY <1>7, SameLife DEF TaskReturns, TaskRaises, FinalizeRaises, row
<1>8. ASSUME NEW w \in Workers, _schedule_pipeline_retry(w) PROVE LifecycleStep
  <2>1. UNCHANGED <<attempt, cancel_requested>>
    BY <1>8 DEF _schedule_pipeline_retry
  <2>2. \/ status' = status
        \/ status = "failed" /\ status' = "retry_wait" /\ cancel_requested = "no"
    BY <1>8 DEF _schedule_pipeline_retry
  <2> QED
    BY <2>1, <2>2, SameLife, EdgeIsAStep DEF IsCancelled
<1>9. ASSUME NEW w \in Workers, WorkerDies(w) \/ renew_lease(w) PROVE LifecycleStep
  BY <1>9, SameLife DEF WorkerDies, renew_lease, row
<1>10. CASE \/ \E m \in queue : ResumeRaises(m)
            \/ \E n \in unsent : SendRetry(n) \/ LoseRetry(n)
            \/ LeaseLapses \/ ReaperCommitFails \/ UNCHANGED vars
  BY <1>10, SameLife DEF ResumeRaises, SendRetry, LoseRetry, LeaseLapses,
                         ReaperCommitFails, vars, row
<1>11. CASE reap_stuck_agent_pipelines
  BY <1>11, EdgeIsAStep DEF reap_stuck_agent_pipelines
<1>12. CASE request_cancel
  <2>1. Lifecycle!Cancel
    BY <1>12 DEF request_cancel, Lifecycle!Cancel
  <2> QED
    BY <2>1 DEF LifecycleStep, Lifecycle!Next
<1>13. CASE retry_pipeline
  BY <1>13, SameLife DEF retry_pipeline, row
<1>14. CASE retry_invocation
  <2>1. UNCHANGED <<attempt, cancel_requested>>
    BY <1>14 DEF retry_invocation
  <2>2. status = "failed" /\ status' = "retry_wait" /\ cancel_requested = "no"
    BY <1>14 DEF retry_invocation, Retryable
  <2> QED
    BY <2>1, <2>2, EdgeIsAStep DEF IsCancelled
<1>15. ASSUME NEW decision \in {"accepted", "rejected"}, settle_review(decision)
       PROVE  LifecycleStep
  BY <1>15, EdgeIsAStep DEF settle_review
<1> QED
  BY <1>1, <1>2, <1>3, <1>4, <1>5, <1>6, <1>7, <1>8, <1>9, <1>10, <1>11, <1>12, <1>13,
     <1>14, <1>15, StageStepQuiet
  DEF Next, Receive, EndStep, UserStep

\* The row of a run implements the life of a run: only the edges of the state
\* machine, an attempt counted when it begins and never otherwise, no attempt
\* of a cancelled run, nothing after it passed (workflow_run_state.py), for
\* every trigger, any number of workers and any fault.
THEOREM RowsImplementTheirLifecycle == Spec => ImplementsRunLifecycle
<1>1. Init => Lifecycle!Init /\ CancelInv
  BY DEF Init, Lifecycle!Init, CancelInv
<1>2. TypeOK /\ CancelInv /\ [Next]_vars => CancelInv'
  BY PipelineAssumption, StatusStep DEF CancelInv, StatusMoves
<1>3. TypeOK /\ FenceInv /\ CancelInv /\ [Next]_vars
         => [Lifecycle!Next]_<<status, attempt, IsCancelled>>
  BY PipelineAssumption, LifecycleMoves DEF LifecycleStep
<1> QED
  BY <1>1, <1>2, <1>3, FenceAlways, PTL
  DEF Spec, ImplementsRunLifecycle, Lifecycle!Spec, IsCancelled


(***************************************************************************)
(* The attempt ceiling, for a run that was triggered directly and that no  *)
(* user retries: every resume in flight names an attempt that was within   *)
(* the ceiling when it was scheduled, and the claim asks for that name.    *)
(***************************************************************************)
Within(n) == n \in 1 .. max_attempts

CeilingInv ==
    /\ AttemptCeiling
    /\ \A n \in unsent : Within(n)
    /\ \A m \in queue : \/ m.kind = "resume" /\ Within(m.expected)
                        \/ m = TriggerMessage /\ status = "absent"

\* What a step may add to the broker and how it may raise the attempt.
BrokerMoves ==
    /\ attempt' = attempt \/ Within(attempt')
    /\ \A n \in unsent' : n \in unsent \/ Within(n)
    /\ \A m \in queue' : m \in queue \/ (m.kind = "resume" /\ Within(m.expected))
    /\ \/ status # "absent"
       \/ status' = "absent"
       \/ TriggerMessage \notin queue'

\* A retry that may be scheduled names an attempt within the ceiling.
LEMMA NextAttemptWithin ==
    ASSUME PipelineAssumption, TypeOK, can_retry
    PROVE  Within(NextAttempt) /\ ScheduledResume(NextAttempt).expected = NextAttempt
           /\ ScheduledResume(NextAttempt).kind = "resume"
BY DEF PipelineAssumption, TypeOK, can_retry, NextAttempt, Within, ScheduledResume

\* What is added to the broker and to the unsent retries is within the ceiling.
LEMMA CeilingMoves ==
    ASSUME PipelineAssumption, Trigger = "direct", MaxManual = 0, TypeOK, FenceInv,
           CeilingInv, [Next]_vars
    PROVE  BrokerMoves
<1> USE DEF BrokerMoves
<1>a. ~Retryable
  BY DEF Retryable, TypeOK
<1>1. ASSUME NEW w \in Workers, NEW m \in queue, _create_pipeline_run(w, m)
      PROVE  BrokerMoves
  BY <1>1 DEF _create_pipeline_run, Within, PipelineAssumption
<1>2. ASSUME NEW w \in Workers, NEW m \in queue, _claim_pipeline_resume(w, m)
      PROVE  BrokerMoves
  <2>1. status # "absent" /\ Claimable(m)
    BY <1>2 DEF _claim_pipeline_resume, Claimable, is_resumable
  <2>2. m.kind = "resume" /\ Within(m.expected)
    BY <2>1 DEF CeilingInv
  <2>3. m.expected = attempt + 1
    BY <2>1, <2>2 DEF Claimable, Within
  <2> QED
    BY <1>2, <2>1, <2>2, <2>3 DEF _claim_pipeline_resume
<1>3. ASSUME NEW w \in Workers, NEW m \in queue, RefuseDelivery(w, m) PROVE BrokerMoves
  BY <1>3 DEF RefuseDelivery, Acknowledged, row
<1>4. ASSUME NEW w \in Workers, Quiet(w) PROVE BrokerMoves
  BY <1>4 DEF Quiet, row, broker
<1>5. ASSUME NEW w \in Workers, FinishPipeline(w) \/ FailPipeline(w) PROVE BrokerMoves
  <2>1. work[w].phase \in {"graph", "failing"}
    BY <1>5 DEF FinishPipeline, FailPipeline
  <2>2. status # "absent"
    BY <2>1, WorkingIsCreated
  <2>3. UNCHANGED <<attempt, broker>>
    BY <1>5 DEF FinishPipeline, FailPipeline
  <2> QED
    BY <2>2, <2>3 DEF broker
<1>6. ASSUME NEW w \in Workers, TaskReturns(w) \/ TaskRaises(w) PROVE BrokerMoves
  BY <1>6 DEF TaskReturns, TaskRaises, Retires, Acknowledged, row
<1>7. ASSUME NEW w \in Workers, _schedule_pipeline_retry(w) PROVE BrokerMoves
  BY <1>7, NextAttemptWithin DEF _schedule_pipeline_retry, Retires, Acknowledged
<1>8. ASSUME NEW w \in Workers, WorkerDies(w) \/ renew_lease(w) PROVE BrokerMoves
  BY <1>8 DEF WorkerDies, Acknowledged, renew_lease, row, broker
<1>9. ASSUME NEW m \in queue, ResumeRaises(m) PROVE BrokerMoves
  BY <1>9 DEF ResumeRaises, row
<1>10. ASSUME NEW n \in unsent, SendRetry(n) \/ LoseRetry(n) PROVE BrokerMoves
  <2>1. ScheduledResume(n).kind = "resume" /\ ScheduledResume(n).expected = n
    BY DEF ScheduledResume
  <2>2. Within(n)
    BY DEF CeilingInv
  <2> QED
    BY <1>10, <2>1, <2>2 DEF SendRetry, LoseRetry, row
<1>11. CASE LeaseLapses \/ UNCHANGED vars
  BY <1>11 DEF LeaseLapses, vars, row, broker
<1>12. CASE reap_stuck_agent_pipelines
  BY <1>12, NextAttemptWithin DEF reap_stuck_agent_pipelines
<1>13. CASE ReaperCommitFails
  BY <1>13, NextAttemptWithin DEF ReaperCommitFails, row
<1>14. CASE UserStep
  BY <1>14, <1>a DEF UserStep, request_cancel, retry_pipeline, retry_invocation,
                     settle_review, broker
<1> QED
  BY <1>1, <1>2, <1>3, <1>4, <1>5, <1>6, <1>7, <1>8, <1>9, <1>10, <1>11, <1>12, <1>13, <1>14,
     StageStepQuiet, FinalizeRaisesQuiet
  DEF Next, Receive, EndStep

\* The ceiling is inductive.
LEMMA CeilingStep ==
    ASSUME PipelineAssumption, Trigger = "direct", MaxManual = 0, TypeOK, FenceInv,
           CeilingInv, [Next]_vars
    PROVE  CeilingInv'
<1>1. BrokerMoves
  BY CeilingMoves
<1>2. AttemptCeiling'
  BY <1>1 DEF BrokerMoves, CeilingInv, AttemptCeiling, Within, PipelineAssumption
<1>3. \A n \in unsent' : Within(n)
  BY <1>1 DEF BrokerMoves, CeilingInv
<1>4. ASSUME NEW m \in queue'
      PROVE  \/ m.kind = "resume" /\ Within(m.expected)
             \/ m = TriggerMessage /\ status' = "absent"
  BY <1>1 DEF BrokerMoves, CeilingInv
<1> QED
  BY <1>2, <1>3, <1>4 DEF CeilingInv, Within

\* The attempts of a run triggered directly and retried by nobody stay within
\* the ceiling frozen into its row, through failures, dead workers, lapsed
\* leases, lost and duplicated resumes (_schedule_pipeline_retry, the reaper,
\* expected_attempt of _claim_pipeline_resume).
THEOREM AttemptsAreBounded ==
    ASSUME Trigger = "direct", MaxManual = 0
    PROVE  Spec => []AttemptCeiling
<1>1. Init => CeilingInv
  BY PipelineAssumption
  DEF Init, CeilingInv, AttemptCeiling, PipelineAssumption
<1>2. TypeOK /\ FenceInv /\ CeilingInv /\ [Next]_vars => CeilingInv'
  BY PipelineAssumption, CeilingStep
<1>3. CeilingInv => AttemptCeiling
  BY DEF CeilingInv
<1> QED
  BY <1>1, <1>2, <1>3, FenceAlways, PTL DEF Spec

(***************************************************************************)
(* What attempts beyond the ceiling cost, whatever the trigger.  The claim *)
(* of a message that names its attempt cannot pass the ceiling.  A loose   *)
(* message names none and is in nobody's hands: each was put there by a    *)
(* user's retry or by the loss of a worker, and its claim takes it away.   *)
(* The trigger of an outbox is not counted among them: its own row counts  *)
(* its deliveries.                                                         *)
(***************************************************************************)
Unheld(m) == \A v \in Workers : Live(v) => work[v].msg # m

Loose == {m \in queue : /\ m.expected = 0 /\ Unheld(m)
                        /\ m = TriggerMessage =>
                              Trigger = "invocation" /\ status # "absent"}

Covered ==
    /\ Cardinality(Loose) <= manual + deaths
    /\ attempt + Cardinality(Loose) <= max_attempts + Redeliveries + manual + deaths

Numbered ==
    /\ \A n \in unsent : Within(n)
    /\ \A m \in queue : m.expected = 0 \/ Within(m.expected)

TriggerIsCounted ==
    status # "absent" => /\ Trigger = "outbox" => deliveries # 0
                         /\ Trigger = "direct" => TriggerMessage \notin queue

PaidInv == IsFiniteSet(queue) /\ Numbered /\ TriggerIsCounted /\ Covered

\* What a step may add to the broker.
AddsNumbered ==
    /\ \A n \in unsent' : n \in unsent \/ Within(n)
    /\ \E x : queue' \subseteq queue \cup {x}
    /\ \A m \in queue' : m \in queue \/ (m.kind = "resume"
                                         /\ (m.expected = 0 \/ Within(m.expected)))

\* A user's retry or a lost worker.
PaysOne == \/ manual' = manual + 1 /\ deaths' = deaths
           \/ manual' = manual /\ deaths' = deaths + 1

\* How a step may change the loose messages and what it pays for that.
PaidMoves ==
    \/ /\ Loose' \subseteq Loose
       /\ attempt' = attempt \/ Within(attempt')
       /\ Redeliveries' >= Redeliveries /\ manual' = manual /\ deaths' = deaths
    \/ \E m \in Loose :
          /\ Loose' \subseteq Loose \ {m}
          /\ attempt' = attempt + 1
          /\ Redeliveries' = Redeliveries /\ manual' = manual /\ deaths' = deaths
    \/ \E m :
          /\ Loose' \subseteq Loose \cup {m}
          /\ attempt' = attempt \/ Within(attempt')
          /\ Redeliveries' = Redeliveries
          /\ PaysOne
    \/ /\ Loose' \subseteq Loose
       /\ attempt' = attempt + 1
       /\ Redeliveries' = Redeliveries + 1 /\ manual' = manual /\ deaths' = deaths

\* What was paid for covers the attempts after the step as it did before.
LEMMA PaidStaysCovered ==
    ASSUME PipelineAssumption, TypeOK, TypeOK', PaidInv, PaidMoves
    PROVE  Covered'
<1>1. /\ IsFiniteSet(Loose) /\ Cardinality(Loose) \in Nat
  BY FS_Subset, FS_CardinalityType DEF PaidInv, Loose
<1>2. /\ manual \in Nat /\ deaths \in Nat /\ attempt \in Nat /\ Redeliveries \in Nat
      /\ manual' \in Nat /\ deaths' \in Nat /\ attempt' \in Nat /\ Redeliveries' \in Nat
      /\ max_attempts \in Nat
  <2>1. \A n \in Nat : (IF n = 0 THEN 0 ELSE n - 1) \in Nat
    OBVIOUS
  <2>2. Redeliveries \in Nat /\ Redeliveries' \in Nat
    BY <2>1 DEF TypeOK, Redeliveries
  <2> QED
    BY <2>2 DEF TypeOK, PipelineAssumption
<1>3. ASSUME Loose' \subseteq Loose
      PROVE  Cardinality(Loose') \in Nat /\ Cardinality(Loose') <= Cardinality(Loose)
  BY <1>1, <1>3, FS_Subset, FS_CardinalityType
<1>4. CASE /\ Loose' \subseteq Loose
           /\ attempt' = attempt \/ Within(attempt')
           /\ Redeliveries' >= Redeliveries /\ manual' = manual /\ deaths' = deaths
  BY <1>1, <1>2, <1>3, <1>4 DEF PaidInv, Covered, Within
<1>5. ASSUME NEW m \in Loose, Loose' \subseteq Loose \ {m}, attempt' = attempt + 1,
             Redeliveries' = Redeliveries, manual' = manual, deaths' = deaths
      PROVE  Covered'
  <2>1. /\ IsFiniteSet(Loose \ {m})
        /\ Cardinality(Loose \ {m}) = Cardinality(Loose) - 1
    BY <1>1, FS_RemoveElement
  <2>2. Cardinality(Loose') \in Nat /\ Cardinality(Loose') <= Cardinality(Loose) - 1
    BY <1>5, <2>1, FS_Subset, FS_CardinalityType
  <2> QED
    BY <1>1, <1>2, <1>5, <2>2 DEF PaidInv, Covered
<1>6. ASSUME NEW m, Loose' \subseteq Loose \cup {m},
             attempt' = attempt \/ Within(attempt'),
             Redeliveries' = Redeliveries, PaysOne
      PROVE  Covered'
  <2>1. /\ IsFiniteSet(Loose \cup {m})
        /\ Cardinality(Loose \cup {m}) <= Cardinality(Loose) + 1
    <3>1. /\ IsFiniteSet(Loose \cup {m})
          /\ \/ Cardinality(Loose \cup {m}) = Cardinality(Loose)
             \/ Cardinality(Loose \cup {m}) = Cardinality(Loose) + 1
      BY <1>1, FS_AddElement
    <3> QED
      BY <1>1, <3>1
  <2>2. Cardinality(Loose \cup {m}) \in Nat
    BY <2>1, FS_CardinalityType
  <2>3. Cardinality(Loose') \in Nat /\ Cardinality(Loose') <= Cardinality(Loose \cup {m})
    BY <1>6, <2>1, FS_Subset, FS_CardinalityType
  <2>4. Cardinality(Loose') <= Cardinality(Loose) + 1
    BY <1>1, <2>1, <2>2, <2>3
  <2>5. /\ Cardinality(Loose) <= manual + deaths
        /\ attempt + Cardinality(Loose) <= max_attempts + Redeliveries + manual + deaths
    BY DEF PaidInv, Covered
  <2>6. /\ Redeliveries' = Redeliveries
        /\ attempt' = attempt \/ attempt' <= max_attempts
    BY <1>2, <1>6 DEF Within
  <2>7. Cardinality(Loose') <= manual' + deaths'
    BY <1>1, <1>2, <1>6, <2>3, <2>4, <2>5 DEF PaysOne
  <2>8. attempt' + Cardinality(Loose') <= max_attempts + Redeliveries' + manual' + deaths'
    <3>1. CASE attempt' = attempt
      BY <1>1, <1>2, <1>6, <2>3, <2>4, <2>5, <2>6, <3>1 DEF PaysOne
    <3>2. CASE attempt' <= max_attempts
      BY <1>2, <2>3, <2>7, <3>2
    <3> QED
      BY <2>6, <3>1, <3>2
  <2> QED
    BY <2>7, <2>8 DEF Covered
<1>7. CASE /\ Loose' \subseteq Loose
           /\ attempt' = attempt + 1
           /\ Redeliveries' = Redeliveries + 1 /\ manual' = manual /\ deaths' = deaths
  BY <1>1, <1>2, <1>3, <1>7 DEF PaidInv, Covered
<1> QED
  BY <1>4, <1>5, <1>6, <1>7 DEF PaidMoves

\* Nobody lets go of a message that stays in the broker, but for the trigger
\* of an outbox: no message becomes loose.
LEMMA NothingLoosened ==
    ASSUME \A m \in queue' : m \in queue \/ m.expected # 0,
           status # "absent" \/ status' = "absent",
           \A m \in queue' : Unheld(m)' => \/ Unheld(m)
                                           \/ m = TriggerMessage /\ Trigger = "outbox"
    PROVE  Loose' \subseteq Loose
BY DEF Loose

\* A step of the graph, or one of no worker, loosens no message.
LEMMA HandsUnchanged ==
    ASSUME TypeOK, (work' = work) \/ (\E w \in Workers : Moves(w))
    PROVE  \A m : Unheld(m)' => Unheld(m)
<1>1. CASE work' = work
  BY <1>1 DEF Unheld, Live
<1>2. ASSUME NEW w \in Workers, Moves(w) PROVE \A m : Unheld(m)' => Unheld(m)
  <2>1. \A v \in Workers : Live(v) => Live(v)' /\ work'[v].msg = work[v].msg
    BY <1>2, LiveIsActive DEF Moves, Live, TypeOK, ActiveWork, Phase
  <2> QED
    BY <2>1 DEF Unheld
<1> QED
  BY <1>1, <1>2

\* The task of a worker ends: its message leaves the broker, unless it is the
\* trigger of an outbox.
LEMMA EndLoosensNothing ==
    ASSUME TypeOK, NEW w \in Workers, Live(w), NEW ok \in BOOLEAN, Retires(w, ok),
           status # "absent" \/ status' = "absent"
    PROVE  Loose' \subseteq Loose
<1>1. /\ queue' \subseteq queue
      /\ \A v \in Workers \ {w} : work'[v] = work[v]
      /\ work[w].msg \in queue' =>
            work[w].msg = TriggerMessage /\ Trigger = "outbox"
  BY DEF Retires, Acknowledged, Kept, TypeOK
<1>2. ASSUME NEW m \in queue', Unheld(m)'
      PROVE  Unheld(m) \/ (m = TriggerMessage /\ Trigger = "outbox")
  BY <1>1, <1>2 DEF Unheld, Live
<1> QED
  BY <1>1, <1>2, NothingLoosened

\* The message a worker has just taken is not loose.
LEMMA TakenMessage ==
    ASSUME TypeOK, NEW w \in Workers, NEW m, NEW f, NEW R, Starts(w, m, f, R),
           ~Live(w), queue' \subseteq queue
    PROVE  /\ m \notin Loose'
           /\ \A x \in Loose' : x \in queue /\ Unheld(x) /\ x.expected = 0 /\ x # m
<1>1. /\ work'[w].msg = m /\ work'[w].phase = "graph"
      /\ \A v \in Workers \ {w} : work'[v] = work[v]
  BY DEF Starts, TypeOK
<1>2. ASSUME NEW x, Unheld(x)' PROVE x # m /\ Unheld(x)
  BY <1>1, <1>2 DEF Unheld, Live
<1> QED
  BY <1>2 DEF Loose

\* The creation makes the first attempt, and takes the trigger.
LEMMA CreatePays ==
    ASSUME PipelineAssumption, TypeOK, PaidInv, NEW w \in Workers, NEW m \in queue,
           _create_pipeline_run(w, m)
    PROVE  PaidMoves
<1>1. /\ Starts(w, m, FALSE, {}) /\ ~Live(w) /\ queue' \subseteq queue
      /\ m = TriggerMessage /\ attempt' = 1 /\ UNCHANGED <<manual, deaths>>
  BY DEF _create_pipeline_run, Delivered
<1>2. Loose' \subseteq Loose
  BY <1>1, TakenMessage DEF Loose
<1>3. Redeliveries' >= Redeliveries
  BY DEF _create_pipeline_run, CountDelivery, Redeliveries, TypeOK
<1>4. Within(attempt')
  BY <1>1 DEF Within, PipelineAssumption
<1> QED
  BY <1>1, <1>2, <1>3, <1>4 DEF PaidMoves

\* A claim names an attempt within the ceiling, or takes a loose message, or is
\* one more delivery of the trigger of an outbox.
LEMMA ClaimPays ==
    ASSUME PipelineAssumption, TypeOK, PaidInv, NEW w \in Workers, NEW m \in queue,
           _claim_pipeline_resume(w, m)
    PROVE  PaidMoves
<1>1. PICK R \in SUBSET Checkpointed : Starts(w, m, TRUE, R)
  BY DEF _claim_pipeline_resume
<1>2. /\ ~Live(w) /\ queue' = queue /\ status # "absent" /\ Unheld(m)
      /\ attempt' = attempt + 1 /\ UNCHANGED <<manual, deaths>>
      /\ m.expected # 0 => m.expected = attempt + 1
  BY DEF _claim_pipeline_resume, Delivered, Claimable, is_resumable, Unheld
<1>3. Loose' \subseteq Loose \ {m}
  BY <1>1, <1>2, TakenMessage DEF Loose
<1>4. Redeliveries' >= Redeliveries
  BY DEF _claim_pipeline_resume, CountDelivery, Redeliveries, TypeOK
<1>5. CASE m.expected # 0
  BY <1>2, <1>3, <1>4, <1>5 DEF PaidInv, Numbered, PaidMoves
<1>6. CASE m \in Loose
  <2>1. Trigger = "outbox" => m # TriggerMessage
    BY <1>6 DEF Loose
  <2>2. Redeliveries' = Redeliveries
    BY <2>1 DEF _claim_pipeline_resume, CountDelivery, Redeliveries
  <2> QED
    BY <1>2, <1>3, <1>6, <2>2 DEF PaidMoves
<1>7. CASE m.expected = 0 /\ m \notin Loose
  <2>1. m = TriggerMessage /\ Trigger # "invocation"
    BY <1>2, <1>7 DEF Loose
  <2>2. Trigger = "outbox" /\ deliveries # 0
    BY <1>2, <2>1 DEF PaidInv, TriggerIsCounted, PipelineAssumption
  <2>3. Redeliveries' = Redeliveries + 1
    BY <2>1, <2>2 DEF _claim_pipeline_resume, CountDelivery, Redeliveries, TypeOK
  <2> QED
    BY <1>2, <1>3, <2>3 DEF PaidMoves
<1> QED
  BY <1>5, <1>6, <1>7

\* A refused delivery loosens no message.
LEMMA RefusePays ==
    ASSUME PipelineAssumption, TypeOK, PaidInv, NEW w \in Workers, NEW m \in queue,
           RefuseDelivery(w, m)
    PROVE  PaidMoves
<1>1. queue' \subseteq queue /\ ~Live(w) /\ UNCHANGED <<status, attempt, manual, deaths>>
  BY DEF RefuseDelivery, Delivered, Acknowledged, row, history
<1>2. \A v \in Workers : v # w => work'[v] = work[v]
  BY DEF RefuseDelivery, TypeOK
<1>3. \A x : Unheld(x)' => Unheld(x)
  BY <1>1, <1>2 DEF Unheld, Live
<1>4. Loose' \subseteq Loose
  BY <1>1, <1>3, NothingLoosened
<1>5. Redeliveries' >= Redeliveries
  BY DEF RefuseDelivery, CountDelivery, Redeliveries, TypeOK
<1> QED
  BY <1>1, <1>4, <1>5 DEF PaidMoves

\* A lost worker may leave its message behind, and is counted.
LEMMA DeathPays ==
    ASSUME TypeOK, PaidInv, NEW w \in Workers, WorkerDies(w)
    PROVE  PaidMoves
<1>1. /\ queue' \subseteq queue /\ deaths' = deaths + 1
      /\ UNCHANGED <<status, attempt, manual, deliveries>>
      /\ \A v \in Workers \ {w} : work'[v] = work[v]
  BY DEF WorkerDies, Acknowledged, row, TypeOK
<1>2. Loose' \subseteq Loose \cup {work[w].msg}
  <2>1. ASSUME NEW m \in queue', Unheld(m)' PROVE Unheld(m) \/ m = work[w].msg
    BY <1>1, <2>1 DEF Unheld, Live
  <2> QED
    BY <1>1, <2>1 DEF Loose
<1> QED
  BY <1>1, <1>2 DEF PaidMoves, PaysOne, Redeliveries

\* A retry of a user adds a loose message, or a numbered one, and is counted.
LEMMA ManualRetryPays ==
    ASSUME PipelineAssumption, TypeOK, PaidInv, retry_pipeline \/ retry_invocation
    PROVE  PaidMoves
<1>1. /\ manual' = manual + 1 /\ UNCHANGED <<attempt, deaths, deliveries, work>>
      /\ queue' \subseteq queue \cup {ManualResume(manual + 1)}
      /\ status # "absent"
  BY DEF retry_pipeline, retry_invocation, Retryable, is_terminal, row, history
<1>2. \A m : Unheld(m)' => Unheld(m)
  BY <1>1, HandsUnchanged
<1>3. Loose' \subseteq Loose \cup {ManualResume(manual + 1)}
  BY <1>1, <1>2 DEF Loose
<1> QED
  BY <1>1, <1>3 DEF PaidMoves, PaysOne, Redeliveries

\* Every step pays for what it adds.
LEMMA PaidStep ==
    ASSUME PipelineAssumption, TypeOK, FenceInv, PaidInv, [Next]_vars
    PROVE  PaidMoves /\ AddsNumbered
<1>a. ASSUME UNCHANGED <<attempt, manual, deaths, deliveries>>, Loose' \subseteq Loose
      PROVE  PaidMoves
  BY <1>a DEF PaidMoves, Redeliveries, TypeOK
<1>b. ASSUME UNCHANGED <<attempt, manual, deaths, deliveries>>,
             (work' = work) \/ (\E w \in Workers : Moves(w)),
             \A m \in queue' : m \in queue \/ m.expected # 0,
             status # "absent" \/ status' = "absent"
      PROVE  PaidMoves
  BY <1>a, <1>b, HandsUnchanged, NothingLoosened
<1>c. ASSUME UNCHANGED unsent, queue' \subseteq queue PROVE AddsNumbered
  BY <1>c DEF AddsNumbered
<1>d. /\ \A n \in Nat : ScheduledResume(n).kind = "resume" /\ ScheduledResume(n).expected = n
      /\ ManualResume(manual + 1).kind = "resume" /\ ManualResume(manual + 1).expected = 0
      /\ can_retry => Within(NextAttempt) /\ NextAttempt # 0 /\ NextAttempt \in Nat
  BY NextAttemptWithin DEF ScheduledResume, ManualResume, Within
<1>1. ASSUME NEW w \in Workers, Receive(w) PROVE PaidMoves /\ AddsNumbered
  <2>1. PaidMoves
    BY <1>1, CreatePays, ClaimPays, RefusePays DEF Receive
  <2>2. UNCHANGED unsent /\ queue' \subseteq queue
    BY <1>1 DEF Receive, _create_pipeline_run, _claim_pipeline_resume, RefuseDelivery,
                Acknowledged
  <2> QED
    BY <1>c, <2>1, <2>2
<1>2. ASSUME NEW w \in Workers, Quiet(w) PROVE PaidMoves /\ AddsNumbered
  BY <1>2, <1>b, <1>c DEF Quiet, row, broker, history
<1>3. ASSUME NEW w \in Workers, FinishPipeline(w) \/ FailPipeline(w)
      PROVE  PaidMoves /\ AddsNumbered
  <2>1. Moves(w) /\ status # "absent"
    BY <1>3, MovePhase, WorkingIsCreated DEF FinishPipeline, FailPipeline, Phase
  <2> QED
    BY <1>3, <1>b, <1>c, <2>1 DEF FinishPipeline, FailPipeline, broker, history
<1>4. ASSUME NEW w \in Workers, TaskReturns(w) \/ TaskRaises(w)
      PROVE  PaidMoves /\ AddsNumbered
  <2>1. Live(w) /\ (\E ok \in BOOLEAN : Retires(w, ok))
    BY <1>4 DEF TaskReturns, TaskRaises, Live
  <2>2. /\ UNCHANGED <<status, attempt, manual, deaths, deliveries, unsent>>
        /\ queue' \subseteq queue
    BY <1>4 DEF TaskReturns, TaskRaises, Retires, Acknowledged, row, history
  <2>3. Loose' \subseteq Loose
    BY <2>1, <2>2, EndLoosensNothing
  <2> QED
    BY <1>a, <1>c, <2>2, <2>3
<1>5. ASSUME NEW w \in Workers, _schedule_pipeline_retry(w)
      PROVE  PaidMoves /\ AddsNumbered
  <2>1. Live(w) /\ Retires(w, FALSE)
    BY <1>5 DEF _schedule_pipeline_retry, Live
  <2>2. /\ UNCHANGED <<attempt, manual, deaths, deliveries>>
        /\ status # "absent" \/ status' = "absent"
        /\ queue' \subseteq queue
    BY <1>5 DEF _schedule_pipeline_retry, Retires, Acknowledged, history
  <2>3. Loose' \subseteq Loose
    BY <2>1, <2>2, EndLoosensNothing
  <2>4. \A n \in unsent' : n \in unsent \/ Within(n)
    BY <1>5, <1>d DEF _schedule_pipeline_retry
  <2> QED
    BY <1>a, <2>2, <2>3, <2>4 DEF AddsNumbered
<1>6. ASSUME NEW w \in Workers, WorkerDies(w) PROVE PaidMoves /\ AddsNumbered
  BY <1>6, <1>c, DeathPays DEF WorkerDies, Acknowledged
<1>7. CASE \/ \E w \in Workers : renew_lease(w)
           \/ LeaseLapses \/ request_cancel
           \/ \E decision \in {"accepted", "rejected"} : settle_review(decision)
           \/ UNCHANGED vars
  BY <1>7, <1>b, <1>c DEF renew_lease, LeaseLapses, request_cancel, settle_review, vars,
                          row, broker, history
<1>8. ASSUME NEW m \in queue, ResumeRaises(m) PROVE PaidMoves /\ AddsNumbered
  BY <1>8, <1>b, <1>c DEF ResumeRaises, row, history
<1>9. ASSUME NEW n \in unsent, SendRetry(n) \/ LoseRetry(n)
      PROVE  PaidMoves /\ AddsNumbered
  <2>1. /\ n \in Nat /\ Within(n) /\ n # 0
        /\ ScheduledResume(n).kind = "resume" /\ ScheduledResume(n).expected = n
    BY <1>d DEF PaidInv, Numbered, Within, TypeOK
  <2>2. /\ queue' \subseteq queue \cup {ScheduledResume(n)} /\ unsent' \subseteq unsent
        /\ UNCHANGED <<status, attempt, manual, deaths, deliveries, work>>
    BY <1>9 DEF SendRetry, LoseRetry, row, history
  <2> QED
    BY <1>b, <2>1, <2>2 DEF AddsNumbered
<1>10. CASE reap_stuck_agent_pipelines \/ ReaperCommitFails
  <2>1. /\ queue' \subseteq (IF can_retry THEN queue \cup {ScheduledResume(NextAttempt)}
                             ELSE queue)
        /\ status = "running"
        /\ UNCHANGED <<attempt, manual, deaths, deliveries, work, unsent>>
    BY <1>10 DEF reap_stuck_agent_pipelines, ReaperCommitFails, row, history
  <2>2. \A m \in queue' : m \in queue \/ (m.kind = "resume" /\ Within(m.expected)
                                          /\ m.expected # 0)
    BY <1>d, <2>1
  <2>3. PaidMoves
    BY <1>b, <2>1, <2>2
  <2>4. AddsNumbered
    BY <2>1, <2>2 DEF AddsNumbered
  <2> QED
    BY <2>3, <2>4
<1>11. CASE retry_pipeline \/ retry_invocation
  <2>1. /\ queue' \subseteq queue \cup {ManualResume(manual + 1)}
        /\ unsent' \subseteq unsent \cup {NextAttempt} /\ can_retry
    BY <1>11 DEF retry_pipeline, retry_invocation, Retryable
  <2> QED
    BY <1>11, <1>d, <2>1, ManualRetryPays DEF AddsNumbered
<1> QED
  BY <1>1, <1>2, <1>3, <1>4, <1>5, <1>6, <1>7, <1>8, <1>9, <1>10, <1>11,
     StageStepQuiet, FinalizeRaisesQuiet
  DEF Next, EndStep, UserStep

\* Nothing but its creation brings a run into being.
LEMMA OnlyCreationCreates ==
    ASSUME PipelineAssumption, TypeOK, FenceInv, [Next]_vars,
           status = "absent", status' # "absent"
    PROVE  \E w \in Workers : \E m \in queue : _create_pipeline_run(w, m)
<1>1. ASSUME NEW w \in Workers, NEW m \in queue,
             _claim_pipeline_resume(w, m) \/ RefuseDelivery(w, m)
      PROVE  FALSE
  BY <1>1 DEF _claim_pipeline_resume, RefuseDelivery, Claimable, is_resumable, row
<1>2. ASSUME NEW w \in Workers, Quiet(w) PROVE FALSE
  BY <1>2 DEF Quiet, row
<1>3. ASSUME NEW w \in Workers, FinishPipeline(w) \/ FailPipeline(w) PROVE FALSE
  BY <1>3, WorkingIsCreated DEF FinishPipeline, FailPipeline
<1>4. ASSUME NEW w \in Workers,
             \/ TaskReturns(w) \/ TaskRaises(w) \/ _schedule_pipeline_retry(w)
             \/ WorkerDies(w) \/ renew_lease(w)
      PROVE  FALSE
  BY <1>4 DEF TaskReturns, TaskRaises, _schedule_pipeline_retry, WorkerDies, renew_lease, row
<1>5. CASE \/ \E m \in queue : ResumeRaises(m)
           \/ \E n \in unsent : SendRetry(n) \/ LoseRetry(n)
           \/ LeaseLapses \/ reap_stuck_agent_pipelines \/ ReaperCommitFails
           \/ UserStep \/ UNCHANGED vars
  BY <1>5 DEF ResumeRaises, SendRetry, LoseRetry, LeaseLapses, reap_stuck_agent_pipelines,
              ReaperCommitFails, UserStep, request_cancel, retry_pipeline, retry_invocation,
              settle_review, Retryable, is_terminal, vars, row
<1> QED
  BY <1>1, <1>2, <1>3, <1>4, <1>5, StageStepQuiet, FinalizeRaisesQuiet
  DEF Next, Receive, EndStep

\* Once the run exists its trigger was delivered, and a direct trigger is gone.
LEMMA TriggerStep ==
    ASSUME PipelineAssumption, TypeOK, FenceInv, PaidInv, AddsNumbered, [Next]_vars
    PROVE  TriggerIsCounted'
<1>1. deliveries \in Nat /\ deliveries' >= deliveries
  <2>1. ASSUME NEW w \in Workers, Receive(w) PROVE deliveries' >= deliveries
    <3>1. PICK m \in queue : CountDelivery(m)
      BY <2>1 DEF Receive, _create_pipeline_run, _claim_pipeline_resume, RefuseDelivery
    <3>2. deliveries' = deliveries \/ deliveries' = deliveries + 1
      BY <3>1 DEF CountDelivery
    <3> QED
      BY <3>2 DEF TypeOK
  <2>2. ASSUME NEW w \in Workers, EndStep(w) \/ WorkerDies(w) \/ renew_lease(w)
        PROVE  deliveries' = deliveries
    BY <2>2 DEF EndStep, FinishPipeline, FailPipeline, FinalizeRaises, TaskReturns,
                TaskRaises, _schedule_pipeline_retry, WorkerDies, renew_lease, broker
  <2>3. CASE \/ \E m \in queue : ResumeRaises(m)
             \/ \E n \in unsent : SendRetry(n) \/ LoseRetry(n)
             \/ LeaseLapses \/ reap_stuck_agent_pipelines \/ ReaperCommitFails
             \/ UserStep \/ UNCHANGED vars
    BY <2>3 DEF ResumeRaises, SendRetry, LoseRetry, LeaseLapses, ReaperCommitFails,
                reap_stuck_agent_pipelines, UserStep, request_cancel, retry_pipeline,
                retry_invocation, settle_review, vars, broker, TypeOK
  <2> QED
    BY <2>1, <2>2, <2>3, StageStepQuiet DEF Next, Quiet, broker, TypeOK
<1>2. CASE status # "absent"
  <2>1. TriggerMessage \in queue' => TriggerMessage \in queue
    BY DEF AddsNumbered, TriggerMessage
  <2> QED
    BY <1>1, <1>2, <2>1 DEF PaidInv, TriggerIsCounted
<1>3. CASE status = "absent" /\ status' # "absent"
  <2>1. PICK w \in Workers, m \in queue : _create_pipeline_run(w, m)
    BY <1>3, OnlyCreationCreates
  <2> QED
    BY <2>1 DEF _create_pipeline_run, CountDelivery, TriggerIsCounted, TypeOK
<1> QED
  BY <1>2, <1>3 DEF TriggerIsCounted

\* What was paid for is inductive.
LEMMA PaidInvStep ==
    ASSUME PipelineAssumption, TypeOK, FenceInv, PaidInv, [Next]_vars
    PROVE  PaidInv'
<1>1. PaidMoves /\ AddsNumbered
  BY PaidStep
<1>2. Covered'
  BY <1>1, TypeStep, PaidStaysCovered
<1>3. IsFiniteSet(queue')
  <2>1. PICK x : queue' \subseteq queue \cup {x}
    BY <1>1 DEF AddsNumbered
  <2>2. IsFiniteSet(queue \cup {x})
    BY FS_AddElement DEF PaidInv
  <2> QED
    BY <2>1, <2>2, FS_Subset
<1>4. Numbered'
  BY <1>1 DEF PaidInv, Numbered, AddsNumbered, Within
<1>5. TriggerIsCounted'
  BY <1>1, TriggerStep
<1> QED
  BY <1>2, <1>3, <1>4, <1>5 DEF PaidInv

\* Whatever the trigger and the faults, a run makes at most one attempt beyond
\* its ceiling for every redelivery of the outbox, retry of a user and lost
\* worker (expected_attempt and the missing ceiling of _claim_pipeline_resume;
\* _schedule_pipeline_retry and the reaper, which look at it).
THEOREM ExtraAttemptsArePaidFor == Spec => []AttemptsArePaidFor
<1>1. Init => PaidInv
  <2> SUFFICES ASSUME Init PROVE PaidInv
    OBVIOUS
  <2>1. IsFiniteSet(queue) /\ TriggerMessage.expected = 0
    BY FS_Singleton DEF Init, TriggerMessage
  <2>2. Loose = {}
    BY DEF Init, Loose
  <2>3. Covered
    BY <2>2, FS_EmptySet, PipelineAssumption
    DEF Init, Covered, Redeliveries, PipelineAssumption
  <2> QED
    BY <2>1, <2>3 DEF Init, PaidInv, Numbered, TriggerIsCounted
<1>2. TypeOK /\ FenceInv /\ PaidInv /\ [Next]_vars => PaidInv'
  BY PipelineAssumption, PaidInvStep
<1>3. TypeOK /\ PaidInv => AttemptsArePaidFor
  <2> SUFFICES ASSUME TypeOK, PaidInv PROVE AttemptsArePaidFor
    OBVIOUS
  <2>1. Cardinality(Loose) \in Nat
    BY FS_Subset, FS_CardinalityType DEF PaidInv, Loose
  <2> QED
    BY <2>1, PipelineAssumption
    DEF PaidInv, Covered, AttemptsArePaidFor, Redeliveries, TypeOK, PipelineAssumption
<1> QED
  BY <1>1, <1>2, <1>3, FenceAlways, PTL DEF Spec

(***************************************************************************)
(* The retry of a waiting row, while no broker call is lost: a message in  *)
(* the hands of a worker names at most the attempt the row has reached, so *)
(* acknowledging it never takes away the retry the row waits for, and the  *)
(* claim never refuses that retry.                                         *)
(***************************************************************************)
HeldMessages ==
    /\ status = "absent" => attempt = 0
    /\ \A w \in Workers : Live(w) => work[w].msg.expected <= attempt

WaitingIsNotRejected == status = "retry_wait" => error # "rejected"

RetryInv == HeldMessages /\ WaitingIsNotRejected /\ RetryIsScheduled

Scheduled(n) == n \in unsent \/ ScheduledResume(n) \in queue

\* Nobody's message is taken away, and the row is left alone.
LEMMA RetryKept ==
    ASSUME TypeOK, RetryInv,
           UNCHANGED <<status, attempt, error, cancel_requested>>,
           \A v \in Workers : Live(v)' => Live(v) /\ work'[v].msg = work[v].msg,
           status = "retry_wait" /\ cancel_requested = "no" /\ Scheduled(attempt + 1)
              => Scheduled(attempt + 1)'
    PROVE  RetryInv'
BY DEF RetryInv, HeldMessages, WaitingIsNotRejected, RetryIsScheduled, Scheduled

\* The row leaves the waiting state, or was not in it.
LEMMA RetryMoved ==
    ASSUME TypeOK, RetryInv, attempt' = attempt,
           status' # "absent" \/ status = "absent",
           status' # "retry_wait" \/ cancel_requested' # "no",
           status' # "retry_wait" \/ error' # "rejected",
           \A v \in Workers : Live(v)' => Live(v) /\ work'[v].msg = work[v].msg
    PROVE  RetryInv'
BY DEF RetryInv, HeldMessages, WaitingIsNotRejected, RetryIsScheduled

\* The row starts to wait for a retry that was just scheduled.
LEMMA RetryBegins ==
    ASSUME TypeOK, RetryInv, attempt' = attempt, status' = "retry_wait",
           error' # "rejected",
           Scheduled(attempt + 1)',
           \A v \in Workers : Live(v)' => Live(v) /\ work'[v].msg = work[v].msg
    PROVE  RetryInv'
BY DEF RetryInv, HeldMessages, WaitingIsNotRejected, RetryIsScheduled, Scheduled

\* A worker starts an attempt: the row has reached what the message names.
LEMMA RetryStarts ==
    ASSUME TypeOK, RetryInv, NEW w \in Workers, NEW m \in queue, NEW f, NEW R,
           Starts(w, m, f, R), status' = "running", attempt' = attempt + 1,
           m.expected <= attempt'
    PROVE  RetryInv'
<1>1. /\ work'[w].msg = m
      /\ \A v \in Workers : v # w => work'[v] = work[v]
  BY DEF Starts, TypeOK
<1>2. \A v \in Workers : Live(v) => work[v].msg.expected \in Nat
  BY LiveIsActive DEF ActiveWork, Message, Live
<1>3. attempt \in Nat
  BY DEF TypeOK
<1>4. HeldMessages'
  BY <1>1, <1>2, <1>3 DEF RetryInv, HeldMessages, Live
<1> QED
  BY <1>4 DEF RetryInv, WaitingIsNotRejected, RetryIsScheduled

\* A task ends: its message, acknowledged or not, is not the retry of the row.
LEMMA EndKeepsRetry ==
    ASSUME TypeOK, RetryInv, NEW w \in Workers, Live(w),
           (\E ok \in BOOLEAN : Retires(w, ok)) \/ WorkerDies(w)
    PROVE  /\ \A v \in Workers : Live(v)' => Live(v) /\ work'[v].msg = work[v].msg
           /\ ScheduledResume(attempt + 1) \in queue =>
                 ScheduledResume(attempt + 1) \in queue'
<1>1. PICK ok \in BOOLEAN :
         /\ work' = [work EXCEPT ![w] = IdleWork]
         /\ queue' \in {queue, Acknowledged(work[w].msg, ok, deliveries)}
  BY DEF Retires, WorkerDies
<1>2. \A v \in Workers : Live(v)' => Live(v) /\ work'[v].msg = work[v].msg
  BY <1>1 DEF TypeOK, Live, IdleWork
<1>3. work[w].msg.expected \in Nat /\ work[w].msg.expected <= attempt /\ attempt \in Nat
  BY LiveIsActive DEF ActiveWork, Message, Live, RetryInv, HeldMessages, TypeOK
<1>4. work[w].msg # ScheduledResume(attempt + 1)
  BY <1>3 DEF ScheduledResume
<1> QED
  BY <1>1, <1>2, <1>4 DEF Acknowledged

\* The delivery of the retry a row waits for is never refused.
LEMMA RefuseKeepsRetry ==
    ASSUME TypeOK, RetryInv, NEW w \in Workers, NEW m \in queue, RefuseDelivery(w, m)
    PROVE  RetryInv'
<1>1. UNCHANGED <<status, attempt, error, cancel_requested, unsent>>
  BY DEF RefuseDelivery, row
<1>2. attempt \in Nat
  BY DEF TypeOK
<1>3. HeldMessages'
  <2>1. ASSUME NEW v \in Workers
        PROVE  work'[v] = work[v] \/ (work'[v].msg = m /\ m = TriggerMessage)
    BY DEF RefuseDelivery, TypeOK
  <2>2. TriggerMessage.expected = 0
    BY DEF TriggerMessage
  <2> QED
    BY <1>1, <1>2, <2>1, <2>2 DEF RetryInv, HeldMessages, Live
<1>4. ASSUME status = "retry_wait", cancel_requested = "no", Scheduled(attempt + 1)
      PROVE  Scheduled(attempt + 1)'
  <2>1. m # ScheduledResume(attempt + 1)
    <3> SUFFICES ASSUME m = ScheduledResume(attempt + 1) PROVE Claimable(m)
      BY DEF RefuseDelivery
    <3>1. m.expected = attempt + 1
      BY DEF ScheduledResume
    <3> QED
      BY <1>4, <3>1 DEF Claimable, is_resumable, RetryInv, WaitingIsNotRejected
  <2>2. ScheduledResume(attempt + 1) \in queue => ScheduledResume(attempt + 1) \in queue'
    BY <2>1 DEF RefuseDelivery, Acknowledged
  <2> QED
    BY <1>1, <1>4, <2>2 DEF Scheduled
<1> QED
  BY <1>1, <1>3, <1>4 DEF RetryInv, WaitingIsNotRejected, RetryIsScheduled, Scheduled

\* Workers that did not move carry the same messages.
LEMMA SamePlaces ==
    ASSUME work' = work
    PROVE  \A v \in Workers : Live(v)' => Live(v) /\ work'[v].msg = work[v].msg
BY DEF Live

\* A worker that moved carries the same message.
LEMMA MovedPlaces ==
    ASSUME TypeOK, NEW w \in Workers, Moves(w)
    PROVE  \A v \in Workers : Live(v)' => Live(v) /\ work'[v].msg = work[v].msg
BY DEF Moves, TypeOK, Live

\* A row that waits for a retry keeps it under way.
LEMMA RetryStep ==
    ASSUME PipelineAssumption, LostDispatch = FALSE, TypeOK, RetryInv, [Next]_vars
    PROVE  RetryInv'
<1>a. attempt \in Nat /\ NextAttempt = attempt + 1
  BY DEF TypeOK, NextAttempt
<1>1. ASSUME NEW w \in Workers, NEW m \in queue, _create_pipeline_run(w, m)
      PROVE  RetryInv'
  <2>1. attempt' = attempt + 1 /\ m.expected <= attempt'
    BY <1>1 DEF _create_pipeline_run, RetryInv, HeldMessages, TriggerMessage
  <2> QED
    BY <1>1, <2>1, RetryStarts DEF _create_pipeline_run, BecomesRunning
<1>2. ASSUME NEW w \in Workers, NEW m \in queue, _claim_pipeline_resume(w, m)
      PROVE  RetryInv'
  <2>1. attempt' = attempt + 1 /\ m.expected <= attempt'
    BY <1>a, <1>2 DEF _claim_pipeline_resume, Claimable
  <2> QED
    BY <1>2, <2>1, RetryStarts DEF _claim_pipeline_resume, BecomesRunning
<1>3. ASSUME NEW w \in Workers, Quiet(w) PROVE RetryInv'
  BY <1>3, MovedPlaces, RetryKept DEF Quiet, row, broker, Scheduled
<1>4. ASSUME NEW w \in Workers, FinishPipeline(w) \/ FailPipeline(w) PROVE RetryInv'
  <2>1. Moves(w)
    BY <1>4, MovePhase DEF FinishPipeline, FailPipeline, Phase
  <2>2. status' \in {"completed", "passed", "failed"} /\ attempt' = attempt
    BY <1>4 DEF FinishPipeline, FailPipeline
  <2> QED
    BY <2>1, <2>2, MovedPlaces, RetryMoved
<1>5. ASSUME NEW w \in Workers, TaskReturns(w) \/ TaskRaises(w) PROVE RetryInv'
  <2>1. /\ Live(w) /\ (\E ok \in BOOLEAN : Retires(w, ok))
        /\ UNCHANGED <<status, attempt, error, cancel_requested, unsent>>
    BY <1>5 DEF TaskReturns, TaskRaises, row, Live
  <2>2. ScheduledResume(attempt + 1) \in queue => ScheduledResume(attempt + 1) \in queue'
    BY <2>1, EndKeepsRetry
  <2> QED
    BY <2>1, <2>2, EndKeepsRetry, RetryKept DEF Scheduled
<1>6. ASSUME NEW w \in Workers, _schedule_pipeline_retry(w) PROVE RetryInv'
  <2>1. Live(w) /\ (\E ok \in BOOLEAN : Retires(w, ok)) /\ UNCHANGED <<attempt, cancel_requested>>
    BY <1>6 DEF _schedule_pipeline_retry, Live
  <2>2. CASE status = "failed" /\ cancel_requested = "no" /\ can_retry
    BY <1>a, <1>6, <2>1, <2>2, EndKeepsRetry, RetryBegins
    DEF _schedule_pipeline_retry, Scheduled
  <2>3. CASE ~(status = "failed" /\ cancel_requested = "no" /\ can_retry)
    <3>1. UNCHANGED <<status, error, unsent>>
      BY <1>6, <2>3 DEF _schedule_pipeline_retry
    <3>2. ScheduledResume(attempt + 1) \in queue => ScheduledResume(attempt + 1) \in queue'
      BY <2>1, EndKeepsRetry
    <3> QED
      BY <2>1, <3>1, <3>2, EndKeepsRetry, RetryKept DEF Scheduled
  <2> QED
    BY <2>2, <2>3
<1>7. ASSUME NEW w \in Workers, WorkerDies(w) PROVE RetryInv'
  <2>1. Live(w) /\ UNCHANGED <<status, attempt, error, cancel_requested, unsent>>
    BY <1>7 DEF WorkerDies, row
  <2>2. ScheduledResume(attempt + 1) \in queue => ScheduledResume(attempt + 1) \in queue'
    BY <1>7, <2>1, EndKeepsRetry
  <2> QED
    BY <1>7, <2>1, <2>2, EndKeepsRetry, RetryKept DEF Scheduled
<1>8. ASSUME (\E w \in Workers : renew_lease(w)) \/ LeaseLapses \/ UNCHANGED vars
      PROVE  RetryInv'
  BY <1>8, SamePlaces, RetryKept DEF renew_lease, LeaseLapses, vars, row, broker, Scheduled
<1>9. ASSUME NEW n \in unsent, SendRetry(n) PROVE RetryInv'
  BY <1>9, SamePlaces, RetryKept DEF SendRetry, row, Scheduled
<1>10. ASSUME retry_pipeline PROVE RetryInv'
  BY <1>10, SamePlaces, RetryKept DEF retry_pipeline, row, Scheduled
<1>11. ASSUME reap_stuck_agent_pipelines PROVE RetryInv'
  <2>1. CASE can_retry
    BY <1>a, <1>11, <2>1, SamePlaces, RetryBegins DEF reap_stuck_agent_pipelines, Scheduled
  <2>2. CASE ~can_retry
    BY <1>11, <2>2, SamePlaces, RetryMoved DEF reap_stuck_agent_pipelines
  <2> QED
    BY <2>1, <2>2
<1>12. ASSUME request_cancel PROVE RetryInv'
  BY <1>12, SamePlaces, RetryMoved DEF request_cancel
<1>13. ASSUME retry_invocation PROVE RetryInv'
  BY <1>a, <1>13, SamePlaces, RetryBegins DEF retry_invocation, Retryable, Scheduled
<1>14. ASSUME NEW decision \in {"accepted", "rejected"}, settle_review(decision)
       PROVE  RetryInv'
  BY <1>14, SamePlaces, RetryMoved DEF settle_review
<1> QED
  BY <1>1, <1>2, <1>3, <1>4, <1>5, <1>6, <1>7, <1>8, <1>9, <1>10, <1>11, <1>12, <1>13, <1>14,
     RefuseKeepsRetry, StageStepQuiet, FinalizeRaisesQuiet
  DEF Next, Receive, EndStep, UserStep, ResumeRaises, LoseRetry, ReaperCommitFails

\* While no broker call is lost, a row in retry_wait has the very resume its
\* claim will ask for on its way ("the run is rescheduled under its own id",
\* reap_stuck_agent_pipelines), however triggered, cancelled, redelivered and
\* retried.
THEOREM RetriesAreScheduled ==
    ASSUME LostDispatch = FALSE
    PROVE  Spec => []RetryIsScheduled
<1>1. Init => RetryInv
  BY DEF Init, RetryInv, HeldMessages, WaitingIsNotRejected, RetryIsScheduled, Live, IdleWork
<1>2. TypeOK /\ RetryInv /\ [Next]_vars => RetryInv'
  BY PipelineAssumption, RetryStep
<1>3. RetryInv => RetryIsScheduled
  BY DEF RetryInv
<1> QED
  BY <1>1, <1>2, <1>3, PipelineTypeCorrect, PTL DEF Spec

(***************************************************************************)
(* Review, while the request is staged with the result it is about: the    *)
(* live request shows the evidence of the latest report in every state,    *)
(* not only when the run has passed.                                       *)
(***************************************************************************)
ShowsLatestEvidence == review # "none" => reviewed = evidence

\* The live review request shows the latest evidence.
LEMMA ReviewStep ==
    ASSUME PipelineAssumption, ReviewFailures = FALSE, TypeOK, ShowsLatestEvidence,
           [Next]_vars
    PROVE  ShowsLatestEvidence'
<1> USE DEF ShowsLatestEvidence
<1>1. ASSUME NEW w \in Workers, FinishPipeline(w) PROVE ShowsLatestEvidence'
  BY <1>1 DEF FinishPipeline, stage_run_review_request, create_run_review_request, reviews
<1>2. ASSUME NEW decision \in {"accepted", "rejected"}, settle_review(decision)
      PROVE  ShowsLatestEvidence'
  BY <1>2 DEF settle_review
<1>3. ASSUME UNCHANGED reviews PROVE ShowsLatestEvidence'
  BY <1>3 DEF reviews
<1>4. ASSUME NEW w \in Workers, Receive(w) \/ WorkerDies(w) \/ renew_lease(w)
      PROVE  UNCHANGED reviews
  BY <1>4 DEF Receive, _create_pipeline_run, _claim_pipeline_resume, RefuseDelivery,
              WorkerDies, renew_lease
<1>5. ASSUME NEW w \in Workers, Quiet(w) PROVE UNCHANGED reviews
  BY <1>5 DEF Quiet
<1>6. ASSUME NEW w \in Workers,
             \/ FailPipeline(w) \/ TaskReturns(w) \/ TaskRaises(w)
             \/ _schedule_pipeline_retry(w)
      PROVE  UNCHANGED reviews
  BY <1>6 DEF FailPipeline, TaskReturns, TaskRaises, _schedule_pipeline_retry
<1>7. ASSUME \/ \E m \in queue : ResumeRaises(m)
             \/ \E n \in unsent : SendRetry(n) \/ LoseRetry(n)
             \/ LeaseLapses \/ reap_stuck_agent_pipelines \/ ReaperCommitFails
             \/ request_cancel \/ retry_pipeline \/ retry_invocation \/ UNCHANGED vars
      PROVE  UNCHANGED reviews
  BY <1>7 DEF ResumeRaises, SendRetry, LoseRetry, LeaseLapses, reap_stuck_agent_pipelines,
              ReaperCommitFails, request_cancel, retry_pipeline, retry_invocation, vars
<1> QED
  BY <1>1, <1>2, <1>3, <1>4, <1>5, <1>6, <1>7, StageStepQuiet, FinalizeRaisesQuiet
  DEF Next, EndStep, UserStep

\* While no review request fails to be staged, a run passes by a reviewer's
\* word only on the evidence that reviewer was shown ("a stale tab cannot
\* accept bytes it never reviewed", create_run_review_request).
THEOREM AcceptancesMatchTheirEvidence ==
    ASSUME ReviewFailures = FALSE
    PROVE  Spec => []AcceptedWhatWasShown
<1>1. Init => ShowsLatestEvidence
  BY DEF Init, ShowsLatestEvidence
<1>2. TypeOK /\ ShowsLatestEvidence /\ [Next]_vars => ShowsLatestEvidence'
  BY PipelineAssumption, ReviewStep
<1>3. ShowsLatestEvidence => AcceptedWhatWasShown
  BY DEF ShowsLatestEvidence, AcceptedWhatWasShown
<1> QED
  BY <1>1, <1>2, <1>3, PipelineTypeCorrect, PTL DEF Spec
=============================================================================
