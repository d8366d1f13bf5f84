-------------------------- MODULE AgentPipelineRun --------------------------
(***************************************************************************)
(* One agent pipeline run: its row (agent_pipeline_runs), its stage rows   *)
(* (agent_stage_results) and its review, and everybody who moves them: the *)
(* tasks that create, resume and finish it (worker/tasks.py, agents/       *)
(* workflow.py, agents/base.py), the lease and its fencing token           *)
(* (services/pipeline_lease.py), the reaper, the retry scheduler, the      *)
(* cancel and retry endpoints and the human reviewer.                      *)
(*                                                                         *)
(* Every action is one committed transaction, one broker call, or one      *)
(* failure between two of them.  Transactions that lock the row (FOR       *)
(* UPDATE) or are one guarded UPDATE are atomic; a fence that is a plain   *)
(* read before the write is two steps.                                     *)
(*                                                                         *)
(* Abstractions.                                                           *)
(*  - What a stage computes, its budget, metadata, events and error texts  *)
(*    are left out; of the error column only its prefix matters.           *)
(*  - A graph may visit its stages in any order and leave any of them out  *)
(*    (conditional branches), one at a time in each worker.                *)
(*  - A token is the number of the uuid4 draw; 0 is NULL.  The creation   *)
(*    draws the first one and stores it in the row, but does not hand it   *)
(*    to its own task: "fenced" says whether a task was given its token.   *)
(*  - A lease lapses at any time while the row is running: nobody renews   *)
(*    the lease of a first attempt, and a healthy later one may be paused  *)
(*    or cut off for longer than 60 seconds.                               *)
(*  - A checkpoint inherited from another pipeline of the same test run    *)
(*    completes a stage like an execution does and is not told apart.      *)
(*  - The evidence hash of a report is its own or the previous report's.   *)
(*  - The frozen plan and mode snapshot of the row are present and valid:  *)
(*    a claim is not refused for want of them.                             *)
(***************************************************************************)
EXTENDS Naturals, FiniteSets

CONSTANTS
    Workers,        \* Celery worker slots of the queue ai_analysis
    Stages,         \* the planned stages of the frozen plan
    ReportStages,   \* stages whose capability produces a report
    max_attempts,   \* the attempt ceiling frozen into the row
    Trigger,        \* how the run is started: "direct", "outbox", "invocation"
    MaxDeliveries,  \* executions the outbox grants the intent of the run
    MaxManual,      \* bound: retries asked for by users
    MaxDeaths,      \* bound: worker processes lost
    Cancels,        \* a user may cancel the run
    LostDispatch,   \* a broker call or a claim may fail after the commit before it
    ReviewFailures  \* staging the review request may fail (savepoint)

ASSUME PipelineAssumption ==
    /\ ReportStages \subseteq Stages
    /\ "none" \notin Stages
    /\ max_attempts \in Nat \ {0}
    /\ Trigger \in {"direct", "outbox", "invocation"}
    /\ MaxDeliveries \in Nat \ {0}
    /\ MaxManual \in Nat /\ MaxDeaths \in Nat
    /\ Cancels \in BOOLEAN /\ LostDispatch \in BOOLEAN /\ ReviewFailures \in BOOLEAN

VARIABLES
    status, attempt, fencing_token, lease, cancel_requested, error, quality,
    evidence,    \* the evidence bundle of the latest report
    review,      \* state of the live review request
    reviewed,    \* the evidence bundle the live review request shows
    stage,       \* status of each stage row
    checkpoint,  \* the token drawn for the task that wrote each checkpoint
    queue,       \* messages in the broker, delivered until acknowledged
    unsent,      \* retries committed to the row and not yet sent to the broker
    deliveries,  \* deliveries of the trigger message
    manual,      \* retries asked for so far
    deaths,      \* worker processes lost so far
    minted,      \* uuid4 tokens drawn so far
    work,        \* what each worker does
    claimed,     \* history: the token of the latest claim (or creation)
    result       \* history: the token drawn for the task that wrote the latest result

row == <<status, attempt, fencing_token, lease, cancel_requested, error, quality>>
reviews == <<evidence, review, reviewed>>
stages == <<stage, checkpoint>>
broker == <<queue, unsent, deliveries, manual>>
history == <<claimed, result, deaths>>
vars == <<row, reviews, stages, broker, minted, work, history>>

NoToken == 0
\* A resume names the attempt it was queued for (0: none, asked for by a user).
TriggerMessage == [kind |-> "trigger", expected |-> 0, copy |-> 0]
ScheduledResume(n) == [kind |-> "resume", expected |-> n, copy |-> 0]
ManualResume(k) == [kind |-> "resume", expected |-> 0, copy |-> k]
Message == [kind : {"trigger", "resume"}, expected : Nat, copy : Nat]

IdleWork == [phase |-> "idle"]
Phase == {"graph", "stage", "marked", "executed", "marking", "checkpoint", "writing",
          "finished", "failing", "raised"}
At == Stages \cup {"none"}
ActiveWork == [phase : Phase, msg : Message, token : Nat, fenced : BOOLEAN, at : At,
               done : SUBSET At, restore : SUBSET Stages]

Live(w) == work[w].phase # "idle"
Goes(w, phase) == work' = [work EXCEPT ![w].phase = phase]

(***************************************************************************)
(* The row's own rules (services/workflow_run_state.py, retry_policy.py).  *)
(***************************************************************************)
is_terminal == status \in {"completed", "passed", "failed"}

\* Mutant: every ended run may be resumed, the accepted ones too.
ResumableOnceEnded == status \in {"failed", "retry_wait", "completed", "passed"}

is_resumable ==
    \/ status \in {"failed", "retry_wait"}
    \/ status = "completed" /\ quality = "degraded"

\* Mutant: one attempt too many.
CanRetryOnceMore == attempt <= max_attempts

can_retry == attempt < max_attempts

(***************************************************************************)
(* A delivery: create, claim or refuse (run_offline_pipeline and           *)
(* run_deep_pipeline up to the graph).                                     *)
(***************************************************************************)
Delivered(w, m) ==
    /\ ~Live(w)
    /\ m \in queue
    /\ \A v \in Workers : Live(v) => work[v].msg # m
    /\ m = TriggerMessage /\ Trigger = "outbox" => deliveries < MaxDeliveries

\* The deliveries of the outbox are counted by its own row.
CountDelivery(m) ==
    deliveries' = IF m = TriggerMessage /\ Trigger = "outbox" THEN deliveries + 1
                  ELSE deliveries

Starts(w, m, fenced, restored) ==
    work' = [work EXCEPT ![w] = [phase |-> "graph", msg |-> m, token |-> minted + 1,
                                 fenced |-> fenced, at |-> "none", done |-> {},
                                 restore |-> restored]]

\* The row becomes running and gets a fresh token and a lease in the same
\* transaction (acquire_lease_fields, apply_transition).
BecomesRunning ==
    /\ status' = "running"
    /\ fencing_token' = minted + 1
    /\ lease' = "held"
    /\ minted' = minted + 1
    /\ claimed' = minted + 1
    /\ error' = "none"

\* The setup it returns has no fencing_token: the first attempt runs without a
\* heartbeat and its writes are not fenced.  The direct trigger draws a new
\* pipeline id: a redelivery of it makes another row and is not seen here.
_create_pipeline_run(w, m) ==
    /\ Delivered(w, m) /\ m = TriggerMessage
    /\ status = "absent"
    /\ BecomesRunning
    /\ attempt' = 1
    /\ stage' = [s \in Stages |-> "pending"]
    /\ Starts(w, m, FALSE, {})
    /\ queue' = IF Trigger = "direct" THEN queue \ {m} ELSE queue
    /\ CountDelivery(m)
    /\ UNCHANGED <<cancel_requested, quality, reviews, checkpoint, unsent,
                   manual, result, deaths>>

\* Mutant: the claim does not look at the cancel flag.
ClaimableThoughCancelled(m) ==
    /\ is_resumable
    /\ error # "rejected"
    /\ m.expected # 0 => m.expected = attempt + 1

\* Mutant: the claim does not look for a reviewer's rejection.
ClaimableThoughRejected(m) ==
    /\ is_resumable
    /\ cancel_requested = "no"
    /\ m.expected # 0 => m.expected = attempt + 1

Claimable(m) ==
    /\ is_resumable
    /\ cancel_requested = "no"
    /\ error # "rejected"
    /\ m.expected # 0 => m.expected = attempt + 1

Checkpointed == {s \in Stages : stage[s] = "completed" /\ checkpoint[s] # NoToken}

\* Completed stages are kept; those whose checkpoint is authorised are
\* restored, the others run again.
_claim_pipeline_resume(w, m) ==
    /\ Delivered(w, m)
    /\ Claimable(m)
    /\ BecomesRunning
    /\ attempt' = attempt + 1
    /\ stage' = [s \in Stages |-> IF stage[s] = "completed" THEN "completed" ELSE "pending"]
    /\ \E R \in SUBSET Checkpointed : Starts(w, m, TRUE, R)
    /\ CountDelivery(m)
    /\ UNCHANGED <<cancel_requested, quality, reviews, checkpoint, queue,
                   unsent, manual, result, deaths>>

\* The message is acknowledged when its task returns or raises (late acks);
\* the outbox publishes a failed delivery again while it grants executions.
Kept(m, ok, n) == /\ m = TriggerMessage /\ Trigger = "outbox"
                  /\ ~ok /\ n < MaxDeliveries
Acknowledged(m, ok, n) == IF Kept(m, ok, n) THEN queue ELSE queue \ {m}

\* "pipeline_not_resumable", or a duplicate of a completed run.
RefuseDelivery(w, m) ==
    /\ Delivered(w, m)
    /\ status # "absent"
    /\ ~Claimable(m)
    /\ CountDelivery(m)
    /\ IF m = TriggerMessage /\ Trigger = "invocation" /\ status # "completed"
       THEN /\ work' = [work EXCEPT ![w] = [phase |-> "raised", msg |-> m, token |-> NoToken,
                                            fenced |-> FALSE, at |-> "none", done |-> {},
                                            restore |-> {}]]
            /\ UNCHANGED queue
       ELSE /\ queue' = Acknowledged(m, status = "completed", deliveries')
            /\ UNCHANGED work
    /\ UNCHANGED <<row, reviews, stages, unsent, manual, minted, history>>

\* The claim of a resume raises (the database is unreachable): the task fails
\* and its message is acknowledged.
ResumeRaises(m) ==
    /\ LostDispatch
    /\ m \in queue /\ m.kind = "resume"
    /\ \A v \in Workers : Live(v) => work[v].msg # m
    /\ queue' = queue \ {m}
    /\ UNCHANGED <<row, reviews, stages, unsent, deliveries, manual, minted,
                   work, history>>

(***************************************************************************)
(* The graph (_make_checkpointed_node and the BaseAgent hooks).  Writes of *)
(* stage rows go by pipeline and stage name; only two of them are fenced,  *)
(* and only for a task that was given its token.                           *)
(***************************************************************************)
WriteStage(s, v) ==
    stage' = [stage EXCEPT ![s] = v]

AtBoundary(w, s) == work[w].phase = "graph" /\ s \notin work[w].done

\* The deadline has passed or the planner did not select the stage.
_write_stage_skipped(w, s) ==
    /\ AtBoundary(w, s)
    /\ WriteStage(s, "skipped")
    /\ work' = [work EXCEPT ![w].done = @ \cup {s}]
    /\ UNCHANGED <<row, reviews, checkpoint, broker, minted, history>>

_mark_stage_restored(w, s) ==
    /\ AtBoundary(w, s)
    /\ s \in work[w].restore
    /\ WriteStage(s, "completed")
    /\ work' = [work EXCEPT ![w].done = @ \cup {s}]
    /\ UNCHANGED <<row, reviews, checkpoint, broker, minted, history>>

\* A cancel flag that cannot be read counts as not set, so this step does not
\* depend on it.
BeginStage(w, s) ==
    /\ AtBoundary(w, s)
    /\ s \notin work[w].restore
    /\ work' = [work EXCEPT ![w].phase = "stage", ![w].at = s]
    /\ UNCHANGED <<row, reviews, stages, broker, minted, history>>

_raise_if_pipeline_cancelled(w) ==
    /\ work[w].phase = "graph"
    /\ cancel_requested = "requested"
    /\ Goes(w, "failing")
    /\ UNCHANGED <<row, reviews, stages, broker, minted, history>>

\* The heartbeat inside a stage (held_lease: none without a token): one UPDATE
\* guarded by the token.
renew_lease(w) ==
    /\ work[w].phase \in {"stage", "marked"}
    /\ work[w].fenced
    /\ work[w].token = fencing_token
    /\ lease = "lapsed"
    /\ lease' = "held"
    /\ UNCHANGED <<status, attempt, fencing_token, cancel_requested, error,
                   quality, reviews, stages, broker, minted, work, history>>

mark_stage_running(w) ==
    /\ work[w].phase = "stage"
    /\ WriteStage(work[w].at, "running")
    /\ Goes(w, "marked")
    /\ UNCHANGED <<row, reviews, checkpoint, broker, minted, history>>

\* The agent reports its outcome and the node returns.
mark_stage_done(w) ==
    /\ work[w].phase = "marked"
    /\ \E v \in {"completed", "failed"} : WriteStage(work[w].at, v)
    /\ Goes(w, "executed")
    /\ UNCHANGED <<row, reviews, checkpoint, broker, minted, history>>

\* A node that does not call the hooks returns; one that reports itself
\* skipped is not marked as executed.
NodeReturns(w) ==
    /\ work[w].phase \in {"stage", "marked"}
    /\ \E phase \in {"executed", "checkpoint"} : Goes(w, phase)
    /\ UNCHANGED <<row, reviews, stages, broker, minted, history>>

\* The node raises.
_mark_stage_failed(w) ==
    /\ work[w].phase \in {"stage", "marked"}
    /\ WriteStage(work[w].at, "failed")
    /\ Goes(w, "failing")
    /\ UNCHANGED <<row, reviews, checkpoint, broker, minted, history>>

\* The heartbeat gives up: the renew was refused, timed out or came too late.
LeaseLost(w) ==
    /\ work[w].phase \in {"stage", "marked"}
    /\ work[w].fenced
    /\ Goes(w, "failing")
    /\ UNCHANGED <<row, reviews, stages, broker, minted, history>>

\* token=None means the caller is not fenced and is let through.
verify_lease(w) == work[w].fenced => work[w].token = fencing_token

\* fence_or_raise reads the token; the write that follows does not lock the
\* row.  _mark_stage_executed swallows the refusal, _checkpoint_stage raises.
fence_or_raise(w) ==
    /\ \/ /\ work[w].phase = "executed"
          /\ Goes(w, IF verify_lease(w) THEN "marking" ELSE "checkpoint")
       \/ /\ work[w].phase = "checkpoint"
          /\ Goes(w, IF verify_lease(w) THEN "writing" ELSE "failing")
    /\ UNCHANGED <<row, reviews, stages, broker, minted, history>>

_mark_stage_executed(w) ==
    /\ work[w].phase = "marking"
    /\ IF stage[work[w].at] \in {"pending", "running"}
       THEN WriteStage(work[w].at, "completed")
       ELSE UNCHANGED stage
    /\ Goes(w, "checkpoint")
    /\ UNCHANGED <<row, reviews, checkpoint, broker, minted, history>>

\* A checkpoint is stored on a completed stage; a failing write is swallowed.
_checkpoint_stage(w) ==
    /\ work[w].phase = "writing"
    /\ checkpoint' \in {checkpoint} \cup
          IF stage[work[w].at] = "completed"
          THEN {[checkpoint EXCEPT ![work[w].at] = work[w].token]} ELSE {}
    /\ work' = [work EXCEPT ![w].phase = "graph", ![w].at = "none",
                            ![w].done = @ \cup {work[w].at}]
    /\ UNCHANGED <<row, reviews, stage, broker, minted, history>>

\* Anything else raises between two stages or while the graph is set up.
GraphRaises(w) ==
    /\ work[w].phase = "graph"
    /\ Goes(w, "failing")
    /\ UNCHANGED <<row, reviews, stages, broker, minted, history>>

(***************************************************************************)
(* Finishing an attempt (_mark_pipeline_done): the row is selected by id   *)
(* and, for a task that has one, token FOR UPDATE, so the fence and the    *)
(* write are one step.                                                     *)
(***************************************************************************)
Ran == {s \in Stages : stage[s] = "completed"}
Degraded == \E s \in Stages : stage[s] = "failed"
Reported == Ran \cap ReportStages # {}

\* passes_without_review; human: the reviewer agent asks for a person.
passes_without_review(human) == ~Degraded /\ ~human /\ Ran # {} /\ ~Reported

\* Mutant: a pending request is kept although the evidence changed.
KeepPendingReview(e) ==
    IF review # "none"
    THEN UNCHANGED <<review, reviewed>>
    ELSE review' = "pending" /\ reviewed' = e

\* The live request is kept for the same evidence and superseded otherwise.
create_run_review_request(e) ==
    IF review # "none" /\ reviewed = e
    THEN UNCHANGED <<review, reviewed>>
    ELSE review' = "pending" /\ reviewed' = e

stage_run_review_request(e) ==
    \/ create_run_review_request(e)
    \/ ReviewFailures /\ UNCHANGED <<review, reviewed>>

\* Mutant: the token is released and the expiry of the lease is left.
ReleaseTokenOnly ==
    /\ fencing_token' = NoToken
    /\ UNCHANGED lease

release_lease_fields ==
    /\ fencing_token' = NoToken
    /\ lease' = "none"

\* Stages never reached are skipped.
SweepStages ==
    stage' = [s \in Stages |-> IF stage[s] = "pending" THEN "skipped" ELSE stage[s]]

\* Mutant: the result is written without asking for the token.
FinishUnfenced(w) == status = "running"

HoldsRow(w) == work[w].fenced => work[w].token = fencing_token

Evidence(w) == {work[w].token} \cup ({evidence} \ {NoToken})

\* The graph has ended; apply_transition refuses the other states.
FinishPipeline(w) ==
    /\ work[w].phase = "graph"
    /\ HoldsRow(w)
    /\ status \in {"running", "completed"}
    /\ \E human \in BOOLEAN : \E e \in Evidence(w) :
          /\ status' = IF passes_without_review(human) THEN "passed" ELSE "completed"
          /\ IF human \/ Reported
             THEN evidence' = e /\ stage_run_review_request(e)
             ELSE UNCHANGED reviews
    /\ quality' = IF Degraded THEN "degraded" ELSE "normal"
    /\ release_lease_fields
    /\ SweepStages
    /\ result' = work[w].token
    /\ Goes(w, "finished")
    /\ UNCHANGED <<attempt, cancel_requested, error, checkpoint, broker,
                   minted, claimed, deaths>>

\* The error handler of the graph.
FailPipeline(w) ==
    /\ work[w].phase = "failing"
    /\ HoldsRow(w)
    /\ status # "passed"
    /\ status' = "failed"
    /\ error' = "failed"
    /\ release_lease_fields
    /\ SweepStages
    /\ Goes(w, "raised")
    /\ UNCHANGED <<attempt, cancel_requested, quality, reviews, checkpoint,
                   broker, minted, history>>

\* The row is no longer this worker's (LeaseLost, out of the handler too), the
\* transition is no edge, the database does not answer, or the frozen workflow
\* does not compile: the task raises and the row stays as it is.
FinalizeRaises(w) ==
    /\ work[w].phase \in {"graph", "failing"}
    /\ Goes(w, "raised")
    /\ UNCHANGED <<row, reviews, stages, broker, minted, history>>

(***************************************************************************)
(* The end of a task.                                                      *)
(***************************************************************************)
Retires(w, ok) ==
    /\ work' = [work EXCEPT ![w] = IdleWork]
    /\ queue' = Acknowledged(work[w].msg, ok, deliveries)

TaskReturns(w) ==
    /\ work[w].phase = "finished"
    /\ Retires(w, TRUE)
    /\ UNCHANGED <<row, reviews, stages, unsent, deliveries, manual, minted,
                   history>>

Reschedules(w) == work[w].msg = TriggerMessage /\ Trigger # "outbox"

\* A failed resume and a failed outbox delivery only raise.
TaskRaises(w) ==
    /\ work[w].phase = "raised"
    /\ ~Reschedules(w)
    /\ Retires(w, FALSE)
    /\ UNCHANGED <<row, reviews, stages, unsent, deliveries, manual, minted,
                   history>>

\* Mutant: the retry is queued for the attempt that has just failed.
SameAttempt == attempt

NextAttempt == attempt + 1

\* The retry is committed here and sent by SendRetry.
_schedule_pipeline_retry(w) ==
    /\ work[w].phase = "raised"
    /\ Reschedules(w)
    /\ Retires(w, FALSE)
    /\ IF status = "failed" /\ cancel_requested = "no" /\ can_retry
       THEN /\ status' = "retry_wait"
            /\ error' = "failed"
            /\ unsent' = unsent \cup {NextAttempt}
       ELSE UNCHANGED <<status, error, unsent>>
    /\ UNCHANGED <<attempt, fencing_token, lease, cancel_requested, quality,
                   reviews, stages, deliveries, manual, minted, history>>

SendRetry(n) ==
    /\ n \in unsent
    /\ unsent' = unsent \ {n}
    /\ queue' = queue \cup {ScheduledResume(n)}
    /\ UNCHANGED <<row, reviews, stages, deliveries, manual, minted, work,
                   history>>

\* The process dies before apply_async, or apply_async raises.
LoseRetry(n) ==
    /\ LostDispatch
    /\ n \in unsent
    /\ unsent' = unsent \ {n}
    /\ UNCHANGED <<row, reviews, stages, queue, deliveries, manual, minted,
                   work, history>>

\* A process is lost.  With its whole worker, or the connection, the message
\* stays; a lost pool process is acknowledged (task_reject_on_worker_lost is
\* off).
WorkerDies(w) ==
    /\ Live(w)
    /\ deaths < MaxDeaths
    /\ deaths' = deaths + 1
    /\ work' = [work EXCEPT ![w] = IdleWork]
    /\ queue' \in {queue, Acknowledged(work[w].msg, FALSE, deliveries)}
    /\ UNCHANGED <<row, reviews, stages, unsent, deliveries, manual, minted,
                   claimed, result>>

(***************************************************************************)
(* The reaper.                                                             *)
(***************************************************************************)
LeaseLapses ==
    /\ lease = "held"
    /\ lease' = "lapsed"
    /\ UNCHANGED <<status, attempt, fencing_token, cancel_requested, error,
                   quality, reviews, stages, broker, minted, work, history>>

\* The token is rotated; the row waits for its next attempt or fails.  The
\* message is sent before the commit: either may fail without the other.
reap_stuck_agent_pipelines ==
    /\ status = "running"
    /\ lease = "lapsed"
    /\ status' = IF can_retry THEN "retry_wait" ELSE "failed"
    /\ error' = "failed"
    /\ fencing_token' = minted + 1
    /\ minted' = minted + 1
    /\ lease' = "none"
    /\ queue' \in (IF can_retry THEN {queue \cup {ScheduledResume(NextAttempt)}} ELSE {queue})
                  \cup (IF LostDispatch THEN {queue} ELSE {})
    /\ UNCHANGED <<attempt, cancel_requested, quality, reviews, stages,
                   unsent, deliveries, manual, work, history>>

ReaperCommitFails ==
    /\ LostDispatch
    /\ status = "running"
    /\ lease = "lapsed"
    /\ can_retry
    /\ queue' = queue \cup {ScheduledResume(NextAttempt)}
    /\ UNCHANGED <<row, reviews, stages, unsent, deliveries, manual, minted,
                   work, history>>

(***************************************************************************)
(* Users.                                                                  *)
(***************************************************************************)
request_cancel ==
    /\ Cancels
    /\ status \in {"running", "retry_wait"}
    /\ cancel_requested' = "requested"
    /\ IF status = "retry_wait"
       THEN status' = "failed" /\ error' = "cancelled" /\ lease' = "none"
       ELSE UNCHANGED <<status, error, lease>>
    /\ UNCHANGED <<attempt, fencing_token, quality, reviews, stages, broker,
                   minted, work, history>>

Retryable ==
    /\ is_terminal /\ is_resumable
    /\ error # "rejected" /\ cancel_requested = "no"
    /\ can_retry
    /\ manual < MaxManual

\* The agents page: the resume names no attempt.
retry_pipeline ==
    /\ Retryable
    /\ manual' = manual + 1
    /\ queue' = queue \cup {ManualResume(manual + 1)}
    /\ UNCHANGED <<row, reviews, stages, unsent, deliveries, minted, work,
                   history>>

\* The invocation endpoint: the row is parked first (completed -> retry_wait
\* is no edge), then the resume is sent.
retry_invocation ==
    /\ Retryable
    /\ Trigger = "invocation"
    /\ status = "failed"
    /\ status' = "retry_wait"
    /\ manual' = manual + 1
    /\ unsent' = unsent \cup {NextAttempt}
    /\ UNCHANGED <<attempt, fencing_token, lease, cancel_requested, error,
                   quality, reviews, stages, queue, deliveries, minted, work,
                   history>>

settle_review(decision) ==
    /\ review = "pending"
    /\ status = "completed"
    /\ review' = decision
    /\ status' = IF decision = "accepted" THEN "passed" ELSE "failed"
    /\ error' = IF decision = "accepted" THEN error ELSE "rejected"
    /\ UNCHANGED <<attempt, fencing_token, lease, cancel_requested, quality,
                   evidence, reviewed, stages, broker, minted, work, history>>

(***************************************************************************)
(* The specification.                                                      *)
(***************************************************************************)
Init ==
    /\ status = "absent"
    /\ attempt = 0
    /\ fencing_token = NoToken
    /\ lease = "none"
    /\ cancel_requested = "no"
    /\ error = "none"
    /\ quality = "normal"
    /\ evidence = NoToken
    /\ review = "none"
    /\ reviewed = NoToken
    /\ stage = [s \in Stages |-> "pending"]
    /\ checkpoint = [s \in Stages |-> NoToken]
    /\ queue = {TriggerMessage}
    /\ unsent = {}
    /\ deliveries = 0
    /\ manual = 0
    /\ deaths = 0
    /\ minted = 0
    /\ work = [w \in Workers |-> IdleWork]
    /\ claimed = NoToken
    /\ result = NoToken

Receive(w) ==
    \E m \in queue : _create_pipeline_run(w, m) \/ _claim_pipeline_resume(w, m)
                     \/ RefuseDelivery(w, m)

StageStep(w) ==
    \/ \E s \in Stages : \/ _write_stage_skipped(w, s)
                         \/ _mark_stage_restored(w, s)
                         \/ BeginStage(w, s)
    \/ mark_stage_running(w) \/ mark_stage_done(w) \/ NodeReturns(w)
    \/ _mark_stage_failed(w) \/ LeaseLost(w)
    \/ fence_or_raise(w) \/ _mark_stage_executed(w) \/ _checkpoint_stage(w)
    \/ _raise_if_pipeline_cancelled(w) \/ GraphRaises(w)

EndStep(w) ==
    \/ FinishPipeline(w) \/ FailPipeline(w) \/ FinalizeRaises(w)
    \/ TaskReturns(w) \/ TaskRaises(w) \/ _schedule_pipeline_retry(w)

UserStep ==
    \/ request_cancel \/ retry_pipeline \/ retry_invocation
    \/ \E decision \in {"accepted", "rejected"} : settle_review(decision)

Next ==
    \/ \E w \in Workers : Receive(w) \/ StageStep(w) \/ EndStep(w) \/ WorkerDies(w)
                           \/ renew_lease(w)
    \/ \E m \in queue : ResumeRaises(m)
    \/ \E n \in unsent : SendRetry(n) \/ LoseRetry(n)
    \/ LeaseLapses \/ reap_stuck_agent_pipelines \/ ReaperCommitFails
    \/ UserStep

Spec == Init /\ [][Next]_vars

(***************************************************************************)
(* Fairness.  A worker goes on or is ended by its time limit; the broker   *)
(* delivers; a committed retry is sent; the lease of a row whose holder is *)
(* gone lapses and beat starts the reaper every ten minutes.               *)
(***************************************************************************)
Orphaned == \A w \in Workers : Live(w) => work[w].token # fencing_token

Fairness ==
    /\ \A w \in Workers : WF_vars(StageStep(w) \/ EndStep(w) \/ WorkerDies(w))
    /\ SF_vars(\E w \in Workers : Receive(w))
    /\ WF_vars(\E n \in unsent : SendRetry(n))
    /\ WF_vars(Orphaned /\ LeaseLapses)
    /\ WF_vars(Orphaned /\ reap_stuck_agent_pipelines)

FairSpec == Spec /\ Fairness

(***************************************************************************)
(* Safety.                                                                 *)
(***************************************************************************)
\* Type correctness of every variable.
TypeOK ==
    /\ status \in {"absent", "running", "retry_wait", "completed", "passed", "failed"}
    /\ attempt \in Nat
    /\ fencing_token \in Nat
    /\ lease \in {"none", "held", "lapsed"}
    /\ cancel_requested \in {"no", "requested"}
    /\ error \in {"none", "failed", "cancelled", "rejected"}
    /\ quality \in {"normal", "degraded"}
    /\ evidence \in Nat
    /\ review \in {"none", "pending", "accepted", "rejected"}
    /\ reviewed \in Nat
    /\ stage \in [Stages -> {"pending", "running", "completed", "failed", "skipped"}]
    /\ checkpoint \in [Stages -> Nat]
    /\ queue \subseteq Message
    /\ unsent \subseteq Nat
    /\ deliveries \in Nat
    /\ manual \in 0 .. MaxManual
    /\ deaths \in 0 .. MaxDeaths
    /\ minted \in Nat
    /\ work \in [Workers -> ActiveWork \cup {IdleWork}]
    /\ claimed \in Nat
    /\ result \in Nat

\* The row is running exactly while it carries a lease, and a worker whose
\* token the row carries is a worker of a running row: "a row can never be
\* running without a lease" (acquire_lease_fields) and "a terminal row holds
\* no lease" (_mark_pipeline_done).
RunningIsLeased ==
    /\ status = "running" <=> lease # "none"
    /\ \A w \in Workers :
          Live(w) /\ work[w].token # NoToken /\ work[w].token = fencing_token
              => status = "running"

\* The token of the creation: the one nobody is given.
CreationToken == 1

\* A row finished by a resumed attempt was finished by the latest attempt that
\* claimed it: of the attempts that were given a token, no stale holder
\* completes a newer attempt (_mark_pipeline_done).
ResumedResultsAreFenced ==
    status \in {"completed", "passed"} /\ result # CreationToken => result = claimed

\* A run that is cancelled and not running never runs again, whatever resumes
\* were queued before: "a cancelled run is never resumable, by any path"
\* (_claim_pipeline_resume).
CancelIsSticky ==
    [][cancel_requested = "requested" /\ status # "running"
       => cancel_requested' = "requested" /\ status' # "running"]_vars

\* At most one of the tasks that were given a token passes the fence: whoever
\* claims or reaps a run shuts out every attempt before ("the write is refused
\* when the pipeline row no longer holds that token", pipeline_lease.py).
LeaseIsExclusive ==
    \A v, w \in Workers :
        /\ Live(v) /\ work[v].fenced /\ verify_lease(v)
        /\ Live(w) /\ work[w].fenced /\ verify_lease(w)
        => v = w

\* A person's rejection stands against every resume, retry, reap and late
\* result: "otherwise that already-queued worker can resurrect a
\* review-rejected pipeline" (_claim_pipeline_resume).  Only a task of the
\* trigger that is still at work undoes it: the creation, which is not fenced,
\* or the retry scheduler.
RejectionStands ==
    [][status = "failed" /\ error = "rejected"
       => \/ status' = "failed" /\ error' = "rejected"
          \/ \E w \in Workers : /\ Live(w) /\ work[w].msg = TriggerMessage
                                /\ work'[w] # work[w]]_vars

\* The attempts of a row stay within its ceiling, through failures, dead
\* workers, duplicates and stale schedulers (_schedule_pipeline_retry,
\* reap_stuck_agent_pipelines, expected_attempt).
AttemptCeiling == attempt <= max_attempts

\* Whatever the trigger, every attempt beyond the ceiling was paid for by a
\* redelivery of the outbox, a retry of a user or a lost worker: the claim
\* itself does not look at the ceiling (_claim_pipeline_resume), those who
\* queue its messages do.
Redeliveries == IF deliveries = 0 THEN 0 ELSE deliveries - 1

AttemptsArePaidFor == attempt <= max_attempts + Redeliveries + manual + deaths

\* A row that waits for its retry has that retry on its way, with the number
\* the claim will ask for: "the run is rescheduled under its own id" (the
\* reaper).
RetryIsScheduled ==
    status = "retry_wait" /\ cancel_requested = "no" =>
        attempt + 1 \in unsent \/ ScheduledResume(attempt + 1) \in queue

\* A report is accepted only for the evidence its reviewer was shown: "a stale
\* tab cannot accept bytes it never reviewed" (create_run_review_request).
AcceptedWhatWasShown ==
    status = "passed" /\ review = "accepted" => reviewed = evidence

\* The row keeps the promise of RunLifecycle (workflow_run_state.py): its
\* transitions, its count of attempts and its cancel flag.
Lifecycle == INSTANCE RunLifecycle WITH
    state <- status, attempts <- attempt, cancelled <- (cancel_requested = "requested")
ImplementsRunLifecycle == Lifecycle!Spec

(***************************************************************************)
(* Liveness.                                                               *)
(***************************************************************************)
\* A run in progress in the end is completed, passed or failed, through lost
\* workers, lapsed leases and duplicates: no row sits in progress forever
\* (workflow_run_state.py).
InProgressSettles == status \in {"running", "retry_wait"} ~> is_terminal

(***************************************************************************)
(* Statements of the repository that the code does not keep.               *)
(***************************************************************************)
\* "the stale holder must not complete or fail the newer attempt"
\* (_mark_pipeline_done): a finished row was finished by its latest attempt.
ResultOfLatestAttempt ==
    status \in {"completed", "passed"} => result = claimed
=============================================================================
