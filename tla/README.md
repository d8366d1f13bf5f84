# Verification of TestLookup's background processing

TestLookup collects test results, turns each finished run into derived
artifacts, and lets agents investigate failures. What is hard to test in it is
not the API but what happens after the HTTP response: messages delivered twice
or never, workers killed between two commits, leases that lapse under a slow
holder, people and schedulers touching the same row. This directory holds TLA+
specifications of that part, the TLC configurations that check them, and proofs
checked by TLAPS.

| file | content |
|---|---|
| `RunDownstreamOutbox.tla` | the transactional outbox behind a finished test run |
| `AgentPipelineRun.tla` | the life of one agent pipeline run |
| `AgentActionLedger.tla` | tool calls and actions of agents: effects outside the run |
| `WebhookDelivery.tla` | outbound webhooks and the breaker of a subscription |
| `LLMClusterSemaphore.tla` | the cluster-wide bound on LLM calls, with its clocks |
| `BudgetedLLM.tla` | a priced LLM call: semaphore, reservation, settling, meter |
| `LiveEvidence.tla` | a live session from the admitted batch to the finished run |
| `ClusterInvestigations.tla` | the child investigations of a deep run: staging, relay, join, runner, reaper |
| `SingleEffect.tla`, `AtLeastOnce.tla`, `RunLifecycle.tla` | what a ledger row, an outbox item and the row of a run promise (abstract) |
| `*Proofs.tla`, `RunDownstreamOutboxRefinement.tla` | theorems |
| `MC*.tla`, `MC*.cfg` | the instances TLC checks |
| `PROJECT.json` | index: components, runs, mutants, definition-to-source map, findings, hazards, theorems |

Paths below are relative to `src/backend/app/` unless they start with `src/`.
To run one check: `tlc -config MCOutboxGate.cfg MCRunDownstreamOutbox.tla`; the
proofs: `tlapm RunDownstreamOutboxProofs.tla`.

## 1. Inventory

Processes: a FastAPI application; Celery workers on the queues `critical`,
`ingestion`, `ai_analysis`, `agent_children` and `default`; Celery beat, which
starts the periodic relays and reapers; the single-page frontend; an MCP server
and a CLI over the API; reporters in the clients' test processes. Stores:
PostgreSQL (the source of truth; row locks and guarded updates carry all the
concurrency control), MongoDB (raw payloads and step logs), Valkey (Celery
broker, streams, counters, locks), an object store, a vector store.

Tasks are acknowledged late (`task_acks_late`, a visibility timeout of 3600 s,
`task_reject_on_worker_lost` left off) and have hard time limits (1860 s): a
task may run twice or be acknowledged without having finished, a message may be
delivered long after it was sent, a worker may vanish between any two
statements.

| component | state it keeps | operations | hard part | what makes it correct |
|---|---|---|---|---|
| **Run downstream outbox** (`services/run_downstream_outbox.py`, `worker/downstream_dispatch.py`) | rows `(run, operation, input_version)` with status, lease, token, three counters | stage, open the gate, recover the gate, claim, publish, mark, begin, complete, fail, defer, requeue | publication, mark and execution interleave; copies of messages; dead publishers, workers, finalizers | one execution at a time, own token, children only after finalization, every row ends |
| **Agent pipeline run** (`agents/workflow.py`, `services/pipeline_lease.py`, `workflow_run_state.py`, `retry_policy.py`, `pipeline_cancellation.py`, `review_request_service.py`, `worker/tasks.py`) | the pipeline row with lease and fencing token, stage rows with checkpoints, a review request | create, claim a resume, run stages, renew, finish, fail, reap, schedule a retry, cancel, retry, settle a review | an attempt that was replaced still runs; retries scheduled twice or not at all; people against schedulers | results of the latest attempt, no resurrection after cancel, bounded attempts, accepted evidence is what was shown, every run ends |
| **Tool calls and action ledger** (`services/tool_call_idempotency.py`, `agent_action_ledger_service.py`, `defect_jira_service.py`, `routers/agent_actions.py`, `services/agent_action_adapters/*`) | one row per call key or proposed action, a dispatch outbox, linked defects | claim, call out, record, reconcile; propose, approve, dispatch, execute, reap, undo | the call lands and its record does not; an adapter that commits on its own; a reaper next to a slow executor | no effect twice, a verdict that is true, unknown outcomes said by name, every claim ends |
| **Outbound webhooks** (`services/webhook_service.py`, `webhook_breaker.py`, `deliver_webhook`) | delivery rows, a failure count per subscription | emit, claim, publish, attempt, record, retry, replay, trip, re-enable | first dispatch, relay and retry compete for a row; outcomes that come late | attempts do not overlap, outcomes are fenced, budget kept, each failure counted once, every delivery ends |
| **LLM governance** (`services/llm_cluster_semaphore.py`, `llm_cost_reservation.py`, `llm_cost_budget.py`, `llm_factory.py`, `llm_circuit_breaker.py`) | slots with leases, reserved and committed spend, a breaker state | acquire, renew, release; reserve, settle, meter; allow, record | server time against local time; failures that may have been billed | never more holders than slots, spend within the cap, a call metered once |
| **Live evidence** (`services/stream_service.py`, `live_session_drainer.py`, `persist_live_session`, `streams/*`, `live_run_recovery_service.py`) | a stream and a ledger per session, a drain lock, receipts and rows | admit, reconcile, drain, acknowledge, close, persist, recover | scripts that stop half way; commit and acknowledgement are two steps under an expiring lock; batches that race the close | nothing leaves the stream unprojected, a finished run is complete, the newest result wins, a close ends |
| **Cluster investigations** (`services/cluster_investigation_orchestrator.py`) | a row, a stage row of the parent and a dispatch row per child | stage within the capacity, relay, join, time out, cancel | messages refused, repeated, late or lost; overlapping attempts of the parent; a join of four transactions | no child twice, what the parent says of a child is true, budgets kept |
| **Investigator** (`agents/investigator/workflow.py`, `persistence.py`) | an investigation row and its pipeline row; no lease, a claim | claim, run, finalize, cancel, resume, reap | a status write without a guard; a reaper that does not stop the runner | one runner at a time, one ledger entry per start, ends are final |
| Ingestion and finalization steps (`services/ingestion*.py`) | test runs, results, aggregates | parse, deduplicate, aggregate, finalize | mostly data | idempotence per input version |
| Ingestion admission (`ingestion_rate_limit.py`, `ingestion_backpressure.py`, `ingestion_dlq.py`) | counters, dead letters | admit, refuse, replay | thresholds | fairness between projects |
| Retention, deletion, data jobs (`retention_service.py`, `deletion_job_service.py`, `project_data_job_service.py`) | jobs with frozen candidate sets | plan, delete, hold | deletion against ingestion | nothing under hold is deleted |
| Releases and quality gates | releases, gate decisions | activate, decide | one active release | kept by a partial unique index |
| Authentication, routers, analytics, reports, frontend, MCP, CLI, reporters, deployment | | | short transactions, pure computations, adapters | unit tests are the right tool |

How they meet: a finished ingestion calls `finalize_run`, which stages the
outbox rows of the run in its first transaction and opens the gate in its last.
The relay publishes due rows to Celery; the tracked task
(`DownstreamTrackedTask`) claims the row, does the work and settles it. One of
the operations is the agent pipeline: a redelivery of its intent is a second
trigger message of the same pipeline run. A pipeline that ends stages the AI
summary into the outbox and, when it produced a report, a review request; an
accepted report is posted again through the outbox. Agents call tools through
the idempotency claims, models through the LLM governance, and fan out child
investigations.

`PROJECT.json` lists each component with the status of its model, and each
hazard of this code at the line where it bites, with the properties that cover
it or the reason why none does.

## 2. Plan

The order is that of damage: first what loses or doubles the work of every
run, then what every agent run depends on, then what agents and the platform do
to the outside world, then what bounds them.

1. `RunDownstreamOutbox` - done, with its refinement of `AtLeastOnce`.
2. `AgentPipelineRun` - done, with its refinement of `RunLifecycle`, apart from
   what section 12 lists.
3. `AgentActionLedger` - done, with its refinement of `SingleEffect`.
4. `WebhookDelivery` - done, a second implementation of `AtLeastOnce`.
5. `LLMClusterSemaphore` and `BudgetedLLM` - done without the circuit breaker.
6. `LiveEvidence` - done, a third implementation of `AtLeastOnce`.
7. `ClusterInvestigations` - done, a fourth implementation of `AtLeastOnce`, apart
   from the report a run that does not wait gets later.
8. Next: that report and its supersession, the circuit breaker, the composition of
   `RunDownstreamOutbox` and `AgentPipelineRun` over the trigger message (so
   that `MaxDeliveries` becomes the outbox's own budget), and deletion jobs
   against ingestion.

Composition: `BudgetedLLM` extends `LLMClusterSemaphore` and takes its steps as
part of a call. `SingleEffect`, `AtLeastOnce` and `RunLifecycle` are
instantiated under a refinement mapping (`happened` and `verdict`; `state` and
`performed`; columns of the row) by the modules that implement them.
`LiveEvidence` takes its persist intent from the outbox: there an intent is
executed until it ends, which is what `RunDownstreamOutbox` promises.
`ClusterInvestigations` takes from `AgentPipelineRun` that attempts of one run
overlap: an attempt begins at any time after the one before it began.

## 3. RunDownstreamOutbox

One TLA+ action is one committed transaction, one broker call, or one loss of a
process between two of them. Every transaction of the service locks the row it
decides on (`FOR UPDATE`), which is why it may be atomic.

State. Columns: `status`, `token` (`dispatch_token`), `dispatch_failures`,
`execution_attempts`, `attempts`; `deadline` stands for `lease_expires_at` and
`next_attempt_at`, which always carry the same time when both are set, reduced
to *ahead* or *passed*. Processes: `job` (what each publisher holds between
claim, send and mark), `work` (each worker between begin and complete), `fin`
(each process inside `finalize_run`). Environment: `queue` (copies of messages,
a set of tokens per intent: a copy may be delivered repeatedly, late or never),
`minted` (uuid4 draws, numbered; 0 is NULL), `armed` (which finalizers were
alive when the deadline of a waiting row was set). History: `finalized`,
`requeues`, `fence`, `worked`.

| action | code |
|---|---|
| `StageIntent`, `process_sentinel`, `finalize_run`, `RecoveryFinalizes` | `stage_downstream_operation` from its callers; ON CONFLICT DO NOTHING |
| `activate_finalize_operations`, `FinalizeRaises`, `FinalizerDies` | the last transaction of `finalize_run`, its exception, a lost process |
| `claim_waiting_finalizations`, `mark_waiting_finalization_recovery_failed` | recovery of a gate nobody opened |
| `claim_downstream_dispatches`, `claim_staged_dispatches` | the relay and the immediate publication, through `_lease_for_dispatch` |
| `_publish_downstream`, `PublishRaises`, `MarkRaises`, `mark_downstream_dispatch_published`, `mark_downstream_dispatch_failed`, `PublisherStops` | `downstream_dispatch.py` and the marks |
| `begin_downstream_execution`, `RefuseDelivery`, `BusinessWorkDone`, `complete_downstream_execution`, `fail_downstream_execution`, `defer_downstream_execution`, `WorkerDies` | `DownstreamTrackedTask.__call__` |
| `requeue_failed_downstream_operations`, `LoseMessage`, `Elapse` | the operator, the broker, time |

Timing. `TimeLimits` says that a task is killed before the lease it took
expires: EXECUTION_LEASE_SECONDS and the two FINALIZATION_RECOVERY deadlines
are 2100 s, the hard limit 1860 s. With `TimeLimits = FALSE` a worker may
outlive its lease (a paused host, a skewed clock); the fencing properties are
checked and proved without the assumption, the exclusion properties with it.
The release of a failed recovery uses a backoff shorter than a task may run, so
its deadline is never held back. `attempts` of a row that was dispatched only
scales a backoff and is not followed there.

### Properties

- `OneExecution` - two workers execute one intent at once only without time
  limits, and then under different tokens. The first half breaks in a subtle
  way: a publisher's late mark that trusts the row it claimed (no refresh after
  the lock) takes the row back from its consumer. `OneTokenPerExecution` is the
  half that needs no time limits.
- `CompletedByItsOwnWork` - a row is completed only under a token whose own
  execution finished the work, also where executions overlap.
- `RequeueFencesOldCopies` - copies of a failed publication still in the broker
  are never admitted after an operator's requeue. It is proved, and no run
  checks it.
- `GateOpensAtTheEnd` - a child is dispatchable only after some finalization of
  its run reached its end (or an operator requeued it).
- `RecoveryExclusive` - one recovery at a time works on a run; it depends on a
  claim re-arming *all* waiting rows of the run, not just the due ones.
- `ImplementsAtLeastOnce` - a row is completed only after its work was
  performed, and one that ended is reopened by an operator only (refinement).
- `EveryIntentSettles`, `NoGateStranded` - liveness.
- `TypeOK` - types, and the three retry budgets.

### Runs

| run | instance | distinct states | shows |
|---|---|---|---|
| `outbox_dispatch` | 1 intent, 1 publisher, 2 workers, 2 sends, 2 executions, no requeue, no time limits | 13 700 | `TypeOK`, `OneExecution`, `CompletedByItsOwnWork`, `ImplementsAtLeastOnce`, `EveryIntentSettles` |
| `outbox_gate` | 2 children of one run, 3 finalizers, 2 recoveries, 1 requeue | 13 700 | `GateOpensAtTheEnd`, `RecoveryExclusive`, `NoGateStranded` |

Why the bounds are enough: every transaction touches one row (the gate: the
rows of one run), so one intent, or two children of one run, contain every
interference. Two workers are the smallest number that can overlap; one
publisher is enough for a late mark, since a claim of the row under its hands is
what makes it late and a worker does that too. A third finalizer is there so
that a slow one, a recovery and a second recovery are alive together. Requeues
happen in `outbox_gate`. The budgets (8, 3 and 8 in the code) are
only compared, so 1 or 2 reaches the last try, the one before, and the refusal.
For larger instances the theorems take over. The processes of a kind are
interchangeable; symmetry is not used where liveness is checked.
Deadlock is checked in `outbox_gate`. In `outbox_dispatch` a settled row has
nothing left to do, and the system may stop. That run lets executions overlap;
with `TimeLimits` the first half of `OneExecution` is proved
(`ExecutionIsExclusive`).

### Fairness

`FairSpec` assumes: time passes (`Elapse`); beat starts the relay and the
recovery every minute, so a row that is due again and again is claimed (strong,
since a publisher may be busy at each tick); a publication tried again and
again is accepted, a message published again and again is delivered, and an
execution tried again and again returns or raises something other than a
deferral (strong: each of them may fail any finite number of times); every
process ends (weak: hard time limits, or it dies). Losses, deaths and failures
stay possible at every step. Without the fairness of `ExecutionReturns` a task
that defers for ever would keep its row alive for ever: a deferral gives its
execution back.

## 4. AgentPipelineRun

State. The row: `status`, `attempt`, `fencing_token`, `lease` (*none*, *held*,
*lapsed*), `cancel_requested`, `error` (only the prefix the code looks at),
`quality`. Review: `evidence` of the latest report, `review`, and `reviewed`,
the evidence the live request shows. Stage rows: `stage`, `checkpoint`.
Environment: `queue`, `unsent` (retries committed to the row whose broker call
has not been made), `deliveries` (granted by the outbox), `manual`, `deaths`,
`minted`. `work` is each worker's position in the code between two commits.
History: `claimed`, `result`.

| action | code |
|---|---|
| `_create_pipeline_run`, `_claim_pipeline_resume`, `RefuseDelivery`, `ResumeRaises` | a delivery, up to the graph (`run_offline_pipeline`, `run_deep_pipeline`) |
| `_write_stage_skipped`, `_mark_stage_restored`, `BeginStage`, `_raise_if_pipeline_cancelled` | the boundary of a stage (`_make_checkpointed_node`) |
| `mark_stage_running`, `mark_stage_done`, `NodeReturns`, `_mark_stage_failed`, `LeaseLost`, `renew_lease` | the stage (`BaseAgent`) and its heartbeat (`held_lease`) |
| `fence_or_raise`, `_mark_stage_executed`, `_checkpoint_stage` | the two fenced writes; the fence is a plain read, so it is a step of its own |
| `FinishPipeline`, `FailPipeline`, `FinalizeRaises` | `_mark_pipeline_done`: row selected FOR UPDATE by id and token, one step |
| `TaskReturns`, `TaskRaises`, `_schedule_pipeline_retry`, `SendRetry`, `LoseRetry`, `WorkerDies` | the end of the task; commit and broker call are two steps |
| `LeaseLapses`, `reap_stuck_agent_pipelines`, `ReaperCommitFails` | the lease and the reaper, which sends before it commits |
| `request_cancel`, `retry_pipeline`, `retry_invocation`, `settle_review` | users |

Abstractions. What a stage computes is left out; a graph may visit its stages
in any order and leave any out, one at a time per worker. A lease may lapse at
any moment while the row runs. `fenced` says whether a task was given the token
its row carries: the task of the creation is not (section 10). `Trigger` says
how the run is started: *direct* (a redelivery of the message draws a new
pipeline id and so is another run), *outbox* (up to `MaxDeliveries` deliveries
of one intent) or *invocation* (the id is fixed by the invocation).

### Properties

- `CancelIsSticky` - a cancelled run that stopped never runs again, whatever
  resumes were queued, scheduled or asked for before.
- `RetryIsScheduled` - a row that waits for a retry has it under way, with the
  attempt number the claim will ask for.
- `RejectionStands` - what a reviewer rejected stays failed and rejected against
  every queued resume, retry, reap and fenced result. Only a task of the trigger
  that is still at work undoes it (section 10).
- `ImplementsRunLifecycle` - the row takes only the edges of the state machine of
  `workflow_run_state.py`, counts an attempt when it begins and at no other time,
  begins none once it is cancelled and moves no more once it has passed
  (refinement of `RunLifecycle`).
- `AttemptCeiling` - attempts stay within the ceiling of the row although
  messages are duplicated and the claim itself does not look at the ceiling.
- `AttemptsArePaidFor` - the same for every trigger: each attempt beyond the
  ceiling was paid for by a redelivery of the outbox, a retry of a user or a lost
  worker.
- `LeaseIsExclusive` - at most one of the tasks that were given a token passes
  the fence. The last two are proved, and no run checks them.
- `ResumedResultsAreFenced` - no stale holder that was given a token completes
  a newer attempt.
- `RunningIsLeased` - a row runs exactly while it is leased, and whoever carries
  the row's token works on a running row.
- `AcceptedWhatWasShown` - an accepted run was accepted on the evidence its
  reviewer was shown.
- `InProgressSettles` - liveness: a run in progress ends.

### Runs

| run | instance | distinct states | shows |
|---|---|---|---|
| `pipeline_attempts` | direct, ceiling 3, 2 lost workers, lost broker calls, failed commits, failed review staging | 814 000 | `AttemptCeiling`, `ResumedResultsAreFenced` |
| `pipeline_users` | invocation, ceiling 2, cancel, 1 manual retry, 1 lost worker | 1 620 000 | `RunningIsLeased`, `RetryIsScheduled`, `AcceptedWhatWasShown`, `CancelIsSticky`, `RejectionStands`, `ImplementsRunLifecycle` |
| `pipeline_settles` | outbox, 2 deliveries, ceiling 2, 1 lost worker, no report stage | 222 000 | `InProgressSettles` |
| `pipeline_result` | direct, ceiling 2 | stops at the violation | finding, section 10 |

Two workers are enough for a stale attempt and the one that replaced it; a
third attempt (ceiling 3) lets a scheduler be stale by more than one attempt.
One stage is enough because stage rows are independent of each other and the
decisions at the end of a run only ask whether some stage failed or reported.
Symmetry of the workers is used outside the liveness runs. Deadlock is not
checked: a run that ended has nothing left to do.

### Fairness

Each worker goes on or is ended by its time limit (weak, over all of its
steps); a message that can be delivered again and again is delivered (strong: a
worker may be busy); a committed retry is sent (weak); the lease of a row whose
holder is gone lapses, and beat starts the reaper every ten minutes (weak, only
for such rows: the lease of a healthy holder need not lapse). `InProgressSettles`
is checked without lost broker calls; with them it does not hold, for the
reason given under *Limits* below.

## 5. AgentActionLedger

State. `status` of the rows of `agent_action_ledger`: tool calls (`StageCalls`,
keyed by run and subject, and `OneClickCalls`, keyed by defect signature) and
`Actions`. For tool calls: `owner` (the attempt whose fencing token is in the
pipeline row), `caller` (each attempt or request between two commits), `lock`
(the advisory lock of a signature), `linked`, and `adrift`, requests nobody
waits for any more that may still reach Jira. For actions: `outbox`, `message`,
`relay`, `executor`, `undoer`, and `unknown` (failed with the code
`outcome_unknown`). History: `effects`, how often the outside world was
changed, and `undone`.

| action | code |
|---|---|
| `ReplaceAttempt`, `fence_or_raise`, `_lock_signature`, `_claim`, `InsertClaim` | the claim of a tool call: token read, row read, row inserted are three steps |
| `SendCall`, `CallAnswers`, `CallFails`, `AnswerLost`, `Land`, `Vanish` | the HTTP call; a lost answer leaves a request that may land later |
| `_finish_executed`, `_finish_failed`, `StopUnrecorded`, `Reconcile`, `ConfirmNotFiled`, `LinkDefect`, `CallerDies` | `run_once` after the call, the one-click path's search and confirmation |
| `create_action_proposal`, `_approve`, `_reject`, `claim_action_dispatches`, `PublishAction`, `mark_action_dispatch_sent`, `mark_action_dispatch_failed`, `RelayDies` | proposal, decision, dispatch outbox |
| `Deliver`, `LoseMessage`, `_claim_or_refuse`, `_lock_claimed`, `CommitEffect`, `ProposeEffect`, `ApproveEffect`, `FinishEffected`, `EffectRaises`, `_record_effect_failure`, `ExecutorDies` | `execute_agent_action` with adapters that leave the commit to the executor, and with the quarantine adapter, which commits twice on its own |
| `reap_stuck_actions`, `_undo`, `RollbackCommits`, `UndoFinishes`, `UndoFails` | the reaper, a person's undo |

### Properties

- `ImplementsSingleEffect` - every row whose caller can say that an outcome is
  unknown (`Accountable`) implements `SingleEffect`: the effect happens at most
  once, only while the row is open, and the verdict is true; where nobody can
  know, it says *unknown*. It is final, except that an executor which outlives
  its time limit may turn *unknown* into *done* (`Correct`, allowed by
  `MayCorrect` when `TimeLimits` is FALSE).
- `VerdictsAreTrue` - the part of it about actions that needs no time limits at
  all; proved, and no run checks it.
- `FailedCallNeverLands` - nothing of an accountable call recorded as failed is
  in Jira or on its way there; a failed call may be made again.
- `UndoneOnce` - an undo that releases its row lock between check and record
  undoes nothing twice.
- `EveryClaimSettles` - liveness: no action stays executing.
- `OneIssue` - what the docstring of `run_once` says of every tool call; it is
  the statement of `tool_call_ticket`.

### Runs

| run | instance | distinct states | shows |
|---|---|---|---|
| `action_ledger` | a stage call, a one-click call, an action with either kind of adapter; 4 attempts, 2 requests, relays, executors, undoers | 18 800 | `FailedCallNeverLands`, `UndoneOnce`, `ImplementsSingleEffect`, `EveryClaimSettles` |
| `tool_call_ticket` | the same with the callbacks the stages really pass | stops at the violation | finding, section 10 |

Rows share no state, so an action constraint explores each row alone. It cuts
off no step that the fairness names. Two
processes of each kind are the smallest number that can meet on a row. Two
constants state what the code does not guarantee for every caller.
`StageKnowsUnknown` says that the callback of a stage raises `OutcomeUnknown`
when an answer is lost: the one-click path does, the stages of today do not,
which is the finding; their rows are `Accountable` only with it. `TimeLimits`
says that an executor is ended (120 s) before its claim is overdue (600 s). The
run takes both as TRUE; the theorems take both values of each.

Fairness: beat starts the reaper every minute, and an executor or an undo that
began comes to an end (weak; the step assumed is the loss of its process, the
weakest of its endings).

## 6. WebhookDelivery

The deliveries of one subscription. State: the row (`status`, `token`,
`attempt_count`, `dispatch_failures`), the breaker (`enabled`,
`consecutive_failures`), `edit` (per person, what the session of an edit will
write at its commit), `copies` of the task in the broker, what each relay
tick and worker holds. History: `minted` (tokens drawn), `answered` (accepted by
the receiver), `streak` (failures counted since the last reset), `survived`
(those of them a re-enable left counted), `overrun` and `faults`.

| action | code |
|---|---|
| `emit_event`, `replay_delivery` | row committed, then a copy without token sent, or not |
| `claim_pending_webhook_dispatches`, `PublishCopy`, `PublishRaises`, `RelayDies`, `LoseCopy` | the relay and the broker |
| `ClaimFirst`, `ClaimPublished`, `DropPaused`, `_mark_delivery_failed`, `GateLookupFails`, `CountAttempt`, `Post`, `RecordOutcome`, `WorkerDies` | `deliver`, from the claim to the compare-and-set of the outcome |
| `terminal_failure_values`, `trip_if_due`, `SUCCESS_RESET` | the breaker, inside the transaction of an outcome |
| `get_subscription`, `update_subscription`, `EditFails` | a person pauses or re-enables: the unlocked read of the row, the commit, a request that fails between them |

### Properties

- `OneAttempt` - attempts of one delivery overlap only when a receiver outlasts
  the lease, and then under different tokens, whatever first copies, retries and
  published copies are in the broker.
- `AttemptBudget` - at most `max_retries` attempts, one more per fault.
- `EachFailureCountsOnce` - the breaker's count is the number of deliveries that
  failed since the last reset, and the outcome that reaches the threshold pauses;
  a subscription is on at its threshold only by failures that a re-enable left
  counted.
- `ImplementsAtLeastOnce` - *SUCCESS* only if the receiver accepted, and a row
  that ended stays as it ended.
- `EveryDeliveryEnds` - liveness.

A re-enable reads the row without a lock and commits later. SQLAlchemy writes
only columns that differ from what it read, so a re-enable that read a count of
0 leaves the count alone, whatever was counted meanwhile. `get_subscription`
remembers whether the commit will reset (`resets`), and `update_subscription` is
that commit. Section 10 says which statement of the code this contradicts.

### Run

`webhook_delivery`: 2 deliveries, 1 relay tick, 2 workers, 1 editor, 1 retry,
threshold 2, 2 publications, 1 fault of any kind (lost copy, dead process, failed
lookup or publication, overrun lease); 796 000 distinct states. Two deliveries are
needed for the breaker, two workers for an overrun; a second relay tick would find
the row taken. With threshold 2 a re-enable can leave both failures counted, so a
subscription that is on at its threshold is reached. The action constraint
`InOrder` lets the second delivery start once the first is under way; it cuts off
no step that the fairness names. With one fault `AttemptBudget` already allows one
attempt too many; the proof covers any number.

Fairness (all weak): beat runs the relay, a claimed row is published, a free
worker takes a published copy, a worker goes on with its attempt. Lost copies
and dead processes are bounded by `MaxFaults`, which stands for "finitely
often".

## 7. LLMClusterSemaphore and BudgetedLLM

`LLMClusterSemaphore` keeps `slots` (per call, what is left of its lease in
Redis) and `holder` (the local side: phase, the time since the command its
deadline counts from was sent, the nap of the heartbeat, an answer under way).
Redis and the processes share no clock: only durations are kept, and `Tick`
lets time pass unless something is due. A command is sent, executed and answered
in separate steps, and it may fail executed or not.

`BudgetedLLM` extends it by a call of a project with a cap: `counter` (Redis),
`meter` (the row of the month), `observed` (usage a stage will meter when it
ends), `call`. History: `billed` (by the provider), `charged` (settled),
`escaped` (billed to calls cancelled while their answer was recorded,
section 10).

| action | code |
|---|---|
| `try_acquire`, `_ACQUIRE_LUA`, `Admitted`, `Refused`, `Unavailable`, `GivesUp` | `acquire`, with its local fallback and its timeout |
| `Wakes`, `_RENEW_LUA`, `Renewed`, `LeaseGone`, `RenewFails`, `RenewStalls`, `release` | the heartbeat and the end of the slot |
| `_cap_context`, `reserve` | cap and meter read from PostgreSQL, then the script |
| `WaitForSlot`, `SlotTimeout`, `Succeeds`, `Fails`, `CancelledWhileRecording`, `Dies` | the slot and the provider |
| `settle`, `record_usage`, `mark_stage_done` | settlement and the two writers of the meter |

### Properties

- `RunningWithinLimit` - the calls that run on a slot are at most `Limit`,
  through stalled, failed and lost renewals. Calls that run without a
  coordinator (phase *local*) are outside of it by design.
- `CapHolds` - what the provider billed stays within the cap and within what
  the counter holds, apart from `escaped`, although the meter is read before
  the script runs and a failed call may have been billed.
- `MeteredOnce` - the stage and the settlement never meter one call twice.

### Run

`llm_budget`: 3 calls, 2 of them of a stage, one slot, lease 6, interval 2,
margin 2, unwind 1, socket timeout 2, one estimate 2, cap 5 with 1 already
spent; 482 000 distinct states. The durations keep the order the
validators of the settings keep (unwind < margin, socket timeout + interval +
margin <= lease), with room for one failed renewal; the cap admits two
reservations and refuses the third. There is no liveness here: a call waits for
its slot with a timeout, and whether it gets one is up to the others.

## 8. LiveEvidence

One live session. State in Redis: the ledger (`receipt`, `admitting`, `gate`,
`pending`, `expires`), the stream (`log`, every entry ever added in order, and
`stream`, those still there), `consumer`, `lock`. In PostgreSQL: `session`,
`intent`, `run`, `projected`, `row`. Processes: `drainer`, `closer`,
`persister`. History: `accepted` (what a client was told), `faults`.

| action | code |
|---|---|
| `_ADMIT_LIVE_BATCH`, `DuplicateBatch`, `_RECONCILE_STAGED_BATCH` | the admission script, which may stop after its receipt or after its entry |
| `_acquire_lock`, `_read_stream_entries`, `_renew_lock`, `_project`, `_ACK_BATCH`, `DrainerDies`, `LockExpires` | `drain_run_buffer`: the transaction comes before the fenced acknowledgement |
| `FindsActive`, `FindsCompleted`, `_CLOSE_ADMISSION`, `CommitClose`, `FinalizeClose`, `CloserDies` | `close_session`, called by people and by the idle reaper |
| `_drain_live_evidence_before_finalize`, `CommitRun`, `PersistEnds`, `PersisterDies` | `persist_live_session` |
| `LedgerExpires` | the retention of the keys, fifteen days |

### Properties

- `FinishedRunIsComplete` - a finished run holds every batch a client was told
  is accepted, and none comes later, not even after the ledger that fenced it
  has expired.
- `NewestResultWins` - with time limits, the row of a test shows its newest
  projected result, whoever died holding an older entry.
- `CapacityIsGivenBack` - between two admissions what is pending is what the
  stream holds, whichever script stopped half way.
- `RetentionIsSet` - whichever of the close and the last acknowledgement comes
  last, no key stays for ever.
- `ImplementsAtLeastOnce` - an entry leaves the stream only after its
  projection.
- `ClosedSessionEnds` - liveness: a close that was begun ends.
- `ClosingIsOwned` - its safety half: behind a fence there is an active session,
  which the idle reaper closes again, or a staged intent, which the outbox
  dispatches again, or all is done. Proved, and no run checks it.

### Run

`live_evidence`: 3 batches, 2 drainers, 2 closers, 1 persist task, capacity 2,
1 fault; 331 000 distinct states. The third batch meets a full stream or
a close; two drainers and two closers are the smallest number that can overlap;
all batches carry results of one test, the case in which order matters. The
persist task is a Celery task under one execution lease, which is what
`OneExecution` of the outbox says.

Fairness (all weak): a drainer, a close and a persist task go on and are started
again (beat, the idle reaper, the outbox), an expired lock goes away, and an
admission found under way is completed.

One step reads two stores: `IsOpen` takes the status of the session and the
fence in Redis together, while the code asks PostgreSQL first and runs the
script later. A session completes only behind its fence, and the fence outlives
the requests of its time: a script that still finds the gate open was told of a
session that still is active.

## 9. ClusterInvestigations

A deep pipeline run selects failure clusters and starts an investigation for
each. State. Per child: `child` (the status of its investigation row),
`cancel_requested`, `agent_runs` (its rows in the AgentRun ledger),
`child_pipeline`, `task` (the stage row of the parent), `outbox` (the dispatch
row), `unselected`. Of the parents: `attempt` (what each execution of a run
does), `seen` (what it has read of the children), `lock` and `counted` (the
project row it holds, and what it counted under it). Environment: `mail`
(children whose message was sent), `relay` (the batch of each relay tick or
join), `runner`. History: `claimed`, `resumed`, `overtaken` (reaped under a live
runner), `late` (staged by a later attempt than the one that first gave them a
stage row).

| action | code |
|---|---|
| `Begins`, `CountsChildren`, `stage_cluster_investigations`, `Defers` | an attempt of the run: the claim of a resume, the lock of the project, children and outbox rows in one transaction; a run that does not wait |
| `RelayClaims`, `JoinRelays`, `Publishes`, `MarksSent`, `MarkingRaises`, `DispatchFails`, `RelayStops` | `relay_child_dispatch_outbox`, of beat and of a join: claim, `apply_async`, mark, the last failure |
| `JoinWaits`, `AllTerminal`, `JoinTimesOut`, `ReadsChildren`, `ProjectsChildren` | `wait_for_cluster_children`: the deadline cancels, a second read, the stage rows |
| `Succeeds`, `Fails`, `AttemptDies`, `cancel_cluster_children`, `FailsRun` | the end of a run; the handler cancels by the id of the run |
| `Claims`, `_create_stage_rows`, `set_investigation_status`, `Raises`, `Finalizes`, `RunnerDies` | `run_investigation`, its claim, its status writes and `_finalize` |
| `request_cancel`, `resume_investigation`, `ResumeClaims`, `Reaps` | users, operators, the reaper |

Abstractions. The runs belong to one project and one day; a run selects the
same clusters in every attempt and waits or does not (`async`), both chosen at
the start. Budgets of a child, hypotheses, verdicts and the review of its report
are left out. A row may be stale at any time while it is active: its heartbeat is
the claim, or the creation, so a reaper may find a runner alive. A tick of the
reaper decides on what it has read, so it may also reach a row that has ended
since (`Reaps`). The reaper of pipelines can park the pipeline row of a child
too, since that row has no lease: once it has run for 30 minutes
(`worker/tasks.py:5998`). A child has ended by then - its task is killed after
15, its own reaper comes first in the same tick - so only a row that its child
left behind is reached, and no property looks at such a row; this is left out. A
message that was sent is delivered any number of times, late
or never. The endpoint that asks for a cancel reads and writes in one step.

### Properties

- `TaskTellsTheEnd` - what the stage row of the parent says of the end of a child
  is true, also when two attempts join and one writes what it has read long ago.
- `PartialNeverCompletes` - a child a join reported as timed out is not completed
  afterwards: the join asks before it reports, the finalizer looks under its lock.
- `LedgerFollowsChild` - one AgentRun per start, none before the child has ended.
- `EndedUnclaimedIsFinal` - a child that ended before any runner claimed it stays
  as it is.
- `ImplementsAtLeastOnce` - no child is completed that no runner claimed, a
  completed one stays completed, and only a resume reopens one that was given up
  (refinement; a child reaped under a live runner counts as given up).
- `OneRunner` - a child has one runner at a time, and `CapacityHolds` - the
  budgets of the project hold although several runs stage at once. Both are
  proved, and no run checks them.

All of them exempt children the reaper failed under a live runner, and most of
them resumed ones: section 10 says what happens to those.

### Run

`cluster_investigations`: 1 child, 2 attempts of its run, 1 relay tick, 1 runner,
1 resume, 1 publication, budgets of 1; 1 090 000 distinct states. The properties
are about one child each; two attempts are the smallest number of joins, and of
a handler beside a join, that can overlap, and each of them relays too. The last
failure of a publication is the first. One runner is enough for what a late
message, a resume and the reaper do; two runners, two children and two runs,
which `OneRunner` and `CapacityHolds` need, are left to the proofs. Deadlock is
not checked: everything may have ended. No fairness is assumed and no liveness is
stated: a parent waits with a deadline, and whether a child gets its runner is
up to the queue.

## 10. What the code does not keep

Two statements of the repository that TLC finds violated by what the code does;
`PROJECT.json` quotes each with its line.

1. **`pipeline_result` (bug).** `_create_pipeline_run` stores a fencing token in
   the new row, but the setup it returns has no `fencing_token`
   (`agents/workflow.py:3985`), and `run_offline_pipeline` reads it from there.
   The first attempt of every pipeline therefore renews no lease, and nothing
   it writes is fenced. Its lease lapses after a minute, the reaper
   reschedules the run, a second attempt claims it, and the first completes the
   second one's row. The checks of the fences (`ResumedResultsAreFenced`) are
   about the attempts that were given their token; with the token returned,
   `fenced` would be TRUE in `_create_pipeline_run` and `ResultOfLatestAttempt`
   the property to check.
2. **`tool_call_ticket` (bug).** `run_once` promises one external call per key
   and leaves a row executing when the callback raises `OutcomeUnknown`. The
   callbacks that stages pass (`agents/triage_agent.py:419`,
   `agents/defect_commander.py:326`) raise something else when an answer is
   lost, so the row is recorded as failed while the issue is in Jira, and the
   next attempt files a second one.

*Children of a deep run.* `ClusterInvestigations` contains four more such
disagreements. No run states them; its properties name the children they touch
as exceptions, and its actions show the steps.

- `set_investigation_status` writes *synthesizing* without looking at the status
  (`agents/investigator/persistence.py:620`). Over a row that the reaper has
  failed under its runner it makes the row active again; the finalizer then
  settles it a second time and writes a second AgentRun, against
  `agents/investigator/workflow.py:747` (*never write a second AgentRun*). This
  is `overtaken`: `Claims`, `_create_stage_rows`, `Reaps`,
  `set_investigation_status`, `Finalizes`.
- The handler of a failed attempt cancels by the id of the run and asks for no
  token (`agents/workflow.py:3243`): an attempt that lost its lease ends the
  queued children of the attempt that replaced it, against
  `worker/tasks.py:5956` (the rotated token *makes every subsequent write from
  the old holder fail*). `Fails` of attempt 1 after `Begins` of attempt 2, then
  `cancel_cluster_children`.
- A child that ends while it is queued - the join's deadline, a parent that
  failed, a dispatch given up - gets no AgentRun, against
  `agents/investigator/workflow.py:26` (*every terminal outcome ... writes an
  agent_runs row*). `JoinTimesOut`, `cancel_cluster_children`, `DispatchFails`.
- Parent cancellation and the reaper leave the parent's stage row as it is, and
  the cancellation leaves a *sent* dispatch row (`FailOutbox` in
  `cancel_cluster_children`), against `src/architecture/AGENTIC_RUNTIME.md:371`
  (*reconcile investigation, parent task, and outbox state atomically*).

*Re-enabling a webhook.* `webhook_breaker.py:108` says of a person's Re-enable *the
count starts again*. An edit reads the subscription, awaits (scope, target check,
secret) and commits, and a count that it read as 0 is not written. Paused by hand
at 0 with an attempt in flight, the failure of that attempt may be counted between
the read and the commit, and the subscription is on with a count of 1
(`get_subscription`, `RecordOutcome`, `update_subscription`; `survived` in
`EachFailureCountsOnce`). The damage is small: the breaker pauses that many failures
early.

*Seen while modelling.* Behaviour that reads like an oversight but contradicts
no statement sharply enough to be a run. Where a module contains it, its name is
in parentheses.

- The reaper of investigations reads 100 candidates, in no order, before it
  checks which of them are stale
  (`agents/investigator/workflow.py:1302`), and measures age by the claim, not
  by progress: a child that works longer than its budget and the grace is failed
  under its runner (`Reaps`, `overtaken`).
- A message of the first dispatch can claim a child that an operator resumed;
  the resuming task then finds it running and stops. Nothing is lost
  (`ResumeClaims`).
- The reaper parks a cancelled running row in `retry_wait`
  (`worker/tasks.py:6037`); the claim refuses its retry and nothing looks for
  overdue `retry_wait` rows (`AgentPipelineRun`).
- A rejection is not final. `agents/workflow.py:1822` refuses a resume of a
  rejected run and `services/retry_policy.py:42` lists `review_rejected` among the
  codes a retry can never fix, but the retry scheduler never looks at either
  (`worker/tasks.py:2774`): a redelivered invocation of a run its reviewer
  rejected is refused, and the scheduler of that failure parks the row for a
  retry under a new error. The creation, which is not fenced, can likewise fail a
  rejected run once more under another error. `RejectionStands` excepts exactly
  the tasks of the trigger; that no other step touches a rejection is proved.
- The fence of a checkpoint is a SELECT; the write after it neither locks the
  pipeline row nor repeats the condition (`agents/workflow.py:1550`,
  `AgentPipelineRun`).
- A retried finalizer stages with ON CONFLICT DO NOTHING and keeps the old grace
  period of the waiting rows, so a recovery may open their gate while it still
  works (`services/run_downstream_outbox.py:119`). Both do the same steps; the
  rows stay consistent (`RunDownstreamOutbox`).
- An LLM call cancelled while the circuit breaker records its answer releases
  its reservation although it may have been billed
  (`services/llm_factory.py:366`; `CancelledWhileRecording`, `escaped`).
- The second `_lock_claimed` of an executor answers from its session's memory
  (`services/agent_action_ledger_service.py:616`); harmless while executors
  respect their time limit (`FinishEffected`).
- An action whose message is lost after its outbox row was marked stays
  approved; nothing looks for it (`LoseMessage`).
- A drainer that commits its projection after its lock expired can overwrite a
  newer result; `NewestResultWins` therefore assumes `TimeLimits`.
- `close_session` sets the fence before its transaction: if that fails, batches
  are refused until the session is closed again (`CloserDies`).
- A late *SUCCESS* resets the failure count of a subscription that was paused
  since, and a replay is sent although its subscription is paused
  (`WebhookDelivery`).

*Limits.* Some properties hold only under a constant that the code does not
guarantee; changing it in the cfg shows a behaviour that breaks them:

- `RetryIsScheduled` and `InProgressSettles` need `LostDispatch = FALSE`: the
  scheduler commits `retry_wait` and then calls the broker, and no one looks
  for a retry whose call was lost.
- `AttemptCeiling` needs `Trigger = "direct"` and `MaxManual = 0`: the claim
  does not look at the ceiling, and the redelivery of an outbox intent or a
  resume asked for by a user names no attempt.
- `AcceptedWhatWasShown` needs `ReviewFailures = FALSE`: a failure while the new
  request is staged is rolled back and swallowed, and the old request stays
  live for the new evidence.
- `FailedCallNeverLands` and `ImplementsSingleEffect` speak of the calls of
  stages only with `StageKnowsUnknown`; without `TimeLimits` a verdict *unknown*
  may still become *done* (section 5).
- `GateOpensAtTheEnd` exempts children requeued by an operator: a child that
  failed because the recoveries of its gate were spent is requeued like any
  other and is dispatched although no finalization of its run ended.
- Stage rows other than the checkpoint and the executed mark are written by
  pipeline and stage name without any fence; no property is stated for them.

## 11. What is proved

Every safety invariant, action property and refinement of the passing runs, and
the type invariant of every module, is also a theorem, for every value of the
constants that satisfies the named assumption of its module
(`OutboxAssumption`, `PipelineAssumption`, `LedgerAssumption`,
`WebhookAssumption`, `SemaphoreAssumption` and `BudgetAssumption`,
`LiveAssumption`, `ClusterAssumption`: the sets fit together, budgets are
numbers, durations keep the order their validators keep).

`RunDownstreamOutboxProofs`:

- `TypeCorrect`. `TypeOK` is not inductive: that a failed send leaves the
  counter within its budget needs `DispatchBudget` (a row that has spent its
  publications has failed).
- `ExecutionsHaveTheirOwnToken`, `CompletionsAreFenced`, `RequeuesAreFenced`,
  without time limits. The inductive invariant `TokenInv` adds `TokensMinted`
  (every token in a row, a message, a publisher or a worker was drawn for its
  run, so a fresh one is new), `TokenMeansProcessing` (a row whose token a
  worker carries is processing) and `FinishedWorked`. The key step is the
  relay's claim of a dead worker's row: it must draw a fresh token, or two live
  executions would share one.
- `ExecutionIsExclusive`, from `HolderKeepsRow`: with time limits, a live
  execution holds its row - token, *processing* and a deadline ahead - until it
  ends, so no mark, claim or requeue may touch it.
- `GateIsKept`: `GateOpensAtTheEnd` is inductive given types.
- `RecoveryIsExclusive`, from `RecoveryInv`: a recovery at work holds all the
  waiting rows of its run under deadlines that cannot pass before it ends.

`RunDownstreamOutboxRefinement`: `OutboxImplementsAtLeastOnce`. Actions that
move several rows at once (the gate, its recovery, a requeue) map to one step of
`AtLeastOnce` over a set of items; `ExecutesStaged` (a worker executes a row
that exists) is what `Perform` needs.

`AgentPipelineRunProofs`. The thirteen actions of the graph move only their own
worker and the stage rows; `StageStepQuiet` proves it once, and every later
proof treats them as one step `Quiet`.

- `PipelineTypeCorrect`.
- `RunningRowsAreLeased`, `ResultsAreFenced`, from `FenceInv`: tokens are drawn
  once, the only task without its token is the creation's, and a running row
  carries the token of its latest claim.
- `CancellationIsSticky`: an action property, from `StatusMoves`, the few ways
  the status of a row can change, each with what it asks of the cancel flag.
- `LeasesAreExclusive`, from `TokensInv`: a step moves one worker at most and
  hands out no token but the one it has just drawn, so no two tasks carry the
  same one, and a task that was not given its token has the trigger in its hands.
- `RejectionsStand`: every other writer of the row is fenced, and a rejected row
  has no token, or asks for the prefix of the error under the lock of the row.
- `RowsImplementTheirLifecycle`: `StatusMoves` says for each step how it may
  change status, attempt and cancel flag; each of its cases is one step of
  `RunLifecycle`.
- `AttemptsAreBounded` (assumes `Trigger = "direct"` and `MaxManual = 0`), from
  `CeilingInv`: every resume in flight names an attempt within the ceiling, and
  the claim asks for that name.
- `ExtraAttemptsArePaidFor`, for every trigger, from `PaidInv`: the messages that
  name no attempt and are in nobody's hands (`Loose`) are at most the manual
  retries and lost workers, and together with the attempts made they stay within
  the ceiling and what was paid for. A resume that names its attempt needs no
  payment, since the claim refuses any other number.
- `RetriesAreScheduled` (assumes `LostDispatch = FALSE`), from `RetryInv`: a
  message in a worker's hands names at most the attempt the row has reached, so
  acknowledging it never takes away the retry the row waits for.
- `AcceptancesMatchTheirEvidence` (assumes `ReviewFailures = FALSE`), from
  `ShowsLatestEvidence`.

`AgentActionLedgerProofs`:

- `TypeCorrect`.
- `OneClickFilesOneIssue`: the one-click path files one issue per key.
  `CallsAreMadeOnce`: so does every tool call, if `StageKnowsUnknown`.
  `FailedCallsNeverLand`: a failed call of either kind, as far as it is
  accountable. All from `CallsInv`: the row is true (`RowIsTrue`), and whoever
  holds a call between its claim and its record is alone with it
  (`HolderIsAlone`). The lost answer is the step that breaks it for today's
  stages.
- `LedgerImplementsSingleEffect`, `VerdictsOfActionsAreTrue` and
  `UndoneAtMostOnce`, from `ActionsInv`: the same two facts for an action and its
  executor, and `UndoersOfExecuted`. None of them assumes anything about
  constants: with time limits the reaper does not come between the claim of an
  executor and its record; without, it does so only while the row is not locked
  and then says *unknown*, which is why `SingleEffect` has a step `Correct`.

`WebhookDeliveryProofs`:

- `TypeCorrect`, from `TypeInv`, which also says that a row that has not ended
  has not spent its publications. The relay's refusal of a pending row with
  spent publications is therefore unreachable.
- `AttemptsAreApart`, from `TokenInv`: tokens are drawn once, and a worker whose
  row shows another token lost it to an overrun.
- `AttemptsAreBudgeted`, from `BudgetInv`: a row that may be attempted again has
  an attempt left, one more for every fault so far.
- `FailuresAreCounted`, from `BreakerInv`: what was counted has ended, so it is
  not counted again, and what a re-enable leaves counted is remembered.
- `WebhooksImplementAtLeastOnce`, from `AnswerInv` and the lawful moves of a row.

`BudgetedLLMProofs`, about both modules:

- `SemaphoreBound` and `RunningCallsAreBounded`, from `SlotInv`: what is left of
  a lease in Redis plus the age the holder counts is at least the lease, so a
  holder that stops at its deadline is still a member while it unwinds. The
  proof needs the order of the durations that `SemaphoreAssumption` states.
- `TypeCorrect`.
- `CapAlwaysHolds` and `CallsAreMeteredOnce`, from `BooksInv`: what was billed
  plus what calls in flight may still be billed stays within the counter and
  the cap; what was metered plus what is still to be metered stays within what
  was charged. A sum over the calls is the size of a set of units, since sums
  by recursion are out of the prover's reach.

`LiveEvidenceProofs`:

- `TypeCorrect`, from `LiveInv` (types, `AdmissionInv`, `CloseInv`): an admission
  is under way only while the gate is open and the session active, so a close
  never leaves one behind.
- `FinishedRunsAreComplete`, from `EvidenceInv`: what left the stream was
  projected, and nothing is left once the run is being finished.
- `CapacityIsAlwaysGivenBack`, from `CapacityInv`: the batch being admitted has
  its place reserved.
- `RetentionIsAlwaysSet`.
- `ClosesAreOwned`, from `OwnerInv`: a task that committed has finished the run,
  and once the intent is done the ledger has its retention, or it has expired and
  no closer fences it again.
- `NewestResultAlwaysWins`, from `OrderInv`: with time limits one drainer at a
  time works on the oldest entry, after all that was projected.
- `LiveImplementsAtLeastOnce`.

`ClusterInvestigationsProofs`. `RowSteps` shows that only fourteen actions change
a child, its runners or its history. For each of them a lemma proves that it
keeps `Sound` (a live runner works on a running row unless it was overtaken; a
row that is absent was never started; the ledger follows the row) and is one of
`Moves`: how a child may change, and that a request to cancel is never taken
back except by a resume. Everything else is a consequence of `Moves`:

- `TypeCorrect`; `ChildrenHaveOneRunner`, `LedgerFollowsEveryChild`,
  `UnclaimedEndsAreFinal`, from `Sound` and `Moves` alone.
- `TasksTellTheEnd`, from `ToldTrue`: what an attempt has read and not yet
  written is true as well.
- `PartialsNeverComplete`, from `HasTask` (behind its staging, every child of the
  run has a stage row, so one staged afterwards is *late*) and `WasAsked` (what a
  join no longer waits for, has read as active or has reported as timed out was
  asked to stop).
- `ClustersImplementAtLeastOnce`: an action that changes one child maps to one step
  over that item (`OneItemMoves`), staging and the cancellation of a family to one
  step over a set. A status write over a row that the reaper failed maps to a
  stutter, because such a child counts as given up.
- `CapacityIsKept`, from `Held`: what was counted under the project lock is not
  exceeded until the staging, since only a staging adds.

Extra assumptions named with a theorem are the limits of section 10: they are
there because the statement is false without them.

Some theorems state a property no run of the project checks, because a run has
room for a handful: `RequeueFencesOldCopies`, `OneTokenPerExecution`,
`LeaseIsExclusive`, `AttemptsArePaidFor`, `VerdictsAreTrue`, `ClosingIsOwned`,
`OneRunner`, `CapacityHolds`, and `TypeOK` of every module but the outbox. Each is
an invariant of its module; adding its name to a cfg checks it there.

Only model-checked: the liveness properties (`EveryIntentSettles`,
`NoGateStranded`, `InProgressSettles`, `EveryClaimSettles`, `EveryDeliveryEnds`,
`ClosedSessionEnds`; liveness under fairness and ENABLED are outside the
prover's reach). The statements of section 10 are false and stay with TLC.

## 12. What is not modelled

In the outbox module: payloads, priorities, batch sizes, and the backoff
lengths, all of which only choose when a row is due.

In the pipeline module: the branches and prompts of the graphs, cost budget
blocks, cancellation of an invocation that has no pipeline yet, replay of one
stage, reruns under a changed configuration (they make a new row), revocation
of a settled review, a second pipeline of the same test run, the clocks of the
heartbeat (a lease may lapse at any moment instead), and a second delivery of
one message while the first is at work (the visibility timeout is twice the
task limit; a task sent with a long countdown is the exception).

In the ledger module: the gates of an executor are one choice; a person confirms
that nothing was filed only when that is so; the loss of an advisory lock with
its connection.

In the webhook module: deletion of a subscription, changes of `max_retries` and
of the threshold, the text of payloads under review.

In the LLM modules: the circuit breaker, loss of the Redis counter, a blocked
event loop, retries inside a provider's client.

In the cluster module: the selection of the clusters, the budgets and the graph
of an investigation, the investigations people start on a whole run, the report
that replaces that of a run which did not wait, and the
ends that need fairness (every child ends, a join ends).

In the live module: the fan-out to browsers, the list buffer of old clients and
its migration, the archive of events and recovery from it, and a Redis whose
clock goes back (stream ids are positions in the log).

The other components of section 1 are not modelled yet (section 2) or not worth
it: pure computations, adapters, short transactions over one row. Each has its
reason in `PROJECT.json`. They are most of the repository's lines (schemas,
analytics, routers, scripts, the frontend, tests), which is why the map covers a
small part of them.
