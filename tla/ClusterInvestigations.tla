----------------------- MODULE ClusterInvestigations -----------------------
(***************************************************************************)
(* The child investigations of deep pipeline runs, one per selected        *)
(* failure cluster: staging, dispatch outbox, join and cancellation        *)
(* (backend/app/services/cluster_investigation_orchestrator.py), the       *)
(* runner, its finalizer, the resume and the reaper of stale rows          *)
(* (backend/app/agents/investigator/workflow.py and persistence.py).       *)
(*                                                                         *)
(* Every action is one committed transaction, one unlocked read, one       *)
(* broker call, or one failure between two of them.                        *)
(*                                                                         *)
(* Abstractions.                                                           *)
(*  - The runs belong to one project and to one day.  The plan of a run is *)
(*    frozen: it selects the same clusters in every attempt.               *)
(*  - Hypotheses, verdicts, budgets and stop reasons are left out, and the *)
(*    review of a child's own report with them.                            *)
(*  - An active row may be old at any time: max_seconds of its budget and  *)
(*    the grace are counted from its claim, or its creation before it.     *)
(*  - A message that was sent is delivered any number of times, late or    *)
(*    never.                                                               *)
(*  - Attempts of one run overlap when the lease of the first has lapsed   *)
(*    while it goes on (AgentPipelineRun).                                 *)
(***************************************************************************)
EXTENDS Naturals, FiniteSets

CONSTANTS
    Children,         \* the selected clusters, each with its investigation
    Parents,          \* deep pipeline runs
    Attempts,         \* executions of the runs, numbered (fencing tokens)
    Beats,            \* executions of the relay task
    Runners,          \* worker slots of the queue agent_children
    None,
    parent_of,        \* the run of each child
    run_of,           \* the run of each attempt
    max_active,       \* max_active_per_project
    max_daily,        \* max_children_per_day
    max_publishes,    \* failures of the broker before a dispatch is given up
    MaxResumes        \* bound: resumes of each child

ASSUME ClusterAssumption ==
    /\ IsFiniteSet(Children) /\ Children # {} /\ Attempts \subseteq Nat /\ None \notin Children \cup Attempts
    /\ parent_of \in [Children -> Parents] /\ run_of \in [Attempts -> Parents]
    /\ Beats \cap Attempts = {}
    /\ max_active \in Nat /\ max_daily \in Nat
    /\ max_publishes \in Nat \ {0} /\ MaxResumes \in Nat

VARIABLES
    child,            \* status of the investigation row
    cancel_requested,
    agent_runs,       \* rows of the AgentRun ledger per child
    child_pipeline,   \* status of the child's own pipeline row
    task,             \* status of the parent's stage row for the child
    outbox,           \* the dispatch row
    mail,             \* children whose message was sent
    relay,            \* per relayer, its batch and the row it is at
    unselected,       \* children whose stage row is not selected
    attempt,          \* what an attempt of a run does
    seen,             \* statuses a joining attempt has read
    lock,             \* the attempt that has locked the project row
    counted,          \* children an attempt has counted under that lock
    runner,
    claimed,          \* history: children a runner has claimed
    resumed,          \* history: resumes per child
    overtaken,        \* history: children reaped under a live runner
    late,             \* history: children staged by a later attempt
    async             \* runs that do not wait: their report is superseded later

rows == <<child, cancel_requested, agent_runs, child_pipeline>>
dispatch == <<outbox, mail, relay>>
staging == <<unselected, lock, counted>>
parents == <<task, attempt, seen, staging>>
history == <<claimed, resumed, overtaken, late, async>>
vars == <<rows, dispatch, parents, runner, history>>

Active == {"queued", "running", "synthesizing"}
Terminal == {"completed", "failed", "cancelled"}
Family(p) == {c \in Children : parent_of[c] = p}
IsActive(c) == child[c] \in Active
ActiveChildren == {c \in Children : IsActive(c)}
Staged == {c \in Children : child[c] # "absent"}
Smaller(m, n) == IF m < n THEN m ELSE n

Relayers == Beats \cup Attempts
NoBatch == [batch |-> {}, at |-> None, said |-> "nothing"]
NothingCounted == [active |-> 0, daily |-> 0]
Idle == [phase |-> "idle", child |-> None]
NothingSeen == [c \in Children |-> "absent"]

Init ==
    /\ child = [c \in Children |-> "absent"]
    /\ cancel_requested = {}
    /\ agent_runs = [c \in Children |-> 0]
    /\ child_pipeline = [c \in Children |-> "absent"]
    /\ task = [c \in Children |-> "absent"]
    /\ outbox = [c \in Children |-> [status |-> "absent", attempts |-> 0]]
    /\ mail = {} /\ relay = [x \in Relayers |-> NoBatch]
    /\ unselected = {} /\ attempt = [a \in Attempts |-> "new"]
    /\ seen = [a \in Attempts |-> NothingSeen]
    /\ lock = None /\ counted = [a \in Attempts |-> NothingCounted]
    /\ runner = [r \in Runners |-> Idle]
    /\ claimed = {} /\ resumed = [c \in Children |-> 0]
    /\ overtaken = {} /\ late = {} /\ async \in SUBSET Parents

(***************************************************************************)
(* Staging (stage_cluster_investigations).                                 *)
(***************************************************************************)
Goes(a, phase) == attempt' = [attempt EXCEPT ![a] = phase]

\* The first attempt of a run, or the claim of a resume (_claim_pipeline_resume) of
\* one that failed, lost its lease or ended degraded: stage rows that are not
\* completed become pending.  The stages of the children are never restored from
\* a checkpoint.
Begins(a) ==
    LET earlier == {b \in Attempts : run_of[b] = run_of[a] /\ b < a} IN
    /\ attempt[a] = "new" /\ \A b \in earlier : attempt[b] # "new"
    /\ Goes(a, "dispatch")
    /\ task' = [c \in Children |->
          IF earlier # {} /\ c \in Family(run_of[a]) /\ task[c] \notin {"absent", "completed"}
          THEN "pending" ELSE task[c]]
    /\ UNCHANGED <<rows, dispatch, seen, staging, runner, history>>

\* The project row is locked, then the active and the daily children counted.
CountsChildren(a) ==
    /\ attempt[a] = "dispatch" /\ lock = None
    /\ lock' = a
    /\ counted' = [counted EXCEPT ![a] = [active |-> Cardinality(ActiveChildren),
                                          daily |-> Cardinality(Staged)]]
    /\ Goes(a, "counted")
    /\ UNCHANGED <<rows, dispatch, task, seen, unselected, runner, history>>

Room(budget, used) == IF used < budget THEN budget - used ELSE 0

Capacity(a) == Smaller(Room(max_active, counted[a].active), Room(max_daily, counted[a].daily))

\* The parent's stage row, new or selected again: a child may be there already.
TaskOf(c) == IF child[c] = "completed" THEN "completed" ELSE "pending"

\* Children, stage rows and outbox rows in one transaction.  Clusters beyond
\* the capacity get a skipped stage row that is not selected.
stage_cluster_investigations(a) ==
    LET family == Family(run_of[a])
        missing == {c \in family : child[c] = "absent"}
    IN
    /\ attempt[a] = "counted"
    /\ \E S \in SUBSET missing :
          /\ Cardinality(S) = Smaller(Capacity(a), Cardinality(missing))
          /\ child' = [c \in Children |-> IF c \in S THEN "queued" ELSE child[c]]
          /\ outbox' = [c \in Children |->
                IF c \in S THEN [status |-> "pending", attempts |-> 0] ELSE outbox[c]]
          /\ LET skips == {c \in missing \ S : task[c] = "absent"}
                 reselects == {c \in family \ (missing \ S) :
                                  c \in unselected /\ task[c] = "skipped"}
                 adds == {c \in family \ (missing \ S) : task[c] = "absent"}
             IN /\ task' = [c \in Children |-> IF c \in skips THEN "skipped"
                                              ELSE IF c \in reselects \cup adds THEN TaskOf(c)
                                              ELSE task[c]]
                /\ unselected' = (unselected \cup skips) \ reselects
          /\ late' = late \cup {c \in S : task[c] # "absent"}
    /\ lock' = None /\ counted' = [counted EXCEPT ![a] = NothingCounted]
    /\ Goes(a, "staged")
    /\ UNCHANGED <<cancel_requested, agent_runs, child_pipeline, mail, relay, seen,
                   runner, claimed, resumed, overtaken, async>>

\* The join of a run that does not wait: its report is superseded later.
Defers(a) ==
    /\ attempt[a] = "staged" /\ run_of[a] \in async
    /\ Goes(a, "joined")
    /\ UNCHANGED <<rows, dispatch, task, seen, staging, runner, history>>

(***************************************************************************)
(* The relay (relay_child_dispatch_outbox), of beat and of a join.         *)
(***************************************************************************)
\* A message may be lost: sent rows of children still queued are due again.
StillQueued(c) == child[c] = "queued"

Claimable(c) ==
    \/ outbox[c].status \in {"pending", "sending"}
    \/ outbox[c].status = "sent" /\ StillQueued(c)

\* A new row is due at once, the others at some time: next_attempt_at passes, or
\* five minutes since the row was sent.
Due(D, family) ==
    /\ D \subseteq {c \in family : Claimable(c)}
    /\ {c \in family : outbox[c] = [status |-> "pending", attempts |-> 0]} \subseteq D

\* Attempts are compared only with max_publishes: they are counted up to it.
ClaimsBatch(x, D) ==
    /\ outbox' = [c \in Children |->
          IF c \in D
          THEN [status |-> "sending", attempts |-> Smaller(outbox[c].attempts + 1, max_publishes)]
          ELSE outbox[c]]
    /\ relay' = [relay EXCEPT ![x].batch = D]
    /\ UNCHANGED <<rows, mail, task, seen, staging, runner, history>>

RelayClaims(x) ==
    /\ x \in Beats /\ relay[x] = NoBatch
    /\ \E D \in SUBSET Children : D # {} /\ Due(D, Children) /\ ClaimsBatch(x, D)
    /\ UNCHANGED attempt

JoinRelays(a) ==
    /\ attempt[a] = "staged" /\ run_of[a] \notin async
    /\ Goes(a, "relaying")
    /\ \E D \in SUBSET Children : Due(D, Family(run_of[a])) /\ ClaimsBatch(a, D)

RelayHears(x, c, said) ==
    relay' = [relay EXCEPT ![x] = [batch |-> @.batch, at |-> c, said |-> said]]

\* apply_async: accepted, or refused although the message may be in the broker.
Publishes(x, c) ==
    /\ c \in relay[x].batch /\ relay[x].at = None
    /\ \/ mail' = mail \cup {c} /\ RelayHears(x, c, "accepted")
       \/ mail' \in {mail, mail \cup {c}} /\ RelayHears(x, c, "refused")
    /\ UNCHANGED <<rows, outbox, parents, runner, history>>

RelayGoesOn(x) ==
    relay' = [relay EXCEPT ![x] = [batch |-> @.batch \ {@.at}, at |-> None, said |-> "nothing"]]

\* A row that was failed or finished meanwhile is left as it is.
MarksSent(x) ==
    LET c == relay[x].at IN
    /\ relay[x].said = "accepted"
    /\ outbox' = IF outbox[c].status = "sending"
                 THEN [outbox EXCEPT ![c].status = "sent"] ELSE outbox
    /\ RelayGoesOn(x)
    /\ UNCHANGED <<rows, mail, parents, runner, history>>

\* The database refuses: handled like a refusal of the broker.
MarkingRaises(x) ==
    /\ relay[x].said = "accepted"
    /\ relay' = [relay EXCEPT ![x].said = "refused"]
    /\ UNCHANGED <<rows, outbox, mail, parents, runner, history>>

\* Mutant: a dispatch that is given up takes its child with it, whatever it does.
AnyChild(c) == c \in Children

\* Only a queued child fails with its dispatch.
NotStarted(c) == child[c] = "queued"

DispatchFails(x) ==
    LET c == relay[x].at
        gives_up == outbox[c].attempts >= max_publishes
    IN
    /\ relay[x].said = "refused"
    /\ IF outbox[c].status # "sending" THEN UNCHANGED <<outbox, child, task>>
       ELSE /\ outbox' = [outbox EXCEPT ![c].status = IF gives_up THEN "failed" ELSE "pending"]
            /\ IF gives_up /\ NotStarted(c)
               THEN /\ child' = [child EXCEPT ![c] = "failed"]
                    /\ task' = [task EXCEPT ![c] = "failed"]
               ELSE UNCHANGED <<child, task>>
    /\ RelayGoesOn(x)
    /\ UNCHANGED <<cancel_requested, agent_runs, child_pipeline, mail, attempt, seen,
                   staging, runner, history>>

RelayStops(x) ==
    /\ x \in Beats /\ relay[x] # NoBatch
    /\ relay' = [relay EXCEPT ![x] = NoBatch]
    /\ UNCHANGED <<rows, outbox, mail, parents, runner, history>>

(***************************************************************************)
(* The join (wait_for_cluster_children) and the end of a run.              *)
(***************************************************************************)
JoinWaits(a) ==
    /\ attempt[a] = "relaying" /\ relay[a] = NoBatch
    /\ Goes(a, "waiting")
    /\ UNCHANGED <<rows, dispatch, task, seen, staging, runner, history>>

AllTerminal(a) ==
    /\ attempt[a] = "waiting"
    /\ \A c \in Family(run_of[a]) : ~IsActive(c)
    /\ Goes(a, "waited")
    /\ UNCHANGED <<rows, dispatch, task, seen, staging, runner, history>>

FailOutbox(S) ==
    outbox' = [c \in Children |->
                  IF c \in S THEN [outbox[c] EXCEPT !.status = "failed"] ELSE outbox[c]]

\* Mutant: the children of the run are not asked for by their status.
CancelsEnded(S) ==
    /\ child' = [c \in Children |->
          IF c \in S /\ child[c] \notin {"absent", "running", "synthesizing"}
          THEN "cancelled" ELSE child[c]]
    /\ cancel_requested' =
          cancel_requested \cup {c \in S : child[c] \in {"running", "synthesizing"}}

\* Queued children end, the others are asked to.
CancelActive(S) ==
    /\ child' = [c \in Children |-> IF c \in S /\ child[c] = "queued" THEN "cancelled"
                                    ELSE child[c]]
    /\ cancel_requested' =
          cancel_requested \cup {c \in S : child[c] \in {"running", "synthesizing"}}

\* The deadline passes.
JoinTimesOut(a) ==
    LET family == Family(run_of[a]) IN
    /\ attempt[a] = "waiting" /\ \E c \in family : IsActive(c)
    /\ CancelActive(family)
    /\ FailOutbox({c \in family : /\ child[c] = "queued"
                                  /\ outbox[c].status \in {"pending", "sending", "sent"}})
    /\ Goes(a, "waited")
    /\ UNCHANGED <<agent_runs, child_pipeline, mail, relay, task, seen, staging, runner, history>>

ReadsChildren(a) ==
    /\ attempt[a] = "waited"
    /\ seen' = [seen EXCEPT ![a] = [c \in Children |->
                   IF c \in Family(run_of[a]) THEN child[c] ELSE "absent"]]
    /\ Goes(a, "read")
    /\ UNCHANGED <<rows, dispatch, task, staging, runner, history>>

StageStatus(status) == IF status \in Terminal THEN status ELSE "partial"

ProjectsChildren(a) ==
    /\ attempt[a] = "read"
    /\ task' = [c \in Children |-> IF seen[a][c] = "absent" THEN task[c]
                                   ELSE StageStatus(seen[a][c])]
    /\ seen' = [seen EXCEPT ![a] = NothingSeen]
    /\ Goes(a, "joined")
    /\ UNCHANGED <<rows, dispatch, staging, runner, history>>

\* The end of a run: rows still pending are skipped, as stages that were not reached.
SweepStages(a) ==
    task' = [c \in Children |->
                IF c \in Family(run_of[a]) /\ task[c] = "pending" THEN "skipped" ELSE task[c]]

Succeeds(a) ==
    /\ attempt[a] = "joined"
    /\ Goes(a, "ended")
    /\ SweepStages(a)
    /\ UNCHANGED <<rows, dispatch, seen, staging, runner, history>>

Running(a) == attempt[a] \in {"dispatch", "counted", "staged", "relaying", "waiting", "waited",
                              "read", "joined"}

\* An open transaction is rolled back, a relay of the join stops where it is.
Drops(a) ==
    /\ relay' = [relay EXCEPT ![a] = NoBatch]
    /\ seen' = [seen EXCEPT ![a] = NothingSeen]
    /\ lock' = IF lock = a THEN None ELSE lock
    /\ counted' = [counted EXCEPT ![a] = NothingCounted]
    /\ UNCHANGED <<rows, outbox, mail, task, unselected, runner, history>>

\* A stage raises, or the attempt finds that it was replaced.
Fails(a) == Running(a) /\ Goes(a, "failing") /\ Drops(a)

AttemptDies(a) ==
    (Running(a) \/ attempt[a] \in {"failing", "cancelled"}) /\ Goes(a, "ended") /\ Drops(a)

\* The handler of a failed run; its own failure is swallowed.  No token is asked for.
cancel_cluster_children(a) ==
    LET family == Family(run_of[a]) IN
    /\ attempt[a] = "failing"
    /\ Goes(a, "cancelled")
    /\ \/ /\ CancelActive(family)
          /\ FailOutbox({c \in family : outbox[c].status \in {"pending", "sending"}})
       \/ UNCHANGED <<child, cancel_requested, outbox>>
    /\ UNCHANGED <<agent_runs, child_pipeline, mail, relay, task, seen, staging, runner, history>>

\* Raises for an attempt that was replaced, unless it has no token (the first has none).
FailsRun(a) ==
    /\ attempt[a] = "cancelled"
    /\ Goes(a, "ended")
    /\ SweepStages(a) \/ UNCHANGED task
    /\ UNCHANGED <<rows, dispatch, seen, staging, runner, history>>

\* The cancel endpoint of an investigation.
request_cancel(c) ==
    /\ IsActive(c)
    /\ cancel_requested' = cancel_requested \cup {c}
    /\ UNCHANGED <<child, agent_runs, child_pipeline, dispatch, parents, runner,
                   history>>

(***************************************************************************)
(* The runner (run_investigation).                                         *)
(***************************************************************************)
RunnerGoes(r, phase, c) == runner' = [runner EXCEPT ![r] = [phase |-> phase, child |-> c]]
At(r, phase) == runner[r].phase = phase
Of(r) == runner[r].child
Live(r, c) == Of(r) = c /\ runner[r].phase \in {"claimed", "graph", "synthesis", "failing"}

\* UPDATE ... WHERE status = 'queued'.
BecomesRunning(r, c) ==
    /\ child[c] = "queued"
    /\ child' = [child EXCEPT ![c] = "running"]
    /\ claimed' = claimed \cup {c}
    /\ RunnerGoes(r, "claimed", c)

Claims(r, c) ==
    /\ At(r, "idle") /\ c \in mail
    /\ BecomesRunning(r, c)
    /\ UNCHANGED <<cancel_requested, agent_runs, child_pipeline, dispatch, parents,
                   resumed, overtaken, late, async>>

\* The edges of the status of a pipeline row (workflow_run_state.TRANSITIONS).
Edges == {<<"pending", "running">>, <<"pending", "failed">>, <<"running", "completed">>,
          <<"running", "failed">>, <<"running", "pending">>, <<"completed", "failed">>,
          <<"completed", "running">>, <<"failed", "running">>, <<"failed", "pending">>}

PipelineOf(status) == IF status = "cancelled" THEN "failed" ELSE status

MayBecome(c, status) ==
    \/ child_pipeline[c] \in {"absent", status}
    \/ <<child_pipeline[c], status>> \in Edges

Transition(c, status) ==
    child_pipeline' = IF child_pipeline[c] = "absent" THEN child_pipeline
                      ELSE [child_pipeline EXCEPT ![c] = status]

\* The pipeline row and its stage rows, unless they are there.
_create_stage_rows(r) ==
    /\ At(r, "claimed")
    /\ child_pipeline' = IF child_pipeline[Of(r)] = "absent"
                         THEN [child_pipeline EXCEPT ![Of(r)] = "running"] ELSE child_pipeline
    /\ RunnerGoes(r, "graph", Of(r))
    /\ UNCHANGED <<child, cancel_requested, agent_runs, dispatch, parents, history>>

\* The ownership check, the startup or a node of the graph raises.
Raises(r) ==
    /\ runner[r].phase \in {"claimed", "graph", "synthesis"}
    /\ RunnerGoes(r, "failing", Of(r))
    /\ UNCHANGED <<rows, dispatch, parents, history>>

\* The synthesis node begins with a status write that is not guarded (and may
\* fail): set_investigation_status.
set_investigation_status(r) ==
    /\ At(r, "graph")
    /\ child' \in {child, [child EXCEPT ![Of(r)] = "synthesizing"]}
    /\ RunnerGoes(r, "synthesis", Of(r))
    /\ UNCHANGED <<cancel_requested, agent_runs, child_pipeline, dispatch, parents,
                   history>>

\* Mutant: a request to cancel that came after the last node is not seen.
IgnoresCancel(c, raised) == IF raised THEN "failed" ELSE "completed"

_terminal_status(c, raised) ==
    IF raised THEN "failed" ELSE IF c \in cancel_requested THEN "cancelled" ELSE "completed"

\* Mutant: no look at the status of the row under its lock.
AlwaysSettles(c) == child[c] # "absent"

NotSettled(c) == IsActive(c)

\* The row is terminal already: its pipeline follows it, if it may.
Reconciles(c) ==
    /\ IF MayBecome(c, PipelineOf(child[c])) THEN Transition(c, PipelineOf(child[c]))
       ELSE UNCHANGED child_pipeline
    /\ UNCHANGED <<child, agent_runs>>

\* The row, its pipeline and the ledger entry in one transaction.
Settles(c, raised) ==
    LET status == _terminal_status(c, raised) IN
    /\ MayBecome(c, PipelineOf(status))
    /\ child' = [child EXCEPT ![c] = status]
    /\ agent_runs' = [agent_runs EXCEPT ![c] = @ + 1]
    /\ Transition(c, PipelineOf(status))

_finalize(c, raised) == IF NotSettled(c) THEN Settles(c, raised) ELSE Reconciles(c)

Finalizes(r) ==
    /\ runner[r].phase \in {"synthesis", "failing"}
    /\ _finalize(Of(r), At(r, "failing"))
    /\ runner' = [runner EXCEPT ![r] = Idle]
    /\ UNCHANGED <<cancel_requested, dispatch, parents, history>>

RunnerDies(r) ==
    /\ ~At(r, "idle")
    /\ runner' = [runner EXCEPT ![r] = Idle]
    /\ UNCHANGED <<rows, dispatch, parents, history>>

\* Mutant: a child that was never started is requeued as well.
AnyPipeline(c) == c \in Children

\* The pipeline row must be there, and may become pending again.
HasPipeline(c) == child_pipeline[c] # "absent"

\* The task of an operator: requeued, and claimed by the same task unless a
\* delivery comes first.
resume_investigation(r, c) ==
    /\ At(r, "idle") /\ child[c] \in {"failed", "cancelled"}
    /\ HasPipeline(c) /\ MayBecome(c, "pending")
    /\ resumed[c] < MaxResumes
    /\ child' = [child EXCEPT ![c] = "queued"]
    /\ cancel_requested' = cancel_requested \ {c}
    /\ Transition(c, "pending")
    /\ resumed' = [resumed EXCEPT ![c] = @ + 1]
    /\ RunnerGoes(r, "requeued", c)
    /\ UNCHANGED <<agent_runs, dispatch, parents, claimed, overtaken, late, async>>

ResumeClaims(r) ==
    /\ At(r, "requeued")
    /\ IF child[Of(r)] = "queued"
       THEN BecomesRunning(r, Of(r)) /\ Transition(Of(r), "running")
       ELSE /\ runner' = [runner EXCEPT ![r] = Idle]
            /\ UNCHANGED <<child, child_pipeline, claimed>>
    /\ UNCHANGED <<cancel_requested, agent_runs, dispatch, parents, resumed,
                   overtaken, late, async>>

(***************************************************************************)
(* The reaper (reap_stale_investigations).                                 *)
(***************************************************************************)
\* The rows whose heartbeat can be old: the claim, or the creation of a queued row.
MayBeStale == ActiveChildren

\* One row after the other, without a second look at its heartbeat: a row that has
\* ended was active when a tick read it.
Reaps(c) ==
    /\ c \in MayBeStale \/ child[c] \in Terminal
    /\ _finalize(c, TRUE)
    /\ IF IsActive(c)
       THEN /\ FailOutbox({d \in {c} : outbox[d].status \in {"pending", "sending", "sent"}})
            /\ overtaken' = IF \E r \in Runners : Live(r, c) THEN overtaken \cup {c}
                            ELSE overtaken
       ELSE UNCHANGED <<outbox, overtaken>>
    /\ UNCHANGED <<cancel_requested, mail, relay, parents, runner, claimed, resumed, late, async>>

(***************************************************************************)
(* Specification.                                                          *)
(***************************************************************************)
Relay(x) ==
    \/ RelayClaims(x) \/ \E c \in Children : Publishes(x, c)
    \/ MarksSent(x) \/ MarkingRaises(x) \/ DispatchFails(x)

wait_for_cluster_children(a) ==
    \/ JoinRelays(a) \/ JoinWaits(a) \/ AllTerminal(a) \/ JoinTimesOut(a)
    \/ ReadsChildren(a) \/ ProjectsChildren(a)

Run(a) ==
    \/ Begins(a) \/ CountsChildren(a) \/ stage_cluster_investigations(a)
    \/ wait_for_cluster_children(a) \/ Defers(a) \/ Succeeds(a)
    \/ Fails(a) \/ AttemptDies(a) \/ cancel_cluster_children(a) \/ FailsRun(a)

run_investigation(r) ==
    \/ \E c \in Children : Claims(r, c)
    \/ _create_stage_rows(r) \/ Raises(r) \/ set_investigation_status(r) \/ Finalizes(r)

resume_agent_child_investigation(r) ==
    \/ \E c \in Children : resume_investigation(r, c)
    \/ ResumeClaims(r)

reap_stale_investigations == \E c \in Children : Reaps(c)

Next ==
    \/ \E a \in Attempts : Run(a)
    \/ \E x \in Relayers : Relay(x) \/ RelayStops(x)
    \/ \E c \in Children : request_cancel(c)
    \/ \E r \in Runners :
          run_investigation(r) \/ resume_agent_child_investigation(r) \/ RunnerDies(r)
    \/ reap_stale_investigations

Spec == Init /\ [][Next]_vars

(***************************************************************************)
(* Properties.                                                             *)
(***************************************************************************)
RelayRow ==
    [batch : SUBSET Children, at : Children \cup {None},
     said : {"nothing", "accepted", "refused"}]
RunnerRow ==
    {Idle} \cup [phase : {"requeued", "claimed", "graph", "synthesis", "failing"},
                 child : Children]
Phase == {"new", "dispatch", "counted", "staged", "relaying", "waiting", "waited", "read",
          "joined", "failing", "cancelled", "ended"}

\* The values the rows, the broker and the processes can have.
TypeOK ==
    /\ child \in [Children -> {"absent"} \cup Active \cup Terminal]
    /\ cancel_requested \subseteq Children
    /\ agent_runs \in [Children -> Nat]
    /\ child_pipeline \in [Children -> {"absent", "pending", "running", "completed", "failed"}]
    /\ task \in [Children -> {"absent", "skipped", "pending", "partial"} \cup Terminal]
    /\ outbox \in [Children -> [status : {"absent", "pending", "sending", "sent", "failed"},
                                attempts : 0 .. max_publishes]]
    /\ mail \subseteq Children
    /\ relay \in [Relayers -> RelayRow]
    /\ unselected \subseteq Children /\ attempt \in [Attempts -> Phase]
    /\ seen \in [Attempts -> [Children -> {"absent"} \cup Active \cup Terminal]]
    /\ lock \in Attempts \cup {None}
    /\ counted \in [Attempts -> [active : Nat, daily : Nat]]
    /\ runner \in [Runners -> RunnerRow]
    /\ claimed \subseteq Children /\ resumed \in [Children -> 0 .. MaxResumes]
    /\ overtaken \subseteq Children /\ late \subseteq Children /\ async \subseteq Parents

\* A child is executed by one runner at a time, however often its message is
\* delivered and its task resumed, unless the reaper failed it under a runner
\* (investigation claim; architecture/AGENTIC_RUNTIME.md: "duplicate deliveries
\* are rejected by the child's atomic queued-to-running claim").
OneRunner ==
    \A c \in Children, r, s \in Runners :
        Live(r, c) /\ Live(s, c) => r = s \/ c \in overtaken

\* One AgentRun per start of a child, and none before it has ended, unless the
\* reaper failed it under a runner (_finalize).
LedgerFollowsChild ==
    \A c \in Children \ overtaken :
        agent_runs[c] <= (IF IsActive(c) THEN resumed[c] ELSE 1 + resumed[c])

\* Neither resumed nor reaped under a live runner.
Unrevived(c) == c \notin overtaken /\ resumed[c] = 0

\* The active children of the project that were neither resumed nor reaped
\* under a runner, and the children of the day, are within the budgets, though
\* several runs are staged at once (the project row lock).
CapacityHolds ==
    /\ Cardinality({c \in ActiveChildren : Unrevived(c)}) <= max_active
    /\ Cardinality(Staged) <= max_daily

\* What a stage row of the parent says of the end of a child stays true, also
\* when two attempts join and one writes what it has read earlier.
TaskTellsTheEnd ==
    \A c \in Children : task[c] \in Terminal /\ Unrevived(c) => child[c] = task[c]

\* A child that a join reported as timed out is not completed afterwards:
\* the join asks before it reports, and the finalizer reads the request under
\* the lock of the row.  A child a later attempt staged was not asked.
PartialNeverCompletes ==
    \A c \in Children :
        task[c] = "partial" /\ child[c] = "completed" => ~Unrevived(c) \/ c \in late

\* A child that ended before any runner claimed it (cancelled, given up, too
\* old) stays as it is: no late message, resume or status write revives it.
EndedUnclaimedIsFinal ==
    [][\A c \in Children \ claimed : child[c] \in Terminal => child'[c] = child[c]]_vars

\* A child as an item of AtLeastOnce: its work was taken up when a runner claimed
\* it, it ended when its row did, and an operator may resume it.  A child that
\* was reaped under a live runner is given up, whatever that runner writes yet.
Item(c) ==
    CASE c \in overtaken -> "dead"
      [] IsActive(c) /\ c \notin overtaken -> "open"
      [] child[c] = "absent" /\ c \notin overtaken -> "none"
      [] child[c] = "completed" /\ c \notin overtaken -> "done"
      [] OTHER -> "dead"

Outbox == INSTANCE AtLeastOnce WITH
    Items <- Children, MayReopen <- Children,
    state <- [c \in Children |-> Item(c)], performed <- claimed

\* No child is completed that no runner claimed, and a completed one stays
\* completed: neither the reaper, a cancel, a late relay nor the status write of
\* the synthesis takes its result back (_finalize; persistence.py).
ImplementsAtLeastOnce == Outbox!Spec
=============================================================================
