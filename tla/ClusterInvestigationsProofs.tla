---------------------- MODULE ClusterInvestigationsProofs ----------------------
(***************************************************************************)
(* Proofs about ClusterInvestigations, for any runs, children, attempts,   *)
(* runners and relay tasks.                                                *)
(***************************************************************************)
EXTENDS ClusterInvestigations, FiniteSetTheorems, TLAPS

(***************************************************************************)
(* Types.                                                                  *)
(***************************************************************************)
\* The types of the rows of the children.
RowTypes ==
    /\ child \in [Children -> {"absent"} \cup Active \cup Terminal]
    /\ cancel_requested \subseteq Children
    /\ agent_runs \in [Children -> Nat]
    /\ child_pipeline \in [Children -> {"absent", "pending", "running", "completed", "failed"}]

DispatchTypes ==
    /\ outbox \in [Children -> [status : {"absent", "pending", "sending", "sent", "failed"},
                                attempts : 0 .. max_publishes]]
    /\ mail \subseteq Children
    /\ relay \in [Relayers -> RelayRow]

ParentTypes ==
    /\ task \in [Children -> {"absent", "skipped", "pending", "partial"} \cup Terminal]
    /\ attempt \in [Attempts -> Phase]
    /\ seen \in [Attempts -> [Children -> {"absent"} \cup Active \cup Terminal]]
    /\ unselected \subseteq Children
    /\ lock \in Attempts \cup {None}
    /\ counted \in [Attempts -> [active : Nat, daily : Nat]]

HistoryTypes ==
    /\ claimed \subseteq Children /\ resumed \in [Children -> 0 .. MaxResumes]
    /\ overtaken \subseteq Children /\ late \subseteq Children /\ async \subseteq Parents

RunnerTypes == runner \in [Runners -> RunnerRow]

\* The type invariant is the types of its parts.
LEMMA TypesOfParts ==
    TypeOK <=> RowTypes /\ DispatchTypes /\ ParentTypes /\ HistoryTypes /\ RunnerTypes
BY DEF TypeOK, RowTypes, DispatchTypes, ParentTypes, HistoryTypes, RunnerTypes

\* What the steps of the parents, the relays and the broker leave alone.
Aside == UNCHANGED <<rows, runner, history>>

\* The steps that change a row of a child, a runner or the history.
RowStep ==
    \/ \E a \in Attempts :
          stage_cluster_investigations(a) \/ JoinTimesOut(a) \/ cancel_cluster_children(a)
    \/ \E x \in Relayers : DispatchFails(x)
    \/ \E c \in Children : request_cancel(c) \/ Reaps(c)
    \/ \E r \in Runners :
          \/ \E c \in Children : Claims(r, c) \/ resume_investigation(r, c)
          \/ _create_stage_rows(r) \/ Raises(r) \/ set_investigation_status(r)
          \/ Finalizes(r) \/ ResumeClaims(r) \/ RunnerDies(r)

\* Every other step leaves the rows of the children, the runners and the history alone.
LEMMA RowSteps ==
    ASSUME [Next]_vars
    PROVE  Aside \/ RowStep
<1>1. CASE UNCHANGED vars
    BY <1>1 DEF vars, Aside
<1>2. ASSUME NEW a \in Attempts, Run(a)
      PROVE  Aside \/ RowStep
    <2>1. \/ Begins(a) \/ CountsChildren(a) \/ Defers(a) \/ Succeeds(a) \/ Fails(a)
          \/ AttemptDies(a) \/ FailsRun(a) \/ JoinRelays(a) \/ JoinWaits(a) \/ AllTerminal(a)
          \/ ReadsChildren(a) \/ ProjectsChildren(a)
          \/ stage_cluster_investigations(a) \/ JoinTimesOut(a) \/ cancel_cluster_children(a)
        BY <1>2 DEF Run, wait_for_cluster_children
    <2>2. CASE Begins(a) \/ CountsChildren(a) \/ Defers(a) \/ Succeeds(a)
        BY <2>2 DEF Begins, CountsChildren, Defers, Succeeds, Aside
    <2>3. CASE Fails(a) \/ AttemptDies(a) \/ FailsRun(a)
        BY <2>3 DEF Fails, AttemptDies, Drops, FailsRun, Aside
    <2>4. CASE JoinRelays(a) \/ JoinWaits(a) \/ AllTerminal(a)
        BY <2>4 DEF JoinRelays, ClaimsBatch, JoinWaits, AllTerminal, Aside
    <2>5. CASE ReadsChildren(a) \/ ProjectsChildren(a)
        BY <2>5 DEF ReadsChildren, ProjectsChildren, Aside
    <2> QED BY <2>1, <2>2, <2>3, <2>4, <2>5 DEF RowStep
<1>3. ASSUME NEW x \in Relayers, Relay(x) \/ RelayStops(x)
      PROVE  Aside \/ RowStep
    <2>1. CASE RelayClaims(x) \/ RelayStops(x)
        BY <2>1 DEF RelayClaims, ClaimsBatch, RelayStops, Aside
    <2>2. CASE (\E c \in Children : Publishes(x, c)) \/ MarksSent(x) \/ MarkingRaises(x)
        BY <2>2 DEF Publishes, MarksSent, MarkingRaises, Aside
    <2>3. CASE DispatchFails(x)
        BY <2>3 DEF RowStep
    <2> QED BY <1>3, <2>1, <2>2, <2>3 DEF Relay
<1>4. ASSUME NEW c \in Children, request_cancel(c) \/ Reaps(c)
      PROVE  RowStep
    BY <1>4 DEF RowStep
<1>5. ASSUME NEW r \in Runners,
             run_investigation(r) \/ resume_agent_child_investigation(r) \/ RunnerDies(r)
      PROVE  RowStep
    BY <1>5 DEF RowStep, run_investigation, resume_agent_child_investigation
<1> QED
    BY <1>1, <1>2, <1>3, <1>4, <1>5 DEF Next, reap_stale_investigations

(***************************************************************************)
(* The life of a child.                                                    *)
(***************************************************************************)
\* What holds of child c between its row, its runners and its history.
Sound(c) ==
    /\ \A r \in Runners : Live(r, c) /\ c \notin overtaken
          => child[c] \in {"running", "synthesizing"}
    /\ \A r, s \in Runners : Live(r, c) /\ Live(s, c) => r = s \/ c \in overtaken
    /\ \A r \in Runners : Of(r) = c => c \in claimed
    /\ child[c] = "absent"
          => c \notin claimed /\ c \notin overtaken /\ agent_runs[c] = 0 /\ resumed[c] = 0
    /\ c \notin claimed => child_pipeline[c] = "absent"
    /\ c \notin overtaken
          => agent_runs[c] <= (IF IsActive(c) THEN resumed[c] ELSE 1 + resumed[c])

\* What a step may do to child c.
Moves(c) ==
    /\ child[c] \in Terminal /\ Unrevived(c)' => child'[c] = child[c]
    /\ child[c] \in Terminal /\ c \notin claimed => child'[c] = child[c]
    /\ IsActive(c)' /\ Unrevived(c)' => IsActive(c) \/ child[c] = "absent"
    /\ child'[c] # child[c] /\ child[c] = "absent"
          => \E a \in Attempts : stage_cluster_investigations(a)
    /\ child'[c] = "absent" => child[c] = "absent"
    /\ Unrevived(c)' => Unrevived(c)
    /\ c \in cancel_requested /\ Unrevived(c)' => c \in cancel_requested'
    /\ c \in cancel_requested /\ child'[c] = "completed" => child[c] = "completed"
    /\ late \subseteq late'

RowsTyped == RowTypes /\ HistoryTypes /\ RunnerTypes

\* Such a step keeps what holds of a child.
LEMMA AsideSound ==
    ASSUME RowsTyped, NEW c \in Children, Sound(c), Aside
    PROVE  RowsTyped' /\ Sound(c)' /\ Moves(c)
BY DEF RowsTyped, RowTypes, HistoryTypes, RunnerTypes, Sound, Moves, Aside, rows, history,
       Live, Of, IsActive, Unrevived, Active, Terminal

\* Staging inserts absent children as queued and nothing else.
LEMMA StagingSound ==
    ASSUME ClusterAssumption, RowsTyped, NEW c \in Children, Sound(c), NEW a \in Attempts,
           stage_cluster_investigations(a)
    PROVE  RowsTyped' /\ Sound(c)' /\ Moves(c)
<1>1. PICK S \in SUBSET {d \in Family(run_of[a]) : child[d] = "absent"} :
          /\ child' = [d \in Children |-> IF d \in S THEN "queued" ELSE child[d]]
          /\ late' = late \cup {d \in S : task[d] # "absent"}
    BY DEF stage_cluster_investigations
<1>2. UNCHANGED <<cancel_requested, agent_runs, child_pipeline, runner, claimed, resumed,
                  overtaken, async>>
    BY DEF stage_cluster_investigations
<1>3. S \subseteq Children /\ \A d \in S : child[d] = "absent"
    BY DEF Family
<1>4. RowsTyped'
    BY <1>1, <1>2, <1>3 DEF RowsTyped, RowTypes, HistoryTypes, RunnerTypes, Active
<1>5. Moves(c)
    BY <1>1, <1>2, <1>3 DEF RowsTyped, RowTypes, Moves, IsActive, Unrevived, Active, Terminal
<1>6. Sound(c)'
    BY <1>1, <1>2, <1>3 DEF RowsTyped, RowTypes, HistoryTypes, RunnerTypes, Sound, Live, Of,
       IsActive, Active
<1> QED BY <1>4, <1>5, <1>6

\* The cancellation of a family: queued children end, the others are asked to.
LEMMA CancelSound ==
    ASSUME RowsTyped, NEW c \in Children, Sound(c), NEW S \in SUBSET Children,
           CancelActive(S) \/ UNCHANGED <<child, cancel_requested>>,
           UNCHANGED <<agent_runs, child_pipeline, runner, history>>
    PROVE  RowsTyped' /\ Sound(c)' /\ Moves(c)
<1>1. /\ \/ child'[c] = child[c]
         \/ child[c] = "queued" /\ child'[c] = "cancelled"
      /\ cancel_requested \subseteq cancel_requested'
    BY DEF CancelActive, RowsTyped, RowTypes
<1>2. RowsTyped'
    BY DEF CancelActive, RowsTyped, RowTypes, HistoryTypes, RunnerTypes, Active, Terminal, history
<1>3. Moves(c)
    BY <1>1 DEF RowsTyped, RowTypes, Moves, IsActive, Unrevived, Active, Terminal, history
<1>4. Sound(c)'
    BY <1>1 DEF RowsTyped, RowTypes, HistoryTypes, RunnerTypes, Sound, Live, Of, IsActive, Active,
       history
<1> QED BY <1>2, <1>3, <1>4

\* A dispatch that is given up fails its child only while it is queued.
LEMMA DispatchFailsSound ==
    ASSUME RowsTyped, NEW c \in Children, Sound(c), NEW x \in Relayers, DispatchFails(x)
    PROVE  RowsTyped' /\ Sound(c)' /\ Moves(c)
<1>1. \/ child' = child
      \/ child[relay[x].at] = "queued" /\ child' = [child EXCEPT ![relay[x].at] = "failed"]
    BY DEF DispatchFails, NotStarted
<1>2. UNCHANGED <<cancel_requested, agent_runs, child_pipeline, runner, history>>
    BY DEF DispatchFails
<1>3. child'[c] = child[c] \/ (child[c] = "queued" /\ child'[c] = "failed")
    BY <1>1 DEF RowsTyped, RowTypes
<1>4. RowsTyped'
    BY <1>1, <1>2 DEF RowsTyped, RowTypes, HistoryTypes, RunnerTypes, Active, Terminal, history
<1>5. Moves(c)
    BY <1>2, <1>3 DEF Moves, IsActive, Unrevived, Active, Terminal, history
<1>6. Sound(c)'
    BY <1>2, <1>3 DEF RowsTyped, RowTypes, HistoryTypes, RunnerTypes, Sound, Live, Of, IsActive,
       Active, history
<1> QED BY <1>4, <1>5, <1>6

\* A request to cancel changes no status.
LEMMA RequestSound ==
    ASSUME RowsTyped, NEW c \in Children, Sound(c), NEW d \in Children, request_cancel(d)
    PROVE  RowsTyped' /\ Sound(c)' /\ Moves(c)
BY DEF RowsTyped, RowTypes, HistoryTypes, RunnerTypes, Sound, Moves, request_cancel, history,
       Live, Of, IsActive, Unrevived, Active, Terminal

\* A queued child is claimed by runner r, and its pipeline row may follow.
LEMMA ClaimSound ==
    ASSUME ClusterAssumption, RowsTyped, NEW c \in Children, Sound(c),
           NEW r \in Runners, NEW d \in Children, Sound(d), BecomesRunning(r, d),
           \/ UNCHANGED child_pipeline
           \/ d \in claimed /\ Transition(d, "running"),
           UNCHANGED <<cancel_requested, agent_runs, resumed, overtaken, late, async>>
    PROVE  RowsTyped' /\ Sound(c)' /\ Moves(c)
<1>1. /\ child[d] = "queued" /\ child' = [child EXCEPT ![d] = "running"]
      /\ claimed' = claimed \cup {d}
      /\ runner' = [runner EXCEPT ![r] = [phase |-> "claimed", child |-> d]]
    BY DEF BecomesRunning, RunnerGoes
<1>2. /\ child_pipeline' \in [Children -> {"absent", "pending", "running", "completed", "failed"}]
      /\ c \notin claimed => child_pipeline'[c] = child_pipeline[c]
    BY DEF Transition, RowsTyped, RowTypes
<1>3. RowsTyped'
    BY <1>1, <1>2 DEF RowsTyped, RowTypes, HistoryTypes, RunnerTypes, RunnerRow, Active
<1>4. Moves(c)
    BY <1>1 DEF RowsTyped, RowTypes, Moves, IsActive, Unrevived, Active, Terminal
<1>5. \A s \in Runners : s # r => (Live(s, c)' <=> Live(s, c)) /\ Of(s)' = Of(s)
    BY <1>1 DEF RowsTyped, RunnerTypes, Live, Of
<1>6. Of(r)' = d
    BY <1>1 DEF RowsTyped, RunnerTypes, Of
<1>7. CASE c = d
    <2>1. \A s \in Runners : Live(s, c) => c \in overtaken
        BY <1>1, <1>7 DEF Sound
    <2> QED
        BY <1>1, <1>2, <1>3, <1>4, <1>5, <1>7, <2>1
        DEF RowsTyped, RowTypes, HistoryTypes, Sound, IsActive, Active
<1>8. CASE c # d
    <2>1. ~Live(r, c)' /\ child'[c] = child[c]
        BY <1>1, <1>6, <1>8 DEF Live, RowsTyped, RowTypes
    <2> QED
        BY <1>1, <1>2, <1>3, <1>4, <1>5, <1>6, <1>8, <2>1
        DEF RowsTyped, RowTypes, HistoryTypes, Sound, IsActive, Active
<1> QED BY <1>3, <1>4, <1>7, <1>8

\* A runner goes on with its child, or stops.
LEMMA RunnerGoesSound ==
    ASSUME ClusterAssumption, RowsTyped, NEW c \in Children, NEW r \in Runners,
           \/ runner' = [runner EXCEPT ![r] = Idle]
           \/ /\ runner[r].phase \in {"claimed", "graph", "synthesis", "failing"}
              /\ \E phase \in {"graph", "synthesis", "failing"} :
                    runner' = [runner EXCEPT ![r] = [phase |-> phase, child |-> Of(r)]]
    PROVE  /\ RunnerTypes'
           /\ \A s \in Runners : Live(s, c)' => Live(s, c)
           /\ \A s \in Runners : Of(s)' = c => Of(s) = c
<1>1. CASE runner' = [runner EXCEPT ![r] = Idle]
    <2>1. RunnerTypes'
        BY <1>1 DEF RowsTyped, RunnerTypes, RunnerRow
    <2>2. \A s \in Runners : s # r => runner'[s] = runner[s]
        BY <1>1 DEF RowsTyped, RunnerTypes
    <2>3. runner'[r].phase = "idle" /\ Of(r)' = None /\ None # c
        BY <1>1 DEF RowsTyped, RunnerTypes, Idle, Of, ClusterAssumption
    <2>4. ~Live(r, c)'
        BY <2>3 DEF Live
    <2> QED BY <2>1, <2>2, <2>3, <2>4 DEF Live, Of
<1>2. CASE /\ runner[r].phase \in {"claimed", "graph", "synthesis", "failing"}
           /\ \E phase \in {"graph", "synthesis", "failing"} :
                 runner' = [runner EXCEPT ![r] = [phase |-> phase, child |-> Of(r)]]
    <2>1. PICK phase \in {"graph", "synthesis", "failing"} :
              runner' = [runner EXCEPT ![r] = [phase |-> phase, child |-> Of(r)]]
        BY <1>2
    <2>2. Of(r) \in Children
        BY <1>2 DEF RowsTyped, RunnerTypes, RunnerRow, Idle, Of
    <2>3. RunnerTypes'
        BY <2>1, <2>2 DEF RowsTyped, RunnerTypes, RunnerRow
    <2>4. \A s \in Runners : s # r => runner'[s] = runner[s]
        BY <2>1 DEF RowsTyped, RunnerTypes
    <2>5. Of(r)' = Of(r)
        BY <2>1 DEF RowsTyped, RunnerTypes, Of
    <2> QED BY <1>2, <2>3, <2>4, <2>5 DEF Live, Of
<1> QED BY <1>1, <1>2

\* A runner creates its pipeline and stage rows, raises or dies.
LEMMA StageRowsSound ==
    ASSUME ClusterAssumption, RowsTyped, NEW c \in Children, Sound(c), NEW r \in Runners,
           _create_stage_rows(r) \/ Raises(r) \/ RunnerDies(r)
    PROVE  RowsTyped' /\ Sound(c)' /\ Moves(c)
<1>1. /\ RunnerTypes'
      /\ \A s \in Runners : Live(s, c)' => Live(s, c)
      /\ \A s \in Runners : Of(s)' = c => Of(s) = c
    BY RunnerGoesSound DEF _create_stage_rows, Raises, RunnerDies, RunnerGoes, At
<1>2. UNCHANGED <<child, cancel_requested, agent_runs, history>>
    BY DEF _create_stage_rows, Raises, RunnerDies, rows
<1>3. /\ child_pipeline' \in [Children -> {"absent", "pending", "running", "completed", "failed"}]
      /\ c \notin claimed => child_pipeline'[c] = child_pipeline[c]
    <2>1. CASE _create_stage_rows(r)
        <3>1. Of(r) = c => c \in claimed
            BY DEF Sound
        <3> QED BY <2>1, <3>1 DEF _create_stage_rows, RowsTyped, RowTypes
    <2>2. CASE Raises(r) \/ RunnerDies(r)
        BY <2>2 DEF Raises, RunnerDies, rows, RowsTyped, RowTypes
    <2> QED BY <2>1, <2>2
<1>4. RowsTyped'
    BY <1>1, <1>2, <1>3 DEF RowsTyped, RowTypes, HistoryTypes, history
<1>5. Moves(c)
    BY <1>2 DEF Moves, IsActive, Unrevived, history
<1>6. Sound(c)'
    BY <1>1, <1>2, <1>3 DEF Sound, IsActive, history
<1> QED BY <1>4, <1>5, <1>6

\* The unguarded status write, by a runner that was not overtaken, meets a running row.
LEMMA SynthesisSound ==
    ASSUME ClusterAssumption, RowsTyped, NEW c \in Children, Sound(c), NEW r \in Runners,
           set_investigation_status(r)
    PROVE  RowsTyped' /\ Sound(c)' /\ Moves(c)
<1>1. /\ RunnerTypes'
      /\ \A s \in Runners : Live(s, c)' => Live(s, c)
      /\ \A s \in Runners : Of(s)' = c => Of(s) = c
    BY RunnerGoesSound DEF set_investigation_status, RunnerGoes, At
<1>2. UNCHANGED <<cancel_requested, agent_runs, child_pipeline, history>>
    BY DEF set_investigation_status
<1>3. /\ RowTypes'
      /\ \/ child'[c] = child[c]
         \/ Live(r, c) /\ c \in claimed /\ child'[c] = "synthesizing"
    <2>1. child' = child \/ child' = [child EXCEPT ![Of(r)] = "synthesizing"]
        BY DEF set_investigation_status
    <2>2. Of(r) = c => Live(r, c) /\ c \in claimed
        BY DEF set_investigation_status, At, Live, Sound
    <2> QED BY <1>2, <2>1, <2>2 DEF RowsTyped, RowTypes, Active
<1>4. RowsTyped'
    BY <1>1, <1>2, <1>3 DEF RowsTyped, HistoryTypes, history
<1>5. c \notin overtaken /\ Live(r, c) => child[c] \in {"running", "synthesizing"}
    BY DEF Sound
<1>6. Moves(c)
    BY <1>2, <1>3, <1>5 DEF Moves, Sound, IsActive, Unrevived, Active, Terminal, history
<1>7. Sound(c)'
    BY <1>1, <1>2, <1>3, <1>5 DEF Sound, IsActive, Active, history
<1> QED BY <1>4, <1>6, <1>7

\* The finalizer on child d, of a runner or of the reaper.
LEMMA FinalizeRow ==
    ASSUME RowTypes, NEW d \in Children, NEW raised \in BOOLEAN, child[d] # "absent",
           _finalize(d, raised), UNCHANGED cancel_requested
    PROVE  /\ RowTypes'
           /\ \A c \in Children \ {d} : child'[c] = child[c] /\ agent_runs'[c] = agent_runs[c]
           /\ \A c \in Children : child_pipeline[c] = "absent" => child_pipeline'[c] = "absent"
           /\ IsActive(d) => /\ child'[d] \in Terminal
                             /\ agent_runs'[d] = agent_runs[d] + 1
                             /\ d \in cancel_requested => child'[d] # "completed"
           /\ ~IsActive(d) => UNCHANGED <<child, agent_runs>>
<1>1. CASE IsActive(d)
    <2>1. Settles(d, raised)
        BY <1>1 DEF _finalize, NotSettled
    <2> DEFINE status == _terminal_status(d, raised)
    <2>2. status \in Terminal /\ (d \in cancel_requested => status # "completed")
        BY DEF _terminal_status, Terminal
    <2>3. /\ child' = [child EXCEPT ![d] = status]
          /\ agent_runs' = [agent_runs EXCEPT ![d] = @ + 1]
          /\ Transition(d, PipelineOf(status))
        BY <2>1 DEF Settles
    <2>4. PipelineOf(status) \in {"completed", "failed"}
        BY <2>2 DEF PipelineOf, Terminal
    <2> QED BY <1>1, <2>2, <2>3, <2>4 DEF RowTypes, Transition
<1>2. CASE ~IsActive(d)
    <2>1. Reconciles(d)
        BY <1>2 DEF _finalize, NotSettled
    <2>2. child[d] \in Terminal
        BY <1>2 DEF RowTypes, IsActive
    <2>3. PipelineOf(child[d]) \in {"completed", "failed"}
        BY <2>2 DEF PipelineOf, Terminal
    <2>4. UNCHANGED <<child, agent_runs>>
        BY <2>1 DEF Reconciles
    <2>5. UNCHANGED child_pipeline \/ Transition(d, PipelineOf(child[d]))
        BY <2>1 DEF Reconciles
    <2> QED BY <1>2, <2>3, <2>4, <2>5 DEF RowTypes, Transition
<1> QED BY <1>1, <1>2

\* A runner settles the row of its child, or finds it settled, and stops.
LEMMA FinalizesSound ==
    ASSUME ClusterAssumption, RowsTyped, \A d \in Children : Sound(d), NEW c \in Children,
           NEW r \in Runners, Finalizes(r)
    PROVE  RowsTyped' /\ Sound(c)' /\ Moves(c)
<1> DEFINE d == Of(r)
<1>1. d \in Children /\ Live(r, d)
    BY DEF Finalizes, RowsTyped, RunnerTypes, RunnerRow, Idle, Of, Live
<1>2. d \in claimed /\ child[d] # "absent"
    BY <1>1 DEF Sound
<1>3. /\ _finalize(d, At(r, "failing")) /\ At(r, "failing") \in BOOLEAN
      /\ runner' = [runner EXCEPT ![r] = Idle]
      /\ UNCHANGED <<cancel_requested, history>>
    BY DEF Finalizes, At
<1>4. /\ RowTypes'
      /\ c # d => child'[c] = child[c] /\ agent_runs'[c] = agent_runs[c]
      /\ child_pipeline[c] = "absent" => child_pipeline'[c] = "absent"
      /\ IsActive(d) => /\ child'[d] \in Terminal
                        /\ agent_runs'[d] = agent_runs[d] + 1
                        /\ d \in cancel_requested => child'[d] # "completed"
      /\ ~IsActive(d) => UNCHANGED <<child, agent_runs>>
    BY <1>1, <1>2, <1>3, FinalizeRow DEF RowsTyped
<1>5. /\ RunnerTypes'
      /\ \A s \in Runners : Live(s, c)' => Live(s, c)
      /\ \A s \in Runners : Of(s)' = c => Of(s) = c
    BY <1>3, RunnerGoesSound
<1>6. ~Live(r, c)'
    BY <1>3 DEF Live, RowsTyped, RunnerTypes, Idle
<1>7. RowsTyped'
    BY <1>3, <1>4, <1>5 DEF RowsTyped, HistoryTypes, history
<1>8. Moves(c)
    BY <1>1, <1>2, <1>3, <1>4
    DEF Moves, IsActive, Unrevived, Active, Terminal, history, RowsTyped, RowTypes
<1>9. Sound(c)'
    <2>1. Sound(c)
        OBVIOUS
    <2>2. ASSUME NEW s \in Runners, Live(s, c)', c \notin overtaken'
          PROVE  child'[c] \in {"running", "synthesizing"}
        <3>1. Live(s, c) /\ s # r /\ c \notin overtaken
            BY <1>3, <1>5, <1>6, <2>2 DEF history
        <3>2. c # d
            BY <1>1, <2>1, <3>1 DEF Sound
        <3> QED BY <1>4, <2>1, <3>1, <3>2 DEF Sound
    <2>3. c \notin overtaken'
             => agent_runs'[c] <= (IF IsActive(c)' THEN resumed'[c] ELSE 1 + resumed'[c])
        BY <1>1, <1>3, <1>4, <2>1, <1>7
        DEF Sound, IsActive, Active, Terminal, RowsTyped, RowTypes, HistoryTypes, history
    <2>4. child'[c] = "absent" => child[c] = "absent" /\ agent_runs'[c] = agent_runs[c]
        BY <1>2, <1>4 DEF Terminal
    <2> QED BY <1>3, <1>4, <1>5, <2>1, <2>2, <2>3, <2>4 DEF Sound, history
<1> QED BY <1>7, <1>8, <1>9

\* The reaper settles a row; if it had a runner, the child is overtaken from then on.
LEMMA ReapsSound ==
    ASSUME ClusterAssumption, RowsTyped, NEW c \in Children, Sound(c), NEW d \in Children,
           Reaps(d)
    PROVE  RowsTyped' /\ Sound(c)' /\ Moves(c)
<1>1. child[d] # "absent"
    BY DEF Reaps, MayBeStale, ActiveChildren, IsActive, Active, Terminal
<1>2. /\ _finalize(d, TRUE)
      /\ UNCHANGED <<cancel_requested, runner, claimed, resumed, late, async>>
    BY DEF Reaps
<1>3. /\ RowTypes'
      /\ c # d => child'[c] = child[c] /\ agent_runs'[c] = agent_runs[c]
      /\ child_pipeline[c] = "absent" => child_pipeline'[c] = "absent"
      /\ IsActive(d) => /\ child'[d] \in Terminal
                        /\ agent_runs'[d] = agent_runs[d] + 1
                        /\ d \in cancel_requested => child'[d] # "completed"
      /\ ~IsActive(d) => UNCHANGED <<child, agent_runs>>
    BY <1>1, <1>2, FinalizeRow DEF RowsTyped
<1>4. /\ overtaken \subseteq overtaken' /\ overtaken' \subseteq overtaken \cup {d}
      /\ IsActive(d) /\ (\E r \in Runners : Live(r, d)) => d \in overtaken'
    BY DEF Reaps
<1>5. RowsTyped'
    BY <1>2, <1>3, <1>4 DEF RowsTyped, HistoryTypes, RunnerTypes
<1>6. Moves(c)
    BY <1>1, <1>2, <1>3, <1>4
    DEF Moves, IsActive, Unrevived, Active, Terminal, RowsTyped, RowTypes
<1>7. Sound(c)'
    <2>1. \A s \in Runners : (Live(s, c)' <=> Live(s, c)) /\ Of(s)' = Of(s)
        BY <1>2 DEF Live, Of
    <2>2. ASSUME NEW s \in Runners, Live(s, c), c \notin overtaken'
          PROVE  child'[c] \in {"running", "synthesizing"}
        BY <1>3, <1>4, <2>2 DEF Sound
    <2>3. c \notin overtaken'
             => agent_runs'[c] <= (IF IsActive(c)' THEN resumed'[c] ELSE 1 + resumed'[c])
        BY <1>2, <1>3, <1>4, <1>5
        DEF Sound, IsActive, Active, Terminal, RowsTyped, RowTypes, HistoryTypes
    <2>4. child'[c] = "absent"
             => child[c] = "absent" /\ agent_runs'[c] = agent_runs[c] /\ c # d
        BY <1>1, <1>3 DEF Terminal
    <2> QED BY <1>2, <1>3, <1>4, <2>1, <2>2, <2>3, <2>4 DEF Sound
<1> QED BY <1>5, <1>6, <1>7

\* An operator requeues a child that ended after it was claimed.
LEMMA ResumeSound ==
    ASSUME ClusterAssumption, RowsTyped, NEW c \in Children, Sound(c), NEW r \in Runners,
           NEW d \in Children, Sound(d), resume_investigation(r, d)
    PROVE  RowsTyped' /\ Sound(c)' /\ Moves(c)
<1>1. /\ child[d] \in {"failed", "cancelled"} /\ child' = [child EXCEPT ![d] = "queued"]
      /\ child_pipeline[d] # "absent"
      /\ resumed[d] < MaxResumes /\ resumed' = [resumed EXCEPT ![d] = @ + 1]
      /\ cancel_requested' = cancel_requested \ {d}
      /\ runner' = [runner EXCEPT ![r] = [phase |-> "requeued", child |-> d]]
      /\ UNCHANGED <<agent_runs, claimed, overtaken, late, async>>
    BY DEF resume_investigation, HasPipeline, RunnerGoes
<1>2. child_pipeline' = [child_pipeline EXCEPT ![d] = "pending"]
    BY <1>1 DEF resume_investigation, Transition
<1>3. d \in claimed
    BY <1>1 DEF Sound
<1>4. RowsTyped'
    BY <1>1, <1>2 DEF RowsTyped, RowTypes, HistoryTypes, RunnerTypes, RunnerRow, Active,
       ClusterAssumption
<1>5. /\ \A s \in Runners : s # r => (Live(s, c)' <=> Live(s, c)) /\ Of(s)' = Of(s)
      /\ ~Live(r, c)' /\ Of(r)' = d
    BY <1>1 DEF RowsTyped, RunnerTypes, Live, Of
<1>6. Moves(c)
    BY <1>1, <1>3 DEF Moves, IsActive, Unrevived, Active, Terminal, RowsTyped, RowTypes,
       HistoryTypes
<1>7. CASE c = d
    <2>1. c \notin overtaken => agent_runs[c] <= 1 + resumed[c]
        BY <1>1, <1>7 DEF Sound, IsActive, Active
    <2>2. \A s \in Runners : Live(s, c) => c \in overtaken
        BY <1>1, <1>7 DEF Sound
    <2> QED
        BY <1>1, <1>2, <1>3, <1>4, <1>5, <1>6, <1>7, <2>1, <2>2
        DEF Sound, IsActive, Active, RowsTyped, RowTypes, HistoryTypes
<1>8. CASE c # d
    BY <1>1, <1>2, <1>4, <1>5, <1>6, <1>8 DEF Sound, IsActive, RowsTyped, RowTypes, HistoryTypes
<1> QED BY <1>4, <1>6, <1>7, <1>8

\* The resuming task claims the child, unless a delivery came first.
LEMMA ResumeClaimsSound ==
    ASSUME ClusterAssumption, RowsTyped, \A d \in Children : Sound(d), NEW c \in Children,
           NEW r \in Runners, ResumeClaims(r)
    PROVE  RowsTyped' /\ Sound(c)' /\ Moves(c)
<1>1. Of(r) \in Children /\ Of(r) \in claimed
    BY DEF ResumeClaims, At, RowsTyped, RunnerTypes, RunnerRow, Idle, Of, Sound
<1>2. UNCHANGED <<cancel_requested, agent_runs, resumed, overtaken, late, async>>
    BY DEF ResumeClaims
<1>3. CASE child[Of(r)] = "queued"
    BY <1>1, <1>2, <1>3, ClaimSound DEF ResumeClaims
<1>4. CASE child[Of(r)] # "queued"
    <2>1. runner' = [runner EXCEPT ![r] = Idle] /\ UNCHANGED <<child, child_pipeline, claimed>>
        BY <1>4 DEF ResumeClaims
    <2>2. /\ RunnerTypes'
          /\ \A s \in Runners : Live(s, c)' => Live(s, c)
          /\ \A s \in Runners : Of(s)' = c => Of(s) = c
        BY <2>1, RunnerGoesSound
    <2>3. RowsTyped'
        BY <1>2, <2>1, <2>2 DEF RowsTyped, RowTypes, HistoryTypes
    <2>4. Moves(c)
        BY <1>2, <2>1 DEF Moves, IsActive, Unrevived
    <2>5. Sound(c)'
        BY <1>2, <2>1, <2>2 DEF Sound, IsActive
    <2> QED BY <2>3, <2>4, <2>5
<1> QED BY <1>3, <1>4

\* Every step, on every child.
LEMMA StepSound ==
    ASSUME ClusterAssumption, RowsTyped, \A d \in Children : Sound(d), [Next]_vars
    PROVE  RowsTyped' /\ \A c \in Children : Sound(c)' /\ Moves(c)
<1> SUFFICES ASSUME NEW c \in Children
             PROVE  RowsTyped' /\ Sound(c)' /\ Moves(c)
    BY DEF ClusterAssumption
<1>1. CASE Aside
    BY <1>1, AsideSound
<1>2. ASSUME NEW a \in Attempts, stage_cluster_investigations(a)
      PROVE  RowsTyped' /\ Sound(c)' /\ Moves(c)
    BY <1>2, StagingSound
<1>3. ASSUME NEW a \in Attempts, JoinTimesOut(a) \/ cancel_cluster_children(a)
      PROVE  RowsTyped' /\ Sound(c)' /\ Moves(c)
    <2>1. Family(run_of[a]) \in SUBSET Children
        BY DEF Family
    <2>2. /\ CancelActive(Family(run_of[a])) \/ UNCHANGED <<child, cancel_requested>>
          /\ UNCHANGED <<agent_runs, child_pipeline, runner, history>>
        BY <1>3 DEF JoinTimesOut, cancel_cluster_children
    <2> QED BY <2>1, <2>2, CancelSound
<1>4. ASSUME NEW x \in Relayers, DispatchFails(x)
      PROVE  RowsTyped' /\ Sound(c)' /\ Moves(c)
    BY <1>4, DispatchFailsSound
<1>5. ASSUME NEW d \in Children, request_cancel(d) \/ Reaps(d)
      PROVE  RowsTyped' /\ Sound(c)' /\ Moves(c)
    BY <1>5, RequestSound, ReapsSound
<1>6. ASSUME NEW r \in Runners, NEW d \in Children, Claims(r, d) \/ resume_investigation(r, d)
      PROVE  RowsTyped' /\ Sound(c)' /\ Moves(c)
    <2>1. CASE Claims(r, d)
        BY <2>1, ClaimSound DEF Claims
    <2>2. CASE resume_investigation(r, d)
        BY <2>2, ResumeSound
    <2> QED BY <1>6, <2>1, <2>2
<1>7. ASSUME NEW r \in Runners,
             \/ _create_stage_rows(r) \/ Raises(r) \/ set_investigation_status(r)
             \/ Finalizes(r) \/ ResumeClaims(r) \/ RunnerDies(r)
      PROVE  RowsTyped' /\ Sound(c)' /\ Moves(c)
    BY <1>7, StageRowsSound, SynthesisSound, FinalizesSound, ResumeClaimsSound
<1> QED BY RowSteps, <1>1, <1>2, <1>3, <1>4, <1>5, <1>6, <1>7 DEF RowStep

(***************************************************************************)
(* What follows from the life of a child alone.                            *)
(***************************************************************************)
RowInv == RowsTyped /\ \A c \in Children : Sound(c)

\* Nothing is staged at the start.
LEMMA RowsStart ==
    ASSUME ClusterAssumption, Init
    PROVE  RowInv
<1>1. RowsTyped
    BY DEF ClusterAssumption, Init, RowsTyped, RowTypes, HistoryTypes, RunnerTypes, RunnerRow
<1>2. ASSUME NEW c \in Children
      PROVE  Sound(c)
    <2>1. \A r \in Runners : runner[r].phase = "idle" /\ Of(r) # c
        BY DEF Init, Idle, Of, ClusterAssumption
    <2> QED BY <2>1 DEF Init, Sound, Live, IsActive, Active
<1> QED BY <1>1, <1>2 DEF RowInv

\* What holds of the children is inductive.
LEMMA RowsStep ==
    ASSUME ClusterAssumption, RowInv, [Next]_vars
    PROVE  RowInv' /\ \A c \in Children : Moves(c)
BY StepSound DEF RowInv

\* It holds in every reachable state.
LEMMA RowsAreSound == Spec => []RowInv
BY RowsStart, RowsStep, ClusterAssumption, PTL DEF Spec

\* A child has one runner at a time, unless the reaper failed it under one
\* (OneRunner: the queued-to-running claim).
THEOREM ChildrenHaveOneRunner == Spec => []OneRunner
<1>1. RowInv => OneRunner
    BY DEF RowInv, Sound, OneRunner
<1> QED BY <1>1, RowsAreSound, PTL

\* One AgentRun per start of a child, and none before it has ended
\* (LedgerFollowsChild: the finalizer settles active rows only, once).
THEOREM LedgerFollowsEveryChild == Spec => []LedgerFollowsChild
<1>1. RowInv => LedgerFollowsChild
    BY DEF RowInv, Sound, LedgerFollowsChild
<1> QED BY <1>1, RowsAreSound, PTL

\* A child that ended before any runner claimed it is never changed again
\* (EndedUnclaimedIsFinal: claims ask for queued rows, a resume for a pipeline row).
THEOREM UnclaimedEndsAreFinal == Spec => EndedUnclaimedIsFinal
<1>1. RowInv /\ [Next]_vars
         => [\A c \in Children \ claimed : child[c] \in Terminal => child'[c] = child[c]]_vars
    BY RowsStep, ClusterAssumption DEF Moves
<1> QED BY <1>1, RowsAreSound, PTL DEF Spec, EndedUnclaimedIsFinal

(***************************************************************************)
(* Types of the dispatches and of the parents.                             *)
(***************************************************************************)
\* A relay that takes a batch or goes on with it stays typed.
LEMMA RelayTyped ==
    ASSUME DispatchTypes, NEW x \in Relayers, NEW row \in RelayRow,
           relay' = [relay EXCEPT ![x] = row]
    PROVE  relay' \in [Relayers -> RelayRow]
BY DEF DispatchTypes

\* What a relay holds.
LEMMA RelayRowTyped ==
    ASSUME DispatchTypes, NEW x \in Relayers
    PROVE  /\ relay[x] \in RelayRow
           /\ relay[x].batch \subseteq Children /\ relay[x].at \in Children \cup {None}
           /\ relay[x].said \in {"nothing", "accepted", "refused"}
BY DEF DispatchTypes, RelayRow

\* A relay row with one field replaced.
LEMMA RelayRowFields ==
    ASSUME NEW row \in RelayRow, NEW D, NEW said
    PROVE  /\ [row EXCEPT !.batch = D] = [batch |-> D, at |-> row.at, said |-> row.said]
           /\ [row EXCEPT !.said = said] = [batch |-> row.batch, at |-> row.at, said |-> said]
BY DEF RelayRow

\* The dispatch rows, the messages and the relays keep their types.
LEMMA DispatchTyped ==
    ASSUME ClusterAssumption, RowTypes, DispatchTypes, [Next]_vars
    PROVE  DispatchTypes'
<1> USE DEF DispatchTypes
<1>1. CASE UNCHANGED dispatch
    BY <1>1 DEF dispatch
<1>2. ASSUME NEW x \in Relayers, NEW D \in SUBSET Children, ClaimsBatch(x, D)
      PROVE  DispatchTypes'
    <2>1. \A c \in Children : Smaller(outbox[c].attempts + 1, max_publishes) \in 0 .. max_publishes
        BY DEF Smaller, ClusterAssumption
    <2>2. outbox' \in [Children -> [status : {"absent", "pending", "sending", "sent", "failed"},
                                    attempts : 0 .. max_publishes]]
        BY <1>2, <2>1 DEF ClaimsBatch
    <2>3. relay' \in [Relayers -> RelayRow]
        <3> DEFINE row == [batch |-> D, at |-> relay[x].at, said |-> relay[x].said]
        <3>1. row \in RelayRow
            BY RelayRowTyped DEF RelayRow
        <3>2. relay' = [relay EXCEPT ![x] = [relay[x] EXCEPT !.batch = D]]
            BY <1>2 DEF ClaimsBatch
        <3>3. relay' = [relay EXCEPT ![x] = row]
            BY <3>2, RelayRowTyped, RelayRowFields
        <3> QED BY <3>1, <3>3, RelayTyped
    <2> QED BY <1>2, <2>2, <2>3 DEF ClaimsBatch
<1>3. ASSUME NEW x \in Relayers, NEW c \in Children, Publishes(x, c)
      PROVE  DispatchTypes'
    <2> DEFINE row(said) == [batch |-> relay[x].batch, at |-> c, said |-> said]
    <2>1. \A said \in {"accepted", "refused"} : row(said) \in RelayRow
        BY RelayRowTyped DEF RelayRow
    <2>2. \E said \in {"accepted", "refused"} : relay' = [relay EXCEPT ![x] = row(said)]
        BY <1>3 DEF Publishes, RelayHears
    <2>3. relay' \in [Relayers -> RelayRow]
        BY <2>1, <2>2, RelayTyped
    <2> QED BY <1>3, <2>3 DEF Publishes
<1>4. ASSUME NEW x \in Relayers, MarksSent(x) \/ MarkingRaises(x) \/ DispatchFails(x)
      PROVE  DispatchTypes'
    <2>1. relay' \in [Relayers -> RelayRow] /\ mail' = mail
        <3> DEFINE on == [batch |-> relay[x].batch \ {relay[x].at}, at |-> None,
                          said |-> "nothing"]
                   refused == [batch |-> relay[x].batch, at |-> relay[x].at, said |-> "refused"]
        <3>1. on \in RelayRow /\ refused \in RelayRow
            BY RelayRowTyped DEF RelayRow
        <3>2. \/ relay' = [relay EXCEPT ![x] = on]
              \/ relay' = [relay EXCEPT ![x] = [relay[x] EXCEPT !.said = "refused"]]
            BY <1>4 DEF MarksSent, MarkingRaises, DispatchFails, RelayGoesOn
        <3>3. relay' = [relay EXCEPT ![x] = on] \/ relay' = [relay EXCEPT ![x] = refused]
            BY <3>2, RelayRowTyped, RelayRowFields
        <3> QED BY <1>4, <3>1, <3>3, RelayTyped DEF MarksSent, MarkingRaises, DispatchFails
    <2>2. outbox' \in [Children -> [status : {"absent", "pending", "sending", "sent", "failed"},
                                    attempts : 0 .. max_publishes]]
        BY <1>4 DEF MarksSent, MarkingRaises, DispatchFails
    <2> QED BY <2>1, <2>2
<1>5. ASSUME NEW x \in Relayers, RelayStops(x)
      PROVE  DispatchTypes'
    BY <1>5 DEF RelayStops, NoBatch, RelayRow
<1>6. ASSUME NEW S \in SUBSET Children, FailOutbox(S), UNCHANGED <<mail, relay>>
      PROVE  DispatchTypes'
    BY <1>6 DEF FailOutbox
<1>7. ASSUME NEW a \in Attempts, stage_cluster_investigations(a)
      PROVE  DispatchTypes'
    BY <1>7 DEF stage_cluster_investigations, ClusterAssumption
<1>8. ASSUME NEW a \in Attempts, Drops(a)
      PROVE  DispatchTypes'
    BY <1>8 DEF Drops, NoBatch, RelayRow, Relayers
<1>9. ASSUME NEW a \in Attempts, Run(a)
      PROVE  DispatchTypes'
    <2>1. CASE Begins(a) \/ CountsChildren(a) \/ Defers(a) \/ Succeeds(a) \/ FailsRun(a)
        BY <1>1, <2>1 DEF Begins, CountsChildren, Defers, Succeeds, FailsRun
    <2>2. CASE JoinWaits(a) \/ AllTerminal(a) \/ ReadsChildren(a) \/ ProjectsChildren(a)
        BY <1>1, <2>2 DEF JoinWaits, AllTerminal, ReadsChildren, ProjectsChildren
    <2>3. CASE JoinRelays(a)
        <3>1. a \in Relayers
            BY DEF Relayers
        <3> QED BY <1>2, <2>3, <3>1 DEF JoinRelays
    <2>4. CASE JoinTimesOut(a) \/ cancel_cluster_children(a)
        <3>1. \A P : {c \in Family(run_of[a]) : c \in P} \in SUBSET Children
            BY DEF Family
        <3>2. CASE JoinTimesOut(a)
            <4>1. \E S \in SUBSET Children : FailOutbox(S)
                BY <3>2, <3>1 DEF JoinTimesOut, Family
            <4>2. UNCHANGED <<mail, relay>>
                BY <3>2 DEF JoinTimesOut
            <4> QED BY <1>6, <4>1, <4>2
        <3>3. CASE cancel_cluster_children(a)
            <4>1. (\E S \in SUBSET Children : FailOutbox(S)) \/ UNCHANGED outbox
                BY <3>3 DEF cancel_cluster_children, Family
            <4>2. UNCHANGED <<mail, relay>>
                BY <3>3 DEF cancel_cluster_children
            <4> QED BY <1>6, <4>1, <4>2
        <3> QED BY <2>4, <3>2, <3>3
    <2> QED
        BY <1>7, <1>8, <1>9, <2>1, <2>2, <2>3, <2>4
        DEF Run, wait_for_cluster_children, Fails, AttemptDies
<1>10. ASSUME NEW c \in Children, request_cancel(c) \/ Reaps(c)
       PROVE  DispatchTypes'
    <2>1. CASE Reaps(c)
        <3>1. (\E S \in SUBSET Children : FailOutbox(S)) \/ UNCHANGED outbox
            BY <2>1 DEF Reaps
        <3>2. UNCHANGED <<mail, relay>>
            BY <2>1 DEF Reaps
        <3> QED BY <1>6, <3>1, <3>2
    <2> QED BY <1>1, <1>10, <2>1 DEF request_cancel
<1>11. ASSUME NEW r \in Runners,
              run_investigation(r) \/ resume_agent_child_investigation(r) \/ RunnerDies(r)
       PROVE  DispatchTypes'
    BY <1>1, <1>11
    DEF run_investigation, resume_agent_child_investigation, RunnerDies, Claims,
        _create_stage_rows, Raises, set_investigation_status, Finalizes,
        resume_investigation, ResumeClaims
<1>12. CASE UNCHANGED vars
    BY <1>1, <1>12 DEF vars
<1>13. ASSUME NEW x \in Relayers, Relay(x)
       PROVE  DispatchTypes'
    BY <1>2, <1>3, <1>4, <1>13 DEF Relay, RelayClaims
<1> QED
    BY <1>5, <1>9, <1>10, <1>11, <1>12, <1>13 DEF Next, reap_stale_investigations

\* The steps that change the state of the parents.
LEMMA ParentSteps ==
    ASSUME [Next]_vars
    PROVE  \/ UNCHANGED parents
           \/ \E a \in Attempts : Run(a)
           \/ \E x \in Relayers : DispatchFails(x)
<1>1. CASE UNCHANGED vars
    BY <1>1 DEF vars
<1>2. ASSUME NEW x \in Relayers, Relay(x) \/ RelayStops(x), ~DispatchFails(x)
      PROVE  UNCHANGED parents
    BY <1>2 DEF Relay, RelayStops, RelayClaims, ClaimsBatch, Publishes, MarksSent,
       MarkingRaises, parents
<1>3. ASSUME NEW c \in Children, request_cancel(c) \/ Reaps(c)
      PROVE  UNCHANGED parents
    BY <1>3 DEF request_cancel, Reaps
<1>4. ASSUME NEW r \in Runners,
             run_investigation(r) \/ resume_agent_child_investigation(r) \/ RunnerDies(r)
      PROVE  UNCHANGED parents
    BY <1>4
    DEF run_investigation, resume_agent_child_investigation, RunnerDies, Claims,
        _create_stage_rows, Raises, set_investigation_status, Finalizes,
        resume_investigation, ResumeClaims
<1> QED BY <1>1, <1>2, <1>3, <1>4 DEF Next, reap_stale_investigations

\* Sets of children are finite.
LEMMA Finite ==
    ASSUME ClusterAssumption, NEW S \in SUBSET Children
    PROVE  IsFiniteSet(S) /\ Cardinality(S) \in Nat
BY FS_Subset, FS_CardinalityType DEF ClusterAssumption

\* The stage rows and the attempts keep their types.
LEMMA ParentTyped ==
    ASSUME ClusterAssumption, RowTypes, ParentTypes, [Next]_vars
    PROVE  ParentTypes'
<1> USE DEF ParentTypes
<1>1. CASE UNCHANGED parents
    BY <1>1 DEF parents, staging
<1>2. ASSUME NEW a \in Attempts, NEW phase \in Phase, Goes(a, phase),
             UNCHANGED <<seen, staging>>,
             task' \in [Children -> {"absent", "skipped", "pending", "partial"} \cup Terminal]
      PROVE  ParentTypes'
    BY <1>2 DEF Goes, staging
<1>3. ASSUME NEW a \in Attempts, NEW phase \in Phase, Goes(a, phase), Drops(a)
      PROVE  ParentTypes'
    BY <1>3 DEF Goes, Drops, NothingSeen, NothingCounted
<1>4. ASSUME NEW a \in Attempts, Begins(a) \/ Succeeds(a) \/ FailsRun(a)
      PROVE  ParentTypes'
    <2>1. task' \in [Children -> {"absent", "skipped", "pending", "partial"} \cup Terminal]
        BY <1>4 DEF Begins, Succeeds, FailsRun, SweepStages
    <2>2. Goes(a, "dispatch") \/ Goes(a, "ended")
        BY <1>4 DEF Begins, Succeeds, FailsRun
    <2> QED BY <1>2, <1>4, <2>1, <2>2 DEF Begins, Succeeds, FailsRun, Phase
<1>5. ASSUME NEW a \in Attempts, CountsChildren(a)
      PROVE  ParentTypes'
    <2>1. Cardinality(ActiveChildren) \in Nat /\ Cardinality(Staged) \in Nat
        BY Finite DEF ActiveChildren, Staged
    <2>2. attempt' \in [Attempts -> Phase]
        BY <1>5 DEF CountsChildren, Goes, Phase
    <2> QED BY <1>5, <2>1, <2>2 DEF CountsChildren
<1>6. ASSUME NEW a \in Attempts, stage_cluster_investigations(a)
      PROVE  ParentTypes'
    <2>1. attempt' \in [Attempts -> Phase]
        BY <1>6 DEF stage_cluster_investigations, Goes, Phase
    <2>2. /\ task' \in [Children -> {"absent", "skipped", "pending", "partial"} \cup Terminal]
          /\ unselected' \subseteq Children
        BY <1>6 DEF stage_cluster_investigations, TaskOf, Terminal, Family
    <2>3. lock' = None /\ seen' = seen /\ counted' \in [Attempts -> [active : Nat, daily : Nat]]
        BY <1>6 DEF stage_cluster_investigations, NothingCounted
    <2> QED BY <2>1, <2>2, <2>3
<1>7. ASSUME NEW a \in Attempts,
             Defers(a) \/ JoinRelays(a) \/ JoinWaits(a) \/ AllTerminal(a) \/ JoinTimesOut(a)
      PROVE  ParentTypes'
    <2>1. \E phase \in Phase : Goes(a, phase)
        BY <1>7 DEF Defers, JoinRelays, JoinWaits, AllTerminal, JoinTimesOut, Phase
    <2>2. UNCHANGED <<task, seen, staging>>
        BY <1>7 DEF Defers, JoinRelays, ClaimsBatch, JoinWaits, AllTerminal, JoinTimesOut
    <2> QED BY <1>2, <2>1, <2>2
<1>8. ASSUME NEW a \in Attempts, ReadsChildren(a)
      PROVE  ParentTypes'
    <2>1. attempt' \in [Attempts -> Phase]
        BY <1>8 DEF ReadsChildren, Goes, Phase
    <2> QED BY <1>8, <2>1 DEF ReadsChildren, RowTypes, staging
<1>9. ASSUME NEW a \in Attempts, ProjectsChildren(a)
      PROVE  ParentTypes'
    <2>1. attempt' \in [Attempts -> Phase]
        BY <1>9 DEF ProjectsChildren, Goes, Phase
    <2>2. task' \in [Children -> {"absent", "skipped", "pending", "partial"} \cup Terminal]
        BY <1>9 DEF ProjectsChildren, StageStatus
    <2>3. seen' \in [Attempts -> [Children -> {"absent"} \cup Active \cup Terminal]]
        BY <1>9 DEF ProjectsChildren, NothingSeen
    <2> QED BY <1>9, <2>1, <2>2, <2>3 DEF ProjectsChildren, staging
<1>10. ASSUME NEW a \in Attempts, Fails(a) \/ AttemptDies(a)
       PROVE  ParentTypes'
    BY <1>3, <1>10 DEF Fails, AttemptDies, Phase
<1>11. ASSUME NEW a \in Attempts, cancel_cluster_children(a)
       PROVE  ParentTypes'
    BY <1>2, <1>11 DEF cancel_cluster_children, Phase
<1>12. ASSUME NEW x \in Relayers, DispatchFails(x)
       PROVE  ParentTypes'
    BY <1>12 DEF DispatchFails, staging, Terminal
<1> QED
    BY ParentSteps, <1>1, <1>4, <1>5, <1>6, <1>7, <1>8, <1>9, <1>10, <1>11, <1>12
    DEF Run, wait_for_cluster_children

TypesInv == RowInv /\ DispatchTypes /\ ParentTypes

\* The initial state is typed.
LEMMA TypesStart ==
    ASSUME ClusterAssumption, Init
    PROVE  TypesInv
<1>1. DispatchTypes
    BY DEF ClusterAssumption, Init, DispatchTypes, RelayRow, NoBatch
<1>2. ParentTypes
    BY DEF Init, ParentTypes, Phase, NothingSeen, NothingCounted
<1> QED BY <1>1, <1>2, RowsStart DEF TypesInv

\* Types are inductive together with what holds of the children.
LEMMA TypesStep ==
    ASSUME ClusterAssumption, TypesInv, [Next]_vars
    PROVE  TypesInv'
<1>1. RowTypes
    BY DEF TypesInv, RowInv, RowsTyped
<1> QED BY <1>1, RowsStep, DispatchTyped, ParentTyped DEF TypesInv

\* Types hold in every reachable state.
LEMMA TypesHold == Spec => []TypesInv
BY TypesStart, TypesStep, ClusterAssumption, PTL DEF Spec

\* Every row, message and process has a value of its type (TypeOK).
THEOREM TypeCorrect == Spec => []TypeOK
<1>1. TypesInv => TypeOK
    BY TypesOfParts DEF TypesInv, RowInv, RowsTyped
<1> QED BY <1>1, TypesHold, PTL

(***************************************************************************)
(* What the parent is told of its children.                                *)
(***************************************************************************)
\* How the stage row of c may change.
TaskMoves(c) ==
    /\ task'[c] = "absent" => task[c] = "absent"
    /\ \/ task'[c] = task[c]
       \/ task'[c] \in {"pending", "skipped"}
       \/ task'[c] \in {"completed", "failed"} /\ child'[c] = task'[c]
       \/ \E a \in Attempts : seen[a][c] # "absent" /\ task'[c] = StageStatus(seen[a][c])

\* How what attempt a has read of c may change.
SeenMoves(a, c) ==
    \/ seen'[a][c] \in {"absent", seen[a][c]}
    \/ /\ seen'[a][c] = child[c] /\ child'[c] = child[c] /\ attempt[a] = "waited"
       /\ c \in Family(run_of[a]) /\ UNCHANGED <<late, cancel_requested, overtaken, resumed>>

\* The phases of an attempt behind its staging.
Past == {"staged", "relaying", "waiting", "waited", "read", "joined"}

\* How the phase of attempt a may change, as far as the join is concerned.
AttemptMoves(a) ==
    /\ attempt'[a] \in Past => attempt[a] \in Past \/ stage_cluster_investigations(a)
    /\ attempt'[a] = "waited" => attempt[a] = "waited" \/ AllTerminal(a) \/ JoinTimesOut(a)

\* A stage row takes an end from its child, or from what an attempt has read.
LEMMA TasksMove ==
    ASSUME ClusterAssumption, TypesInv, [Next]_vars, NEW c \in Children
    PROVE  TaskMoves(c)
<1> USE DEF TaskMoves
<1>1. ParentTypes /\ RowTypes
    BY DEF TypesInv, RowInv, RowsTyped
<1>2. CASE UNCHANGED task
    BY <1>2
<1>3. ASSUME NEW a \in Attempts, Begins(a) \/ Succeeds(a) \/ FailsRun(a)
      PROVE  TaskMoves(c)
    BY <1>1, <1>3 DEF Begins, Succeeds, FailsRun, SweepStages, ParentTypes
<1>4. ASSUME NEW a \in Attempts, stage_cluster_investigations(a)
      PROVE  TaskMoves(c)
    <2>1. \/ task'[c] = task[c]
          \/ task'[c] = "skipped"
          \/ task'[c] = TaskOf(c)
        BY <1>1, <1>4 DEF stage_cluster_investigations, ParentTypes
    <2>2. child[c] = "completed" => child'[c] = "completed"
        BY <1>1, <1>4 DEF stage_cluster_investigations, RowTypes
    <2> QED BY <2>1, <2>2 DEF TaskOf
<1>5. ASSUME NEW a \in Attempts, ProjectsChildren(a)
      PROVE  TaskMoves(c)
    BY <1>1, <1>5 DEF ProjectsChildren, StageStatus, ParentTypes, Terminal
<1>6. ASSUME NEW x \in Relayers, DispatchFails(x)
      PROVE  TaskMoves(c)
    BY <1>1, <1>6 DEF DispatchFails, ParentTypes, RowTypes
<1>7. ASSUME NEW a \in Attempts, Run(a)
      PROVE  TaskMoves(c)
    <2>1. CASE \/ CountsChildren(a) \/ Defers(a) \/ JoinRelays(a) \/ JoinWaits(a)
               \/ AllTerminal(a) \/ JoinTimesOut(a) \/ ReadsChildren(a) \/ Fails(a)
               \/ AttemptDies(a) \/ cancel_cluster_children(a)
        BY <1>2, <2>1
        DEF CountsChildren, Defers, JoinRelays, ClaimsBatch, JoinWaits, AllTerminal,
            JoinTimesOut, ReadsChildren, Fails, AttemptDies, Drops, cancel_cluster_children
    <2> QED BY <1>3, <1>4, <1>5, <1>7, <2>1 DEF Run, wait_for_cluster_children
<1> QED BY ParentSteps, <1>2, <1>6, <1>7 DEF parents

\* An attempt reads in one step, and only behind its wait.
LEMMA SeenMove ==
    ASSUME ClusterAssumption, TypesInv, [Next]_vars, NEW a \in Attempts, NEW c \in Children
    PROVE  SeenMoves(a, c)
<1> USE DEF SeenMoves
<1>1. ParentTypes /\ RowTypes
    BY DEF TypesInv, RowInv, RowsTyped
<1>2. CASE UNCHANGED seen
    BY <1>2
<1>3. ASSUME NEW b \in Attempts, ReadsChildren(b)
      PROVE  SeenMoves(a, c)
    <2>1. CASE a = b
        BY <1>1, <1>3, <2>1 DEF ReadsChildren, ParentTypes, rows, history
    <2>2. CASE a # b
        BY <1>1, <1>3, <2>2 DEF ReadsChildren, ParentTypes
    <2> QED BY <2>1, <2>2
<1>4. ASSUME NEW b \in Attempts, ProjectsChildren(b) \/ Fails(b) \/ AttemptDies(b)
      PROVE  SeenMoves(a, c)
    <2>1. seen' = [seen EXCEPT ![b] = NothingSeen]
        BY <1>4 DEF ProjectsChildren, Fails, AttemptDies, Drops
    <2> QED BY <1>1, <2>1 DEF NothingSeen, ParentTypes
<1>5. ASSUME NEW b \in Attempts, Run(b)
      PROVE  SeenMoves(a, c)
    <2>1. CASE \/ Begins(b) \/ CountsChildren(b) \/ stage_cluster_investigations(b)
               \/ Defers(b) \/ JoinRelays(b) \/ JoinWaits(b) \/ AllTerminal(b)
               \/ JoinTimesOut(b) \/ Succeeds(b) \/ cancel_cluster_children(b) \/ FailsRun(b)
        BY <1>2, <2>1
        DEF Begins, CountsChildren, stage_cluster_investigations, Defers, JoinRelays,
            ClaimsBatch, JoinWaits, AllTerminal, JoinTimesOut, Succeeds,
            cancel_cluster_children, FailsRun
    <2> QED BY <1>3, <1>4, <1>5, <2>1 DEF Run, wait_for_cluster_children
<1>6. ASSUME NEW x \in Relayers, DispatchFails(x)
      PROVE  SeenMoves(a, c)
    BY <1>2, <1>6 DEF DispatchFails
<1> QED BY ParentSteps, <1>2, <1>5, <1>6 DEF parents

\* An attempt gets behind its staging by staging, and behind its wait by its two ends.
LEMMA AttemptMove ==
    ASSUME ClusterAssumption, TypesInv, [Next]_vars, NEW a \in Attempts
    PROVE  AttemptMoves(a)
<1> USE DEF AttemptMoves, Past
<1>1. attempt \in [Attempts -> Phase]
    BY DEF TypesInv, ParentTypes
<1>2. CASE UNCHANGED attempt
    BY <1>2
<1>3. ASSUME NEW b \in Attempts, Run(b)
      PROVE  AttemptMoves(a)
    <2>1. \E phase \in Phase : Goes(b, phase)
        BY <1>3
        DEF Run, wait_for_cluster_children, Begins, CountsChildren,
            stage_cluster_investigations, Defers, JoinRelays, JoinWaits, AllTerminal,
            JoinTimesOut, ReadsChildren, ProjectsChildren, Succeeds, Fails, AttemptDies,
            cancel_cluster_children, FailsRun, Phase
    <2>2. CASE a # b
        BY <1>1, <2>1, <2>2 DEF Goes
    <2>3. CASE a = b
        <3>1. CASE stage_cluster_investigations(a) \/ AllTerminal(a) \/ JoinTimesOut(a)
            BY <1>1, <3>1 DEF AllTerminal, JoinTimesOut, stage_cluster_investigations, Goes
        <3>2. CASE JoinRelays(a) \/ JoinWaits(a) \/ ReadsChildren(a) \/ ProjectsChildren(a)
                   \/ Defers(a)
            BY <1>1, <3>2 DEF JoinRelays, JoinWaits, ReadsChildren, ProjectsChildren, Defers, Goes
        <3>3. CASE \/ Begins(a) \/ CountsChildren(a) \/ Succeeds(a) \/ Fails(a)
                   \/ AttemptDies(a) \/ cancel_cluster_children(a) \/ FailsRun(a)
            BY <1>1, <3>3
            DEF Begins, CountsChildren, Succeeds, Fails, AttemptDies, cancel_cluster_children,
                FailsRun, Goes
        <3> QED BY <1>3, <2>3, <3>1, <3>2, <3>3 DEF Run, wait_for_cluster_children
    <2> QED BY <2>2, <2>3
<1>4. ASSUME NEW x \in Relayers, DispatchFails(x)
      PROVE  AttemptMoves(a)
    BY <1>2, <1>4 DEF DispatchFails
<1> QED BY ParentSteps, <1>2, <1>3, <1>4 DEF parents

\* What an attempt has read of an end, or a stage row says of it, is true.
ToldTrue(c) ==
    Unrevived(c) =>
        /\ task[c] \in Terminal => child[c] = task[c]
        /\ \A a \in Attempts : seen[a][c] \in Terminal => child[c] = seen[a][c]

\* Ends are final, so what was read or written of one stays true.
LEMMA ToldStep ==
    ASSUME ClusterAssumption, TypesInv, [Next]_vars, NEW c \in Children, ToldTrue(c)
    PROVE  ToldTrue(c)'
<1> SUFFICES ASSUME Unrevived(c)'
             PROVE  /\ task'[c] \in Terminal => child'[c] = task'[c]
                    /\ \A a \in Attempts : seen'[a][c] \in Terminal => child'[c] = seen'[a][c]
    BY DEF ToldTrue
<1>1. Unrevived(c) /\ (child[c] \in Terminal => child'[c] = child[c])
    BY RowsStep DEF Moves, TypesInv
<1>2. /\ task[c] \in Terminal => child[c] = task[c]
      /\ \A a \in Attempts : seen[a][c] \in Terminal => child[c] = seen[a][c]
    BY <1>1 DEF ToldTrue
<1>3. task'[c] \in Terminal => child'[c] = task'[c]
    BY <1>1, <1>2, TasksMove DEF TaskMoves, StageStatus, Terminal
<1>4. ASSUME NEW a \in Attempts, seen'[a][c] \in Terminal
      PROVE  child'[c] = seen'[a][c]
    BY <1>1, <1>2, <1>4, SeenMove DEF SeenMoves, Terminal
<1> QED BY <1>3, <1>4

ToldInv == TypesInv /\ \A c \in Children : ToldTrue(c)

\* What a stage row says of the end of a child stays true (TaskTellsTheEnd: an
\* end is final, so it does not matter when it was read).
THEOREM TasksTellTheEnd == Spec => []TaskTellsTheEnd
<1>1. ClusterAssumption /\ Init => ToldInv
    BY TypesStart DEF ToldInv, ToldTrue, Init, NothingSeen, Terminal
<1>2. ToldInv /\ [Next]_vars => ToldInv'
    BY ToldStep, TypesStep, ClusterAssumption DEF ToldInv
<1>3. ToldInv => TaskTellsTheEnd
    BY DEF ToldInv, ToldTrue, TaskTellsTheEnd
<1> QED BY <1>1, <1>2, <1>3, ClusterAssumption, PTL DEF Spec

(***************************************************************************)
(* The join asks before it reports.                                        *)
(***************************************************************************)
Timely(c) == Unrevived(c) /\ c \notin late

\* Staging leaves no child of the family without a stage row.
HasTask(c) ==
    \A a \in Attempts : attempt[a] \in Past /\ c \in Family(run_of[a]) => task[c] # "absent"

\* A child a join no longer waits for, or has read or reported as active, was asked.
WasAsked(c) ==
    Timely(c) =>
        /\ \A a \in Attempts : attempt[a] = "waited" /\ c \in Family(run_of[a]) /\ IsActive(c)
              => c \in cancel_requested
        /\ task[c] = "partial" \/ (\E a \in Attempts : seen[a][c] \in Active)
              => c \in cancel_requested /\ child[c] # "completed"

\* No stage row goes away.
LEMMA HasTaskStep ==
    ASSUME ClusterAssumption, TypesInv, [Next]_vars, NEW c \in Children, HasTask(c)
    PROVE  HasTask(c)'
<1> SUFFICES ASSUME NEW a \in Attempts, attempt'[a] \in Past, c \in Family(run_of[a])
             PROVE  task'[c] # "absent"
    BY DEF HasTask, Family
<1>1. CASE attempt[a] \in Past
    BY <1>1, TasksMove DEF HasTask, TaskMoves
<1>2. CASE stage_cluster_investigations(a)
    <2>1. task \in [Children -> {"absent", "skipped", "pending", "partial"} \cup Terminal]
        BY DEF TypesInv, ParentTypes
    <2> QED BY <1>2, <2>1 DEF stage_cluster_investigations, TaskOf
<1> QED BY <1>1, <1>2, AttemptMove DEF AttemptMoves

\* Once an attempt of its run has staged, a child that is staged after all is late.
LEMMA StagedLate ==
    ASSUME ClusterAssumption, TypesInv, NEW c \in Children, HasTask(c),
           child[c] = "absent", child'[c] # "absent", c \notin late',
           NEW b \in Attempts, stage_cluster_investigations(b),
           NEW a \in Attempts, attempt'[a] = "waited", c \in Family(run_of[a])
    PROVE  FALSE
<1>1. /\ attempt \in [Attempts -> Phase]
      /\ child \in [Children -> {"absent"} \cup Active \cup Terminal]
    BY DEF TypesInv, ParentTypes, RowInv, RowsTyped, RowTypes
<1>2. task[c] = "absent"
    BY <1>1 DEF stage_cluster_investigations
<1>3. attempt' = [attempt EXCEPT ![b] = "staged"]
    BY DEF stage_cluster_investigations, Goes
<1>4. attempt[a] \in Past
    BY <1>1, <1>3 DEF Past
<1> QED BY <1>2, <1>4 DEF HasTask

\* A request to cancel stays, and keeps its child from completing.
LEMMA AskedStep ==
    ASSUME ClusterAssumption, TypesInv, [Next]_vars, NEW c \in Children, HasTask(c), WasAsked(c)
    PROVE  WasAsked(c)'
<1> SUFFICES ASSUME Timely(c)'
             PROVE  /\ \A a \in Attempts :
                          attempt'[a] = "waited" /\ c \in Family(run_of[a]) /\ IsActive(c)'
                          => c \in cancel_requested'
                    /\ task'[c] = "partial" \/ (\E a \in Attempts : seen'[a][c] \in Active)
                          => c \in cancel_requested' /\ child'[c] # "completed"
    BY DEF WasAsked, Family
<1>1. Moves(c)
    BY RowsStep DEF TypesInv
<1>2. Timely(c) /\ Unrevived(c)'
    BY <1>1 DEF Moves, Timely
<1>3. ASSUME NEW a \in Attempts, attempt'[a] = "waited", c \in Family(run_of[a]), IsActive(c)'
      PROVE  c \in cancel_requested'
    <2>1. CASE child[c] = "absent"
        <3>1. child'[c] # child[c]
            BY <1>3, <2>1 DEF IsActive, Active
        <3>2. PICK b \in Attempts : stage_cluster_investigations(b)
            BY <1>1, <2>1, <3>1 DEF Moves
        <3> QED BY <1>3, <2>1, <3>1, <3>2, StagedLate DEF Timely
    <2>2. CASE IsActive(c)
        <3>1. CASE attempt[a] = "waited"
            BY <1>1, <1>2, <1>3, <2>2, <3>1 DEF WasAsked, Moves
        <3>2. CASE AllTerminal(a)
            BY <1>3, <2>2, <3>2 DEF AllTerminal
        <3>3. CASE JoinTimesOut(a)
            <4>1. child \in [Children -> {"absent"} \cup Active \cup Terminal]
                BY DEF TypesInv, RowInv, RowsTyped, RowTypes
            <4> QED
                BY <1>3, <2>2, <3>3, <4>1 DEF JoinTimesOut, CancelActive, IsActive, Active
        <3> QED BY <1>3, <3>1, <3>2, <3>3, AttemptMove DEF AttemptMoves
    <2> QED BY <1>1, <1>2, <1>3, <2>1, <2>2 DEF Moves
<1>4. ASSUME task[c] = "partial" \/ (\E a \in Attempts : seen[a][c] \in Active)
      PROVE  c \in cancel_requested' /\ child'[c] # "completed"
    BY <1>1, <1>2, <1>4 DEF WasAsked, Moves
<1>5. ASSUME NEW a \in Attempts, seen'[a][c] \in Active
      PROVE  c \in cancel_requested' /\ child'[c] # "completed"
    <2>1. CASE seen'[a][c] = seen[a][c]
        BY <1>4, <1>5, <2>1
    <2>2. CASE /\ seen'[a][c] = child[c] /\ child'[c] = child[c] /\ attempt[a] = "waited"
               /\ c \in Family(run_of[a]) /\ UNCHANGED cancel_requested
        BY <1>2, <1>5, <2>2 DEF WasAsked, IsActive, Active
    <2> QED BY <1>5, <2>1, <2>2, SeenMove DEF SeenMoves, Active
<1>6. ASSUME task'[c] = "partial"
      PROVE  c \in cancel_requested' /\ child'[c] # "completed"
    <2>1. task[c] = "partial" \/ \E a \in Attempts : seen[a][c] \in Active
        <3>1. \A a \in Attempts : seen[a][c] \in {"absent"} \cup Active \cup Terminal
            BY DEF TypesInv, ParentTypes
        <3> QED BY <1>6, <3>1, TasksMove DEF TaskMoves, StageStatus, Terminal
    <2> QED BY <1>4, <2>1
<1> QED BY <1>3, <1>5, <1>6

JoinInv == TypesInv /\ \A c \in Children : HasTask(c) /\ WasAsked(c)

\* A child a join reported as timed out is not completed afterwards
\* (PartialNeverCompletes: the request comes before the report).
THEOREM PartialsNeverComplete == Spec => []PartialNeverCompletes
<1>1. ClusterAssumption /\ Init => JoinInv
    BY TypesStart DEF JoinInv, HasTask, WasAsked, Init, NothingSeen, Past, Active
<1>2. JoinInv /\ [Next]_vars => JoinInv'
    BY HasTaskStep, AskedStep, TypesStep, ClusterAssumption DEF JoinInv
<1>3. JoinInv => PartialNeverCompletes
    BY DEF JoinInv, WasAsked, Timely, PartialNeverCompletes
<1> QED BY <1>1, <1>2, <1>3, ClusterAssumption, PTL DEF Spec

(***************************************************************************)
(* The budgets of the project.                                             *)
(***************************************************************************)
Fresh == {c \in ActiveChildren : Unrevived(c)}

\* What an attempt has counted is still not exceeded while it holds the lock.
Held(a) ==
    attempt[a] = "counted" =>
        /\ lock = a
        /\ Cardinality(Fresh) <= counted[a].active
        /\ Cardinality(Staged) <= counted[a].daily

CapacityInv == TypesInv /\ CapacityHolds /\ \A a \in Attempts : Held(a)

\* The counted sets are finite.
LEMMA Sets ==
    ASSUME ClusterAssumption
    PROVE  /\ IsFiniteSet(Fresh) /\ Cardinality(Fresh) \in Nat
           /\ IsFiniteSet(Staged) /\ Cardinality(Staged) \in Nat
           /\ IsFiniteSet(ActiveChildren) /\ Cardinality(ActiveChildren) \in Nat
           /\ Cardinality(Fresh) <= Cardinality(ActiveChildren)
<1>1. ActiveChildren \in SUBSET Children /\ Staged \in SUBSET Children
      /\ Fresh \in SUBSET ActiveChildren /\ Fresh \in SUBSET Children
    BY DEF ActiveChildren, Staged, Fresh
<1> QED BY <1>1, Finite, FS_Subset

\* A union has no more members than its parts together.
LEMMA UnionFits ==
    ASSUME NEW S, NEW T, IsFiniteSet(S), IsFiniteSet(T)
    PROVE  IsFiniteSet(S \cup T) /\ Cardinality(S \cup T) <= Cardinality(S) + Cardinality(T)
<1>1. IsFiniteSet(S \cap T)
    BY FS_Intersection
<1>2. Cardinality(S) \in Nat /\ Cardinality(T) \in Nat /\ Cardinality(S \cap T) \in Nat
    BY <1>1, FS_CardinalityType
<1>3. /\ IsFiniteSet(S \cup T)
      /\ Cardinality(S \cup T) = Cardinality(S) + Cardinality(T) - Cardinality(S \cap T)
    BY FS_Union
<1> QED BY <1>2, <1>3

\* Only a staging adds to either.
LEMMA SetsShrink ==
    ASSUME ClusterAssumption, TypesInv, [Next]_vars,
           ~ \E a \in Attempts : stage_cluster_investigations(a)
    PROVE  Cardinality(Fresh') <= Cardinality(Fresh) /\ Staged' = Staged
<1>1. \A c \in Children : Moves(c)
    BY RowsStep DEF TypesInv
<1>2. Staged' = Staged
    BY <1>1 DEF Staged, Moves
<1>3. Fresh' \subseteq Fresh
    BY <1>1 DEF Fresh, ActiveChildren, Moves, IsActive, Active
<1> QED BY <1>2, <1>3, Sets, FS_Subset

\* Who has counted holds the lock until it stages or is gone.
LEMMA HeldKept ==
    ASSUME ClusterAssumption, TypesInv, [Next]_vars, \A b \in Attempts : Held(b),
           NEW a \in Attempts, attempt'[a] = "counted", ~CountsChildren(a)
    PROVE  attempt[a] = "counted" /\ lock' = a /\ counted'[a] = counted[a]
<1>1. ParentTypes /\ None \notin Attempts
    BY DEF TypesInv, ClusterAssumption
<1>2. CASE UNCHANGED <<attempt, lock, counted>>
    BY <1>2 DEF Held
<1>3. ASSUME NEW b \in Attempts, Run(b)
      PROVE  attempt[a] = "counted" /\ lock' = a /\ counted'[a] = counted[a]
    <2>1. a # b /\ attempt[a] = "counted" /\ lock = a
        <3>1. \E phase \in Phase : Goes(b, phase) /\ (phase = "counted" => CountsChildren(b))
            BY <1>3
            DEF Run, wait_for_cluster_children, Begins, CountsChildren,
                stage_cluster_investigations, Defers, JoinRelays, JoinWaits, AllTerminal,
                JoinTimesOut, ReadsChildren, ProjectsChildren, Succeeds, Fails, AttemptDies,
                cancel_cluster_children, FailsRun, Phase
        <3> QED BY <1>1, <3>1 DEF Goes, ParentTypes, Held
    <2>2. ~CountsChildren(b) /\ ~stage_cluster_investigations(b)
        BY <1>1, <2>1 DEF CountsChildren, stage_cluster_investigations, Held
    <2>3. CASE Fails(b) \/ AttemptDies(b)
        BY <1>1, <2>1, <2>3 DEF Fails, AttemptDies, Drops, ParentTypes
    <2>4. CASE \/ Begins(b) \/ Defers(b) \/ JoinRelays(b) \/ JoinWaits(b) \/ AllTerminal(b)
               \/ JoinTimesOut(b) \/ ReadsChildren(b) \/ ProjectsChildren(b) \/ Succeeds(b)
               \/ cancel_cluster_children(b) \/ FailsRun(b)
        BY <2>1, <2>4
        DEF Begins, Defers, JoinRelays, ClaimsBatch, JoinWaits, AllTerminal, JoinTimesOut,
            ReadsChildren, ProjectsChildren, Succeeds, cancel_cluster_children, FailsRun,
            staging
    <2> QED BY <1>3, <2>2, <2>3, <2>4 DEF Run, wait_for_cluster_children
<1>4. ASSUME NEW x \in Relayers, DispatchFails(x)
      PROVE  UNCHANGED <<attempt, lock, counted>>
    BY <1>4 DEF DispatchFails, staging
<1> QED BY ParentSteps, <1>2, <1>3, <1>4 DEF parents, staging

\* A staging adds no more than what is left of both budgets.
LEMMA StagingFits ==
    ASSUME ClusterAssumption, CapacityInv, [Next]_vars,
           NEW a \in Attempts, stage_cluster_investigations(a)
    PROVE  CapacityHolds'
<1> DEFINE missing == {c \in Family(run_of[a]) : child[c] = "absent"}
           daily == counted[a].daily
           active == counted[a].active
<1>1. attempt[a] = "counted"
    BY DEF stage_cluster_investigations
<1>2. PICK S \in SUBSET missing :
          /\ Cardinality(S) = Smaller(Capacity(a), Cardinality(missing))
          /\ child' = [c \in Children |-> IF c \in S THEN "queued" ELSE child[c]]
    BY DEF stage_cluster_investigations
<1>3. S \in SUBSET Children /\ missing \in SUBSET Children
    BY DEF Family
<1>4. daily \in Nat /\ active \in Nat /\ max_daily \in Nat /\ max_active \in Nat
    BY DEF CapacityInv, TypesInv, ParentTypes, ClusterAssumption
<1>5. /\ IsFiniteSet(S) /\ Cardinality(S) \in Nat /\ Cardinality(missing) \in Nat
    BY <1>3, Finite
<1>6. Cardinality(S) <= Room(max_active, active) /\ Cardinality(S) <= Room(max_daily, daily)
    BY <1>2, <1>4, <1>5 DEF Smaller, Capacity, Room
<1>7. Cardinality(Staged') <= Cardinality(Staged) + Cardinality(S)
    <2>1. Staged' \subseteq Staged \cup S
        BY <1>2 DEF Staged
    <2>2. /\ IsFiniteSet(Staged \cup S)
          /\ Cardinality(Staged \cup S) <= Cardinality(Staged) + Cardinality(S)
        BY <1>5, Sets, UnionFits
    <2> QED BY <2>1, <2>2, <1>5, Sets, FS_Subset, FS_CardinalityType
<1>8. Cardinality(Fresh') <= Cardinality(Fresh) + Cardinality(S)
    <2>1. Fresh' \subseteq Fresh \cup S
        <3>1. UNCHANGED <<overtaken, resumed>>
            BY DEF stage_cluster_investigations
        <3> QED BY <1>2, <3>1 DEF Fresh, ActiveChildren, IsActive, Unrevived
    <2>2. /\ IsFiniteSet(Fresh \cup S)
          /\ Cardinality(Fresh \cup S) <= Cardinality(Fresh) + Cardinality(S)
        BY <1>5, Sets, UnionFits
    <2> QED BY <2>1, <2>2, <1>5, Sets, FS_Subset, FS_CardinalityType
<1>9. /\ Cardinality(Fresh) <= max_active /\ Cardinality(Staged) <= max_daily
      /\ Cardinality(Fresh) <= active /\ Cardinality(Staged) <= daily
    BY <1>1 DEF CapacityInv, CapacityHolds, Held, Fresh
<1>10. Cardinality(Fresh') \in Nat /\ Cardinality(Staged') \in Nat
    <2>1. Fresh' \in SUBSET Children /\ Staged' \in SUBSET Children
        BY DEF Fresh, ActiveChildren, Staged
    <2> QED BY <2>1, Finite
<1>11. Cardinality(Fresh') <= max_active /\ Cardinality(Staged') <= max_daily
    BY <1>4, <1>5, <1>6, <1>7, <1>8, <1>9, <1>10, Sets DEF Room
<1> QED BY <1>11 DEF CapacityHolds, Fresh

\* The budgets are kept, and what an attempt has counted under the lock stays valid.
LEMMA CapacityStep ==
    ASSUME ClusterAssumption, CapacityInv, [Next]_vars
    PROVE  CapacityInv'
<1>1. TypesInv /\ TypesInv'
    BY TypesStep DEF CapacityInv
<1>2. CASE \E a \in Attempts : stage_cluster_investigations(a)
    <2>1. PICK b \in Attempts : stage_cluster_investigations(b)
        BY <1>2
    <2>2. \A a \in Attempts : attempt'[a] # "counted"
        <3>1. lock = b /\ lock' = None
            BY <2>1 DEF stage_cluster_investigations, CapacityInv, Held
        <3>2. \A a \in Attempts : ~CountsChildren(a)
            BY <3>1 DEF CountsChildren, ClusterAssumption
        <3> QED BY <1>1, <3>1, <3>2, HeldKept DEF CapacityInv, ClusterAssumption
    <2> QED BY <1>1, <2>1, <2>2, StagingFits DEF CapacityInv, Held
<1>3. CASE ~ \E a \in Attempts : stage_cluster_investigations(a)
    <2>1. Cardinality(Fresh') <= Cardinality(Fresh) /\ Staged' = Staged
        BY <1>1, <1>3, SetsShrink
    <2>2. Cardinality(Fresh') \in Nat
        <3>1. Fresh' \in SUBSET Children
            BY DEF Fresh, ActiveChildren
        <3> QED BY <3>1, Finite
    <2>3. CapacityHolds'
        BY <2>1, <2>2, Sets DEF CapacityInv, CapacityHolds, Fresh, ClusterAssumption
    <2>4. ASSUME NEW a \in Attempts, attempt'[a] = "counted"
          PROVE  Held(a)'
        <3>1. CASE CountsChildren(a)
            <4>1. lock' = a /\ counted'[a] = [active |-> Cardinality(ActiveChildren),
                                              daily |-> Cardinality(Staged)]
                BY <1>1, <3>1 DEF CountsChildren, TypesInv, ParentTypes
            <4>2. counted'[a].active = Cardinality(ActiveChildren)
                  /\ counted'[a].daily = Cardinality(Staged)
                BY <4>1
            <4>3. /\ Cardinality(Fresh') <= Cardinality(ActiveChildren)
                  /\ Cardinality(Staged') <= Cardinality(Staged)
                BY <2>1, <2>2, Sets
            <4> QED BY <4>1, <4>2, <4>3 DEF Held
        <3>2. CASE ~CountsChildren(a)
            <4>1. attempt[a] = "counted" /\ lock' = a /\ counted'[a] = counted[a]
                BY <1>1, <2>4, <3>2, HeldKept DEF CapacityInv
            <4>2. counted[a].active \in Nat
                BY <1>1 DEF TypesInv, ParentTypes
            <4>3. /\ Cardinality(Fresh) <= counted[a].active
                  /\ Cardinality(Staged) <= counted[a].daily
                BY <4>1 DEF Held, CapacityInv
            <4>4. /\ Cardinality(Fresh') <= counted'[a].active
                  /\ Cardinality(Staged') <= counted'[a].daily
                BY <2>1, <2>2, <4>1, <4>2, <4>3, Sets
            <4> QED BY <4>1, <4>4 DEF Held
        <3> QED BY <3>1, <3>2
    <2> QED BY <1>1, <2>3, <2>4 DEF CapacityInv, Held
<1> QED BY <1>2, <1>3

\* The active children that were neither resumed nor reaped under a runner, and
\* the children of the day, stay within the budgets (CapacityHolds: counting and
\* staging are one transaction under the lock of the project row).
THEOREM CapacityIsKept == Spec => []CapacityHolds
<1>1. ClusterAssumption /\ Init => CapacityInv
    <2> SUFFICES ASSUME ClusterAssumption, Init
                 PROVE  CapacityInv
        OBVIOUS
    <2>1. Fresh = {} /\ Staged = {}
        BY DEF Init, Fresh, Staged, ActiveChildren, IsActive, Active
    <2>2. CapacityHolds
        BY <2>1, FS_EmptySet DEF CapacityHolds, Fresh, ClusterAssumption
    <2> QED BY <2>2, TypesStart DEF CapacityInv, Held, Init
<1>2. CapacityInv /\ [Next]_vars => CapacityInv'
    BY CapacityStep, ClusterAssumption
<1>3. CapacityInv => CapacityHolds
    BY DEF CapacityInv
<1> QED BY <1>1, <1>2, <1>3, ClusterAssumption, PTL DEF Spec

(***************************************************************************)
(* Refinement of AtLeastOnce.                                              *)
(***************************************************************************)
Standing == [c \in Children |-> Item(c)]

\* What a child stands for, before and after a step.
LEMMA ItemIs ==
    ASSUME RowTypes, RowTypes', NEW c \in Children
    PROVE  /\ c \in overtaken => Item(c) = "dead"
           /\ c \notin overtaken /\ IsActive(c) => Item(c) = "open"
           /\ c \notin overtaken /\ child[c] = "absent" => Item(c) = "none"
           /\ c \notin overtaken /\ child[c] = "completed" => Item(c) = "done"
           /\ c \notin overtaken /\ child[c] \in {"failed", "cancelled"} => Item(c) = "dead"
           /\ c \in overtaken' => Item(c)' = "dead"
           /\ c \notin overtaken' /\ IsActive(c)' => Item(c)' = "open"
           /\ c \notin overtaken' /\ child'[c] = "completed" => Item(c)' = "done"
           /\ c \notin overtaken' /\ child'[c] \in {"failed", "cancelled"} => Item(c)' = "dead"
BY DEF Item, IsActive, Active, Terminal, RowTypes

\* A child whose row stays as it is, and that is not overtaken in this step, stands as before.
LEMMA ItemStays ==
    ASSUME NEW c \in Children, child'[c] = child[c], c \in overtaken' <=> c \in overtaken
    PROVE  Item(c)' = Item(c)
BY DEF Item, IsActive

\* Children that move together while the others stand, and none is claimed.
LEMMA ItemsMove ==
    ASSUME NEW S \in SUBSET Children, NEW from, NEW to,
           \A c \in S : Item(c) = from /\ Item(c)' = to,
           \A c \in Children \ S : Item(c)' = Item(c),
           UNCHANGED claimed
    PROVE  Outbox!Moves(S, from, to)
<1>1. \A c \in S : Standing[c] = from
    BY DEF Standing
<1>2. Standing' = [c \in Children |-> IF c \in S THEN to ELSE Standing[c]]
    BY DEF Standing
<1> QED BY <1>1, <1>2 DEF Outbox!Moves, Standing

\* One child stands as before, ends, is completed by a runner that claimed it, or is resumed.
LEMMA OneItemMoves ==
    ASSUME NEW d \in Children, \A c \in Children \ {d} : Item(c)' = Item(c), UNCHANGED claimed,
           \/ Item(d)' = Item(d)
           \/ Item(d) = "open" /\ Item(d)' = "dead"
           \/ Item(d) = "open" /\ Item(d)' = "done" /\ d \in claimed
           \/ Item(d) = "dead" /\ Item(d)' = "open"
    PROVE  Outbox!Next \/ UNCHANGED <<Standing, claimed>>
<1>1. {d} \in SUBSET Children /\ \A c \in Children : c \in {d} <=> c = d
    OBVIOUS
<1>2. CASE Item(d)' = Item(d)
    BY <1>2 DEF Standing
<1>3. CASE Item(d) = "open" /\ Item(d)' = "dead"
    <2>1. Outbox!Moves({d}, "open", "dead")
        BY <1>1, <1>3, ItemsMove
    <2> QED BY <1>1, <2>1 DEF Outbox!Next, Outbox!GiveUp
<1>4. CASE Item(d) = "open" /\ Item(d)' = "done" /\ d \in claimed
    <2>1. Outbox!Moves({d}, "open", "done") /\ {d} \subseteq claimed
        BY <1>1, <1>4, ItemsMove
    <2> QED BY <1>1, <2>1 DEF Outbox!Next, Outbox!Finish
<1>5. CASE Item(d) = "dead" /\ Item(d)' = "open"
    <2>1. Outbox!Moves({d}, "dead", "open")
        BY <1>1, <1>5, ItemsMove
    <2> QED BY <1>1, <2>1 DEF Outbox!Next, Outbox!Reopen
<1> QED BY <1>2, <1>3, <1>4, <1>5

\* Staging opens the children it inserts.
LEMMA StagingCreates ==
    ASSUME RowInv, NEW a \in Attempts, stage_cluster_investigations(a), RowTypes'
    PROVE  Outbox!Next
<1>1. PICK S \in SUBSET {d \in Family(run_of[a]) : child[d] = "absent"} :
          child' = [d \in Children |-> IF d \in S THEN "queued" ELSE child[d]]
    BY DEF stage_cluster_investigations
<1>2. UNCHANGED <<claimed, overtaken>>
    BY DEF stage_cluster_investigations
<1>3. S \in SUBSET Children /\ \A d \in S : child[d] = "absent"
    BY DEF Family
<1>4. \A c \in S : c \notin overtaken /\ IsActive(c)'
    BY <1>1, <1>3 DEF RowInv, Sound, IsActive, Active
<1>5. \A c \in S : Item(c) = "none" /\ Item(c)' = "open"
    BY <1>2, <1>3, <1>4, ItemIs DEF RowInv, RowsTyped
<1>6. \A c \in Children \ S : Item(c)' = Item(c)
    BY <1>1, <1>2, ItemStays
<1>7. Outbox!Moves(S, "none", "open")
    BY <1>2, <1>3, <1>5, <1>6, ItemsMove
<1> QED BY <1>3, <1>7 DEF Outbox!Next, Outbox!Create

\* Cancelling a family gives up the children that are queued.
LEMMA CancelGivesUp ==
    ASSUME RowTypes, RowTypes', NEW S \in SUBSET Children, UNCHANGED <<claimed, overtaken>>,
           CancelActive(S) \/ UNCHANGED child
    PROVE  Outbox!Next \/ UNCHANGED <<Standing, claimed>>
<1>1. CASE UNCHANGED child
    BY <1>1, ItemStays DEF Standing
<1>2. CASE CancelActive(S)
    <2> DEFINE T == {c \in S : child[c] = "queued" /\ c \notin overtaken}
    <2>1. \A c \in T : IsActive(c) /\ c \notin overtaken' /\ child'[c] = "cancelled"
        BY <1>2 DEF CancelActive, IsActive, Active
    <2>2. \A c \in T : Item(c) = "open" /\ Item(c)' = "dead"
        BY <2>1, ItemIs
    <2>3. \A c \in Children \ T : Item(c)' = Item(c)
        <3> SUFFICES ASSUME NEW c \in Children \ T
                     PROVE  Item(c)' = Item(c)
            OBVIOUS
        <3>1. CASE c \in overtaken
            BY <3>1, ItemIs
        <3>2. CASE c \notin overtaken
            <4>1. child'[c] = child[c]
                BY <1>2, <3>2 DEF CancelActive
            <4> QED BY <4>1, ItemStays
        <3> QED BY <3>1, <3>2
    <2>4. Outbox!Moves(T, "open", "dead") /\ T \in SUBSET Children
        BY <2>2, <2>3, ItemsMove
    <2> QED BY <2>4 DEF Outbox!Next, Outbox!GiveUp
<1> QED BY <1>1, <1>2

\* A claim is the performing of the child's work, which stays open.
LEMMA ClaimPerforms ==
    ASSUME RowTypes, RowTypes', NEW r \in Runners, NEW d \in Children, BecomesRunning(r, d),
           UNCHANGED overtaken
    PROVE  Outbox!Next
<1>1. /\ child[d] = "queued" /\ child' = [child EXCEPT ![d] = "running"]
      /\ claimed' = claimed \cup {d}
    BY DEF BecomesRunning
<1>2. IsActive(d) /\ IsActive(d)'
    BY <1>1 DEF IsActive, Active, RowTypes
<1>3. Item(d)' = Item(d) /\ Item(d) # "none"
    BY <1>2, ItemIs
<1>4. \A c \in Children \ {d} : Item(c)' = Item(c)
    BY <1>1, ItemStays DEF RowTypes
<1>5. UNCHANGED Standing /\ Standing[d] # "none"
    BY <1>3, <1>4 DEF Standing
<1>6. Outbox!Perform(d)
    BY <1>1, <1>5 DEF Outbox!Perform, Standing
<1> QED BY <1>6 DEF Outbox!Next

\* A dispatch that is given up gives up its child only while it is queued.
LEMMA DispatchGivesUp ==
    ASSUME RowTypes, RowTypes', NEW x \in Relayers, DispatchFails(x)
    PROVE  Outbox!Next \/ UNCHANGED <<Standing, claimed>>
<1>1. UNCHANGED <<claimed, overtaken>>
    BY DEF DispatchFails, history
<1>2. CASE UNCHANGED child
    BY <1>1, <1>2, ItemStays DEF Standing
<1>3. ASSUME NEW d \in Children, child[d] = "queued", child' = [child EXCEPT ![d] = "failed"]
      PROVE  Outbox!Next \/ UNCHANGED <<Standing, claimed>>
    <2>1. IsActive(d) /\ child'[d] = "failed"
        BY <1>3 DEF IsActive, Active, RowTypes
    <2>2. Item(d)' = Item(d) \/ (Item(d) = "open" /\ Item(d)' = "dead")
        BY <1>1, <2>1, ItemIs
    <2>3. \A c \in Children \ {d} : Item(c)' = Item(c)
        BY <1>1, <1>3, ItemStays DEF RowTypes
    <2> QED BY <1>1, <2>2, <2>3, OneItemMoves
<1>4. UNCHANGED child \/ \E d : child[d] = "queued" /\ child' = [child EXCEPT ![d] = "failed"]
    BY DEF DispatchFails, NotStarted
<1>5. ASSUME NEW d, d \notin Children, child' = [child EXCEPT ![d] = "failed"]
      PROVE  UNCHANGED child
    BY <1>5 DEF RowTypes
<1> QED BY <1>2, <1>3, <1>4, <1>5

\* The reaper gives up an active child, and the ones it overtakes for good.
LEMMA ReapingGivesUp ==
    ASSUME RowTypes, RowTypes', NEW d \in Children, Reaps(d)
    PROVE  Outbox!Next \/ UNCHANGED <<Standing, claimed>>
<1>1. UNCHANGED claimed
    BY DEF Reaps
<1>2. CASE ~IsActive(d)
    <2>1. UNCHANGED <<child, overtaken>>
        BY <1>2 DEF Reaps, _finalize, NotSettled, Reconciles
    <2> QED BY <1>1, <2>1, ItemStays DEF Standing
<1>3. CASE IsActive(d)
    <2>1. child' = [child EXCEPT ![d] = "failed"]
        BY <1>3 DEF Reaps, _finalize, NotSettled, Settles, _terminal_status
    <2>2. overtaken \subseteq overtaken' /\ overtaken' \subseteq overtaken \cup {d}
        BY DEF Reaps
    <2>3. child'[d] = "failed" /\ \A c \in Children \ {d} : child'[c] = child[c]
        BY <2>1 DEF RowTypes
    <2>4. Item(d)' = "dead"
        BY <2>3, ItemIs
    <2>5. Item(d) \in {"open", "dead"}
        BY <1>3, ItemIs
    <2>6. \A c \in Children \ {d} : Item(c)' = Item(c)
        BY <2>2, <2>3, ItemStays
    <2> QED BY <1>1, <2>4, <2>5, <2>6, OneItemMoves
<1> QED BY <1>2, <1>3

\* The status write of the synthesis leaves a child open, or given up when it was overtaken.
LEMMA SynthesisStutters ==
    ASSUME RowInv, RowTypes', NEW r \in Runners, set_investigation_status(r)
    PROVE  UNCHANGED <<Standing, claimed>>
<1>1. UNCHANGED <<claimed, overtaken>>
    BY DEF set_investigation_status, history
<1>2. ASSUME NEW c \in Children
      PROVE  Item(c)' = Item(c)
    <2>1. CASE child'[c] = child[c]
        BY <1>1, <2>1, ItemStays
    <2>2. CASE child'[c] # child[c]
        <3>1. Of(r) = c /\ child'[c] = "synthesizing"
            BY <2>2 DEF set_investigation_status, RowInv, RowsTyped, RowTypes
        <3>2. Live(r, c)
            BY <3>1 DEF set_investigation_status, At, Live
        <3>3. c \notin overtaken => IsActive(c)
            BY <3>2 DEF RowInv, Sound, IsActive, Active
        <3>4. IsActive(c)'
            BY <3>1 DEF IsActive, Active
        <3> QED BY <1>1, <3>3, <3>4, ItemIs DEF RowInv, RowsTyped
    <2> QED BY <2>1, <2>2
<1> QED BY <1>1, <1>2 DEF Standing

\* The finalizer of a runner completes a child it claimed, or gives it up.
LEMMA FinalizingEnds ==
    ASSUME ClusterAssumption, RowInv, RowTypes', NEW r \in Runners, Finalizes(r)
    PROVE  Outbox!Next \/ UNCHANGED <<Standing, claimed>>
<1>1. PICK d \in Children : d = Of(r) /\ d \in claimed
    BY DEF Finalizes, RowInv, RowsTyped, RunnerTypes, RunnerRow, Idle, Of, Sound
<1>2. UNCHANGED <<claimed, overtaken>>
    BY DEF Finalizes, history
<1>3. CASE ~IsActive(d)
    <2>1. UNCHANGED child
        BY <1>1, <1>3 DEF Finalizes, _finalize, NotSettled, Reconciles
    <2> QED BY <1>2, <2>1, ItemStays DEF Standing
<1>4. CASE IsActive(d)
    <2>1. child' = [child EXCEPT ![d] = _terminal_status(d, At(r, "failing"))]
        BY <1>1, <1>4 DEF Finalizes, _finalize, NotSettled, Settles
    <2>2. child'[d] \in Terminal /\ \A c \in Children \ {d} : child'[c] = child[c]
        BY <1>1, <2>1 DEF RowInv, RowsTyped, RowTypes, _terminal_status, Terminal
    <2>3. \/ Item(d)' = Item(d)
          \/ Item(d) = "open" /\ Item(d)' \in {"done", "dead"}
        BY <1>1, <1>2, <1>4, <2>2, ItemIs DEF RowInv, RowsTyped, Terminal
    <2>4. \A c \in Children \ {d} : Item(c)' = Item(c)
        BY <1>2, <2>2, ItemStays
    <2> QED BY <1>1, <1>2, <2>3, <2>4, OneItemMoves
<1> QED BY <1>3, <1>4

\* A resume opens a child that was given up; one that was overtaken stays given up.
LEMMA ResumingReopens ==
    ASSUME RowTypes, RowTypes', NEW r \in Runners, NEW d \in Children, resume_investigation(r, d)
    PROVE  Outbox!Next \/ UNCHANGED <<Standing, claimed>>
<1>1. /\ child[d] \in {"failed", "cancelled"} /\ child' = [child EXCEPT ![d] = "queued"]
      /\ UNCHANGED <<claimed, overtaken>>
    BY DEF resume_investigation
<1>2. child'[d] = "queued" /\ \A c \in Children \ {d} : child'[c] = child[c]
    BY <1>1 DEF RowTypes
<1>3. IsActive(d)'
    BY <1>2 DEF IsActive, Active
<1>4. Item(d)' = Item(d) \/ (Item(d) = "dead" /\ Item(d)' = "open")
    BY <1>1, <1>3, ItemIs
<1>5. \A c \in Children \ {d} : Item(c)' = Item(c)
    BY <1>1, <1>2, ItemStays
<1> QED BY <1>1, <1>4, <1>5, OneItemMoves

\* Every step of the children is a step of AtLeastOnce or a stutter.
LEMMA ChildrenStep ==
    RowInv /\ [Next]_vars => [Outbox!Next]_<<Standing, claimed>>
<1> SUFFICES ASSUME RowInv, [Next]_vars
             PROVE  Outbox!Next \/ UNCHANGED <<Standing, claimed>>
    OBVIOUS
<1>1. RowTypes /\ RowTypes'
    BY RowsStep, ClusterAssumption DEF RowInv, RowsTyped
<1>2. UNCHANGED <<child, claimed, overtaken>> => UNCHANGED <<Standing, claimed>>
    BY ItemStays DEF Standing
<1>3. CASE Aside
    BY <1>2, <1>3 DEF Aside, rows, history
<1>4. ASSUME NEW a \in Attempts,
             \/ stage_cluster_investigations(a)
             \/ JoinTimesOut(a) \/ cancel_cluster_children(a)
      PROVE  Outbox!Next \/ UNCHANGED <<Standing, claimed>>
    <2>1. CASE stage_cluster_investigations(a)
        BY <1>1, <2>1, StagingCreates
    <2>2. CASE JoinTimesOut(a) \/ cancel_cluster_children(a)
        <3>1. /\ CancelActive(Family(run_of[a])) \/ UNCHANGED child
              /\ UNCHANGED <<claimed, overtaken>>
            BY <2>2 DEF JoinTimesOut, cancel_cluster_children, history
        <3>2. Family(run_of[a]) \in SUBSET Children
            BY DEF Family
        <3> QED BY <1>1, <3>1, <3>2, CancelGivesUp
    <2> QED BY <1>4, <2>1, <2>2
<1>5. ASSUME NEW d \in Children, request_cancel(d) \/ Reaps(d)
      PROVE  Outbox!Next \/ UNCHANGED <<Standing, claimed>>
    BY <1>1, <1>2, <1>5, ReapingGivesUp DEF request_cancel, history
<1>6. ASSUME NEW r \in Runners, NEW d \in Children, Claims(r, d) \/ resume_investigation(r, d)
      PROVE  Outbox!Next \/ UNCHANGED <<Standing, claimed>>
    BY <1>1, <1>6, ClaimPerforms, ResumingReopens DEF Claims
<1>7. ASSUME NEW r \in Runners, _create_stage_rows(r) \/ Raises(r) \/ RunnerDies(r)
      PROVE  UNCHANGED <<Standing, claimed>>
    BY <1>2, <1>7 DEF _create_stage_rows, Raises, RunnerDies, rows, history
<1>8. ASSUME NEW r \in Runners, set_investigation_status(r) \/ Finalizes(r)
      PROVE  Outbox!Next \/ UNCHANGED <<Standing, claimed>>
    BY <1>1, <1>8, SynthesisStutters, FinalizingEnds, ClusterAssumption
<1>9. ASSUME NEW r \in Runners, ResumeClaims(r)
      PROVE  Outbox!Next \/ UNCHANGED <<Standing, claimed>>
    <2>1. UNCHANGED overtaken
        BY <1>9 DEF ResumeClaims
    <2>2. CASE child[Of(r)] = "queued"
        <3>1. Of(r) \in Children
            BY <1>9 DEF ResumeClaims, At, RowInv, RowsTyped, RunnerTypes, RunnerRow, Idle, Of
        <3>2. BecomesRunning(r, Of(r))
            BY <1>9, <2>2 DEF ResumeClaims
        <3> QED BY <1>1, <2>1, <3>1, <3>2, ClaimPerforms
    <2>3. CASE child[Of(r)] # "queued"
        <3>1. UNCHANGED <<child, claimed>>
            BY <1>9, <2>3 DEF ResumeClaims
        <3> QED BY <1>2, <2>1, <3>1
    <2> QED BY <2>2, <2>3
<1>10. ASSUME NEW x \in Relayers, DispatchFails(x)
       PROVE  Outbox!Next \/ UNCHANGED <<Standing, claimed>>
    BY <1>1, <1>10, DispatchGivesUp
<1> QED BY RowSteps, <1>3, <1>4, <1>5, <1>6, <1>7, <1>8, <1>9, <1>10 DEF RowStep

\* The children implement AtLeastOnce: none is completed that no runner claimed,
\* and a completed one stays completed, whatever the reaper, a cancel or a late
\* relay does (ImplementsAtLeastOnce: _finalize, run_investigation, the resume).
THEOREM ClustersImplementAtLeastOnce == Spec => ImplementsAtLeastOnce
<1>1. Init => Outbox!Init
    BY DEF Init, Outbox!Init, Item, IsActive, Active
<1>2. RowInv /\ [Next]_vars
         => [Outbox!Next]_<<[c \in Children |-> Item(c)], claimed>>
    BY ChildrenStep DEF Standing
<1> QED BY <1>1, <1>2, RowsAreSound, PTL DEF Spec, ImplementsAtLeastOnce, Outbox!Spec
=============================================================================
