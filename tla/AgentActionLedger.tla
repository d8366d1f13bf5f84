------------------------- MODULE AgentActionLedger -------------------------
(***************************************************************************)
(* The ledger of what agents do outside their own run.  One table holds    *)
(* two kinds of rows:                                                      *)
(*  - tool calls (backend/app/services/tool_call_idempotency.py): a Jira   *)
(*    issue filed by a pipeline stage, guarded by the fencing token of its *)
(*    run, or by a person's one-click request, serialized by an advisory   *)
(*    lock (services/defect_jira_service.py);                              *)
(*  - actions (services/agent_action_ledger_service.py): proposed by an    *)
(*    agent, approved by a person, published through a dispatch outbox,    *)
(*    executed by a Celery task, reaped when the task is lost, undone by a *)
(*    person (routers/agent_actions.py).                                   *)
(*                                                                         *)
(* Every action is one committed transaction, one external call or one     *)
(* failure between two of them.                                            *)
(*                                                                         *)
(* Abstractions.                                                           *)
(*  - An action is claimed only once (nothing returns to "approved"), so   *)
(*    execution_started_at, the fencing value of the claim, is left out.   *)
(*  - The live gates of the executor (review, Act mode, payload hash,      *)
(*    approver, preflight) are one choice: refuse or claim.                *)
(*  - The reaper's cutoff (600 s) is not timed: it may find any claim      *)
(*    overdue whose executor has ended, and with TimeLimits = FALSE one    *)
(*    whose executor outlived its time limit (120 s).  A lease of the      *)
(*    dispatch outbox is not timed either.                                 *)
(*  - The stage-entry lookup prior_tool_calls only saves claims that would *)
(*    answer "executing": the claim decides.                               *)
(*  - An attempt makes one call per subject; subjects are independent, and *)
(*    an attempt here is its visit of one of them.                         *)
(*  - A closed defect opens a new generation, a key of its own.            *)
(*  - A person confirms that Jira holds no issue only when that is so.     *)
(***************************************************************************)
EXTENDS Naturals, FiniteSets

CONSTANTS
    StageCalls,        \* tool calls keyed by (tool, test run, subject)
    OneClickCalls,     \* tool calls keyed by (project, signature:generation)
    Actions,           \* actions proposed by agents
    Committing,        \* actions whose adapter commits on its own (quarantine)
    MaxAttempts,       \* bound: attempts of the pipeline run, its tokens
    Requests,          \* one-click requests
    Relays,            \* dispatch outbox rows in the hands of a relay tick
    Executors,         \* Celery slots running execute_agent_action
    Undoers,           \* requests that undo an action
    Nobody,            \* no request holds a lock
    StageKnowsUnknown, \* a stage's call raises OutcomeUnknown after a lost answer
    TimeLimits         \* Celery kills an executor before its claim is overdue

Calls == StageCalls \cup OneClickCalls
Keys == Calls \cup Actions
Attempts == 1 .. MaxAttempts
Callers == Attempts \cup Requests

ASSUME LedgerAssumption ==
    /\ StageCalls \cap OneClickCalls = {}
    /\ Calls \cap Actions = {}
    /\ Committing \subseteq Actions
    /\ MaxAttempts \in Nat \ {0}
    /\ Requests \cap Nat = {}
    /\ Nobody \notin Callers
    /\ StageKnowsUnknown \in BOOLEAN
    /\ TimeLimits \in BOOLEAN

VARIABLES
    status,      \* the rows of agent_action_ledger
    unknown,     \* actions that failed with the code outcome_unknown
    owner,       \* the attempt that holds the lease of the pipeline run
    caller,      \* what each caller of run_once does
    lock,        \* per signature, the request that holds the advisory lock
    linked,      \* signatures with a committed open defect linked to an issue
    adrift,      \* per call, requests nobody waits for that may still land
    outbox,      \* the rows of agent_action_dispatch_outbox
    message,     \* actions with a copy of their task in the broker
    relay, executor, undoer,  \* what each process does
    effects,     \* history: how often each effect happened
    undone       \* history: how often each effect was undone

callVars == <<owner, caller, lock, linked, adrift>>
actionVars == <<unknown, outbox, message, relay, executor, undoer, undone>>
vars == <<status, effects, callVars, actionVars>>

CallStatus == {"absent", "executing", "executed", "failed"}
ActionStatus == {"absent", "pending_review", "approved", "executing", "executed",
                 "failed", "rejected", "rolled_back"}
Idle == [phase |-> "idle"]
Over == [phase |-> "over"]
Busy(phases, keys) == [phase : phases, key : keys]

CallPhase == {"fenced", "inserting", "claimed", "calling", "answered",
              "failing", "unclear", "done"}
ExecutorPhase == {"delivered", "claimed", "locked", "half", "effected",
                  "failing", "unsure"}

At(process, phase) == process.phase = phase

Init ==
    /\ status = [k \in Keys |-> "absent"]
    /\ unknown = {}
    /\ owner = 1
    /\ caller = [c \in Callers |-> Idle]
    /\ lock = [k \in OneClickCalls |-> Nobody]
    /\ linked = {}
    /\ adrift = [k \in Calls |-> 0]
    /\ outbox = [a \in Actions |-> "absent"]
    /\ message = {}
    /\ relay = [r \in Relays |-> Idle]
    /\ executor = [e \in Executors |-> Idle]
    /\ undoer = [u \in Undoers |-> Idle]
    /\ effects = [k \in Keys |-> 0]
    /\ undone = [a \in Actions |-> 0]

Do(c, phase) == caller' = [caller EXCEPT ![c].phase = phase]
Write(k, s) == status' = [status EXCEPT ![k] = s]
Happen(k) == effects' = [effects EXCEPT ![k] = @ + 1]

\* The caller is through with the key; a request ends its transaction and with
\* it the advisory lock.
Leave(c) ==
    /\ caller' = [caller EXCEPT ![c] = IF c \in Attempts THEN Over ELSE Idle]
    /\ lock' = [k \in OneClickCalls |-> IF lock[k] = c THEN Nobody ELSE lock[k]]

(***************************************************************************)
(* Claiming a tool call.                                                   *)
(***************************************************************************)
\* The run is resumed under a new token; the earlier attempt may live on.
ReplaceAttempt ==
    /\ owner < MaxAttempts
    /\ owner' = owner + 1
    /\ UNCHANGED <<status, effects, caller, lock, linked, adrift, actionVars>>

\* The claim reads the token first; LeaseLost ends a replaced attempt.
fence_or_raise(c, k) ==
    /\ c \in Attempts /\ k \in StageCalls
    /\ At(caller[c], "idle") /\ c <= owner
    /\ caller' = [caller EXCEPT ![c] =
                      IF c = owner THEN [phase |-> "fenced", key |-> k] ELSE Over]
    /\ UNCHANGED <<status, effects, owner, lock, linked, adrift, actionVars>>

\* A one-click request waits for the signature, then for an open defect to
\* deduplicate onto; there is none, so it goes on to the claim.
_lock_signature(c, k) ==
    /\ c \in Requests /\ k \in OneClickCalls
    /\ At(caller[c], "idle") /\ lock[k] = Nobody /\ k \notin linked
    /\ lock' = [lock EXCEPT ![k] = c]
    /\ caller' = [caller EXCEPT ![c] = [phase |-> "fenced", key |-> k]]
    /\ UNCHANGED <<status, effects, owner, linked, adrift, actionVars>>

\* SELECT ... FOR UPDATE locks a row that is there; an absent row is read and
\* inserted in two steps.
_claim(c) ==
    LET k == caller[c].key IN
    /\ At(caller[c], "fenced")
    /\ \/ status[k] = "absent" /\ Do(c, "inserting") /\ UNCHANGED status
       \/ status[k] = "executed" /\ Do(c, "done") /\ UNCHANGED status
       \/ status[k] = "executing" /\ Do(c, "unclear") /\ UNCHANGED status
       \/ status[k] = "failed" /\ Do(c, "claimed") /\ Write(k, "executing")
    /\ UNCHANGED <<effects, owner, lock, linked, adrift, actionVars>>

\* Another attempt may have inserted the key since: IntegrityError.
InsertClaim(c) ==
    LET k == caller[c].key IN
    /\ At(caller[c], "inserting")
    /\ IF status[k] = "absent"
       THEN Do(c, "claimed") /\ Write(k, "executing")
       ELSE Do(c, "unclear") /\ UNCHANGED status
    /\ UNCHANGED <<effects, owner, lock, linked, adrift, actionVars>>

(***************************************************************************)
(* The call and its recording (run_once).                                  *)
(***************************************************************************)
SendCall(c) ==
    /\ At(caller[c], "claimed")
    /\ Do(c, "calling")
    /\ UNCHANGED <<status, effects, owner, lock, linked, adrift, actionVars>>

\* The request lands and its answer is read.
CallAnswers(c) ==
    /\ At(caller[c], "calling")
    /\ Happen(caller[c].key)
    /\ Do(c, "answered")
    /\ UNCHANGED <<status, owner, lock, linked, adrift, actionVars>>

\* It was not sent (connection refused) or it was refused (HTTP 4xx).
CallFails(c) ==
    /\ At(caller[c], "calling")
    /\ Do(c, "failing")
    /\ UNCHANGED <<status, effects, owner, lock, linked, adrift, actionVars>>

Adrift(k) == adrift' = [adrift EXCEPT ![k] = @ + 1]

\* Mutant: a read timeout is recorded as a failure.
TimeoutIsFailure(c) ==
    /\ At(caller[c], "calling")
    /\ Adrift(caller[c].key)
    /\ Do(c, "failing")
    /\ UNCHANGED <<status, effects, owner, lock, linked, actionVars>>

\* A read timeout, a dropped connection, a 5xx: OutcomeUnknown leaves the row
\* executing; any other exception goes on to record a failure.
AnswerLost(c) ==
    /\ At(caller[c], "calling")
    /\ Adrift(caller[c].key)
    /\ IF c \in Requests \/ StageKnowsUnknown THEN Leave(c) ELSE Do(c, "failing") /\ UNCHANGED lock
    /\ UNCHANGED <<status, effects, owner, linked, actionVars>>

Land(k) ==
    /\ adrift[k] > 0
    /\ adrift' = [adrift EXCEPT ![k] = @ - 1]
    /\ Happen(k)
    /\ UNCHANGED <<status, owner, caller, lock, linked, actionVars>>

Vanish(k) ==
    /\ adrift[k] > 0
    /\ adrift' = [adrift EXCEPT ![k] = @ - 1]
    /\ UNCHANGED <<status, effects, owner, caller, lock, linked, actionVars>>

\* _finish is not fenced: whoever called records how the call ended.
_finish_executed(c) ==
    /\ At(caller[c], "answered")
    /\ Write(caller[c].key, "executed")
    /\ Do(c, "done")
    /\ UNCHANGED <<effects, owner, lock, linked, adrift, actionVars>>

_finish_failed(c) ==
    /\ At(caller[c], "failing")
    /\ Write(caller[c].key, "failed")
    /\ Leave(c)
    /\ UNCHANGED <<effects, owner, linked, adrift, actionVars>>

\* The recording fails, or the caller was told "executing" and stops.
StopUnrecorded(c) ==
    /\ caller[c].phase \in {"answered", "failing", "unclear"}
    /\ Leave(c)
    /\ UNCHANGED <<status, effects, owner, linked, adrift, actionVars>>

\* The search by label finds the issue (it may lag): the request records it.
Reconcile(c) ==
    LET k == caller[c].key IN
    /\ c \in Requests /\ At(caller[c], "unclear")
    /\ effects[k] > 0
    /\ Write(k, "executed")
    /\ Do(c, "done")
    /\ UNCHANGED <<effects, owner, lock, linked, adrift, actionVars>>

\* confirm_not_filed: nothing landed, nothing is on its way.
ConfirmNotFiled(c) ==
    LET k == caller[c].key IN
    /\ c \in Requests /\ At(caller[c], "unclear")
    /\ effects[k] = 0 /\ adrift[k] = 0
    /\ Write(k, "failed")
    /\ Do(c, "fenced")
    /\ UNCHANGED <<effects, owner, lock, linked, adrift, actionVars>>

\* The issue is linked to a defect row; of a request it is its commit.
LinkDefect(c) ==
    /\ At(caller[c], "done")
    /\ linked' = linked \cup ({caller[c].key} \cap OneClickCalls)
    /\ Leave(c)
    /\ UNCHANGED <<status, effects, owner, adrift, actionVars>>

CallerDies(c) ==
    /\ caller[c].phase \notin {"idle", "over"}
    /\ IF At(caller[c], "calling") THEN Adrift(caller[c].key) ELSE UNCHANGED adrift
    /\ Leave(c)
    /\ UNCHANGED <<status, effects, owner, linked, actionVars>>

(***************************************************************************)
(* Proposal, decision and dispatch of an action.                           *)
(***************************************************************************)
enqueue_action_dispatch(a) ==
    outbox' = [outbox EXCEPT ![a] = IF @ = "absent" THEN "pending" ELSE @]

\* An executor or an undo holds the row's lock.
Locked(a) ==
    \/ \E e \in Executors : executor[e].phase \in {"locked", "half"} /\ executor[e].key = a
    \/ \E u \in Undoers : At(undoer[u], "locked") /\ undoer[u].key = a

create_action_proposal(a, approval_required) ==
    /\ status[a] = "absent"
    /\ IF approval_required
       THEN Write(a, "pending_review") /\ UNCHANGED outbox
       ELSE Write(a, "approved") /\ enqueue_action_dispatch(a)
    /\ UNCHANGED <<effects, callVars, unknown, message, relay, executor, undoer, undone>>

_approve(a) ==
    /\ status[a] = "pending_review"
    /\ Write(a, "approved")
    /\ enqueue_action_dispatch(a)
    /\ UNCHANGED <<effects, callVars, unknown, message, relay, executor, undoer, undone>>

_reject(a) ==
    /\ status[a] \in {"pending_review", "approved"}
    /\ Write(a, "rejected")
    /\ UNCHANGED <<effects, callVars, actionVars>>

\* A pending row, or one whose sender's lease expired.
claim_action_dispatches(r, a) ==
    /\ At(relay[r], "idle")
    /\ outbox[a] \in {"pending", "sending"}
    /\ outbox' = [outbox EXCEPT ![a] = "sending"]
    /\ relay' = [relay EXCEPT ![r] = [phase |-> "claimed", key |-> a]]
    /\ UNCHANGED <<status, effects, callVars, unknown, message, executor, undoer, undone>>

PublishAction(r) ==
    /\ At(relay[r], "claimed")
    /\ message' = message \cup {relay[r].key}
    /\ relay' = [relay EXCEPT ![r].phase = "sent"]
    /\ UNCHANGED <<status, effects, callVars, unknown, outbox, executor, undoer, undone>>

\* The row is marked only while it is still being sent.
Mark(r, s) ==
    LET a == relay[r].key IN
    /\ outbox' = [outbox EXCEPT ![a] = IF @ = "sending" THEN s ELSE @]
    /\ relay' = [relay EXCEPT ![r] = Idle]
    /\ UNCHANGED <<status, effects, callVars, unknown, message, executor, undoer, undone>>

mark_action_dispatch_sent(r) == At(relay[r], "sent") /\ Mark(r, "sent")

\* The broker or the mark raises: the row goes back to pending.
mark_action_dispatch_failed(r) ==
    relay[r].phase \in {"claimed", "sent"} /\ Mark(r, "pending")

RelayDies(r) ==
    /\ relay[r].phase # "idle"
    /\ relay' = [relay EXCEPT ![r] = Idle]
    /\ UNCHANGED <<status, effects, callVars, unknown, outbox, message, executor, undoer, undone>>

(***************************************************************************)
(* The executor.  A copy may be delivered any number of times or lost.     *)
(***************************************************************************)
LoseMessage(a) ==
    /\ a \in message
    /\ message' = message \ {a}
    /\ UNCHANGED <<status, effects, callVars, unknown, outbox, relay, executor, undoer, undone>>

Deliver(e, a) ==
    /\ At(executor[e], "idle") /\ a \in message
    /\ executor' = [executor EXCEPT ![e] = [phase |-> "delivered", key |-> a]]
    /\ UNCHANGED <<status, effects, callVars, unknown, outbox, message, relay, undoer, undone>>

Goes(e, phase) == executor' = [executor EXCEPT ![e].phase = phase]
Ends(e) == executor' = [executor EXCEPT ![e] = Idle]
ExecutorFrame == <<callVars, outbox, message, relay, undoer, undone>>

\* Mutant: a row another delivery has claimed is executed again.
ReclaimsExecuting(e) ==
    LET a == executor[e].key IN
    /\ At(executor[e], "delivered") /\ ~Locked(a)
    /\ IF status[a] \in {"approved", "executing"}
       THEN Goes(e, "claimed") /\ Write(a, "executing")
       ELSE Ends(e) /\ UNCHANGED status
    /\ UNCHANGED <<effects, unknown, ExecutorFrame>>

\* Only an approved row is executable: it is refused by a live gate, or
\* claimed durably before any effect.
_claim_or_refuse(e) ==
    LET a == executor[e].key IN
    /\ At(executor[e], "delivered") /\ ~Locked(a)
    /\ \/ status[a] = "approved" /\ Goes(e, "claimed") /\ Write(a, "executing")
       \/ status[a] = "approved" /\ Ends(e) /\ Write(a, "failed")
       \/ status[a] # "approved" /\ Ends(e) /\ UNCHANGED status
    /\ UNCHANGED <<effects, unknown, ExecutorFrame>>

_lock_claimed(e) ==
    LET a == executor[e].key IN
    /\ At(executor[e], "claimed") /\ ~Locked(a)
    /\ IF status[a] = "executing" THEN Goes(e, "locked") ELSE Ends(e)
    /\ UNCHANGED <<status, effects, unknown, ExecutorFrame>>

\* A stage-only adapter: effect, audit and "executed" are one commit, of
\* which the answer may be lost.
CommitEffect(e) ==
    LET a == executor[e].key IN
    /\ At(executor[e], "locked") /\ a \notin Committing
    /\ Happen(a)
    /\ Write(a, "executed")
    /\ Ends(e) \/ Goes(e, "failing")
    /\ UNCHANGED <<unknown, ExecutorFrame>>

\* A committing adapter: propose_quarantine commits on a session of its own,
\* approve commits the executor's session and releases the row.
ProposeEffect(e) ==
    LET a == executor[e].key IN
    /\ At(executor[e], "locked") /\ a \in Committing
    /\ Happen(a)
    /\ Goes(e, "half")
    /\ UNCHANGED <<status, unknown, ExecutorFrame>>

ApproveEffect(e) ==
    /\ At(executor[e], "half")
    /\ Goes(e, "effected")
    /\ UNCHANGED <<status, effects, unknown, ExecutorFrame>>

\* The second _lock_claimed reads the object its session already holds
\* (expire_on_commit=False, no populate_existing): it always finds its claim.
FinishEffected(e) ==
    LET a == executor[e].key IN
    /\ At(executor[e], "effected") /\ ~Locked(a)
    /\ Write(a, "executed")
    /\ Ends(e)
    /\ UNCHANGED <<effects, unknown, ExecutorFrame>>

EffectRaises(e) ==
    LET a == executor[e].key IN
    /\ executor[e].phase \in {"locked", "half", "effected"}
    /\ Goes(e, IF a \in Committing THEN "unsure" ELSE "failing")
    /\ UNCHANGED <<status, effects, unknown, ExecutorFrame>>

FailUnknown(a) == unknown' = unknown \cup {a}

\* Session 3, while the row is still this claim's.
_record_effect_failure(e) ==
    LET a == executor[e].key IN
    /\ executor[e].phase \in {"failing", "unsure"} /\ ~Locked(a)
    /\ IF status[a] = "executing"
       THEN /\ Write(a, "failed")
            /\ IF At(executor[e], "unsure") THEN FailUnknown(a) ELSE UNCHANGED unknown
       ELSE UNCHANGED <<status, unknown>>
    /\ Ends(e)
    /\ UNCHANGED <<effects, ExecutorFrame>>

ExecutorDies(e) ==
    /\ executor[e].phase # "idle"
    /\ Ends(e)
    /\ UNCHANGED <<status, effects, unknown, ExecutorFrame>>

\* Mutant: the reaper spares the actions whose adapter commits on its own.
StageOnlyTypes == Actions \ Committing

\* The types the executor can claim: never the rows of tool calls.
_EXECUTOR_ACTION_TYPES == Actions

\* An executor that still goes on with its claim of a.
Running(e, a) == executor[e].phase \notin {"idle", "delivered"} /\ executor[e].key = a

\* SKIP LOCKED; of a tool call the row would simply become failed.
reap_stuck_actions(k) ==
    /\ k \in _EXECUTOR_ACTION_TYPES
    /\ status[k] = "executing" /\ ~Locked(k)
    /\ TimeLimits => \A e \in Executors : ~Running(e, k)
    /\ Write(k, "failed")
    /\ FailUnknown(k)
    /\ UNCHANGED <<effects, ExecutorFrame, executor>>

(***************************************************************************)
(* Undo of an executed action.  The adapter's rollback is a compare and    *)
(* set: a repeated one changes nothing.                                    *)
(***************************************************************************)
UndoFrame == <<effects, callVars, unknown, outbox, message, relay, executor>>

_undo(u, a) ==
    /\ At(undoer[u], "idle")
    /\ status[a] = "executed" /\ ~Locked(a)
    /\ undoer' = [undoer EXCEPT ![u] = [phase |-> "locked", key |-> a]]
    /\ UNCHANGED <<status, undone, UndoFrame>>

\* Mutant: the release does not look whether the target was released.
ReleaseAgain(a) == undone' = [undone EXCEPT ![a] = @ + 1]

CompareAndSet(a) == undone' = [undone EXCEPT ![a] = 1]

\* The target service commits the request's session and releases the row.
RollbackCommits(u) ==
    LET a == undoer[u].key IN
    /\ At(undoer[u], "locked") /\ a \in Committing
    /\ CompareAndSet(a)
    /\ undoer' = [undoer EXCEPT ![u].phase = "released"]
    /\ UNCHANGED <<status, UndoFrame>>

\* The row is locked again and must still be executed.
UndoFinishes(u) ==
    LET a == undoer[u].key IN
    /\ \/ At(undoer[u], "locked") /\ a \notin Committing /\ CompareAndSet(a)
          /\ Write(a, "rolled_back")
       \/ At(undoer[u], "released") /\ ~Locked(a) /\ UNCHANGED undone
          /\ IF status[a] = "executed" THEN Write(a, "rolled_back") ELSE UNCHANGED status
    /\ undoer' = [undoer EXCEPT ![u] = Idle]
    /\ UNCHANGED UndoFrame

\* The rollback is refused (the target changed since), or the request dies.
UndoFails(u) ==
    /\ undoer[u].phase # "idle"
    /\ undoer' = [undoer EXCEPT ![u] = Idle]
    /\ UNCHANGED <<status, undone, UndoFrame>>

(***************************************************************************)
(* Specification.                                                          *)
(***************************************************************************)
CallerNext(c) ==
    \/ \E k \in Calls : fence_or_raise(c, k) \/ _lock_signature(c, k)
    \/ _claim(c) \/ InsertClaim(c)
    \/ SendCall(c) \/ CallAnswers(c) \/ CallFails(c) \/ AnswerLost(c)
    \/ _finish_executed(c) \/ _finish_failed(c) \/ StopUnrecorded(c)
    \/ Reconcile(c) \/ ConfirmNotFiled(c) \/ LinkDefect(c)
    \/ CallerDies(c)

CallNext ==
    \/ ReplaceAttempt
    \/ \E c \in Callers : CallerNext(c)
    \/ \E k \in Calls : Land(k) \/ Vanish(k)

ExecutorNext(e) ==
    \/ \E a \in Actions : Deliver(e, a)
    \/ _claim_or_refuse(e) \/ _lock_claimed(e)
    \/ CommitEffect(e) \/ ProposeEffect(e) \/ ApproveEffect(e) \/ FinishEffected(e)
    \/ EffectRaises(e) \/ _record_effect_failure(e) \/ ExecutorDies(e)

ActionNext ==
    \/ \E a \in Actions :
          \/ \E approval_required \in BOOLEAN : create_action_proposal(a, approval_required)
          \/ _approve(a) \/ _reject(a)
          \/ LoseMessage(a)
    \/ \E r \in Relays :
          \/ \E a \in Actions : claim_action_dispatches(r, a)
          \/ PublishAction(r) \/ mark_action_dispatch_sent(r)
          \/ mark_action_dispatch_failed(r) \/ RelayDies(r)
    \/ \E e \in Executors : ExecutorNext(e)
    \/ \E k \in Keys : reap_stuck_actions(k)
    \/ \E u \in Undoers :
          \/ \E a \in Actions : _undo(u, a)
          \/ RollbackCommits(u) \/ UndoFinishes(u) \/ UndoFails(u)

Next == CallNext \/ ActionNext

Spec == Init /\ [][Next]_vars

\* The beat starts the reaper every minute; an executor and an undo end, if
\* only by their time limit.
Fairness ==
    /\ \A k \in Actions : WF_vars(reap_stuck_actions(k))
    /\ \A e \in Executors : WF_vars(ExecutorDies(e))
    /\ \A u \in Undoers : WF_vars(UndoFails(u))

FairSpec == Spec /\ Fairness

(***************************************************************************)
(* Properties.                                                             *)
(***************************************************************************)
\* The values the columns and the processes can have.
TypeOK ==
    /\ status \in [Keys -> CallStatus \cup ActionStatus]
    /\ \A k \in Calls : status[k] \in CallStatus
    /\ unknown \subseteq Actions
    /\ owner \in Attempts
    /\ caller \in [Callers -> {Idle, Over} \cup Busy(CallPhase, Calls)]
    /\ lock \in [OneClickCalls -> Requests \cup {Nobody}]
    /\ linked \subseteq OneClickCalls
    /\ adrift \in [Calls -> Nat]
    /\ outbox \in [Actions -> {"absent", "pending", "sending", "sent"}]
    /\ message \subseteq Actions
    /\ relay \in [Relays -> {Idle} \cup Busy({"claimed", "sent"}, Actions)]
    /\ executor \in [Executors -> {Idle} \cup Busy(ExecutorPhase, Actions)]
    /\ undoer \in [Undoers -> {Idle} \cup Busy({"locked", "released"}, Actions)]
    /\ effects \in [Keys -> Nat]
    /\ undone \in [Actions -> Nat]

\* Rows whose callers say by name that an outcome is unknown: all but those of the
\* stages, and those too if StageKnowsUnknown.
Accountable == {k \in Keys : k \in StageCalls => StageKnowsUnknown}

\* A tool call recorded as failed may be made again, because nothing of it
\* has reached Jira and nothing is on its way (run_once, _claim).
FailedCallNeverLands ==
    \A k \in Calls \cap Accountable :
        status[k] = "failed" => effects[k] = 0 /\ adrift[k] = 0

\* "Make call at most once for (tool, scope_id, subject_id)" (run_once): what
\* the ledger is there for.
OneIssue == \A k \in Calls : effects[k] <= 1

\* What happened to a row and what the ledger says of it, as SingleEffect sees it.
happened == [k \in Accountable |-> effects[k]]
verdict ==
    [k \in Accountable |->
        IF status[k] \in {"executed", "rolled_back"} THEN "done"
        ELSE IF k \in Actions /\ status[k] = "rejected" THEN "never"
        ELSE IF k \in Actions /\ status[k] = "failed"
             THEN IF k \in unknown THEN "unknown" ELSE "never"
        ELSE "open"]

\* Only an executor that outlives its time limit finds its row settled under it.
Single == INSTANCE SingleEffect
          WITH Keys <- Accountable, effects <- happened, MayCorrect <- ~TimeLimits

\* The accountable rows of the ledger implement SingleEffect: one issue, one
\* effect, only while the row is open, and a verdict that is true and final.
ImplementsSingleEffect == Single!Spec

\* What the ledger says of an action is true of its effect, also when an executor
\* outlives its time limit and the reaper settles the row under it (execute_action,
\* reap_stuck_actions).
VerdictsAreTrue ==
    \A a \in Actions :
        /\ effects[a] <= 1
        /\ verdict[a] = "done" => effects[a] = 1
        /\ verdict[a] = "never" => effects[a] = 0

\* A rolled back action was undone once, and what is undone was done
\* (routers/agent_actions.py, _undo; two people may undo at the same time).
UndoneOnce ==
    \A a \in Actions :
        /\ undone[a] <= effects[a]
        /\ status[a] = "rolled_back" => undone[a] = 1

\* A claimed action does not stay executing: it ends, or is undone, or the
\* reaper settles it when its executor is lost (reap_stuck_actions).
EveryClaimSettles ==
    \A a \in Actions : status[a] = "executing" ~> status[a] # "executing"
=============================================================================
