---------------------- MODULE AgentActionLedgerProofs ----------------------
(***************************************************************************)
(* Machine-checked proofs about the agent action ledger, for every set of  *)
(* rows, attempts, requests, relays, executors and undoers.                *)
(***************************************************************************)
EXTENDS AgentActionLedger, TLAPS

(***************************************************************************)
(* Type correctness.                                                       *)
(***************************************************************************)
\* The initial rows, processes and histories are typed.
LEMMA InitTypeOK == Init => TypeOK
BY LedgerAssumption DEF Init, TypeOK, Calls, Keys, CallStatus, Attempts, Idle

\* A process that is under way holds a key, and keeps it when it goes on.
LEMMA CallerGoesOn ==
    ASSUME TypeOK, NEW c \in Callers, caller[c].phase \notin {"idle", "over"}
    PROVE  /\ caller[c] \in Busy(CallPhase, Calls)
           /\ caller[c].key \in Calls
           /\ \A p \in CallPhase :
                 Do(c, p) => caller' = [caller EXCEPT ![c] = [phase |-> p, key |-> caller[c].key]]
           /\ \A p \in CallPhase :
                 Do(c, p) => caller' \in [Callers -> {Idle, Over} \cup Busy(CallPhase, Calls)]
<1>1. caller[c] \in Busy(CallPhase, Calls) /\ caller[c].key \in Calls
    BY DEF TypeOK, Idle, Over, Busy
<1>2. ASSUME NEW p \in CallPhase
      PROVE  [caller[c] EXCEPT !.phase = p] = [phase |-> p, key |-> caller[c].key]
    BY <1>1 DEF Busy
<1>3. ASSUME NEW p \in CallPhase, Do(c, p)
      PROVE  caller' = [caller EXCEPT ![c] = [phase |-> p, key |-> caller[c].key]]
    BY <1>2, <1>3 DEF Do
<1>4. ASSUME NEW p \in CallPhase, Do(c, p)
      PROVE  caller' \in [Callers -> {Idle, Over} \cup Busy(CallPhase, Calls)]
  <2>1. [phase |-> p, key |-> caller[c].key] \in Busy(CallPhase, Calls)
    BY <1>1 DEF Busy
  <2> QED BY <1>3, <1>4, <2>1 DEF TypeOK
<1> QED BY <1>1, <1>3, <1>4

\* A caller that leaves, and a status written to the row of a call.
LEMMA CallerLeaves ==
    ASSUME TypeOK, NEW c \in Callers, Leave(c)
    PROVE  /\ caller' \in [Callers -> {Idle, Over} \cup Busy(CallPhase, Calls)]
           /\ lock' \in [OneClickCalls -> Requests \cup {Nobody}]
BY DEF TypeOK, Leave

\* A row a caller writes stays the row of a call.
LEMMA CallRowWritten ==
    ASSUME TypeOK, NEW k \in Calls, NEW s \in CallStatus, Write(k, s)
    PROVE  /\ status' \in [Keys -> CallStatus \cup ActionStatus]
           /\ \A j \in Calls : status'[j] \in CallStatus
BY DEF TypeOK, Write, Keys

\* A busy executor keeps its action while it moves to its next phase.
LEMMA ExecutorGoesOn ==
    ASSUME TypeOK, NEW e \in Executors, executor[e].phase # "idle"
    PROVE  /\ executor[e].phase \in ExecutorPhase /\ executor[e].key \in Actions
           /\ \A p \in ExecutorPhase :
                 Goes(e, p) => executor' = [executor EXCEPT ![e] = [phase |-> p, key |-> executor[e].key]]
BY DEF TypeOK, Idle, Busy, Goes

\* A busy relay keeps its action while it publishes it.
LEMMA RelayGoesOn ==
    ASSUME TypeOK, NEW r \in Relays, relay[r].phase # "idle"
    PROVE  /\ relay[r].key \in Actions
           /\ [relay[r] EXCEPT !.phase = "sent"] \in Busy({"claimed", "sent"}, Actions)
BY DEF TypeOK, Idle, Busy

\* A busy undoer keeps its action while it releases its locks.
LEMMA UndoerGoesOn ==
    ASSUME TypeOK, NEW u \in Undoers, undoer[u].phase # "idle"
    PROVE  /\ undoer[u].phase \in {"locked", "released"} /\ undoer[u].key \in Actions
           /\ [undoer[u] EXCEPT !.phase = "released"] = [phase |-> "released", key |-> undoer[u].key]
BY DEF TypeOK, Idle, Busy

\* A row of a tool call keeps to the statuses of tool calls.
LEMMA CallKeepsTypes ==
    ASSUME TypeOK, CallNext
    PROVE  TypeOK'
<1> USE LedgerAssumption DEF actionVars
<1>1. CASE ReplaceAttempt
    BY <1>1 DEF ReplaceAttempt, TypeOK, Attempts
<1>2. ASSUME NEW k \in Calls, Land(k) \/ Vanish(k) PROVE TypeOK'
    BY <1>2 DEF Land, Vanish, Happen, TypeOK, Keys
<1>3. ASSUME NEW c \in Callers, CallerNext(c) PROVE TypeOK'
  <2> USE DEF At, Busy, CallPhase
  <2>1. ASSUME NEW k \in Calls, fence_or_raise(c, k) \/ _lock_signature(c, k) PROVE TypeOK'
    BY <2>1 DEF fence_or_raise, _lock_signature, TypeOK
  <2>2. CASE _claim(c) \/ InsertClaim(c)
    <3>1. caller[c].phase \notin {"idle", "over"}
        BY <2>2 DEF _claim, InsertClaim
    <3> QED BY <2>2, <3>1, CallerGoesOn, CallRowWritten
            DEF _claim, InsertClaim, TypeOK, CallStatus
  <2>3. CASE SendCall(c) \/ CallAnswers(c) \/ CallFails(c)
    <3>1. caller[c].phase \notin {"idle", "over"}
        BY <2>3 DEF SendCall, CallAnswers, CallFails
    <3> QED BY <2>3, <3>1, CallerGoesOn
            DEF SendCall, CallAnswers, CallFails, Happen, TypeOK, Keys
  <2>4. CASE AnswerLost(c)
    <3>1. caller[c].phase \notin {"idle", "over"}
        BY <2>4 DEF AnswerLost
    <3> QED BY <2>4, <3>1, CallerGoesOn, CallerLeaves DEF AnswerLost, Adrift, TypeOK
  <2>5. CASE _finish_executed(c) \/ _finish_failed(c) \/ Reconcile(c) \/ ConfirmNotFiled(c)
    <3>1. caller[c].phase \notin {"idle", "over"}
        BY <2>5 DEF _finish_executed, _finish_failed, Reconcile, ConfirmNotFiled
    <3> QED BY <2>5, <3>1, CallerGoesOn, CallerLeaves, CallRowWritten
            DEF _finish_executed, _finish_failed, Reconcile, ConfirmNotFiled, TypeOK, CallStatus
  <2>6. CASE StopUnrecorded(c) \/ LinkDefect(c)
    BY <2>6, CallerLeaves DEF StopUnrecorded, LinkDefect, TypeOK
  <2>7. CASE CallerDies(c)
    <3>1. caller[c].key \in Calls
        BY <2>7, CallerGoesOn DEF CallerDies
    <3> QED BY <2>7, <3>1, CallerLeaves DEF CallerDies, Adrift, TypeOK
  <2> QED BY <1>3, <2>1, <2>2, <2>3, <2>4, <2>5, <2>6, <2>7 DEF CallerNext
<1> QED BY <1>1, <1>2, <1>3 DEF CallNext

\* What writes the rows of actions leaves those of tool calls alone.
LEMMA ActionKeepsTypes ==
    ASSUME TypeOK, ActionNext
    PROVE  TypeOK'
<1> USE LedgerAssumption DEF callVars, ExecutorFrame, UndoFrame, At
<1>1. ASSUME NEW a \in Actions, NEW s \in ActionStatus
      PROVE  Write(a, s) => /\ status' \in [Keys -> CallStatus \cup ActionStatus]
                            /\ \A k \in Calls : status'[k] \in CallStatus
    BY <1>1 DEF Write, TypeOK, Keys
<1> USE DEF ActionStatus
<1>2. ASSUME NEW a \in Actions, NEW approval_required \in BOOLEAN,
             create_action_proposal(a, approval_required)
      PROVE  TypeOK'
    BY <1>1, <1>2 DEF create_action_proposal, enqueue_action_dispatch, TypeOK
<1>3. ASSUME NEW a \in Actions, _approve(a) \/ _reject(a) \/ LoseMessage(a)
      PROVE  TypeOK'
    BY <1>1, <1>3 DEF _approve, _reject, LoseMessage, enqueue_action_dispatch, actionVars, TypeOK
<1>4. ASSUME NEW r \in Relays, NEW a \in Actions, claim_action_dispatches(r, a)
      PROVE  TypeOK'
    BY <1>4 DEF claim_action_dispatches, TypeOK, Busy
<1>5. ASSUME NEW r \in Relays,
             \/ PublishAction(r) \/ mark_action_dispatch_sent(r)
             \/ mark_action_dispatch_failed(r) \/ RelayDies(r)
      PROVE  TypeOK'
    BY <1>5, RelayGoesOn
    DEF PublishAction, mark_action_dispatch_sent, mark_action_dispatch_failed, Mark,
        RelayDies, TypeOK
<1>6. ASSUME NEW e \in Executors, NEW a \in Actions, Deliver(e, a) PROVE TypeOK'
    BY <1>6 DEF Deliver, TypeOK, Busy, ExecutorPhase
<1>7. ASSUME NEW e \in Executors, _claim_or_refuse(e) \/ _lock_claimed(e) PROVE TypeOK'
  <2>1. executor[e].phase # "idle"
    BY <1>7 DEF _claim_or_refuse, _lock_claimed
  <2> QED BY <1>1, <1>7, <2>1, ExecutorGoesOn
          DEF _claim_or_refuse, _lock_claimed, Ends, TypeOK, Busy, ExecutorPhase
<1>8. ASSUME NEW e \in Executors, CommitEffect(e) \/ ProposeEffect(e) PROVE TypeOK'
  <2>1. executor[e].phase # "idle"
    BY <1>8 DEF CommitEffect, ProposeEffect
  <2>2. effects' \in [Keys -> Nat]
    BY <1>8, <2>1, ExecutorGoesOn DEF CommitEffect, ProposeEffect, Happen, TypeOK, Keys
  <2> QED BY <1>1, <1>8, <2>1, <2>2, ExecutorGoesOn
          DEF CommitEffect, ProposeEffect, Ends, TypeOK, Busy, ExecutorPhase
<1>9. ASSUME NEW e \in Executors, \/ ApproveEffect(e) \/ FinishEffected(e) \/ EffectRaises(e)
                                  \/ _record_effect_failure(e) \/ ExecutorDies(e)
      PROVE  TypeOK'
  <2>1. executor[e].phase # "idle"
    BY <1>9 DEF ApproveEffect, FinishEffected, EffectRaises, _record_effect_failure, ExecutorDies
  <2> QED BY <1>1, <1>9, <2>1, ExecutorGoesOn
          DEF ApproveEffect, FinishEffected, EffectRaises, _record_effect_failure,
              ExecutorDies, FailUnknown, Ends, TypeOK, Busy, ExecutorPhase
<1>10. ASSUME NEW k \in Keys, reap_stuck_actions(k) PROVE TypeOK'
    BY <1>1, <1>10 DEF reap_stuck_actions, _EXECUTOR_ACTION_TYPES, FailUnknown, TypeOK
<1>11. ASSUME NEW u \in Undoers, NEW a \in Actions, _undo(u, a) PROVE TypeOK'
    BY <1>11 DEF _undo, TypeOK, Busy
<1>12. ASSUME NEW u \in Undoers, RollbackCommits(u) \/ UndoFinishes(u) \/ UndoFails(u)
       PROVE  TypeOK'
  <2>1. undoer[u].phase # "idle"
    BY <1>12 DEF RollbackCommits, UndoFinishes, UndoFails
  <2>2. undoer' \in [Undoers -> {Idle} \cup Busy({"locked", "released"}, Actions)]
    <3>1. CASE RollbackCommits(u)
      <4>1. undoer' = [undoer EXCEPT ![u] = [undoer[u] EXCEPT !.phase = "released"]]
        BY <3>1 DEF RollbackCommits
      <4>2. [undoer[u] EXCEPT !.phase = "released"] \in Busy({"locked", "released"}, Actions)
        BY <2>1, UndoerGoesOn DEF Busy
      <4> QED BY <4>1, <4>2 DEF TypeOK
    <3>2. CASE UndoFinishes(u) \/ UndoFails(u)
        BY <3>2 DEF UndoFinishes, UndoFails, TypeOK
    <3> QED BY <1>12, <3>1, <3>2
  <2>3. CASE RollbackCommits(u) \/ UndoFails(u)
    BY <2>1, <2>2, <2>3, UndoerGoesOn DEF RollbackCommits, UndoFails, CompareAndSet, TypeOK
  <2>4. CASE UndoFinishes(u)
    <3>1. undone' \in [Actions -> Nat]
        BY <2>1, <2>4, UndoerGoesOn DEF UndoFinishes, CompareAndSet, TypeOK
    <3>2. UNCHANGED status \/ Write(undoer[u].key, "rolled_back")
        BY <2>4 DEF UndoFinishes
    <3>3. CASE UNCHANGED status
        BY <2>2, <2>4, <3>1, <3>3 DEF UndoFinishes, TypeOK
    <3>4. CASE Write(undoer[u].key, "rolled_back")
        BY <1>1, <2>1, <2>2, <2>4, <3>1, <3>4, UndoerGoesOn DEF UndoFinishes, TypeOK
    <3> QED BY <3>2, <3>3, <3>4
  <2> QED BY <1>12, <2>3, <2>4
<1> QED BY <1>2, <1>3, <1>4, <1>5, <1>6, <1>7, <1>8, <1>9, <1>10, <1>11, <1>12
        DEF ActionNext, ExecutorNext

\* Types, and the reaper's limit: it never settles a tool call, the rows of
\* which share the table (_EXECUTOR_ACTION_TYPES).
THEOREM TypeCorrect == Spec => []TypeOK
<1>1. TypeOK /\ [Next]_vars => TypeOK'
  <2>1. CASE UNCHANGED vars
    BY <2>1 DEF vars, callVars, actionVars, TypeOK
  <2> QED BY <2>1, CallKeepsTypes, ActionKeepsTypes DEF Next
<1> QED BY <1>1, InitTypeOK, PTL DEF Spec

(***************************************************************************)
(* One issue per tool call.  A caller that holds the claim of a call, from *)
(* the claim to the record of how the call ended, is alone with it; once   *)
(* it is lost, whatever it sent is the only request that can still land.   *)
(* The rows of stages are guarded only when their calls raise              *)
(* OutcomeUnknown for a lost answer.                                       *)
(***************************************************************************)
Guarded == Calls \cap Accountable

Holding == {"claimed", "calling", "answered", "failing"}
Holds(c, k) == caller[c].phase \in Holding /\ caller[c].key = k

\* An attempt visits calls of its stage; a request is inside the advisory lock
\* of its signature.
KeepsToItsKey(c) ==
    caller[c].phase \in CallPhase =>
        \/ c \in Attempts /\ caller[c].key \in StageCalls
        \/ /\ c \in Requests /\ caller[c].key \in OneClickCalls
           /\ lock[caller[c].key] = c

CallersKeepToTheirKeys == \A c \in Callers : KeepsToItsKey(c)

\* What the row of a call says of its effect.
RowIsTrue(k) ==
    /\ status[k] \in {"absent", "failed"} => effects[k] = 0 /\ adrift[k] = 0
    /\ status[k] = "executed" => effects[k] = 1
    /\ effects[k] + adrift[k] <= 1

HolderIsAlone(k) ==
    /\ \A c \in Callers : Holds(c, k) =>
          /\ status[k] = "executing" /\ adrift[k] = 0
          /\ effects[k] = IF caller[c].phase = "answered" THEN 1 ELSE 0
    /\ \A c, d \in Callers : Holds(c, k) /\ Holds(d, k) => c = d

CallInv(k) == RowIsTrue(k) /\ HolderIsAlone(k)
CallsInv == CallersKeepToTheirKeys /\ \A k \in Guarded : CallInv(k)

\* Attempts and requests are different callers, and Nobody is neither.
LEMMA Parties ==
    /\ Requests \cap Attempts = {} /\ StageCalls \cap OneClickCalls = {}
    /\ Nobody \notin Callers
    /\ Guarded \subseteq Calls
    /\ Guarded = {k \in Calls : k \in OneClickCalls \/ StageKnowsUnknown}
    /\ Actions \subseteq Accountable /\ Accountable \subseteq Keys
BY LedgerAssumption DEF Attempts, Guarded, Accountable, Keys, Calls

\* The advisory lock: two requests are never busy with one signature.
LEMMA OneRequest ==
    ASSUME CallersKeepToTheirKeys, NEW c \in Requests, NEW d \in Callers,
           caller[c].phase \in CallPhase, caller[d].phase \in CallPhase,
           caller[c].key = caller[d].key
    PROVE  c = d
<1>1. KeepsToItsKey(c) /\ KeepsToItsKey(d)
    BY DEF CallersKeepToTheirKeys, Callers
<1> QED BY <1>1, Parties DEF KeepsToItsKey

\* A caller keeps to its key.
LEMMA KeysKept ==
    ASSUME TypeOK, TypeOK', CallersKeepToTheirKeys, CallNext
    PROVE  CallersKeepToTheirKeys'
<1> SUFFICES ASSUME NEW d \in Callers PROVE KeepsToItsKey(d)'
    BY DEF CallersKeepToTheirKeys
<1>1. KeepsToItsKey(d)
    BY DEF CallersKeepToTheirKeys
<1>2. CASE UNCHANGED <<caller, lock>>
    BY <1>1, <1>2 DEF KeepsToItsKey
<1>3. ASSUME NEW c \in Callers, Leave(c) PROVE KeepsToItsKey(d)'
  <2>1. CASE d = c
    BY <1>3, <2>1 DEF Leave, TypeOK, KeepsToItsKey, Idle, Over, CallPhase
  <2>2. CASE d # c
    BY <1>1, <1>3, <2>2 DEF Leave, TypeOK, KeepsToItsKey
  <2> QED BY <2>1, <2>2
<1>4. ASSUME NEW c \in Callers, NEW p \in CallPhase, Do(c, p), UNCHANGED lock,
             caller[c].phase \notin {"idle", "over"}
      PROVE  KeepsToItsKey(d)'
  <2>1. caller' = [caller EXCEPT ![c] = [phase |-> p, key |-> caller[c].key]]
    BY <1>4, CallerGoesOn
  <2>2. caller[c].phase \in CallPhase
    BY <1>4, CallerGoesOn DEF Busy
  <2>3. KeepsToItsKey(c)
    BY DEF CallersKeepToTheirKeys
  <2>4. d # c => caller'[d] = caller[d]
    BY <2>1 DEF TypeOK
  <2>5. d = c => caller'[d].phase = p /\ caller'[d].key = caller[c].key
    BY <2>1 DEF TypeOK
  <2> QED BY <1>1, <1>4, <2>2, <2>3, <2>4, <2>5 DEF KeepsToItsKey
<1>5. ASSUME NEW c \in Callers, NEW k \in Calls, fence_or_raise(c, k)
      PROVE  KeepsToItsKey(d)'
    BY <1>1, <1>5 DEF fence_or_raise, KeepsToItsKey, TypeOK, Over, CallPhase
<1>6. ASSUME NEW c \in Callers, NEW k \in Calls, _lock_signature(c, k)
      PROVE  KeepsToItsKey(d)'
    BY <1>1, <1>6, Parties DEF _lock_signature, KeepsToItsKey, TypeOK, CallPhase, Callers
<1>7. ASSUME NEW c \in Callers, CallerNext(c) PROVE KeepsToItsKey(d)'
    BY <1>3, <1>4, <1>5, <1>6, <1>7
    DEF CallerNext, At, CallPhase, _claim, InsertClaim, SendCall, CallAnswers, CallFails,
        AnswerLost, _finish_executed, _finish_failed, StopUnrecorded, Reconcile,
        ConfirmNotFiled, LinkDefect, CallerDies
<1> QED BY <1>2, <1>7 DEF CallNext, ReplaceAttempt, Land, Vanish

(***************************************************************************)
(* How the callers and the rows change together.                           *)
(***************************************************************************)
\* Everything of row k is as it was, and nobody comes to hold it.
LEMMA RowUntouched ==
    ASSUME NEW k, CallInv(k),
           status'[k] = status[k], effects'[k] = effects[k], adrift'[k] = adrift[k],
           \A d \in Callers : Holds(d, k)' => Holds(d, k) /\ (caller'[d].phase = "answered" <=>
                                                              caller[d].phase = "answered")
    PROVE  CallInv(k)'
BY DEF CallInv, RowIsTrue, HolderIsAlone

\* The holder c of row k goes on to phase p, the row says s, and m effects
\* happened and n requests are adrift.
LEMMA HolderGoesOn ==
    ASSUME NEW k, NEW c \in Callers, RowIsTrue(k)',
           \A d \in Callers : Holds(d, k)' => d = c,
           Holds(c, k)' => /\ status'[k] = "executing" /\ adrift'[k] = 0
                           /\ effects'[k] = IF caller'[c].phase = "answered" THEN 1 ELSE 0
    PROVE  CallInv(k)'
BY DEF CallInv, HolderIsAlone

\* Once c holds row k nobody else does; if nobody does, nobody else will.
LEMMA NobodyElse ==
    ASSUME NEW k, HolderIsAlone(k), NEW c \in Callers,
           Holds(c, k) \/ status[k] # "executing",
           \A d \in Callers \ {c} : caller'[d] = caller[d]
    PROVE  \A d \in Callers : Holds(d, k)' => d = c
BY DEF HolderIsAlone, Holds

\* The fields of a caller that goes on, and of one that leaves.
LEMMA AfterDo ==
    ASSUME TypeOK, NEW c \in Callers, NEW p \in CallPhase, Do(c, p),
           caller[c].phase \notin {"idle", "over"}
    PROVE  /\ caller'[c].phase = p /\ caller'[c].key = caller[c].key
           /\ \A d \in Callers \ {c} : caller'[d] = caller[d]
<1>1. caller' = [caller EXCEPT ![c] = [phase |-> p, key |-> caller[c].key]]
    BY CallerGoesOn
<1> QED BY <1>1 DEF TypeOK

\* A caller that leaves stops or waits for its next call, and moves nobody else.
LEMMA AfterLeave ==
    ASSUME TypeOK, NEW c \in Callers, Leave(c)
    PROVE  /\ caller'[c].phase \in {"idle", "over"}
           /\ \A d \in Callers \ {c} : caller'[d] = caller[d]
BY DEF Leave, TypeOK, Idle, Over

\* Every step of a caller keeps the invariant of a guarded row.
LEMMA CallerKeepsRow ==
    ASSUME TypeOK, CallsInv, NEW c \in Callers, CallerNext(c), NEW k \in Guarded
    PROVE  CallInv(k)'
<1> DEFINE j == caller[c].key
<1>0. /\ CallInv(k) /\ RowIsTrue(k) /\ HolderIsAlone(k) /\ k \in Calls /\ k \in Keys
      /\ effects[k] \in Nat /\ adrift[k] \in Nat /\ status[k] \in CallStatus
    BY Parties DEF CallsInv, CallInv, TypeOK, Keys
<1>1. ASSUME NEW p \in CallPhase, Do(c, p), caller[c].phase \notin {"idle", "over"},
             j # k, status'[k] = status[k], effects'[k] = effects[k], adrift'[k] = adrift[k]
      PROVE  CallInv(k)'
    BY <1>0, <1>1, AfterDo, RowUntouched DEF Holds
<1>2. ASSUME NEW p \in CallPhase \ Holding, Do(c, p), caller[c].phase \notin {"idle", "over"},
             status'[k] = status[k], effects'[k] = effects[k], adrift'[k] = adrift[k]
      PROVE  CallInv(k)'
    BY <1>0, <1>2, AfterDo, RowUntouched DEF Holds
<1>3. ASSUME Leave(c), status'[k] = status[k], effects'[k] = effects[k], adrift'[k] = adrift[k]
      PROVE  CallInv(k)'
    BY <1>0, <1>3, AfterLeave, RowUntouched DEF Holds, Holding
\* c is the holder, and stays alone or leaves nobody.
<1>4. ASSUME NEW p \in CallPhase, Do(c, p), caller[c].phase \notin {"idle", "over"}, j = k,
             Holds(c, k) \/ status[k] # "executing", RowIsTrue(k)',
             p \in Holding => /\ status'[k] = "executing" /\ adrift'[k] = 0
                              /\ effects'[k] = IF p = "answered" THEN 1 ELSE 0
      PROVE  CallInv(k)'
  <2>1. /\ caller'[c].phase = p /\ caller'[c].key = k
        /\ \A d \in Callers \ {c} : caller'[d] = caller[d]
    BY <1>4, AfterDo
  <2>2. \A d \in Callers : Holds(d, k)' => d = c
    BY <1>0, <1>4, <2>1, NobodyElse
  <2> QED BY <1>4, <2>1, <2>2, HolderGoesOn DEF Holds
<1>5. ASSUME Leave(c), Holds(c, k), RowIsTrue(k)'
      PROVE  CallInv(k)'
  <2>1. \A d \in Callers : Holds(d, k)' => d = c
    BY <1>0, <1>5, AfterLeave, NobodyElse
  <2> QED BY <1>5, <2>1, AfterLeave, HolderGoesOn DEF Holds, Holding
<1>6. Holds(c, k) => /\ status[k] = "executing" /\ adrift[k] = 0
                     /\ effects[k] = IF caller[c].phase = "answered" THEN 1 ELSE 0
    BY <1>0 DEF HolderIsAlone
<1>7. \A i, m \in Calls : \A s \in CallStatus :
         Write(i, s) => status'[m] = IF m = i THEN s ELSE status[m]
    BY DEF Write, TypeOK, Keys
<1>8. \A i, m \in Calls : /\ Adrift(i) => adrift'[m] = IF m = i THEN adrift[m] + 1 ELSE adrift[m]
                          /\ Happen(i) => effects'[m] = IF m = i THEN effects[m] + 1 ELSE effects[m]
    BY DEF Adrift, Happen, TypeOK, Keys
<1>9. caller[c].phase \notin {"idle", "over"} => j \in Calls
    BY CallerGoesOn
<1> USE DEF At
<1>10. ASSUME NEW i \in Calls, fence_or_raise(c, i) \/ _lock_signature(c, i)
       PROVE  CallInv(k)'
  <2>1. \A d \in Callers : Holds(d, k)' => d # c /\ caller'[d] = caller[d]
    BY <1>10 DEF fence_or_raise, _lock_signature, Holds, Holding, TypeOK, Over
  <2>2. UNCHANGED <<status, effects, adrift>>
    BY <1>10 DEF fence_or_raise, _lock_signature
  <2> QED BY <1>0, <2>1, <2>2, RowUntouched DEF Holds
<1>11. CASE _claim(c)
  <2>1. caller[c].phase \notin {"idle", "over"} /\ UNCHANGED <<effects, adrift>>
    BY <1>11 DEF _claim
  <2>2. CASE status[j] = "failed" /\ Do(c, "claimed") /\ Write(j, "executing")
    <3>1. status'[k] = IF k = j THEN "executing" ELSE status[k]
        BY <1>0, <1>7, <1>9, <2>1, <2>2 DEF CallStatus
    <3>2. CASE k = j
        BY <1>0, <1>4, <2>1, <2>2, <3>1, <3>2 DEF RowIsTrue, CallPhase
    <3> QED BY <1>1, <2>1, <2>2, <3>1, <3>2 DEF CallPhase
  <2>3. CASE UNCHANGED status /\ (Do(c, "inserting") \/ Do(c, "done") \/ Do(c, "unclear"))
    BY <1>2, <2>1, <2>3 DEF CallPhase, Holding
  <2> QED BY <1>11, <2>2, <2>3 DEF _claim
<1>12. CASE InsertClaim(c)
  <2>1. caller[c].phase \notin {"idle", "over"} /\ UNCHANGED <<effects, adrift>>
    BY <1>12 DEF InsertClaim
  <2>2. CASE status[j] = "absent" /\ Do(c, "claimed") /\ Write(j, "executing")
    <3>1. status'[k] = IF k = j THEN "executing" ELSE status[k]
        BY <1>0, <1>7, <1>9, <2>1, <2>2 DEF CallStatus
    <3>2. CASE k = j
        BY <1>0, <1>4, <2>1, <2>2, <3>1, <3>2 DEF RowIsTrue, CallPhase
    <3> QED BY <1>1, <2>1, <2>2, <3>1, <3>2 DEF CallPhase
  <2>3. CASE UNCHANGED status /\ Do(c, "unclear")
    BY <1>2, <2>1, <2>3 DEF CallPhase, Holding
  <2> QED BY <1>12, <2>2, <2>3 DEF InsertClaim
<1>13. CASE SendCall(c) \/ CallFails(c)
  <2>1. /\ caller[c].phase \in Holding \ {"answered"}
        /\ \E p \in Holding \ {"answered"} : Do(c, p)
        /\ UNCHANGED <<status, effects, adrift>>
    BY <1>13 DEF SendCall, CallFails, Holding
  <2>2. CASE k = j
    BY <1>0, <1>4, <1>6, <2>1, <2>2 DEF Holds, RowIsTrue, CallPhase, Holding
  <2> QED BY <1>1, <2>1, <2>2 DEF CallPhase, Holding
<1>14. CASE CallAnswers(c)
  <2>1. /\ caller[c].phase = "calling" /\ Do(c, "answered") /\ Happen(j)
        /\ UNCHANGED <<status, adrift>>
    BY <1>14 DEF CallAnswers
  <2>2. effects'[k] = IF k = j THEN effects[k] + 1 ELSE effects[k]
    BY <1>0, <1>8, <1>9, <2>1
  <2>3. CASE k = j
    <3>1. Holds(c, k)
        BY <2>1, <2>3 DEF Holds, Holding
    <3>2. RowIsTrue(k)'
        BY <1>6, <2>1, <2>2, <2>3, <3>1 DEF RowIsTrue
    <3> QED BY <1>4, <1>6, <2>1, <2>2, <2>3, <3>1, <3>2 DEF CallPhase
  <2> QED BY <1>1, <2>1, <2>2, <2>3 DEF CallPhase
<1>15. CASE AnswerLost(c)
  <2>1. /\ caller[c].phase = "calling" /\ Adrift(j) /\ UNCHANGED <<status, effects>>
        /\ Leave(c) \/ (Do(c, "failing") /\ ~StageKnowsUnknown /\ c \notin Requests)
    BY <1>15 DEF AnswerLost
  <2>2. adrift'[k] = IF k = j THEN adrift[k] + 1 ELSE adrift[k]
    BY <1>0, <1>8, <1>9, <2>1
  <2>3. CASE k = j
    <3>1. Holds(c, k)
        BY <2>1, <2>3 DEF Holds, Holding
    <3>2. Leave(c)
      <4>1. KeepsToItsKey(c)
        BY DEF CallsInv, CallersKeepToTheirKeys
      <4> QED BY <2>1, <2>3, <4>1, Parties DEF KeepsToItsKey, CallPhase
    <3>3. RowIsTrue(k)'
        BY <1>6, <2>1, <2>2, <2>3, <3>1 DEF RowIsTrue
    <3> QED BY <1>5, <3>1, <3>2, <3>3
  <2>4. CASE k # j
    BY <1>1, <1>3, <2>1, <2>2, <2>4 DEF CallPhase
  <2> QED BY <2>3, <2>4
<1>16. CASE _finish_executed(c)
  <2>1. /\ caller[c].phase = "answered" /\ Do(c, "done") /\ Write(j, "executed")
        /\ UNCHANGED <<effects, adrift>>
    BY <1>16 DEF _finish_executed
  <2>2. status'[k] = IF k = j THEN "executed" ELSE status[k]
    BY <1>0, <1>7, <1>9, <2>1 DEF CallStatus
  <2>3. CASE k = j
    <3>1. Holds(c, k)
        BY <2>1, <2>3 DEF Holds, Holding
    <3>2. RowIsTrue(k)'
        BY <1>6, <2>1, <2>2, <2>3, <3>1 DEF RowIsTrue
    <3> QED BY <1>4, <2>1, <2>3, <3>1, <3>2 DEF CallPhase, Holding
  <2> QED BY <1>1, <2>1, <2>2, <2>3 DEF CallPhase
<1>17. CASE _finish_failed(c)
  <2>1. /\ caller[c].phase = "failing" /\ Leave(c) /\ Write(j, "failed")
        /\ UNCHANGED <<effects, adrift>>
    BY <1>17 DEF _finish_failed
  <2>2. status'[k] = IF k = j THEN "failed" ELSE status[k]
    BY <1>0, <1>7, <1>9, <2>1 DEF CallStatus
  <2>3. CASE k = j
    <3>1. Holds(c, k)
        BY <2>1, <2>3 DEF Holds, Holding
    <3>2. RowIsTrue(k)'
        BY <1>6, <2>1, <2>2, <2>3, <3>1 DEF RowIsTrue
    <3> QED BY <1>5, <2>1, <3>1, <3>2
  <2> QED BY <1>3, <2>1, <2>2, <2>3
\* A request that finds the claim of another unclear is the only one busy.
<1>18. ASSUME c \in Requests, caller[c].phase = "unclear", j = k
       PROVE  \A d \in Callers : ~Holds(d, k)
    BY <1>18, OneRequest DEF CallsInv, Holds, Holding, CallPhase
<1>19. CASE Reconcile(c) \/ ConfirmNotFiled(c)
  <2>1. PICK s \in {"executed", "failed"} :
           /\ Write(j, s) /\ c \in Requests /\ caller[c].phase = "unclear"
           /\ s = "executed" => effects[j] > 0
           /\ s = "failed" => effects[j] = 0 /\ adrift[j] = 0
           /\ Do(c, "done") \/ Do(c, "fenced")
           /\ UNCHANGED <<effects, adrift>>
    BY <1>19 DEF Reconcile, ConfirmNotFiled
  <2>2. status'[k] = IF k = j THEN s ELSE status[k]
    BY <1>0, <1>7, <1>9, <2>1 DEF CallStatus
  <2>3. CASE k = j
    <3>1. RowIsTrue(k)'
        BY <1>0, <2>1, <2>2, <2>3 DEF RowIsTrue
    <3>2. \A d \in Callers : ~Holds(d, k)'
      <4>1. caller'[c].phase \in {"done", "fenced"} /\ \A d \in Callers \ {c} : caller'[d] = caller[d]
        BY <2>1, AfterDo DEF CallPhase
      <4> QED BY <1>18, <2>1, <2>3, <4>1 DEF Holds, Holding
    <3> QED BY <3>1, <3>2 DEF CallInv, HolderIsAlone
  <2> QED BY <1>1, <2>1, <2>2, <2>3 DEF CallPhase
<1>20. CASE StopUnrecorded(c) \/ LinkDefect(c)
    BY <1>3, <1>20 DEF StopUnrecorded, LinkDefect
<1>21. CASE CallerDies(c)
  <2>1. caller[c].phase \notin {"idle", "over"} /\ Leave(c) /\ UNCHANGED <<status, effects>>
    BY <1>21 DEF CallerDies
  <2>2. CASE caller[c].phase = "calling" /\ k = j
    <3>1. Holds(c, k)
        BY <2>2 DEF Holds, Holding
    <3>2. adrift'[k] = adrift[k] + 1
        BY <1>0, <1>8, <1>21, <2>2 DEF CallerDies
    <3>3. RowIsTrue(k)'
        BY <1>6, <2>1, <2>2, <3>1, <3>2 DEF RowIsTrue
    <3> QED BY <1>5, <2>1, <3>1, <3>3
  <2>3. CASE ~(caller[c].phase = "calling" /\ k = j)
    <3>1. adrift'[k] = adrift[k]
        BY <1>0, <1>8, <1>9, <1>21, <2>1, <2>3 DEF CallerDies
    <3> QED BY <1>3, <2>1, <3>1
  <2> QED BY <2>2, <2>3
<1> QED BY <1>10, <1>11, <1>12, <1>13, <1>14, <1>15, <1>16, <1>17, <1>19, <1>20, <1>21
        DEF CallerNext

\* The steps of actions write no row of a tool call.
LEMMA ActionsLeaveCalls ==
    ASSUME TypeOK, ActionNext
    PROVE  \A k \in Calls : status'[k] = status[k] /\ effects'[k] = effects[k]
<1> USE LedgerAssumption DEF At
<1>1. \A a \in Actions : \A s : Write(a, s) => \A k \in Calls : status'[k] = status[k]
    BY DEF Write, TypeOK, Keys
<1>2. \A a \in Actions : Happen(a) => \A k \in Calls : effects'[k] = effects[k]
    BY DEF Happen, TypeOK, Keys
<1>3. ASSUME NEW a \in Actions, NEW approval_required \in BOOLEAN,
             create_action_proposal(a, approval_required) \/ _approve(a) \/ _reject(a) \/ LoseMessage(a)
      PROVE  \A k \in Calls : status'[k] = status[k] /\ effects'[k] = effects[k]
    BY <1>1, <1>3 DEF create_action_proposal, _approve, _reject, LoseMessage
<1>4. ASSUME NEW r \in Relays,
             \/ \E a \in Actions : claim_action_dispatches(r, a)
             \/ PublishAction(r) \/ mark_action_dispatch_sent(r)
             \/ mark_action_dispatch_failed(r) \/ RelayDies(r)
      PROVE  UNCHANGED <<status, effects>>
    BY <1>4
    DEF claim_action_dispatches, PublishAction, mark_action_dispatch_sent,
        mark_action_dispatch_failed, Mark, RelayDies
<1>5. ASSUME NEW e \in Executors, ExecutorNext(e)
      PROVE  \A k \in Calls : status'[k] = status[k] /\ effects'[k] = effects[k]
    BY <1>1, <1>2, <1>5, ExecutorGoesOn
    DEF ExecutorNext, Deliver, _claim_or_refuse, _lock_claimed, CommitEffect, ProposeEffect,
        ApproveEffect, FinishEffected, EffectRaises, _record_effect_failure, ExecutorDies
<1>6. ASSUME NEW i \in Keys, reap_stuck_actions(i)
      PROVE  \A k \in Calls : status'[k] = status[k] /\ effects'[k] = effects[k]
    BY <1>1, <1>6 DEF reap_stuck_actions, _EXECUTOR_ACTION_TYPES
<1>7. ASSUME NEW u \in Undoers,
             (\E a \in Actions : _undo(u, a)) \/ RollbackCommits(u) \/ UndoFinishes(u) \/ UndoFails(u)
      PROVE  \A k \in Calls : status'[k] = status[k] /\ effects'[k] = effects[k]
    BY <1>1, <1>7, UndoerGoesOn DEF _undo, RollbackCommits, UndoFinishes, UndoFails, UndoFrame
<1> QED BY <1>3, <1>4, <1>5, <1>6, <1>7 DEF ActionNext

\* The rows of calls through every step.
LEMMA CallsKept ==
    ASSUME TypeOK, TypeOK', CallsInv, [Next]_vars
    PROVE  CallsInv'
<1>1. CASE CallNext
  <2>1. ASSUME NEW k \in Guarded PROVE CallInv(k)'
    <3>1. CallInv(k) /\ effects[k] \in Nat /\ adrift[k] \in Nat
        BY Parties DEF CallsInv, TypeOK, Keys
    <3>2. ASSUME NEW i \in Calls, Land(i) \/ Vanish(i) PROVE CallInv(k)'
      <4>1. UNCHANGED <<status, caller>>
        BY <3>2 DEF Land, Vanish
      <4>2. CASE i = k
        <5>1. adrift[k] > 0 /\ adrift'[k] = adrift[k] - 1 /\ effects'[k] \in {effects[k], effects[k] + 1}
              /\ effects'[k] + adrift'[k] <= effects[k] + adrift[k]
            BY <3>1, <3>2, <4>2, Parties DEF Land, Vanish, Happen, TypeOK, Keys
        <5> QED BY <3>1, <4>1, <5>1 DEF CallInv, RowIsTrue, HolderIsAlone, Holds
      <4>3. CASE i # k
        <5>1. adrift'[k] = adrift[k] /\ effects'[k] = effects[k]
            BY <3>2, <4>3, Parties DEF Land, Vanish, Happen, TypeOK, Keys
        <5> QED BY <3>1, <4>1, <5>1, RowUntouched DEF Holds
      <4> QED BY <4>2, <4>3
    <3>3. CASE ReplaceAttempt
        BY <3>1, <3>3, RowUntouched DEF ReplaceAttempt, Holds
    <3> QED BY <1>1, <3>2, <3>3, CallerKeepsRow DEF CallNext
  <2> QED BY <1>1, <2>1, KeysKept DEF CallsInv
<1>2. CASE ActionNext \/ UNCHANGED vars
  <2>1. UNCHANGED callVars
    BY <1>2
    DEF ActionNext, ExecutorNext, vars, ExecutorFrame, UndoFrame, create_action_proposal, _approve,
        _reject, LoseMessage, claim_action_dispatches, PublishAction, mark_action_dispatch_sent,
        mark_action_dispatch_failed, Mark, RelayDies, Deliver, _claim_or_refuse, _lock_claimed,
        CommitEffect, ProposeEffect, ApproveEffect, FinishEffected, EffectRaises,
        _record_effect_failure, ExecutorDies, reap_stuck_actions, _undo, RollbackCommits,
        UndoFinishes, UndoFails
  <2>2. \A k \in Calls : status'[k] = status[k] /\ effects'[k] = effects[k]
    BY <1>2, ActionsLeaveCalls DEF vars
  <2> QED BY <2>1, <2>2, Parties, RowUntouched
          DEF CallsInv, callVars, Holds, CallersKeepToTheirKeys, KeepsToItsKey
<1> QED BY <1>1, <1>2 DEF Next

\* Initially no call has a row, a holder or an effect.
LEMMA InitCallsInv == Init => CallsInv
BY LedgerAssumption
DEF Init, CallsInv, CallersKeepToTheirKeys, KeepsToItsKey, CallInv, RowIsTrue, HolderIsAlone,
    Holds, Holding, Idle, Guarded, Accountable, Keys, Calls, CallPhase

\* The invariant of the guarded rows holds in every state (run_once).
LEMMA CallsInvariant == Spec => [](TypeOK /\ CallsInv)
<1>1. Init => TypeOK /\ CallsInv
    BY InitTypeOK, InitCallsInv
<1>2. TypeOK /\ TypeOK' /\ CallsInv /\ [Next]_vars => CallsInv'
    BY CallsKept
<1> QED BY <1>1, <1>2, TypeCorrect, PTL DEF Spec

\* A one-click request files one issue, however many requests there are, fail,
\* die or time out (file_defect_jira_issue, run_once, confirm_not_filed).
THEOREM OneClickFilesOneIssue ==
    Spec => [](\A k \in OneClickCalls : effects[k] <= 1)
<1>1. TypeOK /\ CallsInv => \A k \in OneClickCalls : effects[k] <= 1
    BY Parties DEF CallsInv, CallInv, RowIsTrue, TypeOK, Calls, Keys
<1> QED BY <1>1, CallsInvariant, PTL

\* "Make call at most once": so does a stage, as soon as its calls raise
\* OutcomeUnknown for an answer that was lost (run_once).
THEOREM CallsAreMadeOnce == StageKnowsUnknown => (Spec => []OneIssue)
<1> SUFFICES ASSUME StageKnowsUnknown PROVE Spec => []OneIssue
    OBVIOUS
<1>1. TypeOK /\ CallsInv => OneIssue
    BY Parties DEF CallsInv, CallInv, RowIsTrue, OneIssue, TypeOK, Keys
<1> QED BY <1>1, CallsInvariant, PTL

\* And a call recorded as failed never reached Jira: that of a one-click request
\* always, that of a stage as soon as its calls raise OutcomeUnknown (_claim: a
\* failed row may be claimed again).
THEOREM FailedCallsNeverLand == Spec => []FailedCallNeverLands
<1>1. CallsInv => FailedCallNeverLands
    BY DEF CallsInv, CallInv, RowIsTrue, Guarded, FailedCallNeverLands
<1> QED BY <1>1, CallsInvariant, PTL

(***************************************************************************)
(* One effect per action.  From its claim on an executor is alone with its *)
(* action.  While the time limits hold the reaper does not come between    *)
(* the claim and the record of what became of it; if they do not, it does  *)
(* so only while the row is not locked, and calls the outcome unknown.     *)
(***************************************************************************)
\* What the row of an action says of its effect.
ActionRowIsTrue(a) ==
    /\ effects[a] <= 1
    /\ status[a] \in {"absent", "pending_review", "approved", "rejected"} => effects[a] = 0
    /\ status[a] \in {"executed", "rolled_back"} => effects[a] = 1
    /\ status[a] = "failed" /\ a \notin unknown => effects[a] = 0
    /\ undone[a] <= effects[a]
    /\ status[a] = "rolled_back" => undone[a] = 1

\* A claim of a row, or what the reaper has made of it.
Claimed(a) ==
    \/ status[a] = "executing"
    \/ ~TimeLimits /\ status[a] = "failed" /\ a \in unknown

\* What an executor in phase p knows of the row it claimed.
RunnerKnows(p, a) ==
    /\ p = "claimed" => Claimed(a) /\ effects[a] = 0
    /\ p = "locked" => status[a] = "executing" /\ effects[a] = 0
    /\ p = "half" => status[a] = "executing" /\ effects[a] = 1 /\ a \in Committing
    /\ p = "effected" => Claimed(a) /\ effects[a] = 1 /\ a \in Committing
    /\ p = "unsure" => Claimed(a)
    /\ p = "failing" => \/ status[a] \in {"executed", "rolled_back"}
                        \/ Claimed(a) /\ effects[a] = 0

RunnerIsAlone(a) ==
    /\ \A e \in Executors : Running(e, a) => RunnerKnows(executor[e].phase, a)
    /\ \A e, f \in Executors : Running(e, a) /\ Running(f, a) => e = f

UndoersOfExecuted(a) ==
    \A u \in Undoers :
        undoer[u].phase # "idle" /\ undoer[u].key = a =>
            /\ status[a] \in {"executed", "rolled_back"}
            /\ undoer[u].phase = "released" => undone[a] = 1

ActionInv(a) == ActionRowIsTrue(a) /\ RunnerIsAlone(a) /\ UndoersOfExecuted(a)
ActionsInv == \A a \in Actions : ActionInv(a)

\* A verdict is final, but for an unknown outcome that an executor past its time
\* limit corrects, and an effect happens to an open row only.
VerdictOf(k) ==
    IF status[k] \in {"executed", "rolled_back"} THEN "done"
    ELSE IF k \in Actions /\ status[k] = "rejected" THEN "never"
    ELSE IF k \in Actions /\ status[k] = "failed"
         THEN IF k \in unknown THEN "unknown" ELSE "never"
    ELSE "open"

RowMoves(k) ==
    /\ VerdictOf(k) # "open" =>
          \/ VerdictOf(k)' = VerdictOf(k)
          \/ /\ ~TimeLimits /\ k \in Actions
             /\ VerdictOf(k) = "unknown" /\ VerdictOf(k)' = "done"
    /\ \/ effects'[k] = effects[k]
       \/ /\ effects[k] = 0 /\ effects'[k] = 1
          /\ VerdictOf(k) = "open" /\ VerdictOf(k)' \in {"open", "done"}

\* Nothing of row a changes but who is on its way to it.
LEMMA ActionUntouched ==
    ASSUME NEW a \in Actions, ActionInv(a),
           status'[a] = status[a], effects'[a] = effects[a], undone'[a] = undone[a],
           a \in unknown' <=> a \in unknown,
           \A e \in Executors : Running(e, a)' => Running(e, a) /\ executor'[e].phase = executor[e].phase,
           \A u \in Undoers : undoer'[u].phase # "idle" /\ undoer'[u].key = a =>
                                 undoer'[u] = undoer[u]
    PROVE  ActionInv(a)' /\ RowMoves(a)
<1>1. ActionRowIsTrue(a)' /\ RowMoves(a)
    BY DEF ActionInv, ActionRowIsTrue, RowMoves, VerdictOf
<1>2. RunnerIsAlone(a)'
    BY DEF ActionInv, RunnerIsAlone, RunnerKnows, Claimed
<1>3. UndoersOfExecuted(a)'
    BY DEF ActionInv, UndoersOfExecuted
<1> QED BY <1>1, <1>2, <1>3 DEF ActionInv

\* Executor e is the only one on row a, before the step or because the row was
\* open to a claim, and goes on to phase p; no undo is on its way.
LEMMA RunnerGoesOn ==
    ASSUME NEW a \in Actions, NEW e \in Executors, ActionRowIsTrue(a)',
           \A f \in Executors \ {e} : executor'[f] = executor[f] /\ ~Running(f, a),
           Running(e, a)' => RunnerKnows(executor[e].phase, a)',
           UNCHANGED undoer,
           \A u \in Undoers : ~(undoer[u].phase # "idle" /\ undoer[u].key = a)
    PROVE  ActionInv(a)'
<1>1. \A f \in Executors : Running(f, a)' => f = e
    BY DEF Running
<1>2. RunnerIsAlone(a)'
    BY <1>1 DEF RunnerIsAlone
<1>3. UndoersOfExecuted(a)'
    BY DEF UndoersOfExecuted
<1> QED BY <1>2, <1>3 DEF ActionInv

\* The executor after its step.
LEMMA AfterGoes ==
    ASSUME TypeOK, NEW e \in Executors, executor[e].phase # "idle"
    PROVE  /\ \A p \in ExecutorPhase : Goes(e, p) =>
                 /\ executor'[e].phase = p /\ executor'[e].key = executor[e].key
                 /\ \A f \in Executors \ {e} : executor'[f] = executor[f]
           /\ Ends(e) => /\ executor'[e].phase = "idle"
                         /\ \A f \in Executors \ {e} : executor'[f] = executor[f]
<1>1. ASSUME NEW p \in ExecutorPhase, Goes(e, p)
      PROVE  /\ executor'[e].phase = p /\ executor'[e].key = executor[e].key
             /\ \A f \in Executors \ {e} : executor'[f] = executor[f]
    BY <1>1, ExecutorGoesOn DEF TypeOK
<1>2. Ends(e) => /\ executor'[e].phase = "idle"
                 /\ \A f \in Executors \ {e} : executor'[f] = executor[f]
    BY DEF Ends, TypeOK, Idle
<1> QED BY <1>1, <1>2

\* Every step of an executor keeps the invariant of every action.
LEMMA ExecutorKeepsAction ==
    ASSUME TypeOK, ActionsInv, NEW e \in Executors, ExecutorNext(e), NEW a \in Actions
    PROVE  ActionInv(a)' /\ RowMoves(a)
<1> DEFINE b == executor[e].key
<1>0. /\ ActionInv(a) /\ ActionRowIsTrue(a) /\ RunnerIsAlone(a) /\ UndoersOfExecuted(a)
      /\ a \in Keys /\ effects[a] \in Nat /\ undone[a] \in Nat
    BY DEF ActionsInv, ActionInv, TypeOK, Keys
<1>1. UNCHANGED <<undoer, undone>>
    BY DEF ExecutorNext, Deliver, _claim_or_refuse, _lock_claimed, CommitEffect, ProposeEffect,
           ApproveEffect, FinishEffected, EffectRaises, _record_effect_failure, ExecutorDies,
           ExecutorFrame
<1>2. executor[e].phase # "idle" => b \in Actions
    BY ExecutorGoesOn
<1>3. \A i \in Actions : \A s :
         /\ Write(i, s) => status'[a] = IF a = i THEN s ELSE status[a]
         /\ Happen(i) => effects'[a] = IF a = i THEN effects[a] + 1 ELSE effects[a]
    BY DEF Write, Happen, TypeOK, Keys
\* Another row than e's.
<1>4. ASSUME b # a, executor[e].phase # "idle",
             (\E p \in ExecutorPhase : Goes(e, p)) \/ Ends(e),
             status'[a] = status[a], effects'[a] = effects[a], a \in unknown' <=> a \in unknown
      PROVE  ActionInv(a)' /\ RowMoves(a)
  <2>1. \A f \in Executors : Running(f, a)' => Running(f, a) /\ executor'[f] = executor[f]
    BY <1>4, AfterGoes DEF Running
  <2> QED BY <1>0, <1>1, <1>4, <2>1, ActionUntouched
\* e's own row, while e runs or the row is open to its claim.
<1>5. ASSUME b = a, executor[e].phase # "idle", Running(e, a) \/ status[a] = "approved",
             status[a] \in {"approved", "executing", "failed"}
      PROVE  /\ \A f \in Executors \ {e} : ~Running(f, a)
             /\ \A u \in Undoers : ~(undoer[u].phase # "idle" /\ undoer[u].key = a)
  <2>1. ASSUME NEW f \in Executors \ {e}, Running(f, a) PROVE FALSE
    <3>1. executor[f].phase \in ExecutorPhase \ {"delivered"} /\ RunnerKnows(executor[f].phase, a)
        BY <1>0, <2>1, ExecutorGoesOn DEF RunnerIsAlone, Running
    <3>2. status[a] # "approved"
        BY <3>1 DEF RunnerKnows, ExecutorPhase, Claimed
    <3> QED BY <1>0, <1>5, <2>1, <3>2 DEF RunnerIsAlone
  <2> QED BY <1>0, <1>5, <2>1 DEF UndoersOfExecuted
<1>6. ASSUME b = a, executor[e].phase # "idle", Running(e, a) \/ status[a] = "approved",
             status[a] \in {"approved", "executing", "failed"}, ActionRowIsTrue(a)',
             \/ \E p \in ExecutorPhase : Goes(e, p) /\ RunnerKnows(p, a)'
             \/ Ends(e)
      PROVE  ActionInv(a)'
  <2>1. /\ \A f \in Executors \ {e} : executor'[f] = executor[f]
        /\ Running(e, a)' => RunnerKnows(executor[e].phase, a)'
    BY <1>6, AfterGoes DEF Running
  <2> QED BY <1>1, <1>5, <1>6, <2>1, RunnerGoesOn
\* e leaves its row, which does not change.
<1>7. ASSUME executor[e].phase # "idle", Ends(e), status'[a] = status[a],
             effects'[a] = effects[a], a \in unknown' <=> a \in unknown
      PROVE  ActionInv(a)' /\ RowMoves(a)
  <2>1. \A f \in Executors : Running(f, a)' => Running(f, a) /\ executor'[f] = executor[f]
    BY <1>7, AfterGoes DEF Running
  <2> QED BY <1>0, <1>1, <1>7, <2>1, ActionUntouched
<1>8. Running(e, a) => RunnerKnows(executor[e].phase, a)
    BY <1>0 DEF RunnerIsAlone
<1> USE DEF At, ExecutorFrame, callVars
<1>9. ASSUME NEW i \in Actions, Deliver(e, i) PROVE ActionInv(a)' /\ RowMoves(a)
  <2>1. \A f \in Executors : Running(f, a)' => Running(f, a) /\ executor'[f] = executor[f]
    BY <1>9 DEF Deliver, Running, TypeOK
  <2> QED BY <1>0, <1>1, <1>9, <2>1, ActionUntouched DEF Deliver
<1>10. CASE _claim_or_refuse(e)
  <2>1. executor[e].phase = "delivered" /\ UNCHANGED <<effects, unknown>>
    BY <1>10 DEF _claim_or_refuse
  <2>2. CASE status[b] # "approved"
    BY <1>7, <1>10, <2>1, <2>2 DEF _claim_or_refuse
  <2>3. CASE b = a /\ status[a] = "approved" /\ Goes(e, "claimed") /\ Write(a, "executing")
    <3>1. /\ status'[a] = "executing" /\ effects[a] = 0
          /\ ActionRowIsTrue(a)' /\ RunnerKnows("claimed", a)' /\ RowMoves(a)
        BY <1>0, <1>1, <1>3, <2>1, <2>3
        DEF ActionRowIsTrue, RunnerKnows, Claimed, RowMoves, VerdictOf
    <3> QED BY <1>6, <2>1, <2>3, <3>1 DEF ExecutorPhase
  <2>4. CASE b = a /\ status[a] = "approved" /\ Ends(e) /\ Write(a, "failed")
    <3>1. status'[a] = "failed" /\ effects[a] = 0 /\ ActionRowIsTrue(a)' /\ RowMoves(a)
        BY <1>0, <1>1, <1>3, <2>1, <2>4 DEF ActionRowIsTrue, RowMoves, VerdictOf
    <3> QED BY <1>6, <2>1, <2>4, <3>1
  <2>5. CASE b # a /\ status[b] = "approved"
    BY <1>2, <1>3, <1>4, <1>10, <2>1, <2>5 DEF _claim_or_refuse, ExecutorPhase
  <2> QED BY <1>10, <2>2, <2>3, <2>4, <2>5 DEF _claim_or_refuse
<1>11. CASE _lock_claimed(e)
  <2>1. executor[e].phase = "claimed" /\ UNCHANGED <<status, effects, unknown>>
    BY <1>11 DEF _lock_claimed
  <2>2. CASE Ends(e)
    BY <1>7, <2>1, <2>2
  <2>3. CASE Goes(e, "locked") /\ b = a /\ status[a] = "executing"
    <3>1. /\ Running(e, a) /\ status[a] = "executing"
          /\ ActionRowIsTrue(a)' /\ RunnerKnows("locked", a)' /\ RowMoves(a)
        BY <1>0, <1>1, <1>8, <1>11, <2>1, <2>3
        DEF _lock_claimed, Running, ActionRowIsTrue, RunnerKnows, RowMoves, VerdictOf
    <3> QED BY <1>6, <2>1, <2>3, <3>1 DEF ExecutorPhase
  <2>4. CASE Goes(e, "locked") /\ b # a
    BY <1>4, <2>1, <2>4 DEF ExecutorPhase
  <2> QED BY <1>11, <2>2, <2>3, <2>4 DEF _lock_claimed
<1>12. CASE CommitEffect(e)
  <2>1. /\ executor[e].phase = "locked" /\ Happen(b) /\ Write(b, "executed")
        /\ Ends(e) \/ Goes(e, "failing")
        /\ UNCHANGED unknown
    BY <1>12 DEF CommitEffect
  <2>2. CASE b = a
    <3>1. /\ Running(e, a) /\ status[a] = "executing" /\ effects[a] = 0
          /\ status'[a] = "executed" /\ effects'[a] = 1
        BY <1>0, <1>3, <1>8, <2>1, <2>2 DEF Running, RunnerKnows
    <3>2. ActionRowIsTrue(a)' /\ RunnerKnows("failing", a)' /\ RowMoves(a)
        BY <1>0, <1>1, <3>1 DEF ActionRowIsTrue, RunnerKnows, RowMoves, VerdictOf
    <3> QED BY <1>6, <2>1, <2>2, <3>1, <3>2 DEF ExecutorPhase
  <2> QED BY <1>2, <1>3, <1>4, <2>1, <2>2 DEF ExecutorPhase
<1>13. CASE ProposeEffect(e)
  <2>1. /\ executor[e].phase = "locked" /\ Happen(b) /\ Goes(e, "half") /\ UNCHANGED <<status, unknown>>
    BY <1>13 DEF ProposeEffect
  <2>2. CASE b = a
    <3>1. Running(e, a) /\ status[a] = "executing" /\ effects[a] = 0 /\ effects'[a] = 1
        BY <1>0, <1>3, <1>8, <2>1, <2>2 DEF Running, RunnerKnows
    <3>2. ActionRowIsTrue(a)' /\ RunnerKnows("half", a)' /\ RowMoves(a)
        BY <1>0, <1>1, <1>13, <2>1, <2>2, <3>1 DEF ProposeEffect, ActionRowIsTrue, RunnerKnows, RowMoves, VerdictOf
    <3> QED BY <1>6, <2>1, <2>2, <3>1, <3>2 DEF ExecutorPhase
  <2> QED BY <1>2, <1>3, <1>4, <2>1, <2>2 DEF ExecutorPhase
<1>14. CASE ApproveEffect(e)
  <2>1. executor[e].phase = "half" /\ Goes(e, "effected") /\ UNCHANGED <<status, effects, unknown>>
    BY <1>14 DEF ApproveEffect
  <2>2. CASE b = a
    <3>1. /\ Running(e, a) /\ status[a] = "executing"
          /\ ActionRowIsTrue(a)' /\ RunnerKnows("effected", a)' /\ RowMoves(a)
        BY <1>0, <1>1, <1>8, <2>1, <2>2
        DEF Running, ActionRowIsTrue, RunnerKnows, Claimed, RowMoves, VerdictOf
    <3> QED BY <1>6, <2>1, <2>2, <3>1 DEF ExecutorPhase
  <2> QED BY <1>4, <2>1, <2>2 DEF ExecutorPhase
<1>15. CASE FinishEffected(e)
  <2>1. /\ executor[e].phase = "effected" /\ Write(b, "executed") /\ Ends(e)
        /\ UNCHANGED <<effects, unknown>>
    BY <1>15 DEF FinishEffected
  <2>2. CASE b = a
    <3>1. Running(e, a) /\ Claimed(a) /\ effects[a] = 1 /\ status'[a] = "executed"
        BY <1>0, <1>3, <1>8, <2>1, <2>2 DEF Running, RunnerKnows
    <3>2. ActionRowIsTrue(a)' /\ RowMoves(a) /\ status[a] \in {"executing", "failed"}
        BY <1>0, <1>1, <2>1, <3>1 DEF ActionRowIsTrue, RowMoves, VerdictOf, Claimed
    <3> QED BY <1>6, <2>1, <2>2, <3>1, <3>2
  <2> QED BY <1>2, <1>3, <1>4, <2>1, <2>2
<1>16. CASE EffectRaises(e)
  <2>1. /\ executor[e].phase \in {"locked", "half", "effected"} /\ UNCHANGED <<status, effects, unknown>>
        /\ Goes(e, "unsure") \/ (Goes(e, "failing") /\ b \notin Committing)
    BY <1>16 DEF EffectRaises
  <2>2. CASE b = a
    <3>1. Running(e, a) /\ Claimed(a) /\ ActionRowIsTrue(a)' /\ RowMoves(a)
        BY <1>0, <1>1, <1>8, <2>1, <2>2
        DEF Running, ActionRowIsTrue, RunnerKnows, Claimed, RowMoves, VerdictOf
    <3>1a. status[a] \in {"executing", "failed"}
        BY <3>1 DEF Claimed
    <3>2. CASE Goes(e, "unsure")
      <4>1. RunnerKnows("unsure", a)'
        BY <2>1, <3>1 DEF RunnerKnows, Claimed
      <4> QED BY <1>6, <2>1, <2>2, <3>1, <3>1a, <3>2, <4>1 DEF ExecutorPhase
    <3>3. CASE Goes(e, "failing") /\ b \notin Committing
      <4>1. RunnerKnows("failing", a)'
        BY <1>0, <1>8, <2>1, <2>2, <3>1, <3>3 DEF RunnerKnows, Claimed
      <4> QED BY <1>6, <2>1, <2>2, <3>1, <3>1a, <3>3, <4>1 DEF ExecutorPhase
    <3> QED BY <2>1, <3>2, <3>3
  <2> QED BY <1>4, <2>1, <2>2 DEF ExecutorPhase
<1>17. CASE _record_effect_failure(e)
  <2>1. executor[e].phase \in {"failing", "unsure"} /\ Ends(e) /\ UNCHANGED effects
    BY <1>17 DEF _record_effect_failure
  <2>2. CASE status[b] # "executing"
    BY <1>7, <1>17, <2>1, <2>2 DEF _record_effect_failure
  <2>3. CASE status[b] = "executing" /\ b = a
    <3>1. /\ Running(e, a) /\ status'[a] = "failed"
          /\ executor[e].phase = "failing" => effects[a] = 0
          /\ executor[e].phase = "unsure" => a \in unknown'
        BY <1>3, <1>8, <1>17, <2>1, <2>3
        DEF _record_effect_failure, Running, RunnerKnows, Claimed, FailUnknown
    <3>2. ActionRowIsTrue(a)' /\ RowMoves(a)
        BY <1>0, <1>1, <2>1, <2>3, <3>1 DEF ActionRowIsTrue, RowMoves, VerdictOf
    <3> QED BY <1>6, <2>1, <2>3, <3>1, <3>2
  <2>4. CASE status[b] = "executing" /\ b # a
    <3>1. status'[a] = status[a] /\ (a \in unknown' <=> a \in unknown)
        BY <1>2, <1>3, <1>17, <2>1, <2>4 DEF _record_effect_failure, FailUnknown
    <3> QED BY <1>4, <2>1, <2>4, <3>1
  <2> QED BY <2>2, <2>3, <2>4
<1>18. CASE ExecutorDies(e)
    BY <1>7, <1>18 DEF ExecutorDies
<1> QED BY <1>9, <1>10, <1>11, <1>12, <1>13, <1>14, <1>15, <1>16, <1>17, <1>18 DEF ExecutorNext

\* Proposals, decisions, the dispatch of a row, the reaper and the undoers.
LEMMA ActionStepKeepsAction ==
    ASSUME TypeOK, ActionsInv, ActionNext, NEW a \in Actions
    PROVE  ActionInv(a)' /\ RowMoves(a)
<1>0. /\ ActionInv(a) /\ ActionRowIsTrue(a) /\ RunnerIsAlone(a) /\ UndoersOfExecuted(a)
      /\ a \in Keys /\ effects[a] \in Nat /\ undone[a] \in Nat
    BY DEF ActionsInv, ActionInv, TypeOK, Keys
<1>1. \A i \in Actions : \A s : Write(i, s) => status'[a] = IF a = i THEN s ELSE status[a]
    BY DEF Write, TypeOK, Keys
\* A row nobody has claimed and nobody undoes, or one whose executor has ended.
<1>2. ASSUME UNCHANGED <<executor, undoer>>, ActionRowIsTrue(a)',
             \A e \in Executors : ~Running(e, a),
             status[a] \notin {"executed", "rolled_back"}
      PROVE  ActionInv(a)'
  <2>1. RunnerIsAlone(a)'
    BY <1>2 DEF RunnerIsAlone, Running
  <2>2. UndoersOfExecuted(a)'
    BY <1>0, <1>2 DEF UndoersOfExecuted
  <2> QED BY <1>2, <2>1, <2>2 DEF ActionInv
<1>3. status[a] \in {"absent", "pending_review", "approved"} => \A e \in Executors : ~Running(e, a)
  <2> SUFFICES ASSUME NEW e \in Executors, Running(e, a)
               PROVE  status[a] \notin {"absent", "pending_review", "approved"}
    OBVIOUS
  <2> QED BY <1>0, ExecutorGoesOn DEF RunnerIsAlone, RunnerKnows, Claimed, Running, ExecutorPhase
<1>4. ASSUME UNCHANGED <<executor, undoer, undone>>, status'[a] = status[a],
             effects'[a] = effects[a], a \in unknown' <=> a \in unknown
      PROVE  ActionInv(a)' /\ RowMoves(a)
    BY <1>0, <1>4, ActionUntouched DEF Running
<1> USE DEF At
<1>5. ASSUME NEW i \in Actions, NEW approval_required \in BOOLEAN,
             create_action_proposal(i, approval_required) \/ _approve(i) \/ _reject(i)
      PROVE  ActionInv(a)' /\ RowMoves(a)
  <2>1. /\ UNCHANGED <<effects, unknown, executor, undoer, undone>>
        /\ status[i] \in {"absent", "pending_review", "approved"}
        /\ \E s \in {"pending_review", "approved", "rejected"} : Write(i, s)
    BY <1>5 DEF create_action_proposal, _approve, _reject, actionVars
  <2>2. CASE i = a
    <3>1. ActionRowIsTrue(a)' /\ RowMoves(a)
        BY <1>0, <1>1, <2>1, <2>2 DEF ActionRowIsTrue, RowMoves, VerdictOf
    <3> QED BY <1>2, <1>3, <2>1, <2>2, <3>1
  <2> QED BY <1>1, <1>4, <2>1, <2>2
<1>6. ASSUME NEW i \in Actions, LoseMessage(i) PROVE ActionInv(a)' /\ RowMoves(a)
    BY <1>4, <1>6 DEF LoseMessage
<1>7. ASSUME NEW r \in Relays,
             \/ \E i \in Actions : claim_action_dispatches(r, i)
             \/ PublishAction(r) \/ mark_action_dispatch_sent(r)
             \/ mark_action_dispatch_failed(r) \/ RelayDies(r)
      PROVE  ActionInv(a)' /\ RowMoves(a)
    BY <1>4, <1>7
    DEF claim_action_dispatches, PublishAction, mark_action_dispatch_sent,
        mark_action_dispatch_failed, Mark, RelayDies
<1>8. ASSUME NEW k \in Keys, reap_stuck_actions(k) PROVE ActionInv(a)' /\ RowMoves(a)
  <2>1. /\ k \in Actions /\ status[k] = "executing" /\ Write(k, "failed") /\ FailUnknown(k)
        /\ ~Locked(k)
        /\ TimeLimits => \A e \in Executors : ~Running(e, k)
        /\ UNCHANGED <<effects, executor, undoer, undone>>
    BY <1>8 DEF reap_stuck_actions, _EXECUTOR_ACTION_TYPES, ExecutorFrame
  <2>2. CASE k = a
    <3>1. ActionRowIsTrue(a)' /\ RowMoves(a)
        BY <1>0, <1>1, <2>1, <2>2 DEF ActionRowIsTrue, RowMoves, VerdictOf, FailUnknown
    <3>2. status'[a] = "failed" /\ a \in unknown'
        BY <1>1, <2>1, <2>2 DEF FailUnknown
    <3>3. ASSUME NEW e \in Executors, Running(e, a)
          PROVE  RunnerKnows(executor[e].phase, a)'
      <4>1. ~TimeLimits /\ executor[e].phase \notin {"locked", "half"}
        BY <2>1, <2>2, <3>3 DEF Locked, Running
      <4>2. RunnerKnows(executor[e].phase, a)
        BY <1>0, <3>3 DEF RunnerIsAlone
      <4> QED BY <2>1, <2>2, <3>2, <4>1, <4>2 DEF RunnerKnows, Claimed
    <3>4. RunnerIsAlone(a)'
      BY <1>0, <2>1, <3>3 DEF RunnerIsAlone, Running
    <3>5. UndoersOfExecuted(a)'
      BY <1>0, <2>1, <2>2 DEF UndoersOfExecuted
    <3> QED BY <3>1, <3>4, <3>5 DEF ActionInv
  <2> QED BY <1>1, <1>4, <2>1, <2>2 DEF FailUnknown
<1>9. ASSUME NEW u \in Undoers,
             (\E i \in Actions : _undo(u, i)) \/ RollbackCommits(u) \/ UndoFinishes(u) \/ UndoFails(u)
      PROVE  ActionInv(a)' /\ RowMoves(a)
  <2> DEFINE b == undoer[u].key
  <2> USE DEF UndoFrame
  <2>1. UNCHANGED <<effects, unknown, executor>>
    BY <1>9 DEF _undo, RollbackCommits, UndoFinishes, UndoFails
  <2>2. RunnerIsAlone(a) /\ status'[a] = status[a] => RunnerIsAlone(a)'
    BY <2>1 DEF RunnerIsAlone, RunnerKnows, Claimed, Running
  <2>3. \A v \in Undoers \ {u} : undoer'[v] = undoer[v]
    BY <1>9 DEF _undo, RollbackCommits, UndoFinishes, UndoFails, TypeOK
  <2>4. ASSUME NEW i \in Actions, _undo(u, i) PROVE ActionInv(a)' /\ RowMoves(a)
    <3>1. UNCHANGED <<status, undone>> /\ status[i] = "executed"
        BY <2>4 DEF _undo
    <3>2. undoer'[u] = [phase |-> "locked", key |-> i]
        BY <2>4 DEF _undo, TypeOK
    <3>3. UndoersOfExecuted(a)'
        BY <1>0, <2>3, <3>1, <3>2 DEF UndoersOfExecuted
    <3> QED BY <1>0, <2>1, <2>2, <3>1, <3>3 DEF ActionInv, ActionRowIsTrue, RowMoves, VerdictOf
  <2>5. CASE RollbackCommits(u)
    <3>1. undoer[u].phase # "idle" /\ b \in Actions /\ UNCHANGED status
        BY <2>5, UndoerGoesOn DEF RollbackCommits
    <3>2. undoer'[u].phase = "released" /\ undoer'[u].key = b
        BY <2>5, <3>1, UndoerGoesOn DEF RollbackCommits, TypeOK
    <3>3. undone'[a] = IF a = b THEN 1 ELSE undone[a]
        BY <2>5, <3>1 DEF RollbackCommits, CompareAndSet, TypeOK
    <3>4. b = a => status[a] \in {"executed", "rolled_back"} /\ effects[a] = 1
        BY <1>0, <3>1 DEF UndoersOfExecuted, ActionRowIsTrue
    <3>5. UndoersOfExecuted(a)'
      <4>1. ASSUME NEW v \in Undoers, undoer'[v].phase # "idle", undoer'[v].key = a
            PROVE  /\ status'[a] \in {"executed", "rolled_back"}
                   /\ undoer'[v].phase = "released" => undone'[a] = 1
        <5>1. CASE v = u
            BY <3>1, <3>2, <3>3, <3>4, <4>1, <5>1
        <5>2. CASE v # u
            BY <1>0, <2>3, <3>1, <3>3, <4>1, <5>2 DEF UndoersOfExecuted
        <5> QED BY <5>1, <5>2
      <4> QED BY <4>1 DEF UndoersOfExecuted
    <3>6. ActionRowIsTrue(a)' /\ RowMoves(a)
        BY <1>0, <2>1, <3>1, <3>3, <3>4 DEF ActionRowIsTrue, RowMoves, VerdictOf
    <3> QED BY <1>0, <2>2, <3>1, <3>5, <3>6 DEF ActionInv
  <2>6. CASE UndoFinishes(u)
    <3>1. undoer[u].phase # "idle" /\ b \in Actions /\ undoer'[u].phase = "idle"
        BY <2>6, UndoerGoesOn DEF UndoFinishes, TypeOK, Idle
    <3>2. b = a => status[a] \in {"executed", "rolled_back"} /\ effects[a] = 1
        BY <1>0, <3>1 DEF UndoersOfExecuted, ActionRowIsTrue
    <3>3. undone'[a] = undone[a] \/ (a = b /\ undone'[a] = 1)
        BY <2>6, <3>1 DEF UndoFinishes, CompareAndSet, TypeOK
    <3>4. status'[a] = status[a] \/ (a = b /\ status'[a] = "rolled_back" /\ undone'[a] = 1)
      <4>1. CASE undoer[u].phase = "locked"
        BY <1>1, <2>6, <3>1, <4>1 DEF UndoFinishes, CompareAndSet, TypeOK
      <4>2. CASE undoer[u].phase = "released"
        <5>1. a = b => undone[a] = 1
            BY <1>0, <3>1, <4>2 DEF UndoersOfExecuted
        <5> QED BY <1>1, <2>6, <3>1, <4>2, <5>1 DEF UndoFinishes
      <4> QED BY <2>6, <4>1, <4>2 DEF UndoFinishes
    <3>5. UndoersOfExecuted(a)'
      <4>1. ASSUME NEW v \in Undoers, undoer'[v].phase # "idle", undoer'[v].key = a
            PROVE  /\ status'[a] \in {"executed", "rolled_back"}
                   /\ undoer'[v].phase = "released" => undone'[a] = 1
        BY <1>0, <2>3, <3>1, <3>3, <3>4, <4>1 DEF UndoersOfExecuted
      <4> QED BY <4>1 DEF UndoersOfExecuted
    <3>6. ActionRowIsTrue(a)' /\ RowMoves(a)
        BY <1>0, <2>1, <3>2, <3>3, <3>4 DEF ActionRowIsTrue, RowMoves, VerdictOf
    <3>7. RunnerIsAlone(a)'
      <4>1. ASSUME NEW e \in Executors, Running(e, a)
            PROVE  RunnerKnows(executor[e].phase, a)'
        BY <1>0, <2>1, <3>2, <3>4, <4>1 DEF RunnerIsAlone, RunnerKnows, Claimed
      <4> QED BY <1>0, <2>1, <4>1 DEF RunnerIsAlone, Running
    <3> QED BY <3>5, <3>6, <3>7 DEF ActionInv
  <2>7. CASE UndoFails(u)
    <3>1. UNCHANGED <<status, undone>> /\ undoer'[u].phase = "idle"
        BY <2>7 DEF UndoFails, TypeOK, Idle
    <3>2. UndoersOfExecuted(a)'
        BY <1>0, <2>3, <3>1 DEF UndoersOfExecuted
    <3> QED BY <1>0, <2>1, <2>2, <3>1, <3>2 DEF ActionInv, ActionRowIsTrue, RowMoves, VerdictOf
  <2> QED BY <1>9, <2>4, <2>5, <2>6, <2>7
<1>10. ASSUME NEW e \in Executors, ExecutorNext(e) PROVE ActionInv(a)' /\ RowMoves(a)
    BY <1>10, ExecutorKeepsAction
<1> QED BY <1>5, <1>6, <1>7, <1>8, <1>9, <1>10 DEF ActionNext

(***************************************************************************)
(* The refinement.                                                         *)
(***************************************************************************)
\* A step changes one row.
Others(k) ==
    \A j \in Keys \ {k} : /\ status'[j] = status[j] /\ effects'[j] = effects[j]
                          /\ j \in unknown' <=> j \in unknown

\* No transaction of the ledger and no external effect touches two rows.
LEMMA OneRowChanges ==
    ASSUME TypeOK, [Next]_vars
    PROVE  UNCHANGED <<status, effects, unknown>> \/ \E k \in Keys : Others(k)
<1>1. ASSUME NEW k \in Keys,
             UNCHANGED status \/ \E s : Write(k, s),
             UNCHANGED effects \/ Happen(k),
             UNCHANGED unknown \/ FailUnknown(k)
      PROVE  Others(k)
    BY <1>1 DEF Others, Write, Happen, FailUnknown, TypeOK
<1>2. CASE UNCHANGED vars
    BY <1>2 DEF vars, actionVars
<1>3. ASSUME NEW c \in Callers, CallerNext(c)
      PROVE  UNCHANGED <<status, effects, unknown>> \/ \E k \in Keys : Others(k)
  <2>1. UNCHANGED unknown
    BY <1>3
    DEF CallerNext, fence_or_raise, _lock_signature, _claim, InsertClaim, SendCall, CallAnswers,
        CallFails, AnswerLost, _finish_executed, _finish_failed, StopUnrecorded, Reconcile,
        ConfirmNotFiled, LinkDefect, CallerDies, actionVars
  <2>2. CASE caller[c].phase \in {"idle", "over"}
    BY <1>3, <2>1, <2>2
    DEF CallerNext, fence_or_raise, _lock_signature, _claim, InsertClaim, SendCall, CallAnswers,
        CallFails, AnswerLost, _finish_executed, _finish_failed, StopUnrecorded, Reconcile,
        ConfirmNotFiled, LinkDefect, CallerDies, At
  <2>3. CASE caller[c].phase \notin {"idle", "over"}
    <3>1. caller[c].key \in Keys
        BY <2>3, CallerGoesOn DEF Keys
    <3>2. /\ UNCHANGED status \/ \E s : Write(caller[c].key, s)
          /\ UNCHANGED effects \/ Happen(caller[c].key)
        BY <1>3, <2>3
        DEF CallerNext, fence_or_raise, _lock_signature, _claim, InsertClaim, SendCall,
            CallAnswers, CallFails, AnswerLost, _finish_executed, _finish_failed,
            StopUnrecorded, Reconcile, ConfirmNotFiled, LinkDefect, CallerDies, At
    <3> QED BY <1>1, <2>1, <3>1, <3>2
  <2> QED BY <2>2, <2>3
<1>4. ASSUME NEW k \in Calls, Land(k) \/ Vanish(k)
      PROVE  \E j \in Keys : Others(j)
    BY <1>1, <1>4 DEF Land, Vanish, actionVars, Keys
<1>5. CASE ReplaceAttempt
    BY <1>5 DEF ReplaceAttempt, actionVars
<1>6. ASSUME NEW e \in Executors, ExecutorNext(e)
      PROVE  UNCHANGED <<status, effects, unknown>> \/ \E k \in Keys : Others(k)
  <2>1. CASE executor[e].phase = "idle"
    BY <1>6, <2>1
    DEF ExecutorNext, Deliver, _claim_or_refuse, _lock_claimed, CommitEffect, ProposeEffect,
        ApproveEffect, FinishEffected, EffectRaises, _record_effect_failure, ExecutorDies, At
  <2>2. CASE executor[e].phase # "idle"
    <3>1. executor[e].key \in Keys
        BY <2>2, ExecutorGoesOn DEF Keys
    <3>2. /\ UNCHANGED status \/ \E s : Write(executor[e].key, s)
          /\ UNCHANGED effects \/ Happen(executor[e].key)
          /\ UNCHANGED unknown \/ FailUnknown(executor[e].key)
        BY <1>6, <2>2
        DEF ExecutorNext, Deliver, _claim_or_refuse, _lock_claimed, CommitEffect, ProposeEffect,
            ApproveEffect, FinishEffected, EffectRaises, _record_effect_failure, ExecutorDies, At
    <3> QED BY <1>1, <3>1, <3>2
  <2> QED BY <2>1, <2>2
<1>7. ASSUME NEW a \in Actions,
             \/ \E approval_required \in BOOLEAN : create_action_proposal(a, approval_required)
             \/ _approve(a) \/ _reject(a) \/ LoseMessage(a)
      PROVE  \E k \in Keys : Others(k)
  <2>1. a \in Keys
    BY DEF Keys
  <2>2. UNCHANGED status \/ \E s : Write(a, s)
    BY <1>7 DEF create_action_proposal, _approve, _reject, LoseMessage
  <2>3. UNCHANGED <<effects, unknown>>
    BY <1>7 DEF create_action_proposal, _approve, _reject, LoseMessage, actionVars
  <2> QED BY <1>1, <2>1, <2>2, <2>3
<1>8. ASSUME NEW r \in Relays,
             \/ \E a \in Actions : claim_action_dispatches(r, a)
             \/ PublishAction(r) \/ mark_action_dispatch_sent(r)
             \/ mark_action_dispatch_failed(r) \/ RelayDies(r)
      PROVE  UNCHANGED <<status, effects, unknown>>
    BY <1>8
    DEF claim_action_dispatches, PublishAction, mark_action_dispatch_sent,
        mark_action_dispatch_failed, Mark, RelayDies
<1>9. ASSUME NEW k \in Keys, reap_stuck_actions(k) PROVE \E j \in Keys : Others(j)
  <2>1. (\E s : Write(k, s)) /\ FailUnknown(k) /\ UNCHANGED effects
    BY <1>9 DEF reap_stuck_actions
  <2> QED BY <1>1, <2>1
<1>10. ASSUME NEW u \in Undoers,
              (\E a \in Actions : _undo(u, a)) \/ RollbackCommits(u) \/ UndoFinishes(u) \/ UndoFails(u)
       PROVE  UNCHANGED <<status, effects, unknown>> \/ \E k \in Keys : Others(k)
  <2>1. UNCHANGED <<effects, unknown>>
    BY <1>10 DEF _undo, RollbackCommits, UndoFinishes, UndoFails, UndoFrame
  <2>2. CASE UndoFinishes(u)
    <3>1. undoer[u].key \in Keys
        BY <2>2, UndoerGoesOn DEF UndoFinishes, At, Keys
    <3>2. UNCHANGED status \/ \E s : Write(undoer[u].key, s)
        BY <2>2 DEF UndoFinishes
    <3> QED BY <1>1, <2>1, <3>1, <3>2
  <2>3. CASE ~UndoFinishes(u)
    BY <1>10, <2>1, <2>3 DEF _undo, RollbackCommits, UndoFails
  <2> QED BY <2>2, <2>3
<1> QED BY <1>2, <1>3, <1>4, <1>5, <1>6, <1>7, <1>8, <1>9, <1>10 DEF Next, CallNext, ActionNext

\* A call's effect happens once, before the row says executed, for good.
LEMMA CallRowMoves ==
    ASSUME TypeOK, TypeOK', CallsInv, CallsInv', Next, NEW k \in Guarded
    PROVE  RowMoves(k)
<1>0. /\ CallInv(k) /\ CallInv(k)' /\ k \in Calls /\ k \in Keys /\ k \notin Actions
      /\ effects[k] \in Nat /\ effects'[k] \in Nat /\ adrift[k] \in Nat /\ adrift'[k] \in Nat
      /\ status[k] \in CallStatus /\ status'[k] \in CallStatus
    BY Parties, LedgerAssumption DEF CallsInv, TypeOK, Keys
<1>1. VerdictOf(k) = (IF status[k] = "executed" THEN "done" ELSE "open")
    BY <1>0 DEF VerdictOf, CallStatus
<1>2. VerdictOf(k)' = (IF status'[k] = "executed" THEN "done" ELSE "open")
    BY <1>0 DEF VerdictOf, CallStatus
<1>3. effects'[k] \in {effects[k], effects[k] + 1} /\ (status[k] = "executed" => status'[k] = "executed")
  <2>1. CASE ActionNext
    BY <1>0, <2>1, ActionsLeaveCalls
  <2>2. ASSUME NEW i \in Calls, Land(i) \/ Vanish(i)
        PROVE  effects'[k] \in {effects[k], effects[k] + 1} /\ status' = status
    BY <1>0, <2>2 DEF Land, Vanish, Happen, TypeOK
  <2>3. CASE ReplaceAttempt
    BY <2>3 DEF ReplaceAttempt
  <2>4. ASSUME NEW c \in Callers, CallerNext(c)
        PROVE  effects'[k] \in {effects[k], effects[k] + 1} /\ (status[k] = "executed" => status'[k] = "executed")
    <3>1. UNCHANGED effects \/ Happen(caller[c].key)
        BY <2>4
        DEF CallerNext, fence_or_raise, _lock_signature, _claim, InsertClaim, SendCall,
            CallAnswers, CallFails, AnswerLost, _finish_executed, _finish_failed,
            StopUnrecorded, Reconcile, ConfirmNotFiled, LinkDefect, CallerDies
    <3>2. effects'[k] \in {effects[k], effects[k] + 1}
        BY <1>0, <3>1 DEF Happen, TypeOK
    <3>3. \A s : Write(caller[c].key, s) => status'[k] = IF k = caller[c].key THEN s ELSE status[k]
        BY <1>0 DEF Write, TypeOK
    <3>4. CASE _finish_failed(c)
      <4>1. caller[c].key = k => Holds(c, k)
        BY <3>4 DEF _finish_failed, At, Holds, Holding
      <4>2. caller[c].key = k => status[k] = "executing"
        BY <1>0, <4>1 DEF CallInv, HolderIsAlone
      <4> QED BY <3>2, <3>3, <3>4, <4>2 DEF _finish_failed
    <3>5. CASE ConfirmNotFiled(c)
        BY <1>0, <3>2, <3>3, <3>5 DEF ConfirmNotFiled, CallInv, RowIsTrue
    <3>6. CASE ~_finish_failed(c) /\ ~ConfirmNotFiled(c)
        BY <2>4, <3>2, <3>3, <3>6
        DEF CallerNext, fence_or_raise, _lock_signature, _claim, InsertClaim, SendCall,
            CallAnswers, CallFails, AnswerLost, _finish_executed,
            StopUnrecorded, Reconcile, LinkDefect, CallerDies
    <3> QED BY <3>4, <3>5, <3>6
  <2> QED BY <2>1, <2>2, <2>3, <2>4 DEF Next, CallNext
<1> QED BY <1>0, <1>1, <1>2, <1>3 DEF RowMoves, CallInv, RowIsTrue

\* The steps of tool calls leave the actions alone.
LEMMA CallsLeaveActions ==
    ASSUME TypeOK, ActionsInv, CallNext, NEW a \in Actions
    PROVE  ActionInv(a)' /\ RowMoves(a)
<1>1. UNCHANGED actionVars
    BY DEF CallNext, CallerNext, ReplaceAttempt, Land, Vanish, fence_or_raise, _lock_signature,
           _claim, InsertClaim, SendCall, CallAnswers, CallFails, AnswerLost, _finish_executed,
           _finish_failed, StopUnrecorded, Reconcile, ConfirmNotFiled, LinkDefect, CallerDies
<1>2. /\ \A k \in Calls : \A s : Write(k, s) => status'[a] = status[a]
      /\ \A k \in Calls : Happen(k) => effects'[a] = effects[a]
    BY LedgerAssumption DEF Write, Happen, TypeOK, Keys
<1>3. status'[a] = status[a] /\ effects'[a] = effects[a]
  <2>1. ASSUME NEW c \in Callers, CallerNext(c)
        PROVE  status'[a] = status[a] /\ effects'[a] = effects[a]
    BY <1>2, <2>1, CallerGoesOn
    DEF CallerNext, fence_or_raise, _lock_signature, _claim, InsertClaim, SendCall,
        CallAnswers, CallFails, AnswerLost, _finish_executed, _finish_failed, At,
        StopUnrecorded, Reconcile, ConfirmNotFiled, LinkDefect, CallerDies
  <2> QED BY <1>2, <2>1 DEF CallNext, ReplaceAttempt, Land, Vanish
<1>4. ActionInv(a)
    BY DEF ActionsInv
<1> QED BY <1>1, <1>3, <1>4, ActionUntouched DEF actionVars, Running

\* The refinement mapping, row by row.
LEMMA VerdictIs ==
    /\ verdict = [k \in Accountable |-> VerdictOf(k)]
    /\ verdict' = [k \in Accountable |-> VerdictOf(k)']
    /\ happened' = [k \in Accountable |-> effects'[k]]
BY DEF verdict, happened, VerdictOf

\* A row that moves as it may is a step of SingleEffect.
LEMMA RowStep ==
    ASSUME NEW k \in Accountable, Others(k), RowMoves(k),
           VerdictOf(k)' = "done" => effects'[k] = 1,
           VerdictOf(k)' = "never" => effects'[k] = 0
    PROVE  [Single!Next]_<<happened, verdict>>
<1>1. /\ \A j \in Keys \ {k} : VerdictOf(j)' = VerdictOf(j) /\ effects'[j] = effects[j]
      /\ Accountable \subseteq Keys
    BY Parties DEF Others, VerdictOf
<1>2. verdict' = [verdict EXCEPT ![k] = VerdictOf(k)'] /\ verdict[k] = VerdictOf(k)
    BY <1>1, VerdictIs
<1>3. happened' = [happened EXCEPT ![k] = effects'[k]] /\ happened[k] = effects[k]
    BY <1>1, VerdictIs DEF happened
<1>4. VerdictOf(k)' \in Single!Verdict
    BY DEF VerdictOf, Single!Verdict
<1>5. CASE effects'[k] = effects[k]
  <2>1. UNCHANGED happened
    BY <1>3, <1>5 DEF happened
  <2>2. CASE VerdictOf(k)' = VerdictOf(k)
    <3>1. UNCHANGED verdict
        BY <1>2, <2>2, VerdictIs
    <3> QED BY <2>1, <3>1
  <2>3. CASE VerdictOf(k)' # VerdictOf(k) /\ VerdictOf(k) # "open"
    <3>1. ~TimeLimits /\ VerdictOf(k) = "unknown" /\ VerdictOf(k)' = "done"
        BY <2>3 DEF RowMoves
    <3>2. Single!Correct(k)
        BY <1>2, <1>3, <1>5, <2>1, <3>1 DEF Single!Correct
    <3> QED BY <3>2 DEF Single!Next
  <2>4. CASE VerdictOf(k)' # VerdictOf(k) /\ VerdictOf(k) = "open"
    <3>1. verdict[k] = "open"
        BY <1>2, <2>4
    <3>2. Single!Close(k, VerdictOf(k)')
        BY <1>2, <1>3, <1>5, <2>1, <3>1 DEF Single!Close
    <3>3. VerdictOf(k)' \in Single!Verdict \ {"open"}
        BY <1>2, <1>4, <2>4, <3>1
    <3> QED BY <3>2, <3>3 DEF Single!Next
  <2> QED BY <2>2, <2>3, <2>4
<1>6. CASE effects'[k] # effects[k]
  <2>1. /\ happened[k] = 0 /\ happened' = [happened EXCEPT ![k] = 1]
        /\ verdict[k] = "open" /\ VerdictOf(k)' \in {"open", "done"}
    BY <1>2, <1>3, <1>6 DEF RowMoves
  <2>2. CASE VerdictOf(k)' = "open"
    <3>1. UNCHANGED verdict
        BY <1>2, <2>1, <2>2, VerdictIs
    <3>2. Single!Perform(k)
        BY <2>1, <3>1 DEF Single!Perform
    <3> QED BY <3>2 DEF Single!Next
  <2>3. CASE VerdictOf(k)' = "done"
    <3>1. Single!PerformAndClose(k)
        BY <1>2, <2>1, <2>3 DEF Single!PerformAndClose
    <3> QED BY <3>1 DEF Single!Next
  <2> QED BY <2>1, <2>2, <2>3
<1> QED BY <1>5, <1>6

\* The invariants together.
LedgerInv == TypeOK /\ CallsInv /\ ActionsInv

\* Every step keeps every action's invariant and moves its row as it may.
LEMMA EveryStepOnActions ==
    ASSUME LedgerInv, Next, NEW a \in Actions
    PROVE  ActionInv(a)' /\ RowMoves(a)
BY ActionStepKeepsAction, CallsLeaveActions DEF LedgerInv, Next

\* The invariants hold in every state.
LEMMA LedgerInvariant == Spec => []LedgerInv
<1>1. ASSUME LedgerInv, UNCHANGED vars, NEW a \in Actions PROVE ActionInv(a)'
    BY <1>1, ActionUntouched DEF LedgerInv, ActionsInv, vars, actionVars, Running
<1>2. Init => ActionsInv
    BY LedgerAssumption
    DEF Init, ActionsInv, ActionInv, ActionRowIsTrue, RunnerIsAlone, UndoersOfExecuted,
        Running, Idle, Keys
<1>3. TypeOK /\ TypeOK' /\ CallsInv /\ CallsInv' /\ ActionsInv /\ [Next]_vars => ActionsInv'
    BY <1>1, EveryStepOnActions DEF LedgerInv, ActionsInv
<1>4. TypeOK /\ CallsInv /\ ActionsInv <=> LedgerInv
    BY DEF LedgerInv
<1> QED BY <1>2, <1>3, <1>4, CallsInvariant, PTL DEF Spec

\* A step that changes none of the accountable rows stutters.
LEMMA NothingHappens ==
    ASSUME \A k \in Accountable :
              status'[k] = status[k] /\ effects'[k] = effects[k] /\ (k \in unknown' <=> k \in unknown)
    PROVE  UNCHANGED <<happened, verdict>>
<1>1. \A k \in Accountable : VerdictOf(k)' = VerdictOf(k)
    BY DEF VerdictOf
<1> QED BY <1>1, VerdictIs DEF happened

\* Every step of the ledger is a step of SingleEffect or leaves it alone.
LEMMA StepImplements ==
    ASSUME LedgerInv, LedgerInv', [Next]_vars
    PROVE  [Single!Next]_<<happened, verdict>>
<1>1. CASE UNCHANGED <<status, effects, unknown>>
    BY <1>1, NothingHappens
<1>2. ASSUME NEW k \in Keys \ Accountable, Others(k) PROVE [Single!Next]_<<happened, verdict>>
    BY <1>2, Parties, NothingHappens DEF Others
<1>3. ASSUME NEW k \in Accountable, Others(k), Next PROVE [Single!Next]_<<happened, verdict>>
  <2>1. CASE k \in Actions
    <3>1. ActionRowIsTrue(k)' /\ RowMoves(k)
        BY <1>3, <2>1, EveryStepOnActions DEF LedgerInv, ActionsInv, ActionInv
    <3> QED BY <1>3, <3>1, RowStep DEF ActionRowIsTrue, VerdictOf
  <2>2. CASE k \in Guarded
    <3>1. RowIsTrue(k)' /\ status'[k] \in CallStatus /\ k \notin Actions
        BY <2>2, Parties, LedgerAssumption DEF LedgerInv, CallsInv, CallInv, TypeOK
    <3>2. VerdictOf(k)' # "never" /\ (VerdictOf(k)' = "done" => status'[k] = "executed")
        BY <3>1 DEF VerdictOf, CallStatus
    <3>3. RowMoves(k)
        BY <1>3, <2>2, CallRowMoves DEF LedgerInv
    <3> QED BY <1>3, <3>1, <3>2, <3>3, RowStep DEF RowIsTrue
  <2> QED BY <2>1, <2>2, Parties DEF Keys, Guarded
<1>4. CASE UNCHANGED vars
    BY <1>1, <1>4 DEF vars, actionVars
<1> QED BY <1>1, <1>2, <1>3, <1>4, OneRowChanges DEF LedgerInv

\* The ledger implements SingleEffect: one issue per call and one effect per
\* action, only while the row is open, and a verdict that is true and, while the
\* time limits hold, final (run_once, execute_action, reap_stuck_actions, _undo).
\* It speaks of the calls of stages as soon as these raise OutcomeUnknown.
THEOREM LedgerImplementsSingleEffect == Spec => ImplementsSingleEffect
<1>1. Init => Single!Init
  <2> SUFFICES ASSUME Init PROVE Single!Init
    OBVIOUS
  <2>1. \A k \in Accountable : VerdictOf(k) = "open" /\ effects[k] = 0
    BY Parties DEF Init, VerdictOf
  <2> QED BY <2>1, VerdictIs DEF happened, Single!Init
<1>2. LedgerInv /\ LedgerInv' /\ [Next]_vars => [Single!Next]_<<happened, verdict>>
  BY StepImplements
<1> QED BY <1>1, <1>2, LedgerInvariant, PTL DEF Spec, ImplementsSingleEffect, Single!Spec

\* What the ledger says of an action is true of its effect, which happens at most
\* once, whether the time limits hold or not (VerdictsAreTrue: the row is locked
\* for the effect, the reaper says unknown).
THEOREM VerdictsOfActionsAreTrue == Spec => []VerdictsAreTrue
<1>1. LedgerInv => VerdictsAreTrue
  <2> SUFFICES ASSUME LedgerInv, NEW a \in Actions
               PROVE  /\ effects[a] <= 1
                      /\ verdict[a] = "done" => effects[a] = 1
                      /\ verdict[a] = "never" => effects[a] = 0
    BY DEF VerdictsAreTrue
  <2>1. ActionRowIsTrue(a) /\ a \in Accountable
    BY Parties DEF LedgerInv, ActionsInv, ActionInv
  <2>2. verdict[a] = VerdictOf(a)
    BY <2>1, VerdictIs
  <2> QED BY <2>1, <2>2 DEF ActionRowIsTrue, VerdictOf
<1> QED BY <1>1, LedgerInvariant, PTL

\* A rolled back action was undone once, whoever undoes it at the same time and
\* however long its executor takes (UndoneOnce: _undo asks for an executed row).
THEOREM UndoneAtMostOnce == Spec => []UndoneOnce
<1>1. LedgerInv => UndoneOnce
    BY DEF LedgerInv, ActionsInv, ActionInv, ActionRowIsTrue, UndoneOnce
<1> QED BY <1>1, LedgerInvariant, PTL
=============================================================================
