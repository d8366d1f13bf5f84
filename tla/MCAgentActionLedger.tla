------------------------ MODULE MCAgentActionLedger ------------------------
(***************************************************************************)
(* Instances of AgentActionLedger for TLC.  The rows of the ledger share   *)
(* no state: a run explores each row alone (an action constraint).         *)
(***************************************************************************)
EXTENDS AgentActionLedger

OneRow ==
    \E row \in Keys :
        /\ \A k \in Keys \ {row} : status'[k] = "absent"
        /\ \A c \in Callers : caller'[c] \in {Idle, Over} \cup Busy(CallPhase, {row})
        /\ row \notin StageCalls => owner' = 1
=============================================================================
