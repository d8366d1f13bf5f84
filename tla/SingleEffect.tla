---------------------------- MODULE SingleEffect ----------------------------
(***************************************************************************)
(* What the agent action ledger promises about one row, whoever executes   *)
(* it: the effect outside the ledger happens at most once, only while the  *)
(* row is open, and the verdict the row ends with is true: "done" means    *)
(* the effect happened, "never" that it did not, and "unknown" is said by  *)
(* name.  A verdict is final, unless MayCorrect lets whoever made an effect *)
(* say so after all.  AgentActionLedger implements this specification.     *)
(***************************************************************************)
EXTENDS Naturals

CONSTANTS
    Keys,                \* rows of the ledger
    MayCorrect           \* an unknown outcome may become known

VARIABLES
    effects,             \* per row, how often its effect happened
    verdict              \* per row, what the ledger says of it

Verdict == {"open", "done", "never", "unknown"}

Init ==
    /\ effects = [k \in Keys |-> 0]
    /\ verdict = [k \in Keys |-> "open"]

Perform(k) ==
    /\ verdict[k] = "open" /\ effects[k] = 0
    /\ effects' = [effects EXCEPT ![k] = 1]
    /\ UNCHANGED verdict

Close(k, v) ==
    /\ verdict[k] = "open"
    /\ v = "done" => effects[k] = 1
    /\ v = "never" => effects[k] = 0
    /\ verdict' = [verdict EXCEPT ![k] = v]
    /\ UNCHANGED effects

\* The effect and the row that records it are one database transaction.
PerformAndClose(k) ==
    /\ verdict[k] = "open" /\ effects[k] = 0
    /\ effects' = [effects EXCEPT ![k] = 1]
    /\ verdict' = [verdict EXCEPT ![k] = "done"]

Correct(k) ==
    /\ MayCorrect
    /\ verdict[k] = "unknown" /\ effects[k] = 1
    /\ verdict' = [verdict EXCEPT ![k] = "done"]
    /\ UNCHANGED effects

Next ==
    \E k \in Keys :
        \/ Perform(k)
        \/ \E v \in Verdict \ {"open"} : Close(k, v)
        \/ PerformAndClose(k) \/ Correct(k)

Spec == Init /\ [][Next]_<<effects, verdict>>
=============================================================================
