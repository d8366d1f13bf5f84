---------------------------- MODULE RunLifecycle ----------------------------
(***************************************************************************)
(* What the row of a run promises to everybody who reads it: it takes only *)
(* the edges of the state machine, an attempt is counted when it begins    *)
(* and at no other time, a run that has passed is over, and a run that is  *)
(* cancelled begins no attempt and is not put back in line once it failed. *)
(* AgentPipelineRun implements it.                                         *)
(***************************************************************************)
EXTENDS Naturals

VARIABLES
    state,        \* the status of the row, "absent" before it exists
    attempts,     \* attempts begun
    cancelled     \* somebody asked for the end of the run

\* The edges the one writer of the status lets through, and the creation.
TRANSITIONS ==
    {<<"absent", "running">>,
     <<"running", "completed">>, <<"running", "failed">>, <<"running", "retry_wait">>,
     <<"retry_wait", "running">>, <<"retry_wait", "failed">>,
     <<"completed", "passed">>, <<"completed", "failed">>, <<"completed", "running">>,
     <<"failed", "running">>, <<"failed", "retry_wait">>}

Init ==
    /\ state = "absent"
    /\ attempts = 0
    /\ cancelled = FALSE

Begin ==
    /\ <<state, "running">> \in TRANSITIONS
    /\ ~cancelled
    /\ state' = "running"
    /\ attempts' = attempts + 1
    /\ UNCHANGED cancelled

Move(to) ==
    /\ <<state, to>> \in TRANSITIONS
    /\ to # "running"
    /\ state = "failed" => ~cancelled
    /\ state' = to
    /\ UNCHANGED <<attempts, cancelled>>

\* A run nobody has to review completes and passes in one transaction.
CompleteAndPass ==
    /\ state = "running"
    /\ state' = "passed"
    /\ UNCHANGED <<attempts, cancelled>>

\* A running attempt is asked to stop; a waiting one has nobody to ask.
Cancel ==
    /\ state \in {"running", "retry_wait"}
    /\ state' = IF state = "running" THEN "running" ELSE "failed"
    /\ cancelled' = TRUE
    /\ UNCHANGED attempts

Next ==
    \/ Begin \/ CompleteAndPass \/ Cancel
    \/ \E to \in {"retry_wait", "completed", "passed", "failed"} : Move(to)

Spec == Init /\ [][Next]_<<state, attempts, cancelled>>
=============================================================================
