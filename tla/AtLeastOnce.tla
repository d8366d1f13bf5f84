---------------------------- MODULE AtLeastOnce ----------------------------
(***************************************************************************)
(* What an outbox promises about its items: an item is "done" only after   *)
(* its work was performed, performing it more than once is allowed, and an *)
(* item that ended stays as it ended; only a person reopens one that was   *)
(* given up.  RunDownstreamOutbox, WebhookDelivery, LiveEvidence and       *)
(* ClusterInvestigations implement it.                                     *)
(***************************************************************************)
CONSTANTS
    Items,
    MayReopen           \* items a person may reopen

VARIABLES
    state,              \* per item: "none", "open", "done" or "dead"
    performed           \* items the work of which was done at least once

Init ==
    /\ state = [i \in Items |-> "none"]
    /\ performed = {}

Moves(S, from, to) ==
    /\ \A i \in S : state[i] = from
    /\ state' = [i \in Items |-> IF i \in S THEN to ELSE state[i]]
    /\ UNCHANGED performed

Create(S) == Moves(S, "none", "open")

Perform(i) ==
    /\ state[i] # "none"
    /\ performed' = performed \cup {i}
    /\ UNCHANGED state

Finish(S) == S \subseteq performed /\ Moves(S, "open", "done")

GiveUp(S) == Moves(S, "open", "dead")

Reopen(S) == S \subseteq MayReopen /\ Moves(S, "dead", "open")

Next ==
    \/ \E i \in Items : Perform(i)
    \/ \E S \in SUBSET Items : Create(S) \/ Finish(S) \/ GiveUp(S) \/ Reopen(S)

Spec == Init /\ [][Next]_<<state, performed>>
=============================================================================
