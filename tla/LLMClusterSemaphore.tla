------------------------ MODULE LLMClusterSemaphore ------------------------
(***************************************************************************)
(* The cluster-wide bound on concurrent LLM calls of one provider          *)
(* (backend/app/services/llm_cluster_semaphore.py): a sorted set in Redis  *)
(* of slots scored by the end of their lease, and for every call a holder  *)
(* that acquires a slot, renews its lease while the call runs and stops    *)
(* the call when the lease cannot be kept.                                 *)
(*                                                                         *)
(* Time passes in Tick only.  Redis and the event loops share no clock:    *)
(* the model keeps durations, what is left of a lease in Redis and the     *)
(* time since a holder sent the command its deadline counts from.  A       *)
(* command is sent, executed and answered in separate steps.               *)
(*                                                                         *)
(* Assumed, as the module's docstring does: an event loop is not blocked   *)
(* (what is due happens before time goes on), and a Redis call ends or     *)
(* raises within its socket timeout.                                       *)
(***************************************************************************)
EXTENDS Naturals, FiniteSets

CONSTANTS
    Calls,
    Limit,          \* LLM_CLUSTER_MAX_CONCURRENT
    Lease,          \* LLM_CLUSTER_SLOT_LEASE_SECONDS
    Interval,       \* between two renewals (a third of the lease)
    Margin,         \* how long before the lease lapses a holder is stopped
    Unwind,         \* the longest a cancelled call takes to end
    SocketTimeout   \* REDIS_SOCKET_TIMEOUT_SECONDS

\* The validator of the lease keeps it above twice the socket timeout and 5 s.
ASSUME SemaphoreAssumption ==
    /\ IsFiniteSet(Calls)
    /\ Limit \in Nat /\ Lease \in Nat /\ Interval \in Nat
    /\ Margin \in Nat /\ Unwind \in Nat /\ SocketTimeout \in Nat
    /\ Unwind < Margin
    /\ SocketTimeout + Interval + Margin <= Lease

VARIABLES
    slots,    \* per call, what is left of its lease in Redis; 0: not a member
    holder    \* per call, the local side

slotVars == <<slots, holder>>

Answer == {"none", "yes", "no"}
Phase == {"out",         \* wants no slot
          "asking",      \* an acquire is under way
          "full",        \* refused; it may ask again
          "beating",     \* runs with a slot, the heartbeat asleep
          "renewing",    \* runs with a slot, a renewal under way
          "stopping",    \* its call was cancelled, the lease being lost
          "local"}       \* runs without a slot: the coordinator failed

\* A holder in a phase, of an age, with n left to sleep.
Local(phase, age, n) ==
    [phase |-> phase, age |-> age, sent |-> 0, nap |-> n, answer |-> "none"]
Out == Local("out", 0, 0)
Members == {c \in Calls : slots[c] > 0}
\* The call runs on a slot.
Holds(c) == holder[c].phase \in {"beating", "renewing", "stopping"}
Runs(c) == Holds(c) \/ holder[c].phase = "local"
\* The local deadline, counted from the send of the last successful command.
Deadline == Lease - Margin

SlotInit ==
    /\ slots = [c \in Calls |-> 0]
    /\ holder = [c \in Calls |-> Out]

Becomes(c, h) == holder' = [holder EXCEPT ![c] = h]
Is(c, phase) == holder[c].phase = phase

(***************************************************************************)
(* Acquire.                                                                *)
(***************************************************************************)
\* A token is fresh: a call starts anew when its old member is gone.
try_acquire(c) ==
    /\ (Is(c, "out") /\ slots[c] = 0) \/ Is(c, "full")
    /\ Becomes(c, Local("asking", 0, 0))
    /\ UNCHANGED slots

HasRoom == Cardinality(Members) < Limit

_ACQUIRE_LUA(c) ==
    /\ Is(c, "asking") /\ holder[c].answer = "none"
    /\ IF slots[c] > 0 \/ HasRoom
       THEN /\ slots' = [slots EXCEPT ![c] = Lease]
            /\ holder' = [holder EXCEPT ![c].answer = "yes"]
       ELSE /\ holder' = [holder EXCEPT ![c].answer = "no"]
            /\ UNCHANGED slots

\* Mutant: the lease is counted from the answer.
CountsFromAnswer(c) ==
    Becomes(c, Local("beating", 0, Interval))

\* The lease is counted from when the acquire was sent.
StartsHeartbeat(c) ==
    Becomes(c, Local("beating", holder[c].age, Interval))

Admitted(c) ==
    /\ Is(c, "asking") /\ holder[c].answer = "yes"
    /\ StartsHeartbeat(c)
    /\ UNCHANGED slots

Refused(c) ==
    /\ Is(c, "asking") /\ holder[c].answer = "no"
    /\ Becomes(c, Local("full", 0, 0))
    /\ UNCHANGED slots

\* The acquire raised, executed or not: the call runs on the local bound.
Unavailable(c) ==
    /\ Is(c, "asking")
    /\ Becomes(c, Local("local", 0, 0))
    /\ UNCHANGED slots

\* LLMSlotTimeout, or cancelled while it waits: a slot it got lapses.
GivesUp(c) ==
    /\ Is(c, "asking") \/ Is(c, "full")
    /\ Becomes(c, Out)
    /\ UNCHANGED slots

(***************************************************************************)
(* The heartbeat.                                                          *)
(***************************************************************************)
Stops(c) == Becomes(c, Local("stopping", holder[c].age, Unwind))

\* It wakes, in time or after the deadline.
Wakes(c) ==
    /\ Is(c, "beating") /\ holder[c].nap = 0
    /\ IF holder[c].age >= Deadline THEN Stops(c)
       ELSE Becomes(c, Local("renewing", holder[c].age, 0))
    /\ UNCHANGED slots

_RENEW_LUA(c) ==
    /\ Is(c, "renewing") /\ holder[c].answer = "none"
    /\ IF slots[c] > 0
       THEN /\ slots' = [slots EXCEPT ![c] = Lease]
            /\ holder' = [holder EXCEPT ![c].answer = "yes"]
       ELSE /\ holder' = [holder EXCEPT ![c].answer = "no"]
            /\ UNCHANGED slots

Renewed(c) ==
    /\ Is(c, "renewing") /\ holder[c].answer = "yes"
    /\ Becomes(c, Local("beating", holder[c].sent, Interval))
    /\ UNCHANGED slots

LeaseGone(c) ==
    /\ Is(c, "renewing") /\ holder[c].answer = "no"
    /\ Stops(c)
    /\ UNCHANGED slots

\* Another renewal can still be sent before the deadline.
CanTryAgain(c) == holder[c].age + Interval < Deadline

\* The renewal raises, executed or not.
RenewFails(c) ==
    /\ Is(c, "renewing")
    /\ IF CanTryAgain(c)
       THEN Becomes(c, Local("beating", holder[c].age, Interval))
       ELSE Stops(c)
    /\ UNCHANGED slots

\* The renewal is abandoned at the deadline.
RenewStalls(c) ==
    /\ Is(c, "renewing") /\ holder[c].age = Deadline
    /\ Stops(c)
    /\ UNCHANGED slots

\* The call ended, or was cancelled: the member is removed, or that fails.
release(c) ==
    /\ Runs(c)
    /\ Becomes(c, Out)
    /\ \/ Holds(c) /\ slots' = [slots EXCEPT ![c] = 0]
       \/ UNCHANGED slots

(***************************************************************************)
(* Time.                                                                   *)
(***************************************************************************)
\* Nothing of c is due.
MayWait(c) ==
    CASE holder[c].phase = "asking" -> holder[c].age < SocketTimeout
      [] holder[c].phase \in {"beating", "stopping"} -> holder[c].nap > 0
      [] holder[c].phase = "renewing" -> holder[c].age < Deadline
      [] OTHER -> TRUE

Less(n) == IF n > 0 THEN n - 1 ELSE 0

Ages(h) ==
    [phase |-> h.phase, answer |-> h.answer, nap |-> Less(h.nap),
     age |-> IF h.phase \in {"out", "full", "local"} THEN h.age ELSE h.age + 1,
     sent |-> IF h.phase = "renewing" THEN h.sent + 1 ELSE h.sent]

Tick ==
    /\ \A c \in Calls : MayWait(c)
    /\ slots' = [c \in Calls |-> Less(slots[c])]
    /\ holder' = [c \in Calls |-> Ages(holder[c])]

Heartbeat(c) ==
    \/ Wakes(c) \/ _RENEW_LUA(c) \/ Renewed(c) \/ LeaseGone(c)
    \/ RenewFails(c) \/ RenewStalls(c)

Acquire(c) ==
    try_acquire(c) \/ _ACQUIRE_LUA(c) \/ Admitted(c) \/ Refused(c) \/ Unavailable(c)

SlotNext ==
    \/ \E c \in Calls : Acquire(c) \/ GivesUp(c) \/ Heartbeat(c) \/ release(c)
    \/ Tick

SlotSpec == SlotInit /\ [][SlotNext]_slotVars

(***************************************************************************)
(* Properties.                                                             *)
(***************************************************************************)
\* What is left of leases, and the local sides.
SlotTypeOK ==
    /\ slots \in [Calls -> 0 .. Lease]
    /\ holder \in [Calls -> [phase : Phase, age : 0 .. Lease, sent : 0 .. Lease,
                             nap : 0 .. Lease, answer : Answer]]

\* The bound of the semaphore: the calls that run on a slot are at most
\* Limit, through stalled, failed and lost renewals (QA-B45-A5, QA-B45-R2-3).
RunningWithinLimit == Cardinality({c \in Calls : Holds(c)}) <= Limit
=============================================================================
