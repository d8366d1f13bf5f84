---------------------------- MODULE BudgetedLLM ----------------------------
(***************************************************************************)
(* A priced LLM call of a project with a monthly cap, from admission to    *)
(* the meter: BudgetedLLM.ainvoke (backend/app/services/llm_factory.py)    *)
(* with the reservation of its cost (llm_cost_reservation.py), the slot it *)
(* waits for (LLMClusterSemaphore) and the two writers of the Postgres     *)
(* meter, the call itself and the stage it belongs to (agents/base.py,     *)
(* mark_stage_done).                                                       *)
(*                                                                         *)
(* Abstractions: costs are small numbers; the provider charges at most the *)
(* estimate of a call ("a reservation that is too small lets the cap be    *)
(* passed"), also when it fails, and its client does not retry.  One       *)
(* period, whose counter Redis does not lose.  The circuit breaker ahead   *)
(* of the reservation keeps no state of these and is left out.             *)
(***************************************************************************)
EXTENDS LLMClusterSemaphore

CONSTANTS
    StageCalls,   \* calls made inside a pipeline stage
    Estimates,    \* worst cases of a call
    Cap,          \* hard_cap_usd
    Before,       \* spent in this period before the cap was set
    MaxEscaped    \* bound: what may be billed to calls cancelled while recording

ASSUME BudgetAssumption ==
    /\ StageCalls \subseteq Calls
    /\ Estimates \subseteq Nat \ {0}
    /\ Cap \in Nat /\ Before \in 0 .. Cap /\ MaxEscaped \in Nat

VARIABLES
    counter,     \* the Redis counter of the period
    meter,       \* total_cost_usd of the Postgres row
    observed,    \* usage the current stage observed and has not metered yet
    call,        \* what each call does
    billed,      \* history: what the provider really charged
    escaped,     \* history: the part of it billed to calls that were cancelled
                 \* while the breaker recorded their answer
    charged      \* history: what the calls were settled at

budgetVars == <<counter, meter, observed, call, billed, escaped, charged>>
vars == <<slotVars, budgetVars>>

Idle == [step |-> "idle"]
Charge == Nat
Call ==
    {Idle}
    \cup [step : {"checking"}, estimate : Estimates, seen : Charge]
    \cup [step : {"reserved"}, estimate : Estimates]
    \cup [step : {"settling"}, estimate : Estimates, charge : Charge, record_meter : BOOLEAN]
    \cup [step : {"metering"}, charge : Charge]

Init ==
    /\ SlotInit
    /\ counter = 0
    /\ meter = Before
    /\ observed = 0
    /\ call = [c \in Calls |-> Idle]
    /\ billed = Before /\ charged = Before /\ escaped = 0

At(c, step) == call[c].step = step
Goes(c, state) == call' = [call EXCEPT ![c] = state]
Larger(m, n) == IF m > n THEN m ELSE n

(***************************************************************************)
(* The reservation.                                                        *)
(***************************************************************************)
\* The cap and the meter are read; a store error refuses the call (no step).
_cap_context(c, estimate) ==
    /\ At(c, "idle") /\ Is(c, "out")
    /\ Goes(c, [step |-> "checking", estimate |-> estimate, seen |-> meter])
    /\ UNCHANGED <<slotVars, counter, meter, observed, billed, escaped, charged>>

\* Mutant: the reservation compares the meter it read, not the counter.
ComparesMeter(c) == call[c].seen + call[c].estimate <= Cap

Fits(c) == Larger(counter, call[c].seen) + call[c].estimate <= Cap

_RESERVE_LUA(c) ==
    counter' = Larger(counter, call[c].seen) + (IF Fits(c) THEN call[c].estimate ELSE 0)

\* Reserved; refused by the cap; or Redis fails, the script executed or not.
reserve(c) ==
    /\ At(c, "checking")
    /\ \/ /\ _RESERVE_LUA(c)
          /\ Goes(c, IF Fits(c) THEN [step |-> "reserved", estimate |-> call[c].estimate]
                     ELSE Idle)
       \/ (_RESERVE_LUA(c) \/ UNCHANGED counter) /\ Goes(c, Idle)
    /\ UNCHANGED <<slotVars, meter, observed, billed, escaped, charged>>

(***************************************************************************)
(* The slot and the call.                                                  *)
(***************************************************************************)
WaitForSlot(c) ==
    /\ At(c, "reserved")
    /\ Acquire(c) \/ Heartbeat(c)
    /\ UNCHANGED budgetVars

Settles(c, charge, record_meter) ==
    Goes(c, [step |-> "settling", estimate |-> call[c].estimate, charge |-> charge,
             record_meter |-> record_meter])

\* No slot in time, or cancelled while waiting for one: nothing was sent.
SlotTimeout(c) ==
    /\ At(c, "reserved") /\ GivesUp(c)
    /\ Settles(c, 0, FALSE)
    /\ UNCHANGED <<counter, meter, observed, billed, escaped, charged>>

\* Mutant: a stage observes what every call of it is charged.
ObservesEveryCall(c, reported) == c \in StageCalls

\* The stage meters a call whose usage the provider reported.
metered_by_stage(c, reported) == c \in StageCalls /\ reported

\* The provider answers and charges cost; unreported usage keeps the estimate.
Succeeds(c, cost, reported) ==
    LET charge == IF reported THEN cost ELSE call[c].estimate IN
    /\ At(c, "reserved") /\ release(c) /\ ~Is(c, "stopping")
    /\ cost <= call[c].estimate
    /\ billed' = billed + cost
    /\ charged' = charged + charge
    /\ observed' = observed + (IF metered_by_stage(c, reported) THEN charge ELSE 0)
    /\ Settles(c, charge, ~(metered_by_stage(c, reported) /\ reported))
    /\ UNCHANGED <<counter, meter, escaped>>

\* Mutant: a call that failed is not charged.
FailureIsFree(c, sent) == IF sent THEN 0 ELSE call[c].estimate

\* A request that may have been sent is charged its worst case.
FailureCharges(c, sent) == IF sent THEN call[c].estimate ELSE 0

\* It fails, is cancelled or loses its slot; it is proven not to be sent or
\* the provider may still charge for it.
Fails(c, sent, cost) ==
    LET charge == FailureCharges(c, sent) IN
    /\ At(c, "reserved") /\ release(c)
    /\ Is(c, "stopping") => sent
    /\ cost <= (IF sent THEN call[c].estimate ELSE 0)
    /\ billed' = billed + cost
    /\ charged' = charged + charge
    /\ Settles(c, charge, charge > 0)
    /\ UNCHANGED <<counter, meter, observed, escaped>>

\* The breaker awaits Redis between the answer of the provider and the charge:
\* a cancellation there (the caller's or the heartbeat's) leaves it at nothing.
CancelledWhileRecording(c, cost) ==
    /\ At(c, "reserved") /\ release(c)
    /\ cost <= call[c].estimate /\ escaped + cost <= MaxEscaped
    /\ billed' = billed + cost /\ escaped' = escaped + cost
    /\ Settles(c, 0, FALSE)
    /\ UNCHANGED <<counter, meter, observed, charged>>

(***************************************************************************)
(* Settlement and the meter.                                               *)
(***************************************************************************)
\* Never below zero.
Minus(m, n) == IF m > n THEN m - n ELSE 0

\* The script may fail, executed or not.
settle(c) ==
    LET charge == call[c].charge IN
    /\ At(c, "settling")
    /\ \/ counter' = Minus(counter + charge, call[c].estimate)
       \/ UNCHANGED counter
    /\ Goes(c, IF call[c].record_meter /\ charge > 0
               THEN [step |-> "metering", charge |-> charge] ELSE Idle)
    /\ UNCHANGED <<slotVars, meter, observed, billed, escaped, charged>>

\* Best effort.
record_usage(c) ==
    /\ At(c, "metering")
    /\ meter' = meter + call[c].charge \/ UNCHANGED meter
    /\ Goes(c, Idle)
    /\ UNCHANGED <<slotVars, counter, observed, billed, escaped, charged>>

\* The stage ends and meters what it observed, or it dies.
mark_stage_done ==
    /\ observed > 0
    /\ meter' = meter + observed \/ UNCHANGED meter
    /\ observed' = 0
    /\ UNCHANGED <<slotVars, counter, call, billed, escaped, charged>>

\* The process of a call dies; the provider may have been called.
Dies(c, cost) ==
    /\ ~At(c, "idle")
    /\ cost > 0 => At(c, "reserved") /\ Runs(c) /\ cost <= call[c].estimate
    /\ billed' = billed + cost
    /\ Becomes(c, Out) /\ Goes(c, Idle)
    /\ UNCHANGED <<slots, counter, meter, observed, escaped, charged>>

Costs == 0 .. Cap

ainvoke(c) ==
    \/ \E estimate \in Estimates : _cap_context(c, estimate)
    \/ reserve(c) \/ WaitForSlot(c) \/ SlotTimeout(c)
    \/ \E cost \in Costs, reported \in BOOLEAN : Succeeds(c, cost, reported)
    \/ \E cost \in Costs, sent \in BOOLEAN : Fails(c, sent, cost)
    \/ \E cost \in Costs : CancelledWhileRecording(c, cost)
    \/ settle(c) \/ record_usage(c)

Next ==
    \/ \E c \in Calls : ainvoke(c)
    \/ \E c \in Calls, cost \in Costs : Dies(c, cost)
    \/ mark_stage_done
    \/ Tick /\ UNCHANGED budgetVars

Spec == Init /\ [][Next]_vars

(***************************************************************************)
(* Properties.                                                             *)
(***************************************************************************)
\* The values the counter, the meter and the calls can have.
TypeOK ==
    /\ SlotTypeOK
    /\ counter \in Nat /\ meter \in Nat /\ observed \in Nat
    /\ call \in [Calls -> Call]
    /\ billed \in Nat /\ escaped \in Nat /\ charged \in Nat

\* The cap of the month is a cap: what the provider really charged stays
\* within it and within what the counter holds, whatever fails between the
\* reservation and the meter (reserve: "before the provider is called", settle:
\* "never an under-count"; a failed call keeps its reservation unless the
\* failure proves that no request was sent).  Only the bills of calls cancelled
\* while their answer was recorded escape it.
CapHolds ==
    /\ billed <= Cap + escaped
    /\ billed <= Larger(counter, Before) + escaped

\* "One call, one meter row" (mark_stage_done): the meter and what a stage
\* still has to meter never exceed what the calls were settled at.
MeteredOnce == meter + observed <= charged
=============================================================================
