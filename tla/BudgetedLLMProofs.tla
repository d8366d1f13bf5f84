------------------------- MODULE BudgetedLLMProofs -------------------------
(***************************************************************************)
(* Machine-checked proofs about the cluster semaphore and the priced call  *)
(* that uses it, for every set of calls, every limit and every lease,      *)
(* interval, margin, unwinding time and socket timeout the assumptions of  *)
(* LLMClusterSemaphore allow.                                              *)
(***************************************************************************)
EXTENDS BudgetedLLM, FiniteSetTheorems, TLAPS

(***************************************************************************)
(* The inductive invariant.  A holder counts its lease from when the       *)
(* command was sent, Redis from when it was executed, which is later: so   *)
(* what is left in Redis and the local age add up to a lease at least.     *)
(***************************************************************************)
HolderState ==
    [phase : Phase, age : 0 .. Lease, sent : 0 .. Lease, nap : 0 .. Lease, answer : Answer]

\* How old a holder h can get in each phase.
AgeBounded(h) ==
    /\ h.phase = "asking" => h.age <= SocketTimeout
    /\ h.phase = "beating" => /\ Interval <= h.age + h.nap
                              /\ h.age + h.nap <= Deadline
    /\ h.phase = "renewing" => h.sent + Interval <= h.age /\ h.age <= Deadline
    /\ h.phase = "stopping" => h.age + h.nap <= Deadline + Unwind

\* A lease with n left in Redis outlives what its holder h counts.
Outlives(n, h) ==
    /\ h.phase \in {"beating", "renewing", "stopping"} => n + h.age >= Lease
    /\ h.phase = "asking" /\ h.answer = "yes" => n + h.age >= Lease
    /\ h.phase = "renewing" /\ h.answer = "yes" => n + h.sent >= Lease

CallInv(n, h) ==
    /\ n \in 0 .. Lease /\ h \in HolderState
    /\ AgeBounded(h) /\ Outlives(n, h)

SlotInv ==
    /\ slots \in [Calls -> 0 .. Lease] /\ holder \in [Calls -> HolderState]
    /\ \A c \in Calls : CallInv(slots[c], holder[c])
    /\ Cardinality(Members) <= Limit

\* A step of call c: only its own state changes.
StepOf(c, n, h) ==
    /\ slots' = [slots EXCEPT ![c] = n]
    /\ holder' = [holder EXCEPT ![c] = h]

(***************************************************************************)
(* Lemmas.                                                                 *)
(***************************************************************************)
\* The set of members is finite, so its size is a number.
LEMMA MembersFinite ==
    /\ IsFiniteSet(Members) /\ Cardinality(Members) \in Nat
    /\ IsFiniteSet(Members') /\ Cardinality(Members') \in Nat
BY SemaphoreAssumption, FS_Subset, FS_CardinalityType DEF Members

\* Fewer members are within the limit too (release, the passing of time).
LEMMA FewerMembers ==
    ASSUME SlotInv, Members' \subseteq Members
    PROVE  Cardinality(Members') <= Limit
BY MembersFinite, FS_Subset, SemaphoreAssumption DEF SlotInv

\* A step of one call that keeps its own invariant and adds no member keeps
\* SlotInv.
LEMMA OneCallStep ==
    ASSUME SlotInv, NEW c \in Calls, NEW n, NEW h, StepOf(c, n, h),
           CallInv(n, h), n > 0 => slots[c] > 0
    PROVE  SlotInv'
<1>1. slots' \in [Calls -> 0 .. Lease] /\ holder' \in [Calls -> HolderState]
    BY DEF SlotInv, StepOf, CallInv
<1>2. \A d \in Calls : CallInv(slots'[d], holder'[d])
    BY DEF SlotInv, StepOf
<1>3. Members' \subseteq Members
    BY DEF SlotInv, StepOf, Members
<1>4. Cardinality(Members') <= Limit
    BY <1>3, FewerMembers
<1> QED BY <1>1, <1>2, <1>4 DEF SlotInv

\* The local steps: slots is unchanged.
LEMMA LocalStep ==
    ASSUME SlotInv, NEW c \in Calls, NEW h, Becomes(c, h), UNCHANGED slots,
           CallInv(slots[c], h)
    PROVE  SlotInv'
<1>1. StepOf(c, slots[c], h)
    BY DEF StepOf, Becomes, SlotInv
<1> QED BY <1>1, OneCallStep

\* The state of one call, with its types.
LEMMA TheCall ==
    ASSUME SlotInv, NEW c \in Calls
    PROVE  /\ CallInv(slots[c], holder[c])
           /\ Lease \in Nat /\ Interval \in Nat /\ Margin \in Nat /\ Unwind \in Nat
           /\ SocketTimeout \in Nat /\ Unwind < Margin
           /\ SocketTimeout + Interval + Margin <= Lease
BY SemaphoreAssumption DEF SlotInv

\* The states a holder is put in, in records: a heartbeat asleep, a renewal
\* under way, and a call that is being stopped.
LEMMA BeatingInv ==
    ASSUME NEW n \in 0 .. Lease, NEW a \in 0 .. Lease,
           a + Interval <= Deadline, n + a >= Lease
    PROVE  CallInv(n, Local("beating", a, Interval))
<1> DEFINE h == [phase |-> "beating", age |-> a, sent |-> 0, nap |-> Interval, answer |-> "none"]
<1>1. Local("beating", a, Interval) = h
    BY DEF Local
<1>2. h \in HolderState
    BY SemaphoreAssumption DEF HolderState, Phase, Answer
<1>3. AgeBounded(h) /\ Outlives(n, h)
    BY SemaphoreAssumption DEF AgeBounded, Outlives, Deadline
<1> QED BY <1>1, <1>2, <1>3 DEF CallInv

\* A renewal under way.
LEMMA RenewingInv ==
    ASSUME NEW n \in 0 .. Lease, NEW a \in 0 .. Lease,
           Interval <= a, a <= Deadline, n + a >= Lease
    PROVE  CallInv(n, Local("renewing", a, 0))
<1> DEFINE h == [phase |-> "renewing", age |-> a, sent |-> 0, nap |-> 0, answer |-> "none"]
<1>1. Local("renewing", a, 0) = h
    BY DEF Local
<1>2. h \in HolderState
    BY SemaphoreAssumption DEF HolderState, Phase, Answer
<1>3. AgeBounded(h) /\ Outlives(n, h)
    BY SemaphoreAssumption DEF AgeBounded, Outlives, Deadline
<1> QED BY <1>1, <1>2, <1>3 DEF CallInv

\* A call that is being stopped.
LEMMA StoppingInv ==
    ASSUME NEW n \in 0 .. Lease, NEW a \in 0 .. Lease, a <= Deadline, n + a >= Lease
    PROVE  CallInv(n, Local("stopping", a, Unwind))
<1> DEFINE h == [phase |-> "stopping", age |-> a, sent |-> 0, nap |-> Unwind, answer |-> "none"]
<1>1. Local("stopping", a, Unwind) = h
    BY DEF Local
<1>2. h \in HolderState
    BY SemaphoreAssumption DEF HolderState, Phase, Answer
<1>3. AgeBounded(h) /\ Outlives(n, h)
    BY SemaphoreAssumption DEF AgeBounded, Outlives, Deadline
<1> QED BY <1>1, <1>2, <1>3 DEF CallInv

(***************************************************************************)
(* The steps.                                                              *)
(***************************************************************************)
\* Acquire adds a member only where there is room.
LEMMA AcquireKeeps ==
    ASSUME SlotInv, NEW c \in Calls, Acquire(c) \/ GivesUp(c)
    PROVE  SlotInv'
<1> USE TheCall DEF CallInv, HolderState, AgeBounded, Outlives, Out, Local, Deadline, Is, Phase, Answer
<1>1. CASE try_acquire(c)
  <2>1. CallInv(slots[c], Local("asking", 0, 0))
    OBVIOUS
  <2> QED BY <1>1, <2>1, LocalStep DEF try_acquire
<1>2. CASE _ACQUIRE_LUA(c)
  <2>1. CASE slots[c] > 0 \/ HasRoom
    <3> DEFINE h == [holder[c] EXCEPT !.answer = "yes"]
    <3>1. StepOf(c, Lease, h)
        BY <1>2, <2>1 DEF _ACQUIRE_LUA, StepOf
    <3>2. CallInv(Lease, h)
        BY <1>2 DEF _ACQUIRE_LUA
    <3>3. CASE slots[c] > 0
        BY <3>1, <3>2, <3>3, OneCallStep
    <3>4. CASE ~(slots[c] > 0) /\ HasRoom
      <4>1. Members' \subseteq Members \cup {c}
        BY <3>1 DEF StepOf, Members, SlotInv
      <4>2. IsFiniteSet(Members \cup {c}) /\ Cardinality(Members \cup {c}) <= Limit
        <5>1. Cardinality(Members) < Limit
            BY <3>4 DEF HasRoom
        <5>2. /\ IsFiniteSet(Members \cup {c})
              /\ Cardinality(Members \cup {c}) \in {Cardinality(Members), Cardinality(Members) + 1}
            BY FS_AddElement, MembersFinite
        <5> QED BY <5>1, <5>2, MembersFinite, SemaphoreAssumption
      <4>3. Cardinality(Members') <= Cardinality(Members \cup {c})
        BY <4>1, <4>2, FS_Subset
      <4>4. Cardinality(Members') <= Limit
        BY <4>2, <4>3, MembersFinite, FS_CardinalityType, SemaphoreAssumption
      <4>5. slots' \in [Calls -> 0 .. Lease] /\ holder' \in [Calls -> HolderState]
        BY <3>1, <3>2 DEF SlotInv, StepOf
      <4>6. \A d \in Calls : CallInv(slots'[d], holder'[d])
        BY <3>1, <3>2 DEF SlotInv, StepOf
      <4> HIDE DEF CallInv
      <4> QED BY <4>4, <4>5, <4>6 DEF SlotInv
    <3> QED BY <2>1, <3>3, <3>4
  <2>2. CASE ~(slots[c] > 0 \/ HasRoom)
    <3> DEFINE h == [holder[c] EXCEPT !.answer = "no"]
    <3>1. Becomes(c, h) /\ UNCHANGED slots
        BY <1>2, <2>2 DEF _ACQUIRE_LUA, Becomes
    <3>2. CallInv(slots[c], h)
        BY <1>2 DEF _ACQUIRE_LUA
    <3> QED BY <3>1, <3>2, LocalStep
  <2> QED BY <2>1, <2>2
<1>3. CASE Admitted(c)
  <2> DEFINE h == Local("beating", holder[c].age, Interval)
  <2>1. /\ slots[c] \in 0 .. Lease /\ holder[c].age \in 0 .. Lease
        /\ holder[c].age + Interval <= Deadline /\ slots[c] + holder[c].age >= Lease
    BY <1>3 DEF Admitted
  <2> HIDE DEF CallInv, Out, Local
  <2>2. CallInv(slots[c], h)
    BY <2>1, BeatingInv
  <2> QED BY <1>3, <2>2, LocalStep DEF Admitted, StartsHeartbeat
<1>4. CASE Refused(c)
  <2>1. CallInv(slots[c], Local("full", 0, 0))
    OBVIOUS
  <2> QED BY <1>4, <2>1, LocalStep DEF Refused
<1>5. CASE Unavailable(c)
  <2>1. CallInv(slots[c], Local("local", 0, 0))
    OBVIOUS
  <2> QED BY <1>5, <2>1, LocalStep DEF Unavailable
<1>6. CASE GivesUp(c)
  <2>1. CallInv(slots[c], Out)
    OBVIOUS
  <2> QED BY <1>6, <2>1, LocalStep DEF GivesUp
<1> QED BY <1>1, <1>2, <1>3, <1>4, <1>5, <1>6 DEF Acquire

\* A heartbeat renews a lease that is still there, or stops in time.
LEMMA HeartbeatKeeps ==
    ASSUME SlotInv, NEW c \in Calls, Heartbeat(c)
    PROVE  SlotInv'
<1> USE TheCall DEF CallInv, HolderState, AgeBounded, Outlives, Out, Local, Deadline, Is, Phase,
        Answer
<1>1. ASSUME Stops(c), UNCHANGED slots, holder[c].age <= Deadline,
             Holds(c)
      PROVE  SlotInv'
  <2>1. /\ slots[c] \in 0 .. Lease /\ holder[c].age \in 0 .. Lease
        /\ slots[c] + holder[c].age >= Lease
    BY <1>1 DEF Holds
  <2> HIDE DEF CallInv, Local
  <2>2. CallInv(slots[c], Local("stopping", holder[c].age, Unwind))
    BY <1>1, <2>1, StoppingInv
  <2> QED BY <1>1, <2>2, LocalStep DEF Stops
<1>2. ASSUME Becomes(c, Local("beating", holder[c].age, Interval)),
             UNCHANGED slots, Is(c, "renewing"), CanTryAgain(c)
      PROVE  SlotInv'
  <2> DEFINE h == Local("beating", holder[c].age, Interval)
  <2>1. /\ slots[c] \in 0 .. Lease /\ holder[c].age \in 0 .. Lease
        /\ holder[c].age + Interval <= Deadline /\ slots[c] + holder[c].age >= Lease
    BY <1>2 DEF CanTryAgain
  <2> HIDE DEF CallInv, Out, Local
  <2>2. CallInv(slots[c], h)
    BY <2>1, BeatingInv
  <2> QED BY <1>2, <2>2, LocalStep
<1>3. CASE Wakes(c)
  <2>1. CASE holder[c].age >= Deadline
    BY <1>1, <1>3, <2>1 DEF Wakes, Holds
  <2>2. CASE ~(holder[c].age >= Deadline)
    <3> DEFINE h == Local("renewing", holder[c].age, 0)
    <3>1. /\ slots[c] \in 0 .. Lease /\ holder[c].age \in 0 .. Lease
          /\ Interval <= holder[c].age /\ holder[c].age <= Deadline
          /\ slots[c] + holder[c].age >= Lease
        BY <1>3, <2>2 DEF Wakes
    <3> HIDE DEF CallInv, Out, Local
    <3>2. CallInv(slots[c], h)
        BY <3>1, RenewingInv
    <3> QED BY <1>3, <2>2, <3>2, LocalStep DEF Wakes
  <2> QED BY <2>1, <2>2
<1>4. CASE _RENEW_LUA(c)
  <2>1. CASE slots[c] > 0
    <3> DEFINE h == [holder[c] EXCEPT !.answer = "yes"]
    <3>1. StepOf(c, Lease, h)
        BY <1>4, <2>1 DEF _RENEW_LUA, StepOf
    <3>2. CallInv(Lease, h)
        BY <1>4 DEF _RENEW_LUA
    <3> QED BY <2>1, <3>1, <3>2, OneCallStep
  <2>2. CASE ~(slots[c] > 0)
    <3> DEFINE h == [holder[c] EXCEPT !.answer = "no"]
    <3>1. Becomes(c, h) /\ UNCHANGED slots
        BY <1>4, <2>2 DEF _RENEW_LUA, Becomes
    <3>2. CallInv(slots[c], h)
        BY <1>4 DEF _RENEW_LUA
    <3> QED BY <3>1, <3>2, LocalStep
  <2> QED BY <2>1, <2>2
<1>5. CASE Renewed(c)
  <2> DEFINE h == Local("beating", holder[c].sent, Interval)
  <2>1. /\ slots[c] \in 0 .. Lease /\ holder[c].sent \in 0 .. Lease
        /\ holder[c].sent + Interval <= Deadline /\ slots[c] + holder[c].sent >= Lease
    BY <1>5 DEF Renewed
  <2> HIDE DEF CallInv, Out, Local
  <2>2. CallInv(slots[c], h)
    BY <2>1, BeatingInv
  <2> QED BY <1>5, <2>2, LocalStep DEF Renewed
<1>6. CASE LeaseGone(c)
    BY <1>1, <1>6 DEF LeaseGone, Holds
<1>7. CASE RenewFails(c)
    BY <1>1, <1>2, <1>7 DEF RenewFails, Holds
<1>8. CASE RenewStalls(c)
    BY <1>1, <1>8 DEF RenewStalls, Holds
<1> QED BY <1>3, <1>4, <1>5, <1>6, <1>7, <1>8 DEF Heartbeat

\* A call that ends frees its slot or leaves it to lapse.
LEMMA ReleaseKeeps ==
    ASSUME SlotInv, NEW c \in Calls,
           Becomes(c, Out), slots' = [slots EXCEPT ![c] = 0] \/ UNCHANGED slots
    PROVE  SlotInv'
<1> USE TheCall DEF CallInv, HolderState, AgeBounded, Outlives, Out, Local, Phase, Answer
<1>1. CallInv(slots[c], Out) /\ CallInv(0, Out)
    OBVIOUS
<1>2. CASE slots' = [slots EXCEPT ![c] = 0]
  <2>1. StepOf(c, 0, Out)
    BY <1>2 DEF StepOf, Becomes
  <2> HIDE DEF CallInv, Out, Local
  <2> QED BY <1>1, <2>1, OneCallStep
<1>3. CASE UNCHANGED slots
    BY <1>1, <1>3, LocalStep
<1> QED BY <1>2, <1>3

\* Time takes from every lease at most what it adds to the age of its holder.
LEMMA TickKeeps ==
    ASSUME SlotInv, Tick
    PROVE  SlotInv'
<1>1. ASSUME NEW c \in Calls
      PROVE  CallInv(slots'[c], holder'[c]) /\ (slots'[c] > 0 => slots[c] > 0)
  <2> DEFINE n == slots[c]
             h == holder[c]
  <2>1. slots'[c] = Less(n) /\ holder'[c] = Ages(h) /\ MayWait(c)
    BY DEF Tick
  <2>2. /\ n \in 0 .. Lease /\ h.phase \in Phase /\ h.answer \in Answer
        /\ h.age \in 0 .. Lease /\ h.sent \in 0 .. Lease /\ h.nap \in 0 .. Lease
        /\ AgeBounded(h) /\ Outlives(n, h)
    BY TheCall DEF CallInv, HolderState
  <2>3. Less(n) \in 0 .. Lease /\ Less(n) + 1 >= n /\ (Less(n) > 0 => n > 0)
    BY <2>2, SemaphoreAssumption DEF Less
  <2>4. Less(h.nap) \in 0 .. Lease
    BY <2>2, SemaphoreAssumption DEF Less
  <2>5. CASE h.phase = "asking"
    <3>1. h.age < SocketTimeout
        BY <2>1, <2>5 DEF MayWait
    <3> QED BY <2>1, <2>2, <2>3, <2>4, <2>5, <3>1, SemaphoreAssumption
            DEF Ages, CallInv, HolderState, AgeBounded, Outlives
  <2>6. CASE h.phase \in {"beating", "stopping"}
    <3>1. h.nap > 0
        BY <2>1, <2>6 DEF MayWait
    <3>2. Less(h.nap) = h.nap - 1
        BY <3>1 DEF Less
    <3>3. h.age + h.nap <= Deadline + Unwind /\ Deadline + Unwind <= Lease
        BY <2>2, <2>6, SemaphoreAssumption DEF AgeBounded, Deadline
    <3>4. h.age + 1 \in 0 .. Lease
        BY <2>2, <3>1, <3>3, SemaphoreAssumption DEF Deadline
    <3> QED BY <2>1, <2>2, <2>3, <2>4, <2>6, <3>1, <3>2, <3>4, SemaphoreAssumption
            DEF Ages, CallInv, HolderState, AgeBounded, Outlives, Deadline
  <2>7. CASE h.phase = "renewing"
    <3>1. h.age < Deadline
        BY <2>1, <2>7 DEF MayWait
    <3>2. h.age + 1 \in 0 .. Lease /\ h.sent + 1 \in 0 .. Lease
        BY <2>2, <2>7, <3>1, SemaphoreAssumption DEF AgeBounded, Deadline
    <3> QED BY <2>1, <2>2, <2>3, <2>4, <2>7, <3>1, <3>2, SemaphoreAssumption
            DEF Ages, CallInv, HolderState, AgeBounded, Outlives, Deadline
  <2>8. CASE h.phase \in {"out", "full", "local"}
    BY <2>1, <2>2, <2>3, <2>4, <2>8
    DEF Ages, CallInv, HolderState, AgeBounded, Outlives
  <2> QED BY <2>2, <2>5, <2>6, <2>7, <2>8 DEF Phase
<1>2. slots' \in [Calls -> 0 .. Lease] /\ holder' \in [Calls -> HolderState]
  <2>1. \A c \in Calls : Less(slots[c]) \in 0 .. Lease /\ Ages(holder[c]) \in HolderState
    BY <1>1 DEF Tick, CallInv
  <2> QED BY <2>1 DEF Tick
<1>3. Members' \subseteq Members
    BY <1>1 DEF Members
<1>4. Cardinality(Members') <= Limit
    BY <1>3, FewerMembers
<1> QED BY <1>1, <1>2, <1>4 DEF SlotInv

(***************************************************************************)
(* The theorems.                                                           *)
(***************************************************************************)
\* No slot is taken at first.
LEMMA InitSlotInv == SlotInit => SlotInv
<1> SUFFICES ASSUME SlotInit PROVE SlotInv
    OBVIOUS
<1>1. Members = {}
    BY DEF SlotInit, Members
<1>2. Cardinality(Members) <= Limit
    BY <1>1, FS_EmptySet, SemaphoreAssumption
<1>3. \A c \in Calls : CallInv(slots[c], holder[c])
    BY SemaphoreAssumption
    DEF SlotInit, Out, Local, CallInv, HolderState, AgeBounded, Outlives, Phase, Answer
<1>4. slots \in [Calls -> 0 .. Lease] /\ holder \in [Calls -> HolderState]
    BY SemaphoreAssumption DEF SlotInit, Out, Local, HolderState, Phase, Answer
<1> QED BY <1>2, <1>3, <1>4 DEF SlotInv

\* Every step of the semaphore keeps the invariant.
LEMMA SlotNextKeeps == SlotInv /\ [SlotNext]_slotVars => SlotInv'
<1> SUFFICES ASSUME SlotInv, [SlotNext]_slotVars PROVE SlotInv'
    OBVIOUS
<1>1. ASSUME NEW c \in Calls, Acquire(c) \/ GivesUp(c) PROVE SlotInv'
    BY <1>1, AcquireKeeps
<1>2. ASSUME NEW c \in Calls, Heartbeat(c) PROVE SlotInv'
    BY <1>2, HeartbeatKeeps
<1>3. ASSUME NEW c \in Calls, release(c) PROVE SlotInv'
    BY <1>3, ReleaseKeeps DEF release
<1>4. CASE Tick
    BY <1>4, TickKeeps
<1>5. CASE UNCHANGED slotVars
    BY <1>5 DEF slotVars, SlotInv, Members
<1> QED BY <1>1, <1>2, <1>3, <1>4, <1>5 DEF SlotNext

\* Whoever holds a slot is a member: the lease of a holder has not lapsed.
LEMMA HoldersAreMembers == SlotInv => SlotTypeOK /\ RunningWithinLimit
<1> SUFFICES ASSUME SlotInv PROVE SlotTypeOK /\ RunningWithinLimit
    OBVIOUS
<1>1. SlotTypeOK
    BY DEF SlotInv, SlotTypeOK, HolderState
<1>2. ASSUME NEW c \in Calls, Holds(c) PROVE c \in Members
    BY <1>2, TheCall DEF CallInv, HolderState, AgeBounded, Outlives, Holds, Deadline, Members
<1>3. {c \in Calls : Holds(c)} \subseteq Members
    BY <1>2
<1>4. Cardinality({c \in Calls : Holds(c)}) <= Cardinality(Members)
    BY <1>3, MembersFinite, FS_Subset
<1>5. Cardinality({c \in Calls : Holds(c)}) \in Nat
    BY <1>3, MembersFinite, FS_Subset, FS_CardinalityType
<1> QED BY <1>1, <1>4, <1>5, MembersFinite, SemaphoreAssumption
        DEF SlotInv, RunningWithinLimit

\* The semaphore alone: its bound holds and its state is well typed, for every
\* limit, lease and timing within the assumptions (llm_cluster_semaphore.py).
THEOREM SemaphoreBound == SlotSpec => [](SlotTypeOK /\ RunningWithinLimit)
BY InitSlotInv, SlotNextKeeps, HoldersAreMembers, PTL DEF SlotSpec

\* A step of the priced call is a step of its semaphore or leaves it alone; a
\* process that dies leaves its slot to lapse.
LEMMA CallStepsAreSlotSteps ==
    SlotInv /\ [Next]_vars => SlotInv'
<1> SUFFICES ASSUME SlotInv, [Next]_vars PROVE SlotInv'
    OBVIOUS
<1>1. ASSUME NEW c \in Calls, ainvoke(c) PROVE [SlotNext]_slotVars
  <2>1. ASSUME NEW estimate \in Estimates, _cap_context(c, estimate) PROVE UNCHANGED slotVars
    BY <2>1 DEF _cap_context
  <2>2. CASE reserve(c) \/ settle(c) \/ record_usage(c)
    BY <2>2 DEF reserve, settle, record_usage
  <2>3. CASE WaitForSlot(c) \/ SlotTimeout(c)
    BY <2>3 DEF WaitForSlot, SlotTimeout, SlotNext
  <2>4. ASSUME NEW cost \in Costs, NEW flag \in BOOLEAN,
               \/ Succeeds(c, cost, flag) \/ Fails(c, flag, cost)
               \/ CancelledWhileRecording(c, cost)
        PROVE  release(c)
    BY <2>4 DEF Succeeds, Fails, CancelledWhileRecording
  <2> QED BY <1>1, <2>1, <2>2, <2>3, <2>4 DEF ainvoke, SlotNext
<1>2. ASSUME NEW c \in Calls, NEW cost \in Costs, Dies(c, cost) PROVE SlotInv'
    BY <1>2, ReleaseKeeps DEF Dies
<1>3. CASE mark_stage_done \/ UNCHANGED vars
    BY <1>3, SlotNextKeeps DEF mark_stage_done, vars
<1>4. CASE Tick
    BY <1>4, TickKeeps
<1> QED BY <1>1, <1>2, <1>3, <1>4, SlotNextKeeps DEF Next

\* At most Limit priced calls run on a slot of their provider at any time,
\* whatever stalls, fails or dies (BudgetedLLM.ainvoke, ClusterSemaphore.slot).
THEOREM RunningCallsAreBounded == Spec => []RunningWithinLimit
<1>1. Init => SlotInv
    BY InitSlotInv DEF Init
<1> QED BY <1>1, CallStepsAreSlotSteps, HoldersAreMembers, PTL DEF Spec

(***************************************************************************)
(* Type correctness of the priced call.                                    *)
(***************************************************************************)
BudgetTypeOK ==
    /\ counter \in Nat /\ meter \in Nat /\ observed \in Nat
    /\ call \in [Calls -> Call]
    /\ billed \in Nat /\ escaped \in Nat /\ charged \in Nat

\* Costs and estimates are numbers, and so are the charges of a call that
\* settles or meters.
LEMMA NumbersOfCall ==
    ASSUME BudgetTypeOK, NEW c \in Calls
    PROVE  /\ call[c] \in Call
           /\ call[c].step \in {"checking", "reserved", "settling"} => call[c].estimate \in Estimates
           /\ call[c].step \in {"settling", "metering"} => call[c].charge \in Nat
           /\ call[c].step = "checking" => call[c].seen \in Nat
           /\ Costs \subseteq Nat /\ Estimates \subseteq Nat
BY BudgetAssumption DEF BudgetTypeOK, Call, Charge, Idle, Costs

\* Every step of a call keeps the types of the counter, the meter and the call.
LEMMA CallKeepsTypes ==
    ASSUME BudgetTypeOK, NEW c \in Calls, ainvoke(c)
    PROVE  BudgetTypeOK'
<1> USE NumbersOfCall DEF BudgetTypeOK, At, Goes, Call, Charge, Idle
<1>1. ASSUME NEW estimate \in Estimates, _cap_context(c, estimate) PROVE BudgetTypeOK'
    BY <1>1 DEF _cap_context
<1>2. CASE reserve(c)
  <2>1. counter' \in Nat
    BY <1>2 DEF reserve, _RESERVE_LUA, Larger
  <2>2. call' \in [Calls -> Call]
    BY <1>2 DEF reserve
  <2> QED BY <1>2, <2>1, <2>2 DEF reserve
<1>3. CASE WaitForSlot(c)
    BY <1>3 DEF WaitForSlot, budgetVars
<1>4. CASE SlotTimeout(c)
    BY <1>4 DEF SlotTimeout, Settles
<1>5. ASSUME NEW cost \in Costs, NEW reported \in BOOLEAN, Succeeds(c, cost, reported)
      PROVE  BudgetTypeOK'
  <2> DEFINE charge == IF reported THEN cost ELSE call[c].estimate
  <2>1. charge \in Nat /\ (metered_by_stage(c, reported) /\ reported) \in BOOLEAN
    BY <1>5 DEF Succeeds
  <2>2. /\ billed' \in Nat /\ charged' \in Nat /\ observed' \in Nat
        /\ UNCHANGED <<counter, meter, escaped>>
    BY <1>5, <2>1 DEF Succeeds
  <2>3. call' \in [Calls -> Call]
    BY <1>5, <2>1 DEF Succeeds, Settles
  <2> QED BY <2>2, <2>3
<1>6. ASSUME NEW cost \in Costs, NEW sent \in BOOLEAN, Fails(c, sent, cost)
      PROVE  BudgetTypeOK'
  <2>1. FailureCharges(c, sent) \in Nat
    BY <1>6 DEF Fails, FailureCharges
  <2> QED BY <1>6, <2>1 DEF Fails, Settles
<1>7. ASSUME NEW cost \in Costs, CancelledWhileRecording(c, cost) PROVE BudgetTypeOK'
    BY <1>7 DEF CancelledWhileRecording, Settles
<1>8. CASE settle(c)
  <2>1. counter' \in Nat
    BY <1>8 DEF settle, Minus
  <2>2. call' \in [Calls -> Call]
    BY <1>8 DEF settle
  <2> QED BY <1>8, <2>1, <2>2 DEF settle
<1>9. CASE record_usage(c)
    BY <1>9 DEF record_usage
<1> QED BY <1>1, <1>2, <1>3, <1>4, <1>5, <1>6, <1>7, <1>8, <1>9 DEF ainvoke

\* Every step of the gateway keeps its types.
LEMMA NextKeepsTypes == BudgetTypeOK /\ [Next]_vars => BudgetTypeOK'
<1> SUFFICES ASSUME BudgetTypeOK, [Next]_vars PROVE BudgetTypeOK'
    OBVIOUS
<1>1. ASSUME NEW c \in Calls, ainvoke(c) PROVE BudgetTypeOK'
    BY <1>1, CallKeepsTypes
<1>2. ASSUME NEW c \in Calls, NEW cost \in Costs, Dies(c, cost) PROVE BudgetTypeOK'
    BY <1>2, NumbersOfCall DEF Dies, BudgetTypeOK, Goes, Call, Idle
<1>3. CASE mark_stage_done
    BY <1>3 DEF mark_stage_done, BudgetTypeOK
<1>4. CASE UNCHANGED budgetVars
    BY <1>4 DEF budgetVars, BudgetTypeOK
<1> QED BY <1>1, <1>2, <1>3, <1>4 DEF Next, vars

\* The counter never goes below zero, an estimate is never lost between the
\* reservation and the settlement of its call, and the slots are well typed.
THEOREM TypeCorrect == Spec => []TypeOK
<1>1. Init => SlotInv /\ BudgetTypeOK
    BY InitSlotInv, BudgetAssumption DEF Init, BudgetTypeOK, Call
<1>2. SlotInv /\ BudgetTypeOK => TypeOK
    BY HoldersAreMembers DEF TypeOK, BudgetTypeOK
<1> QED BY <1>1, <1>2, CallStepsAreSlotSteps, NextKeepsTypes, PTL DEF Spec
(***************************************************************************)
(* The books of the month.  What a call may still be billed is covered by  *)
(* the counter; what a call will still meter is part of what was charged.  *)
(***************************************************************************)
\* What a call in state x may still be billed of what the counter holds for it.
Credit(x) ==
    IF x.step = "reserved" THEN x.estimate
    ELSE IF x.step = "settling" THEN x.estimate - x.charge
    ELSE 0

\* What a call in state x will still write to the meter.
Due(x) ==
    IF x.step = "metering" \/ (x.step = "settling" /\ x.record_meter) THEN x.charge ELSE 0

\* A sum over the calls, as the size of a set of units.
Units(f) == {u \in Calls \X (1 .. Cap) : u[2] <= f[u[1]]}
Total(f) == Cardinality(Units(f))
Credits == [c \in Calls |-> Credit(call[c])]
Dues == [c \in Calls |-> Due(call[c])]

\* A reservation fits the cap, and a charge its estimate.
Bounded(x) ==
    /\ x.step = "checking" => Before <= x.seen
    /\ x.step \in {"reserved", "settling"} => x.estimate <= Cap
    /\ x.step = "settling" => x.charge <= x.estimate
    /\ x.step = "metering" => x.charge <= Cap

BooksInv ==
    /\ \A c \in Calls : Bounded(call[c])
    /\ Before <= meter
    /\ billed + Total(Credits) <= Larger(counter, Before) + escaped
    /\ billed + Total(Credits) <= Cap + escaped
    /\ meter + observed + Total(Dues) <= charged

\* There are finitely many units.
LEMMA UnitsFinite ==
    ASSUME NEW f
    PROVE  IsFiniteSet(Units(f)) /\ Total(f) \in Nat
<1>1. IsFiniteSet(1 .. Cap)
    BY BudgetAssumption, FS_Interval
<1>2. IsFiniteSet(Calls \X (1 .. Cap))
    BY <1>1, FS_Product, SemaphoreAssumption
<1>3. Units(f) \subseteq Calls \X (1 .. Cap)
    BY DEF Units
<1> QED BY <1>2, <1>3, FS_Subset, FS_CardinalityType DEF Total

\* The units of one call can be counted apart from those of the others.
LEMMA TotalIsSum ==
    ASSUME NEW f \in [Calls -> 0 .. Cap], NEW c \in Calls
    PROVE  LET Rest == {u \in Units(f) : u[1] # c} IN
           /\ Cardinality(Rest) \in Nat
           /\ Total(f) = Cardinality(Rest) + f[c]
<1> DEFINE Rest == {u \in Units(f) : u[1] # c}
           Part == {c} \X (1 .. f[c])
<1>0. Cap \in Nat /\ f[c] \in Nat /\ f[c] <= Cap
    BY BudgetAssumption
<1>1. IsFiniteSet(Units(f)) /\ IsFiniteSet(Rest)
    BY UnitsFinite, FS_Subset
<1>2. IsFiniteSet(Part) /\ Cardinality(Part) = f[c]
    <2>1. IsFiniteSet(1 .. f[c]) /\ Cardinality(1 .. f[c]) = f[c]
        BY <1>0, FS_Interval
    <2>2. IsFiniteSet({c}) /\ Cardinality({c}) = 1
        BY FS_Singleton
    <2>3. IsFiniteSet(Part) /\ Cardinality(Part) = 1 * f[c]
        BY <2>1, <2>2, FS_Product
    <2> QED BY <1>0, <2>3
<1>3. Units(f) = Rest \cup Part /\ Rest \cap Part = {}
    BY <1>0 DEF Units
<1>4. Cardinality(Rest) \in Nat /\ Cardinality({}) = 0
    BY <1>1, FS_CardinalityType, FS_EmptySet
<1>5. Total(f) = Cardinality(Rest) + Cardinality(Part) - Cardinality(Rest \cap Part)
    BY <1>1, <1>2, <1>3, FS_Union DEF Total
<1> HIDE DEF Rest, Part
<1>6. Cardinality(Part) \in Nat /\ Cardinality(Rest \cap Part) = 0
    BY <1>0, <1>2, <1>3, <1>4
<1>7. Total(f) = Cardinality(Rest) + f[c]
    BY <1>2, <1>4, <1>5, <1>6
<1> QED BY <1>4, <1>7 DEF Rest

\* Where only what c holds changes, the rest of the sum stays.
LEMMA TotalMoves ==
    ASSUME NEW f \in [Calls -> 0 .. Cap], NEW g \in [Calls -> 0 .. Cap], NEW c \in Calls,
           \A d \in Calls \ {c} : g[d] = f[d]
    PROVE  \E t \in Nat : Total(f) = t + f[c] /\ Total(g) = t + g[c]
<1>1. {u \in Units(f) : u[1] # c} = {u \in Units(g) : u[1] # c}
    BY DEF Units
<1> QED BY <1>1, TotalIsSum

\* What is held for a call and what it will meter are within the cap.
LEMMA BooksAreBounded ==
    ASSUME NEW x \in Call, Bounded(x)
    PROVE  Credit(x) \in 0 .. Cap /\ Due(x) \in 0 .. Cap
<1> USE BudgetAssumption DEF Bounded, Credit, Due
<1>1. CASE x = Idle
    BY <1>1 DEF Idle
<1>2. CASE x \in [step : {"checking"}, estimate : Estimates, seen : Charge]
    BY <1>2
<1>3. CASE x \in [step : {"reserved"}, estimate : Estimates]
    <2>1. x.step = "reserved" /\ x.estimate \in Nat
        BY <1>3
    <2> QED BY <2>1
<1>4. CASE x \in [step : {"settling"}, estimate : Estimates, charge : Charge,
                  record_meter : BOOLEAN]
    <2>1. x.step = "settling" /\ x.estimate \in Nat /\ x.charge \in Nat
        BY <1>4 DEF Charge
    <2> QED BY <2>1
<1>5. CASE x \in [step : {"metering"}, charge : Charge]
    BY <1>5 DEF Charge
<1> QED BY <1>1, <1>2, <1>3, <1>4, <1>5 DEF Call

\* A step of one call keeps the books, if it keeps them whatever the others
\* hold.
LEMMA OneCallKeepsBooks ==
    ASSUME BudgetTypeOK, BudgetTypeOK', BooksInv,
           NEW c \in Calls, NEW x \in Call, Goes(c, x), Bounded(x),
           Before <= meter',
           \A t \in Nat :
              billed + t + Credit(call[c]) <= Larger(counter, Before) + escaped
              /\ billed + t + Credit(call[c]) <= Cap + escaped
                 => /\ billed' + t + Credit(x) <= Larger(counter', Before) + escaped'
                    /\ billed' + t + Credit(x) <= Cap + escaped',
           \A t \in Nat : meter + observed + t + Due(call[c]) <= charged
                             => meter' + observed' + t + Due(x) <= charged'
    PROVE  BooksInv'
<1>1. call'[c] = x /\ \A d \in Calls \ {c} : call'[d] = call[d]
    BY DEF Goes, BudgetTypeOK
<1>2. \A d \in Calls : /\ call[d] \in Call /\ Bounded(call[d])
                       /\ call'[d] \in Call /\ Bounded(call'[d])
    BY <1>1 DEF BudgetTypeOK, BooksInv
<1>3. /\ Credits \in [Calls -> 0 .. Cap] /\ Credits' \in [Calls -> 0 .. Cap]
      /\ Dues \in [Calls -> 0 .. Cap] /\ Dues' \in [Calls -> 0 .. Cap]
    BY <1>2, BooksAreBounded DEF Credits, Dues
<1>4. /\ \A d \in Calls \ {c} : Credits'[d] = Credits[d] /\ Dues'[d] = Dues[d]
      /\ Credits[c] = Credit(call[c]) /\ Credits'[c] = Credit(x)
      /\ Dues[c] = Due(call[c]) /\ Dues'[c] = Due(x)
    BY <1>1 DEF Credits, Dues
<1>5. PICK t \in Nat : Total(Credits) = t + Credit(call[c]) /\ Total(Credits') = t + Credit(x)
    BY <1>3, <1>4, TotalMoves
<1>6. PICK u \in Nat : Total(Dues) = u + Due(call[c]) /\ Total(Dues') = u + Due(x)
    BY <1>3, <1>4, TotalMoves
<1>7. /\ billed \in Nat /\ meter \in Nat /\ observed \in Nat
      /\ Credit(call[c]) \in Nat /\ Due(call[c]) \in Nat
    BY <1>2, BooksAreBounded DEF BudgetTypeOK
<1>8. /\ billed + t + Credit(call[c]) <= Larger(counter, Before) + escaped
      /\ billed + t + Credit(call[c]) <= Cap + escaped
      /\ meter + observed + u + Due(call[c]) <= charged
    BY <1>5, <1>6, <1>7 DEF BooksInv
<1>9. Total(Credits)' = t + Credit(x) /\ Total(Dues)' = u + Due(x)
    <2>1. Total(Credits)' = Total(Credits') /\ Total(Dues)' = Total(Dues')
        BY DEF Total, Units
    <2> QED BY <1>5, <1>6, <2>1
<1>10. /\ billed' + t + Credit(x) <= Larger(counter', Before) + escaped'
       /\ billed' + t + Credit(x) <= Cap + escaped'
       /\ meter' + observed' + u + Due(x) <= charged'
    BY <1>8
<1>11. /\ billed' \in Nat /\ meter' \in Nat /\ observed' \in Nat
       /\ Credit(x) \in Nat /\ Due(x) \in Nat
    BY BooksAreBounded DEF BudgetTypeOK
<1>12. /\ billed' + Total(Credits)' <= Larger(counter', Before) + escaped'
       /\ billed' + Total(Credits)' <= Cap + escaped'
       /\ meter' + observed' + Total(Dues)' <= charged'
    BY <1>9, <1>10, <1>11
<1>13. \A d \in Calls : Bounded(call'[d])
    BY <1>2
<1> QED BY <1>12, <1>13 DEF BooksInv
\* Where the money of a call is, step by step.
LEMMA CreditOfStep ==
    /\ Credit(Idle) = 0 /\ Due(Idle) = 0
    /\ \A e, v : LET x == [step |-> "checking", estimate |-> e, seen |-> v]
                 IN Credit(x) = 0 /\ Due(x) = 0
    /\ \A e : LET x == [step |-> "reserved", estimate |-> e]
              IN Credit(x) = e /\ Due(x) = 0
    /\ \A e, g, m : LET x == [step |-> "settling", estimate |-> e, charge |-> g,
                              record_meter |-> m]
                    IN Credit(x) = e - g /\ Due(x) = IF m THEN g ELSE 0
    /\ \A g : LET x == [step |-> "metering", charge |-> g]
              IN Credit(x) = 0 /\ Due(x) = g
BY DEF Credit, Due, Idle

\* A reservation that settles or is given up: what is billed and charged now
\* is not more than what was held, and is charged at least at what is billed.
LEMMA LeavesSlot ==
    ASSUME BudgetTypeOK, BudgetTypeOK', BooksInv, NEW c \in Calls, At(c, "reserved"),
           NEW charge \in Nat, NEW record_meter \in BOOLEAN, Settles(c, charge, record_meter),
           NEW cost \in Nat, NEW lost \in Nat,
           cost <= charge + lost, charge <= call[c].estimate,
           billed' = billed + cost, escaped' = escaped + lost, UNCHANGED <<counter, meter>>,
           observed' + (IF record_meter THEN charge ELSE 0) - observed <= charged' - charged
    PROVE  BooksInv'
<1> DEFINE e == call[c].estimate
           x == [step |-> "settling", estimate |-> e, charge |-> charge,
                 record_meter |-> record_meter]
<1>1. /\ call[c].step = "reserved" /\ e \in Estimates /\ e \in Nat /\ e <= Cap
      /\ Credit(call[c]) = e /\ Due(call[c]) = 0
    BY NumbersOfCall DEF At, BooksInv, Bounded, Credit, Due
<1>2. x \in Call /\ Bounded(x) /\ Goes(c, x)
    BY <1>1 DEF Call, Charge, Bounded, Settles
<1>3. Credit(x) = e - charge /\ Due(x) = IF record_meter THEN charge ELSE 0
    BY CreditOfStep
<1> HIDE DEF e, x
<1>4. Before <= meter' /\ Larger(counter', Before) = Larger(counter, Before)
    BY DEF BooksInv
<1>5. /\ Larger(counter, Before) \in Nat /\ Cap \in Nat
      /\ billed \in Nat /\ escaped \in Nat
    BY BudgetAssumption DEF Larger, BudgetTypeOK
<1>6. ASSUME NEW t \in Nat, NEW L \in Nat, billed + t + e <= L + escaped
      PROVE  billed' + t + Credit(x) <= L + escaped'
    BY <1>1, <1>3, <1>5, <1>6
<1>7. ASSUME NEW t \in Nat, meter + observed + t + Due(call[c]) <= charged
      PROVE  meter' + observed' + t + Due(x) <= charged'
    <2>1. /\ meter \in Nat /\ observed \in Nat /\ charged \in Nat
          /\ observed' \in Nat /\ charged' \in Nat
        BY DEF BudgetTypeOK
    <2>2. PICK m \in Nat : m = Due(x) /\ observed' + m - observed <= charged' - charged
        BY <1>3
    <2>3. meter + observed + t <= charged
        BY <1>1, <1>7, <2>1
    <2> QED BY <2>1, <2>2, <2>3
<1> QED BY <1>1, <1>2, <1>4, <1>5, <1>6, <1>7, OneCallKeepsBooks

\* Every step of a call keeps the books.
LEMMA CallKeepsBooks ==
    ASSUME BudgetTypeOK, BudgetTypeOK', BooksInv, NEW c \in Calls, ainvoke(c)
    PROVE  BooksInv'
<1>0. /\ Cap \in Nat /\ Before \in Nat /\ Before <= Cap /\ Costs \subseteq Nat
      /\ counter \in Nat /\ meter \in Nat /\ observed \in Nat /\ Before <= meter
      /\ billed \in Nat /\ escaped \in Nat /\ charged \in Nat
    BY BudgetAssumption, NumbersOfCall DEF BudgetTypeOK, BooksInv
<1>1. ASSUME NEW estimate \in Estimates, _cap_context(c, estimate) PROVE BooksInv'
    <2> DEFINE x == [step |-> "checking", estimate |-> estimate, seen |-> meter]
    <2>1. x \in Call /\ Bounded(x) /\ Credit(x) = 0 /\ Due(x) = 0
        BY <1>0, CreditOfStep DEF Call, Charge, Bounded
    <2>2. Goes(c, x) /\ UNCHANGED <<counter, meter, observed, billed, escaped, charged>>
        BY <1>1 DEF _cap_context
    <2>3. Credit(call[c]) = 0 /\ Due(call[c]) = 0
        BY <1>1 DEF _cap_context, At, Credit, Due
    <2> HIDE DEF x
    <2> QED BY <1>0, <2>1, <2>2, <2>3, OneCallKeepsBooks
<1>2. CASE reserve(c)
    <2> DEFINE e == call[c].estimate
               v == call[c].seen
    <2>1. /\ call[c].step = "checking" /\ e \in Estimates /\ e \in Nat /\ v \in Nat
          /\ Before <= v /\ Credit(call[c]) = 0 /\ Due(call[c]) = 0
        BY <1>2, NumbersOfCall DEF reserve, At, BooksInv, Bounded, Credit, Due
    <2>2. UNCHANGED <<meter, observed, billed, escaped, charged>> /\ counter' \in Nat
        BY <1>2 DEF reserve, BudgetTypeOK
    <2>3. CASE _RESERVE_LUA(c) /\ Fits(c) /\ Goes(c, [step |-> "reserved", estimate |-> e])
        <3> DEFINE x == [step |-> "reserved", estimate |-> e]
        <3>1. /\ Larger(counter, v) + e <= Cap
              /\ Larger(counter, Before) <= Larger(counter, v)
              /\ Larger(counter, v) + e <= Larger(counter', Before)
              /\ Larger(counter, v) \in Nat /\ Larger(counter, Before) \in Nat
              /\ Larger(counter', Before) \in Nat
            BY <1>0, <2>1, <2>2, <2>3 DEF Fits, _RESERVE_LUA, Larger
        <3>2. x \in Call /\ Bounded(x) /\ Credit(x) = e /\ Due(x) = 0
            BY <1>0, <2>1, <3>1, CreditOfStep DEF Call, Bounded
        <3> HIDE DEF x, e, v
        <3>3. ASSUME NEW t \in Nat, billed + t + Credit(call[c]) <= Larger(counter, Before) + escaped
              PROVE  /\ billed' + t + Credit(x) <= Larger(counter', Before) + escaped'
                     /\ billed' + t + Credit(x) <= Cap + escaped'
            BY <1>0, <2>1, <2>2, <3>1, <3>2, <3>3
        <3>4. Goes(c, x)
            BY <2>3 DEF x, e
        <3> QED BY <1>0, <2>1, <2>2, <3>2, <3>3, <3>4, OneCallKeepsBooks
    <2>4. CASE counter <= counter' /\ Goes(c, Idle)
        <3>1. /\ Larger(counter, Before) <= Larger(counter', Before)
              /\ Larger(counter, Before) \in Nat /\ Larger(counter', Before) \in Nat
            BY <1>0, <2>2, <2>4 DEF Larger
        <3>2. Idle \in Call /\ Bounded(Idle) /\ Credit(Idle) = 0 /\ Due(Idle) = 0
            BY CreditOfStep DEF Call, Bounded, Idle
        <3> QED BY <1>0, <2>1, <2>2, <2>4, <3>1, <3>2, OneCallKeepsBooks
    <2>5. _RESERVE_LUA(c) => counter <= counter'
        BY <1>0, <2>1 DEF _RESERVE_LUA, Larger
    <2> QED BY <1>0, <1>2, <2>3, <2>4, <2>5 DEF reserve
<1>3. CASE WaitForSlot(c)
    BY <1>3 DEF WaitForSlot, budgetVars, BooksInv, Credits, Dues
<1>4. CASE SlotTimeout(c)
    <2>1. call[c].estimate \in Nat
        BY <1>4, NumbersOfCall DEF SlotTimeout, At
    <2>2. billed' = billed + 0 /\ escaped' = escaped + 0
        BY <1>0, <1>4 DEF SlotTimeout
    <2>3. /\ At(c, "reserved") /\ Settles(c, 0, FALSE)
          /\ UNCHANGED <<counter, meter, observed, charged>>
        BY <1>4 DEF SlotTimeout
    <2>4. observed' + (IF FALSE THEN 0 ELSE 0) - observed <= charged' - charged
        BY <1>0, <2>3
    <2>5. 0 <= 0 + 0 /\ 0 \in Nat /\ 0 <= call[c].estimate
        BY <2>1
    <2> QED BY <2>2, <2>3, <2>4, <2>5, LeavesSlot
<1>5. ASSUME NEW cost \in Costs, NEW reported \in BOOLEAN, Succeeds(c, cost, reported)
      PROVE  BooksInv'
    <2> DEFINE charge == IF reported THEN cost ELSE call[c].estimate
               m == ~(metered_by_stage(c, reported) /\ reported)
    <2>1. /\ call[c].estimate \in Nat /\ cost \in Nat /\ cost <= call[c].estimate
          /\ billed' = billed + cost /\ escaped' = escaped + 0 /\ UNCHANGED <<counter, meter>>
          /\ At(c, "reserved") /\ Settles(c, charge, m)
        BY <1>0, <1>5, NumbersOfCall DEF Succeeds, At
    <2>2. charge \in Nat /\ cost <= charge + 0 /\ charge <= call[c].estimate
        BY <2>1
    <2>3. m \in BOOLEAN
        OBVIOUS
    <2>4. observed' + (IF m THEN charge ELSE 0) - observed <= charged' - charged
        <3>1. charged' = charged + charge
            BY <1>5 DEF Succeeds
        <3>2. CASE metered_by_stage(c, reported)
            <4>1. observed' = observed + charge /\ ~m
                BY <1>5, <3>2 DEF Succeeds, metered_by_stage
            <4> HIDE DEF charge, m
            <4> QED BY <1>0, <2>2, <3>1, <4>1
        <3>3. CASE ~metered_by_stage(c, reported)
            <4>1. observed' = observed + 0
                BY <1>5, <3>3 DEF Succeeds
            <4>2. (IF m THEN charge ELSE 0) \in Nat /\ (IF m THEN charge ELSE 0) <= charge
                BY <2>2, <2>3
            <4> HIDE DEF charge, m
            <4> QED BY <1>0, <2>2, <3>1, <4>1, <4>2
        <3> QED BY <3>2, <3>3
    <2> HIDE DEF charge, m
    <2> QED BY <2>1, <2>2, <2>3, <2>4, LeavesSlot
<1>6. ASSUME NEW cost \in Costs, NEW sent \in BOOLEAN, Fails(c, sent, cost)
      PROVE  BooksInv'
    <2> DEFINE charge == FailureCharges(c, sent)
    <2>1. /\ call[c].estimate \in Nat /\ cost \in Nat
          /\ cost <= (IF sent THEN call[c].estimate ELSE 0)
          /\ billed' = billed + cost /\ escaped' = escaped + 0
          /\ UNCHANGED <<counter, meter, observed>> /\ charged' = charged + charge
          /\ At(c, "reserved") /\ Settles(c, charge, charge > 0)
        BY <1>0, <1>6, NumbersOfCall DEF Fails, At
    <2>2. charge \in Nat /\ cost <= charge + 0 /\ charge <= call[c].estimate
        BY <2>1 DEF FailureCharges
    <2> HIDE DEF charge
    <2>3. PICK m \in BOOLEAN : m <=> charge > 0
        OBVIOUS
    <2>4. Settles(c, charge, m)
        BY <2>1, <2>3
    <2>5. observed' + (IF m THEN charge ELSE 0) - observed <= charged' - charged
        BY <1>0, <2>1, <2>2
    <2> QED BY <2>1, <2>2, <2>4, <2>5, LeavesSlot
<1>7. ASSUME NEW cost \in Costs, CancelledWhileRecording(c, cost) PROVE BooksInv'
    <2>1. /\ billed' = billed + cost /\ escaped' = escaped + cost
          /\ UNCHANGED <<counter, meter, observed, charged>>
          /\ At(c, "reserved") /\ Settles(c, 0, FALSE)
        BY <1>7 DEF CancelledWhileRecording
    <2>2. call[c].estimate \in Nat /\ cost \in Nat
        BY <1>0, <2>1, NumbersOfCall DEF At
    <2>3. observed' + (IF FALSE THEN 0 ELSE 0) - observed <= charged' - charged
        BY <1>0, <2>1
    <2>4. cost <= 0 + cost /\ 0 \in Nat /\ 0 <= call[c].estimate
        BY <2>2
    <2> QED BY <2>1, <2>2, <2>3, <2>4, LeavesSlot
<1>8. CASE settle(c)
    <2> DEFINE e == call[c].estimate
               g == call[c].charge
    <2>1. /\ call[c].step = "settling" /\ e \in Nat /\ g \in Nat /\ g <= e /\ e <= Cap
          /\ Credit(call[c]) = e - g
          /\ Due(call[c]) = IF call[c].record_meter THEN g ELSE 0
        BY <1>8, NumbersOfCall DEF settle, At, BooksInv, Bounded, Credit, Due
    <2>2. /\ UNCHANGED <<meter, observed, billed, escaped, charged>>
          /\ counter' = Minus(counter + g, e) \/ UNCHANGED counter
        BY <1>8 DEF settle
    <2>3. /\ Larger(counter, Before) - (e - g) <= Larger(counter', Before)
          /\ Larger(counter, Before) \in Nat /\ Larger(counter', Before) \in Nat
        BY <1>0, <2>1, <2>2 DEF Larger, Minus
    <2>4. PICK x \in Call : /\ Goes(c, x) /\ Bounded(x) /\ Credit(x) = 0
                            /\ Due(x) \in Nat /\ Due(x) <= Due(call[c])
        <3>1. CASE call[c].record_meter /\ g > 0
            <4> DEFINE x == [step |-> "metering", charge |-> g]
            <4>1. x \in Call /\ Bounded(x) /\ Credit(x) = 0 /\ Due(x) = g
                BY <1>0, <2>1, CreditOfStep DEF Call, Charge, Bounded
            <4>2. Goes(c, x)
                BY <1>8, <3>1 DEF settle
            <4>3. Due(x) \in Nat /\ Due(x) <= Due(call[c])
                BY <2>1, <3>1, <4>1
            <4> QED BY <4>1, <4>2, <4>3
        <3>2. CASE ~(call[c].record_meter /\ g > 0)
            <4>1. Idle \in Call /\ Bounded(Idle) /\ Credit(Idle) = 0 /\ Due(Idle) = 0
                BY CreditOfStep DEF Call, Bounded, Idle
            <4>2. Goes(c, Idle)
                BY <1>8, <3>2 DEF settle
            <4>3. 0 <= Due(call[c])
                BY <2>1
            <4> QED BY <4>1, <4>2, <4>3
        <3> QED BY <3>1, <3>2
    <2>5. Due(call[c]) \in Nat
        BY <2>1
    <2> HIDE DEF e, g
    <2>6. ASSUME NEW t \in Nat, billed + t + Credit(call[c]) <= Larger(counter, Before) + escaped,
                 billed + t + Credit(call[c]) <= Cap + escaped
          PROVE  /\ billed' + t + Credit(x) <= Larger(counter', Before) + escaped'
                 /\ billed' + t + Credit(x) <= Cap + escaped'
        BY <1>0, <2>1, <2>2, <2>3, <2>4, <2>6
    <2>7. ASSUME NEW t \in Nat, meter + observed + t + Due(call[c]) <= charged
          PROVE  meter' + observed' + t + Due(x) <= charged'
        BY <1>0, <2>2, <2>4, <2>5, <2>7
    <2> QED BY <1>0, <2>2, <2>4, <2>6, <2>7, OneCallKeepsBooks
<1>9. CASE record_usage(c)
    <2> DEFINE g == call[c].charge
    <2>1. /\ call[c].step = "metering" /\ g \in Nat
          /\ Credit(call[c]) = 0 /\ Due(call[c]) = g
        BY <1>9, NumbersOfCall DEF record_usage, At, Credit, Due
    <2>2. /\ UNCHANGED <<counter, observed, billed, escaped, charged>> /\ Goes(c, Idle)
          /\ meter' = meter + g \/ UNCHANGED meter
        BY <1>9 DEF record_usage
    <2>3. Idle \in Call /\ Bounded(Idle) /\ Credit(Idle) = 0 /\ Due(Idle) = 0
        BY CreditOfStep DEF Call, Bounded, Idle
    <2> HIDE DEF g
    <2> QED BY <1>0, <2>1, <2>2, <2>3, OneCallKeepsBooks
<1> QED BY <1>1, <1>2, <1>3, <1>4, <1>5, <1>6, <1>7, <1>8, <1>9 DEF ainvoke

\* Every step keeps the books.
LEMMA BooksStep == BudgetTypeOK /\ BudgetTypeOK' /\ BooksInv /\ [Next]_vars => BooksInv'
<1> SUFFICES ASSUME BudgetTypeOK, BudgetTypeOK', BooksInv, [Next]_vars PROVE BooksInv'
    OBVIOUS
<1>1. ASSUME NEW c \in Calls, NEW cost \in Costs, Dies(c, cost) PROVE BooksInv'
    <2>1. /\ UNCHANGED <<counter, meter, observed, escaped, charged>> /\ Goes(c, Idle)
          /\ billed' = billed + cost /\ cost \in Nat
          /\ cost > 0 => call[c].step = "reserved" /\ cost <= call[c].estimate
        BY <1>1, NumbersOfCall DEF Dies, At
    <2>2. Idle \in Call /\ Bounded(Idle) /\ Credit(Idle) = 0 /\ Due(Idle) = 0
        BY CreditOfStep DEF Call, Bounded, Idle
    <2>3. Credit(call[c]) \in Nat /\ Due(call[c]) \in Nat
        BY BooksAreBounded, BudgetAssumption DEF BudgetTypeOK, BooksInv
    <2>4. cost <= Credit(call[c])
        BY <2>1, <2>3 DEF Credit
    <2>5. /\ counter \in Nat /\ meter \in Nat /\ observed \in Nat /\ Before <= meter
          /\ billed \in Nat /\ escaped \in Nat /\ charged \in Nat /\ Cap \in Nat
          /\ Larger(counter, Before) \in Nat /\ Larger(counter', Before) = Larger(counter, Before)
        BY <2>1, BudgetAssumption DEF BudgetTypeOK, BooksInv, Larger
    <2>6. ASSUME NEW t \in Nat, NEW L \in Nat, billed + t + Credit(call[c]) <= L + escaped
          PROVE  billed' + t + Credit(Idle) <= L + escaped'
        BY <2>1, <2>2, <2>3, <2>4, <2>5, <2>6
    <2>7. ASSUME NEW t \in Nat, meter + observed + t + Due(call[c]) <= charged
          PROVE  meter' + observed' + t + Due(Idle) <= charged'
        BY <2>1, <2>2, <2>3, <2>5, <2>7
    <2> QED BY <2>1, <2>2, <2>5, <2>6, <2>7, OneCallKeepsBooks
<1>2. CASE mark_stage_done
    <2>1. /\ meter \in Nat /\ observed \in Nat /\ charged \in Nat
          /\ meter' = meter + observed \/ UNCHANGED meter
          /\ observed' = 0 /\ UNCHANGED <<counter, call, billed, escaped, charged>>
        BY <1>2 DEF mark_stage_done, BudgetTypeOK
    <2>2. Before <= meter' /\ meter' + observed' <= meter + observed
        BY <2>1, BudgetAssumption DEF BooksInv
    <2>3. UNCHANGED <<Credits, Dues>>
        BY <2>1 DEF Credits, Dues
    <2>4. Total(Dues)' = Total(Dues) /\ Total(Credits)' = Total(Credits)
        BY <2>3 DEF Total, Units
    <2>5. meter' + observed' \in Nat /\ Total(Dues) \in Nat
        BY <2>1, UnitsFinite
    <2>6. meter' + observed' + Total(Dues)' <= charged'
        BY <2>1, <2>2, <2>4, <2>5 DEF BooksInv
    <2> QED BY <2>1, <2>2, <2>4, <2>6 DEF BooksInv
<1>3. CASE UNCHANGED budgetVars
    BY <1>3 DEF budgetVars, BooksInv, Credits, Dues, Total, Units
<1> QED BY <1>1, <1>2, <1>3, CallKeepsBooks DEF Next, vars

\* The books are kept in every reachable state.
LEMMA BooksInvariant == Spec => [](BudgetTypeOK /\ BooksInv)
<1>1. Init => BudgetTypeOK /\ BooksInv
    <2> SUFFICES ASSUME Init PROVE BudgetTypeOK /\ BooksInv
        OBVIOUS
    <2>1. BudgetTypeOK
        BY BudgetAssumption DEF Init, BudgetTypeOK, Call
    <2>2. \A c \in Calls : call[c] = Idle
        BY DEF Init
    <2>3. Units(Credits) = {} /\ Units(Dues) = {}
        BY <2>2, CreditOfStep DEF Units, Credits, Dues
    <2>4. Total(Credits) = 0 /\ Total(Dues) = 0
        BY <2>3, FS_EmptySet DEF Total
    <2>5. \A c \in Calls : Bounded(call[c])
        BY <2>2 DEF Bounded, Idle
    <2> QED BY <2>1, <2>4, <2>5, BudgetAssumption DEF Init, BooksInv, Larger
<1> QED BY <1>1, NextKeepsTypes, BooksStep, PTL DEF Spec

\* The cap of the month is a cap: what the provider charged stays within it
\* and within what the counter holds, but for the bills of calls cancelled
\* while their answer was recorded (reserve, settle).
THEOREM CapAlwaysHolds == Spec => []CapHolds
<1>1. BudgetTypeOK /\ BooksInv => CapHolds
    <2> SUFFICES ASSUME BudgetTypeOK, BooksInv PROVE CapHolds
        OBVIOUS
    <2>1. Total(Credits) \in Nat /\ billed \in Nat /\ escaped \in Nat
        BY UnitsFinite DEF BudgetTypeOK
    <2>2. Larger(counter, Before) \in Nat /\ Cap \in Nat
        BY BudgetAssumption DEF Larger, BudgetTypeOK
    <2> QED BY <2>1, <2>2 DEF BooksInv, CapHolds
<1> QED BY <1>1, BooksInvariant, PTL

\* One call, one meter row: the call and its stage never both write the meter
\* (ainvoke, mark_stage_done).
THEOREM CallsAreMeteredOnce == Spec => []MeteredOnce
<1>1. BudgetTypeOK /\ BooksInv => MeteredOnce
    <2> SUFFICES ASSUME BudgetTypeOK, BooksInv PROVE MeteredOnce
        OBVIOUS
    <2>1. Total(Dues) \in Nat /\ meter + observed \in Nat /\ charged \in Nat
        BY UnitsFinite DEF BudgetTypeOK
    <2> QED BY <2>1 DEF BooksInv, MeteredOnce
<1> QED BY <1>1, BooksInvariant, PTL
=============================================================================
