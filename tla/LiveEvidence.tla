---------------------------- MODULE LiveEvidence ----------------------------
(***************************************************************************)
(* The evidence of one live session, from the batch a client sends to the  *)
(* finished run: admission into Redis and the close of a session           *)
(* (backend/app/services/stream_service.py), the drainers that project the *)
(* stream into Postgres (live_session_drainer.py) and the task that ends   *)
(* the run (worker/tasks.py, persist_live_session).                        *)
(*                                                                         *)
(* Every action is one Lua script, one committed transaction, one read, or *)
(* one failure between two of them.                                        *)
(*                                                                         *)
(* Abstractions.                                                           *)
(*  - A batch is one result of one test, the same test for all batches, so *)
(*    the row of the test shows which result was written last.  The sets   *)
(*    per outcome and the run's counters are left out, "pending" stays.    *)
(*  - Stream ids are positions in the log: the clock of Redis does not go  *)
(*    back.                                                                *)
(*  - The lock of a drainer expires when its drainer is gone, or (unless   *)
(*    TimeLimits) at any time: the renewal before the transaction leaves   *)
(*    it 90 s to commit and acknowledge.                                   *)
(*  - The outbox that dispatches persist_live_session is                   *)
(*    RunDownstreamOutbox: here its intent is dispatched again and again   *)
(*    until the task ends.                                                 *)
(***************************************************************************)
EXTENDS Naturals, Sequences, FiniteSets

CONSTANTS
    Batches,
    Drainers,      \* processes that drain: beat ticks and the persist task
    Closers,       \* requests and reaper ticks that close the session
    Persisters,    \* deliveries of persist_live_session
    Nobody,
    Capacity,      \* LIVE_BUFFER_MAX_EVENTS_PER_RUN
    TimeLimits,    \* a drainer commits and acknowledges within its lock
    MaxFaults      \* bound: scripts that stop half way, dead processes

ASSUME LiveAssumption ==
    /\ IsFiniteSet(Batches) /\ Nobody \notin Batches \cup Drainers
    /\ Capacity \in Nat \ {0} /\ MaxFaults \in Nat
    /\ TimeLimits \in BOOLEAN

VARIABLES
    receipt, admitting, gate, pending, expires,   \* the ledger in Redis
    log, stream,          \* batches ever added, in order, and those still there
    consumer,             \* per entry, who claimed it last
    lock,                 \* the drain lock
    drainer, closer, persister,
    session, intent, run, \* Postgres: the session, its persist intent, the run
    projected, row,       \* Postgres: receipts and the row of the test
    accepted,             \* history: batches a client was told are accepted
    faults                \* history

ledger == <<receipt, admitting, gate, pending, expires>>
evidence == <<log, stream, consumer>>
postgres == <<session, intent, run, projected, row>>
vars == <<ledger, evidence, lock, drainer, closer, persister, postgres, accepted, faults>>

Receipt == {"none", "staged", "accepted", "projected"}
Idle == [phase |-> "idle"]
DrainStep ==
    [phase : {"locked"}]
    \cup [phase : {"read", "projecting", "committed"}, batch : Batches]

InLog(b) == \E i \in DOMAIN log : log[i] = b
\* b was added to the stream before c.
Before(b, c) ==
    \E i, j \in DOMAIN log : i < j /\ log[i] = b /\ log[j] = c

Init ==
    /\ receipt = [b \in Batches |-> "none"]
    /\ admitting = Nobody /\ gate = "open" /\ pending = {} /\ expires = FALSE
    /\ log = <<>> /\ stream = {} /\ consumer = [b \in Batches |-> Nobody]
    /\ lock = Nobody
    /\ drainer = [d \in Drainers |-> Idle]
    /\ closer = [c \in Closers |-> "idle"]
    /\ persister = [p \in Persisters |-> "idle"]
    /\ session = "active" /\ intent = "none" /\ run = "open"
    /\ projected = {} /\ row = Nobody
    /\ accepted = {} /\ faults = 0

Fault == faults < MaxFaults /\ faults' = faults + 1

(***************************************************************************)
(* Admission.                                                              *)
(***************************************************************************)
\* The entry of a staged receipt may have been added already.
Stands(b) == b \in stream

AddEntry(b) ==
    /\ stream' = stream \cup {b}
    /\ log' = IF Stands(b) THEN log ELSE log \o <<b>>
    /\ UNCHANGED consumer

\* The rest of the script, from a staged receipt on: the entry, unless it is
\* there, the sets, the accepted receipt.
Accept(b) ==
    /\ AddEntry(b)
    /\ pending' = pending \cup {b}
    /\ receipt' = [receipt EXCEPT ![b] = "accepted"]
    /\ admitting' = Nobody

\* The script stops at an error: after the receipt, or after the entry.
StopsHalfWay(b) ==
    /\ Fault
    /\ AddEntry(b) \/ UNCHANGED evidence
    /\ receipt' = [receipt EXCEPT ![b] = "staged"]
    /\ admitting' = b
    /\ UNCHANGED pending

\* Mutant: the database is not asked whether the session has completed.
IsOpenInRedis == gate = "open"

\* The fence, and the session's own status once the fence has expired.
IsOpen == gate = "open" /\ session = "active"

\* Mutant: the events of this batch are not counted.
HasRoomNow == Cardinality(pending) <= Capacity

HasRoom == Cardinality(pending) + 1 <= Capacity

\* A new batch, or a retry that finds its own staged receipt.  The other
\* answers (closed, capacity, busy) change nothing.
_ADMIT_LIVE_BATCH(b) ==
    /\ \/ receipt[b] = "none" /\ IsOpen /\ HasRoom /\ admitting = Nobody
       \/ receipt[b] = "staged" /\ admitting = b
    /\ \/ Accept(b) /\ accepted' = accepted \cup {b} /\ UNCHANGED faults
       \/ Accept(b) /\ Fault /\ UNCHANGED accepted
       \/ StopsHalfWay(b) /\ UNCHANGED accepted
    /\ UNCHANGED <<gate, expires, lock, drainer, closer, persister, postgres>>

\* A retry of a batch that was accepted.
DuplicateBatch(b) ==
    /\ receipt[b] \in {"accepted", "projected"}
    /\ accepted' = accepted \cup {b}
    /\ UNCHANGED <<ledger, evidence, lock, drainer, closer, persister, postgres, faults>>

\* A batch or a close that found an admission under way completes it.
_RECONCILE_STAGED_BATCH ==
    /\ admitting # Nobody
    /\ Accept(admitting)
    /\ UNCHANGED <<gate, expires, lock, drainer, closer, persister, postgres,
                   accepted, faults>>

(***************************************************************************)
(* Draining (drain_run_buffer).                                            *)
(***************************************************************************)
Goes(d, step) == drainer' = [drainer EXCEPT ![d] = step]
In(d, phase) == drainer[d].phase = phase

_acquire_lock(d) ==
    /\ In(d, "idle") /\ lock = Nobody
    /\ lock' = d /\ Goes(d, [phase |-> "locked"])
    /\ UNCHANGED <<ledger, evidence, closer, persister, postgres, accepted, faults>>

\* Mutant: entries that another consumer has claimed are left to it.
NewEntriesFirst(b) ==
    IF \E c \in stream : consumer[c] = Nobody
    THEN consumer[b] = Nobody /\ \A c \in stream \ {b} : consumer[c] = Nobody => Before(b, c)
    ELSE \A c \in stream \ {b} : Before(b, c)

\* Pending entries first, whoever claimed them: the oldest of the stream.
IsNext(b) == \A c \in stream \ {b} : Before(b, c)

_read_stream_entries(d) ==
    /\ In(d, "locked")
    /\ \/ \E b \in stream :
             /\ IsNext(b)
             /\ consumer' = [consumer EXCEPT ![b] = d]
             /\ Goes(d, [phase |-> "read", batch |-> b])
             /\ UNCHANGED lock
       \/ /\ stream = {}
          /\ Goes(d, Idle) /\ lock' = (IF lock = d THEN Nobody ELSE lock)
          /\ UNCHANGED consumer
    /\ UNCHANGED <<ledger, log, stream, closer, persister, postgres, accepted, faults>>

\* Mutant: the entry is acknowledged before the transaction.
AcksFirst(d) == [drainer[d] EXCEPT !.phase = "committed"]

\* The transaction comes before the acknowledgement.
ThenProjects(d) == [drainer[d] EXCEPT !.phase = "projecting"]

_renew_lock(d) ==
    /\ In(d, "read")
    /\ Goes(d, IF lock = d THEN ThenProjects(d) ELSE Idle)
    /\ UNCHANGED <<ledger, evidence, lock, closer, persister, postgres, accepted, faults>>

\* Receipts and the row of the test, in one transaction the lock does not
\* fence.
_project(d) ==
    /\ In(d, "projecting")
    /\ projected' = projected \cup {drainer[d].batch}
    /\ row' = drainer[d].batch
    /\ Goes(d, [drainer[d] EXCEPT !.phase = "committed"])
    /\ UNCHANGED <<ledger, evidence, lock, closer, persister, session, intent, run,
                   accepted, faults>>

\* Mutant: the last acknowledgement leaves the retention to the close.
NoRetention(nothing, g) == expires' = expires /\ nothing \in BOOLEAN

\* The keys of a closed ledger with nothing pending are given 15 days.
RetentionBegins(nothing, g) == expires' = (expires \/ (nothing /\ g = "closed"))

\* The fence of the acknowledgement.
MayAck(d) ==
    /\ lock = d /\ consumer[drainer[d].batch] = d
    /\ drainer[d].batch \in stream
    /\ receipt[drainer[d].batch] \in {"accepted", "projected"}

\* Acknowledged, or rejected; the drainer ends and releases its lock.
_ACK_BATCH(d) ==
    LET b == drainer[d].batch IN
    /\ In(d, "committed")
    /\ IF MayAck(d)
       THEN /\ receipt' = [receipt EXCEPT ![b] = "projected"]
            /\ pending' = pending \ {b}
            /\ stream' = stream \ {b}
            /\ RetentionBegins(pending' = {}, gate)
       ELSE UNCHANGED <<receipt, pending, stream, expires>>
    /\ lock' = IF lock = d THEN Nobody ELSE lock
    /\ Goes(d, Idle)
    /\ UNCHANGED <<admitting, gate, log, consumer, closer, persister, postgres,
                   accepted, faults>>

DrainerDies(d) ==
    /\ ~In(d, "idle") /\ Fault
    /\ Goes(d, Idle)
    /\ UNCHANGED <<ledger, evidence, lock, closer, persister, postgres, accepted>>

\* Mutant: the lock has no expiry.
NeverLapses == lock \notin Drainers \cup {Nobody}

Lapses == lock # Nobody /\ (In(lock, "idle") \/ ~TimeLimits)

LockExpires ==
    /\ Lapses
    /\ lock' = Nobody
    /\ UNCHANGED <<ledger, evidence, drainer, closer, persister, postgres, accepted, faults>>

(***************************************************************************)
(* The close of the session, and the end of the run.                       *)
(***************************************************************************)
\* The row is read without a lock: two closers may both find it active.
FindsActive(c) ==
    /\ closer[c] = "idle" /\ session = "active"
    /\ closer' = [closer EXCEPT ![c] = "read"]
    /\ UNCHANGED <<ledger, evidence, lock, drainer, persister, postgres, accepted, faults>>

\* A request to close what is closed finalizes it once more.
FindsCompleted(c) ==
    /\ closer[c] = "idle" /\ session = "completed"
    /\ closer' = [closer EXCEPT ![c] = "committed"]
    /\ UNCHANGED <<ledger, evidence, lock, drainer, persister, postgres, accepted, faults>>

\* The fence.  It is busy while a batch is being admitted.
_CLOSE_ADMISSION(c) ==
    /\ closer[c] = "read" /\ admitting = Nobody
    /\ gate' = "closing"
    /\ closer' = [closer EXCEPT ![c] = "fenced"]
    /\ UNCHANGED <<receipt, admitting, pending, expires, evidence, lock, drainer,
                   persister, postgres, accepted, faults>>

\* The transaction of close_session: the session and its intent, which a
\* second close finds staged.
CommitClose(c) ==
    /\ closer[c] = "fenced"
    /\ session' = "completed"
    /\ intent' = IF intent = "none" THEN "staged" ELSE intent
    /\ closer' = [closer EXCEPT ![c] = "committed"]
    /\ UNCHANGED <<ledger, evidence, lock, drainer, persister, run, projected, row,
                   accepted, faults>>

_FINALIZE_CLOSE ==
    /\ gate' = "closed"
    /\ RetentionBegins(pending = {}, "closed")
    /\ UNCHANGED <<receipt, admitting, pending>>

FinalizeClose(c) ==
    /\ closer[c] = "committed"
    /\ _FINALIZE_CLOSE
    /\ closer' = [closer EXCEPT ![c] = "idle"]
    /\ UNCHANGED <<evidence, lock, drainer, persister, postgres, accepted, faults>>

\* The request or the tick dies, or its transaction fails.
CloserDies(c) ==
    /\ closer[c] # "idle" /\ Fault
    /\ closer' = [closer EXCEPT ![c] = "idle"]
    /\ UNCHANGED <<ledger, evidence, lock, drainer, persister, postgres, accepted>>

\* Nothing is left in the stream, delivered or not.
NothingLeft == stream = {}

\* The persist task drains (as a drainer) until nothing is left.
_drain_live_evidence_before_finalize(p) ==
    /\ persister[p] = "idle" /\ intent = "staged" /\ NothingLeft
    /\ persister' = [persister EXCEPT ![p] = "drained"]
    /\ UNCHANGED <<ledger, evidence, lock, drainer, closer, postgres, accepted, faults>>

CommitRun(p) ==
    /\ persister[p] = "drained"
    /\ run' = "finished"
    /\ persister' = [persister EXCEPT ![p] = "committed"]
    /\ UNCHANGED <<ledger, evidence, lock, drainer, closer, session, intent, projected,
                   row, accepted, faults>>

\* The task ends and with it its intent.
PersistEnds(p) ==
    /\ persister[p] = "committed"
    /\ _FINALIZE_CLOSE
    /\ intent' = "done"
    /\ persister' = [persister EXCEPT ![p] = "idle"]
    /\ UNCHANGED <<evidence, lock, drainer, closer, session, run, projected, row,
                   accepted, faults>>

PersisterDies(p) ==
    /\ persister[p] # "idle" /\ Fault
    /\ persister' = [persister EXCEPT ![p] = "idle"]
    /\ UNCHANGED <<ledger, evidence, lock, drainer, closer, postgres, accepted>>

\* Fifteen days later: no request, tick or task of then is still running.
LedgerExpires ==
    /\ expires
    /\ \A c \in Closers : closer[c] = "idle"
    /\ \A p \in Persisters : persister[p] = "idle"
    /\ receipt' = [b \in Batches |-> "none"]
    /\ admitting' = Nobody /\ gate' = "open" /\ pending' = {} /\ expires' = FALSE
    /\ UNCHANGED <<evidence, lock, drainer, closer, persister, postgres, accepted, faults>>

(***************************************************************************)
(* Specification.                                                          *)
(***************************************************************************)
Drain(d) ==
    \/ _acquire_lock(d) \/ _read_stream_entries(d) \/ _renew_lock(d)
    \/ _project(d) \/ _ACK_BATCH(d)

close_session(c) ==
    \/ FindsActive(c) \/ _CLOSE_ADMISSION(c) \/ CommitClose(c) \/ FinalizeClose(c)

persist_live_session(p) ==
    _drain_live_evidence_before_finalize(p) \/ CommitRun(p) \/ PersistEnds(p)

Next ==
    \/ \E b \in Batches : _ADMIT_LIVE_BATCH(b) \/ DuplicateBatch(b)
    \/ _RECONCILE_STAGED_BATCH
    \/ \E d \in Drainers : Drain(d) \/ DrainerDies(d)
    \/ LockExpires
    \/ \E c \in Closers : close_session(c) \/ FindsCompleted(c) \/ CloserDies(c)
    \/ \E p \in Persisters : persist_live_session(p) \/ PersisterDies(p)
    \/ LedgerExpires

Spec == Init /\ [][Next]_vars

\* A drainer and a task that started goes on, beat and the outbox start them
\* again, a lock expires, and the idle reaper closes what nobody closed; it
\* completes the admission it finds under way.
Fairness ==
    /\ \A d \in Drainers : WF_vars(Drain(d))
    /\ WF_vars(LockExpires)
    /\ WF_vars(_RECONCILE_STAGED_BATCH)
    /\ \A c \in Closers : WF_vars(close_session(c))
    /\ \A p \in Persisters : WF_vars(persist_live_session(p))

FairSpec == Spec /\ Fairness

(***************************************************************************)
(* Properties.                                                             *)
(***************************************************************************)
\* The values the keys, the rows and the processes can have; no entry is added
\* twice.
TypeOK ==
    /\ receipt \in [Batches -> Receipt]
    /\ admitting \in Batches \cup {Nobody}
    /\ gate \in {"open", "closing", "closed"}
    /\ pending \subseteq Batches /\ stream \subseteq Batches
    /\ expires \in BOOLEAN
    /\ log \in Seq(Batches)
    /\ \A i, j \in DOMAIN log : log[i] = log[j] => i = j
    /\ consumer \in [Batches -> Drainers \cup {Nobody}]
    /\ lock \in Drainers \cup {Nobody}
    /\ drainer \in [Drainers -> {Idle} \cup DrainStep]
    /\ closer \in [Closers -> {"idle", "read", "fenced", "committed"}]
    /\ persister \in [Persisters -> {"idle", "drained", "committed"}]
    /\ session \in {"active", "completed"} /\ intent \in {"none", "staged", "done"}
    /\ run \in {"open", "finished"}
    /\ projected \subseteq Batches /\ row \in Batches \cup {Nobody}
    /\ accepted \subseteq Batches
    /\ faults \in 0 .. MaxFaults

\* A finished run holds every batch a client was told is accepted, and no
\* batch is admitted later, also when the ledger of the run has expired.
FinishedRunIsComplete ==
    run = "finished" => /\ accepted \subseteq projected
                        /\ stream = {}

\* The row of a test shows the newest of the results projected (drainer: "the
\* per-run ownership lock serializes drainers").
NewestResultWins ==
    TimeLimits => \A b \in projected : row = b \/ Before(b, row)

\* The capacity an event takes is given back with its entry, whoever stopped
\* half way: between two admissions what is pending is what the stream holds,
\* and the stream never holds more than the run may.
CapacityIsGivenBack ==
    /\ admitting = Nobody => pending = stream
    /\ Cardinality(stream) <= Capacity

\* A closed ledger with nothing pending has its retention, whichever of the
\* close and the last acknowledgement came last: no key stays for ever.
RetentionIsSet == gate = "closed" /\ pending = {} => expires

\* A batch as an item of AtLeastOnce: it is done when its entry left the
\* stream, performed when its receipt is in Postgres.
state ==
    [b \in Batches |->
        IF ~InLog(b) THEN "none" ELSE IF b \in stream THEN "open" ELSE "done"]

Outbox == INSTANCE AtLeastOnce
          WITH Items <- Batches, MayReopen <- {}, performed <- projected

\* An entry leaves the stream only after it was projected, and never returns.
ImplementsAtLeastOnce == Outbox!Spec

\* Its safety half, with the next one: a fence is never left behind.  Either the
\* session is active, and the idle reaper closes it again, or its intent is
\* staged, and the outbox dispatches the task again, or all is done
\* (stream_service.py, close_session; tasks.py, persist_live_session).
ClosingIsOwned ==
    gate = "closing" => \/ session = "active"
                        \/ intent = "staged"
                        \/ run = "finished" /\ expires

\* A close that was begun ends: the run is finished and its keys have their
\* retention (or have already gone), whoever died on the way (tasks.py,
\* persist_live_session: "it also repairs a process crash or Redis failure").
ClosedSessionEnds ==
    gate = "closing" ~> (run = "finished" /\ (expires \/ gate = "open"))
=============================================================================
