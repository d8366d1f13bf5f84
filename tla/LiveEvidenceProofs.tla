------------------------- MODULE LiveEvidenceProofs -------------------------
(***************************************************************************)
(* Machine-checked proofs about LiveEvidence, for every set of batches,    *)
(* drainers, closers and persist tasks, every capacity, and any number of  *)
(* faults.                                                                 *)
(***************************************************************************)
EXTENDS LiveEvidence, FiniteSetTheorems, TLAPS

(***************************************************************************)
(* The inductive invariants.                                               *)
(***************************************************************************)
\* The receipt that is staged is the one being admitted, and only in an open
\* session; an entry that is not recorded in Redis is not in the log while the
\* session is active, and a staged one has not left the stream.
AdmissionInv ==
    /\ \A b \in Batches : admitting = b <=> receipt[b] = "staged"
    /\ admitting # Nobody => session = "active" /\ gate = "open"
    /\ session = "active" => \A b \in Batches : receipt[b] = "none" => ~InLog(b)
    /\ \A b \in stream : InLog(b)
    /\ \A b \in Batches : receipt[b] = "staged" /\ InLog(b) => b \in stream

\* What must have happened before a close, a persist task, a retention.
CloseInv ==
    /\ \A c \in Closers : /\ closer[c] = "fenced" => gate # "open"
                          /\ closer[c] = "committed" => session = "completed"
    /\ \A p \in Persisters : persister[p] # "idle" => session = "completed"
    /\ intent # "none" => session = "completed"
    /\ gate = "closed" => session = "completed"
    /\ expires => session = "completed"

LiveInv == TypeOK /\ AdmissionInv /\ CloseInv

\* What drainers hold, what was projected and what a client was told of is in
\* the log; what left the stream was projected; nothing is left once the run
\* is being finished.
EvidenceInv ==
    /\ \A d \in Drainers :
          /\ drainer[d].phase \in {"read", "projecting", "committed"} => InLog(drainer[d].batch)
          /\ drainer[d].phase = "committed" => drainer[d].batch \in projected
    /\ \A b \in projected : InLog(b)
    /\ \A b \in accepted : InLog(b)
    /\ \A b \in Batches : receipt[b] \in {"accepted", "projected"} => InLog(b)
    /\ \A b \in Batches : InLog(b) /\ b \notin stream => b \in projected
    /\ (run = "finished" \/ \E p \in Persisters : persister[p] # "idle")
          => session = "completed" /\ stream = {}

\* The batch being admitted has its place reserved.
Reserved == IF admitting = Nobody THEN {} ELSE {admitting}
CapacityInv ==
    /\ pending \ Reserved = stream \ Reserved
    /\ admitting = Nobody => pending = stream
    /\ Cardinality(pending \cup Reserved) <= Capacity
    /\ expires => pending = {}

\* One drainer at a time, on the oldest entry, after all that was projected.
OrderInv ==
    /\ \A d \in Drainers :
          /\ drainer[d].phase # "idle" => lock = d
          /\ drainer[d].phase \in {"read", "projecting"} =>
                /\ drainer[d].batch \in stream
                /\ \A c \in stream \ {drainer[d].batch} : Before(drainer[d].batch, c)
    /\ \A p \in projected : \A b \in stream : p = b \/ Before(p, b)
    /\ \A b \in projected : row = b \/ Before(b, row)

(***************************************************************************)
(* The log.                                                                *)
(***************************************************************************)
\* An entry is added to the end of the log, once.
LEMMA Appending ==
    ASSUME TypeOK, NEW b \in Batches, ~InLog(b), log' = log \o <<b>>
    PROVE  /\ log' \in Seq(Batches)
           /\ \A i, j \in DOMAIN log' : log'[i] = log'[j] => i = j
           /\ \A c : InLog(c)' <=> InLog(c) \/ c = b
           /\ \A c, e : Before(c, e) => Before(c, e)'
           /\ \A c : InLog(c) => Before(c, b)'
<1>1. /\ log \in Seq(Batches) /\ Len(log) \in Nat /\ DOMAIN log = 1 .. Len(log)
      /\ \A i \in DOMAIN log : log[i] \in Batches
    BY DEF TypeOK
<1>2. /\ log' \in Seq(Batches)
      /\ DOMAIN log' = 1 .. Len(log) + 1
      /\ \A i \in DOMAIN log : log'[i] = log[i]
      /\ log'[Len(log) + 1] = b
    BY <1>1
<1>3. DOMAIN log' = DOMAIN log \cup {Len(log) + 1} /\ Len(log) + 1 \notin DOMAIN log
    BY <1>1, <1>2
<1>4. \A i, j \in DOMAIN log' : log'[i] = log'[j] => i = j
    BY <1>2, <1>3 DEF TypeOK, InLog
<1>5. \A c : InLog(c)' <=> InLog(c) \/ c = b
    BY <1>2, <1>3 DEF InLog
<1>6. \A c, e : Before(c, e) => Before(c, e)'
    BY <1>2, <1>3 DEF Before
<1>7. ASSUME NEW c, InLog(c) PROVE Before(c, b)'
    <2>1. PICK i \in DOMAIN log : log[i] = c
        BY <1>7 DEF InLog
    <2>2. i < Len(log) + 1 /\ i \in DOMAIN log' /\ Len(log) + 1 \in DOMAIN log'
        BY <1>1, <1>3, <2>1
    <2> QED BY <1>2, <2>1, <2>2 DEF Before
<1> QED BY <1>2, <1>4, <1>5, <1>6, <1>7

\* Where the log stays, so does what is in it.
LEMMA SameLog ==
    ASSUME UNCHANGED log
    PROVE  /\ \A c : InLog(c)' <=> InLog(c)
           /\ \A c, e : Before(c, e)' <=> Before(c, e)
BY DEF InLog, Before

\* Every batch between the ends of Before is in the log.
LEMMA DrainerShape ==
    ASSUME TypeOK, NEW d \in Drainers,
           drainer[d].phase \in {"read", "projecting", "committed"}
    PROVE  drainer[d].batch \in Batches
BY DEF TypeOK, DrainStep, Idle

(***************************************************************************)
(* Admission.                                                              *)
(***************************************************************************)
\* Batch b is admitted, all of it or half way.
Admits(b) ==
    /\ \/ receipt[b] = "none" /\ IsOpen /\ HasRoom /\ admitting = Nobody
       \/ receipt[b] = "staged" /\ admitting = b
    /\ \/ Accept(b) /\ accepted' \in {accepted, accepted \cup {b}}
       \/ /\ AddEntry(b) \/ UNCHANGED evidence
          /\ receipt' = [receipt EXCEPT ![b] = "staged"] /\ admitting' = b
          /\ UNCHANGED <<pending, accepted>>
    /\ UNCHANGED faults \/ Fault
    /\ UNCHANGED <<gate, expires, lock, drainer, closer, persister, postgres>>

\* The script, a retry and the reconciliation admit a batch.
LEMMA AdmissionSteps ==
    ASSUME LiveInv
    PROVE  /\ \A b \in Batches : _ADMIT_LIVE_BATCH(b) => Admits(b)
           /\ _RECONCILE_STAGED_BATCH => \E b \in Batches : Admits(b)
<1>1. ASSUME NEW b \in Batches, _ADMIT_LIVE_BATCH(b) PROVE Admits(b)
    BY <1>1 DEF _ADMIT_LIVE_BATCH, Admits, StopsHalfWay
<1>2. ASSUME _RECONCILE_STAGED_BATCH PROVE admitting \in Batches /\ Admits(admitting)
    <2>1. admitting \in Batches /\ receipt[admitting] = "staged"
        BY <1>2 DEF _RECONCILE_STAGED_BATCH, LiveInv, TypeOK, AdmissionInv
    <2> QED BY <1>2, <2>1 DEF _RECONCILE_STAGED_BATCH, Admits
<1> QED BY <1>1, <1>2

\* What an admission does to the log, the stream and the keys.
LEMMA AdmissionAdds ==
    ASSUME LiveInv, NEW b \in Batches, Admits(b)
    PROVE  /\ session = "active" /\ gate = "open" /\ UNCHANGED <<consumer, postgres>>
           /\ \/ UNCHANGED <<log, stream>>
              \/ ~InLog(b) /\ log' = log \o <<b>> /\ stream' = stream \cup {b}
           /\ \/ /\ receipt' = [receipt EXCEPT ![b] = "accepted"] /\ admitting' = Nobody
                 /\ pending' = pending \cup {b} /\ b \in stream'
              \/ /\ receipt' = [receipt EXCEPT ![b] = "staged"] /\ admitting' = b
                 /\ pending' = pending /\ accepted' = accepted
           /\ InLog(b) => b \in stream
<1>1. session = "active" /\ gate = "open"
    BY LiveAssumption DEF Admits, LiveInv, AdmissionInv, IsOpen
<1>2. InLog(b) => b \in stream
    BY <1>1 DEF Admits, LiveInv, AdmissionInv
<1>3. AddEntry(b) =>
          /\ UNCHANGED consumer /\ b \in stream'
          /\ \/ UNCHANGED <<log, stream>>
             \/ ~InLog(b) /\ log' = log \o <<b>> /\ stream' = stream \cup {b}
    BY <1>2 DEF AddEntry, Stands, LiveInv, AdmissionInv
<1> QED BY <1>1, <1>2, <1>3 DEF Admits, Accept, evidence

(***************************************************************************)
(* Types, admission and close.                                             *)
(***************************************************************************)
\* The invariant LiveInv holds of the initial state.
LEMMA LiveInit == Init => LiveInv
<1> SUFFICES ASSUME Init PROVE LiveInv
    OBVIOUS
<1>1. TypeOK
    <2>1. drainer \in [Drainers -> {Idle} \cup DrainStep]
        BY DEF Init
    <2>2. log \in Seq(Batches) /\ \A i, j \in DOMAIN log : log[i] = log[j] => i = j
        BY DEF Init
    <2>3. faults \in 0 .. MaxFaults
        BY LiveAssumption DEF Init
    <2> QED BY <2>1, <2>2, <2>3 DEF Init, TypeOK, Receipt
<1>2. AdmissionInv
    BY LiveAssumption DEF Init, AdmissionInv, InLog
<1>3. CloseInv
    BY DEF Init, CloseInv
<1> QED BY <1>1, <1>2, <1>3 DEF LiveInv

\* An admission keeps LiveInv.
LEMMA AdmitsKeepsLive ==
    ASSUME LiveInv, NEW b \in Batches, Admits(b)
    PROVE  LiveInv'
<1>1. /\ log' \in Seq(Batches) /\ stream' \subseteq Batches
      /\ \A i, j \in DOMAIN log' : log'[i] = log'[j] => i = j
      /\ \A c : InLog(c) => InLog(c)'
      /\ \A c : InLog(c)' => InLog(c) \/ (c = b /\ b \in stream')
      /\ stream \subseteq stream' /\ \A c \in stream' : InLog(c)'
    <2>1. CASE UNCHANGED <<log, stream>>
        BY <2>1, SameLog DEF LiveInv, TypeOK, AdmissionInv
    <2>2. CASE ~InLog(b) /\ log' = log \o <<b>> /\ stream' = stream \cup {b}
        BY <2>2, Appending DEF LiveInv, TypeOK, AdmissionInv
    <2> QED BY <2>1, <2>2, AdmissionAdds
<1>2. faults' \in 0 .. MaxFaults
    BY LiveAssumption DEF LiveInv, TypeOK, Admits, Fault
<1>3. accepted' \subseteq Batches
    BY DEF LiveInv, TypeOK, Admits
<1>4. expires' \in BOOLEAN
    BY DEF LiveInv, TypeOK, Admits
<1>5. /\ receipt' \in [Batches -> Receipt] /\ admitting' \in Batches \cup {Nobody}
      /\ pending' \subseteq Batches
    <2>1. \/ /\ receipt' = [receipt EXCEPT ![b] = "accepted"] /\ admitting' = Nobody
             /\ pending' = pending \cup {b}
          \/ /\ receipt' = [receipt EXCEPT ![b] = "staged"] /\ admitting' = b
             /\ pending' = pending
        BY AdmissionAdds
    <2> QED BY <2>1 DEF LiveInv, TypeOK, Receipt
<1>6. TypeOK'
    BY <1>1, <1>2, <1>3, <1>4, <1>5, AdmissionAdds DEF LiveInv, TypeOK, Admits, postgres
<1>7. \A c \in Batches : admitting' = c <=> receipt'[c] = "staged"
    <2>0. \A c \in Batches \ {b} : admitting # c
        BY LiveAssumption DEF Admits
    <2>1. \A c \in Batches \ {b} : receipt[c] # "staged" /\ receipt'[c] = receipt[c]
        <3>1. \A c \in Batches \ {b} : receipt[c] # "staged"
            BY <2>0 DEF LiveInv, AdmissionInv
        <3>2. \A c \in Batches \ {b} : receipt'[c] = receipt[c]
            BY AdmissionAdds DEF LiveInv, TypeOK
        <3> QED BY <3>1, <3>2
    <2>2. \/ receipt'[b] = "accepted" /\ admitting' = Nobody
          \/ receipt'[b] = "staged" /\ admitting' = b
        BY AdmissionAdds DEF LiveInv, TypeOK
    <2> QED BY <2>1, <2>2, LiveAssumption
<1>8. \A c \in Batches : receipt'[c] = "none" => c # b /\ receipt[c] = "none"
    BY AdmissionAdds DEF LiveInv, TypeOK
<1>9. ASSUME NEW c \in Batches, receipt'[c] = "staged", InLog(c)' PROVE c \in stream'
    <2>1. c # Nobody /\ admitting' = c
        BY <1>7, <1>9, LiveAssumption
    <2>2. admitting' \in {Nobody, b}
        BY AdmissionAdds
    <2>3. c = b
        BY <2>1, <2>2
    <2> QED BY <1>1, <1>9, <2>3, AdmissionAdds
<1>10. AdmissionInv'
    BY <1>1, <1>7, <1>8, <1>9, AdmissionAdds DEF LiveInv, AdmissionInv, Admits, postgres
<1>11. CloseInv'
    BY DEF LiveInv, CloseInv, Admits, postgres
<1> QED BY <1>6, <1>10, <1>11 DEF LiveInv

\* The steps of a drainer keep the types.
LEMMA DrainerTypes ==
    ASSUME TypeOK, NEW d \in Drainers, Drain(d) \/ DrainerDies(d)
    PROVE  TypeOK'
<1>1. CASE _acquire_lock(d)
    BY <1>1 DEF TypeOK, _acquire_lock, Goes, DrainStep, ledger, evidence, postgres
<1>2. CASE _read_stream_entries(d)
    <2>1. lock' \in Drainers \cup {Nobody}
        BY <1>2 DEF TypeOK, _read_stream_entries
    <2>2. consumer' \in [Batches -> Drainers \cup {Nobody}]
        BY <1>2 DEF TypeOK, _read_stream_entries
    <2>3. \E x \in {Idle} \cup DrainStep : Goes(d, x)
        BY <1>2 DEF TypeOK, _read_stream_entries, DrainStep
    <2>4. drainer' \in [Drainers -> {Idle} \cup DrainStep]
        BY <2>3 DEF TypeOK, Goes
    <2> QED BY <1>2, <2>1, <2>2, <2>4 DEF TypeOK, _read_stream_entries, ledger, postgres
<1>3. CASE _renew_lock(d)
    <2>1. \E x \in {Idle} \cup DrainStep : Goes(d, x)
        <3>1. drainer[d] \in [phase : {"read", "projecting", "committed"}, batch : Batches]
            BY <1>3 DEF TypeOK, _renew_lock, In, DrainStep, Idle
        <3>2. ThenProjects(d) \in DrainStep
            BY <3>1 DEF ThenProjects, DrainStep
        <3> QED BY <1>3, <3>2 DEF _renew_lock
    <2>2. drainer' \in [Drainers -> {Idle} \cup DrainStep]
        BY <2>1 DEF TypeOK, Goes
    <2> QED BY <1>3, <2>2 DEF TypeOK, _renew_lock, ledger, evidence, postgres
<1>4. CASE _project(d)
    <2>1. drainer[d] \in [phase : {"read", "projecting", "committed"}, batch : Batches]
        BY <1>4 DEF TypeOK, _project, In, DrainStep, Idle
    <2>2. [drainer[d] EXCEPT !.phase = "committed"] \in DrainStep
        BY <2>1 DEF DrainStep
    <2>3. drainer' \in [Drainers -> {Idle} \cup DrainStep]
        BY <1>4, <2>2 DEF TypeOK, _project, Goes
    <2> QED BY <1>4, <2>1, <2>3 DEF TypeOK, _project, ledger, evidence
<1>5. CASE _ACK_BATCH(d)
    <2>1. expires' \in BOOLEAN
        BY <1>5 DEF TypeOK, _ACK_BATCH, RetentionBegins
    <2>2. drainer' \in [Drainers -> {Idle} \cup DrainStep]
        BY <1>5 DEF TypeOK, _ACK_BATCH, Goes
    <2>3. /\ receipt' \in [Batches -> Receipt] /\ pending' \subseteq Batches
          /\ stream' \subseteq Batches /\ lock' \in Drainers \cup {Nobody}
        BY <1>5 DEF TypeOK, _ACK_BATCH, Receipt
    <2> QED BY <1>5, <2>1, <2>2, <2>3 DEF TypeOK, _ACK_BATCH, postgres
<1>6. CASE DrainerDies(d)
    <2>1. drainer' \in [Drainers -> {Idle} \cup DrainStep]
        BY <1>6 DEF TypeOK, DrainerDies, Goes
    <2>2. faults' \in 0 .. MaxFaults
        BY <1>6, LiveAssumption DEF TypeOK, DrainerDies, Fault
    <2> QED BY <1>6, <2>1, <2>2 DEF TypeOK, DrainerDies, ledger, evidence, postgres
<1> QED BY <1>1, <1>2, <1>3, <1>4, <1>5, <1>6 DEF Drain

\* A drainer leaves the session alone and changes the keys by an
\* acknowledgement only.
LEMMA DrainerChanges ==
    ASSUME TypeOK, NEW d \in Drainers, Drain(d) \/ DrainerDies(d)
    PROVE  /\ UNCHANGED <<admitting, gate, log, closer, persister, session, intent, run, accepted>>
           /\ \/ UNCHANGED <<receipt, pending, stream, expires>>
              \/ _ACK_BATCH(d) /\ MayAck(d)
BY DEF Drain, _acquire_lock, _read_stream_entries, _renew_lock, _project, _ACK_BATCH,
       DrainerDies, ledger, evidence, postgres

\* The steps of a drainer keep LiveInv.
LEMMA DrainerKeepsLive ==
    ASSUME LiveInv, NEW d \in Drainers, Drain(d) \/ DrainerDies(d)
    PROVE  LiveInv'
<1>1. TypeOK'
    BY DrainerTypes DEF LiveInv
<1>2. CASE UNCHANGED <<receipt, pending, stream, expires>>
    BY <1>1, <1>2, DrainerChanges, SameLog DEF LiveInv, AdmissionInv, CloseInv
<1>3. CASE _ACK_BATCH(d) /\ MayAck(d)
    <2> DEFINE b == drainer[d].batch
    <2>1. /\ b \in Batches /\ receipt[b] \in {"accepted", "projected"}
          /\ receipt' = [receipt EXCEPT ![b] = "projected"] /\ stream' = stream \ {b}
          /\ RetentionBegins(pending' = {}, gate)
        BY <1>3, DrainerShape DEF _ACK_BATCH, MayAck, LiveInv, In
    <2>2. \A c \in Batches : /\ receipt'[c] = "staged" <=> receipt[c] = "staged"
                             /\ receipt'[c] = "none" <=> receipt[c] = "none"
                             /\ receipt[c] = "staged" => c # b
        BY <2>1 DEF LiveInv, TypeOK
    <2>3. AdmissionInv'
        BY <2>1, <2>2, DrainerChanges, SameLog DEF LiveInv, AdmissionInv
    <2>4. expires' => session = "completed"
        BY <2>1 DEF RetentionBegins, LiveInv, CloseInv
    <2>5. CloseInv'
        BY <2>4, DrainerChanges DEF LiveInv, CloseInv
    <2> QED BY <1>1, <2>3, <2>5 DEF LiveInv
<1> QED BY <1>2, <1>3, DrainerChanges DEF LiveInv

\* A close or a persist task keeps LiveInv, and so does the expiry of the
\* ledger.
LEMMA CloseKeepsLive ==
    ASSUME LiveInv,
           \/ \E c \in Closers : close_session(c) \/ FindsCompleted(c) \/ CloserDies(c)
           \/ \E p \in Persisters : persist_live_session(p) \/ PersisterDies(p)
           \/ LedgerExpires
    PROVE  LiveInv'
<1>1. ASSUME NEW c \in Closers, FindsActive(c) \/ FindsCompleted(c)
      PROVE  LiveInv'
    BY <1>1, SameLog DEF FindsActive, FindsCompleted, LiveInv, TypeOK, AdmissionInv, CloseInv,
                         ledger, evidence, postgres
<1>2. ASSUME NEW c \in Closers, CloserDies(c)
      PROVE  LiveInv'
    BY <1>2, SameLog, LiveAssumption
       DEF CloserDies, Fault, LiveInv, TypeOK, AdmissionInv, CloseInv, ledger, evidence, postgres
<1>3. ASSUME NEW c \in Closers, _CLOSE_ADMISSION(c)
      PROVE  LiveInv'
    BY <1>3, SameLog DEF _CLOSE_ADMISSION, LiveInv, TypeOK, AdmissionInv, CloseInv,
                         evidence, postgres
<1>4. ASSUME NEW c \in Closers, CommitClose(c)
      PROVE  LiveInv'
    <2>1. gate # "open" /\ admitting = Nobody
        BY <1>4 DEF CommitClose, LiveInv, CloseInv, AdmissionInv
    <2>2. TypeOK'
        BY <1>4 DEF CommitClose, LiveInv, TypeOK, ledger, evidence
    <2>3. AdmissionInv'
        BY <1>4, <2>1, SameLog DEF CommitClose, LiveInv, AdmissionInv, ledger, evidence
    <2>4. CloseInv'
        BY <1>4 DEF CommitClose, LiveInv, TypeOK, CloseInv, ledger
    <2> QED BY <2>2, <2>3, <2>4 DEF LiveInv
<1>5. ASSUME \/ \E c \in Closers : FinalizeClose(c)
             \/ \E p \in Persisters : PersistEnds(p)
      PROVE  LiveInv'
    <2>1. session = "completed" /\ _FINALIZE_CLOSE
          /\ UNCHANGED <<evidence, lock, drainer, session, run, projected, row, accepted, faults>>
        BY <1>5 DEF FinalizeClose, PersistEnds, LiveInv, CloseInv, postgres
    <2>2. expires' \in BOOLEAN
        BY <2>1 DEF _FINALIZE_CLOSE, RetentionBegins
    <2>3. /\ closer' \in [Closers -> {"idle", "read", "fenced", "committed"}]
          /\ persister' \in [Persisters -> {"idle", "drained", "committed"}]
          /\ intent' \in {"none", "staged", "done"}
        BY <1>5 DEF FinalizeClose, PersistEnds, LiveInv, TypeOK, postgres
    <2>4. TypeOK'
        BY <2>1, <2>2, <2>3 DEF _FINALIZE_CLOSE, LiveInv, TypeOK, evidence
    <2>5. AdmissionInv'
        BY <2>1, SameLog DEF _FINALIZE_CLOSE, LiveInv, AdmissionInv, evidence
    <2>6. CloseInv'
        BY <2>1, <1>5 DEF _FINALIZE_CLOSE, FinalizeClose, PersistEnds, LiveInv, TypeOK, CloseInv
    <2> QED BY <2>4, <2>5, <2>6 DEF LiveInv
<1>6. ASSUME NEW p \in Persisters,
             _drain_live_evidence_before_finalize(p) \/ CommitRun(p) \/ PersisterDies(p)
      PROVE  LiveInv'
    <2>1. faults' \in 0 .. MaxFaults
        BY <1>6, LiveAssumption DEF _drain_live_evidence_before_finalize, CommitRun,
                                    PersisterDies, Fault, LiveInv, TypeOK
    <2>2. /\ persister' \in [Persisters -> {"idle", "drained", "committed"}]
          /\ \A q \in Persisters : persister'[q] # "idle" => session = "completed"
        BY <1>6 DEF _drain_live_evidence_before_finalize, CommitRun, PersisterDies,
                    LiveInv, TypeOK, CloseInv
    <2>3. /\ UNCHANGED <<ledger, evidence, lock, drainer, closer, session, intent, projected,
                         row, accepted>>
          /\ run' \in {"open", "finished"}
        BY <1>6 DEF _drain_live_evidence_before_finalize, CommitRun, PersisterDies,
                    LiveInv, TypeOK, postgres
    <2> QED BY <2>1, <2>2, <2>3, SameLog
            DEF LiveInv, TypeOK, AdmissionInv, CloseInv, ledger, evidence
<1>7. CASE LedgerExpires
    <2>1. session = "completed" /\ UNCHANGED session
        BY <1>7 DEF LedgerExpires, LiveInv, CloseInv, postgres
    <2>2. TypeOK'
        BY <1>7 DEF LedgerExpires, LiveInv, TypeOK, Receipt, evidence, postgres
    <2>3. AdmissionInv'
        BY <1>7, <2>1, SameLog, LiveAssumption
           DEF LedgerExpires, LiveInv, AdmissionInv, evidence
    <2>4. CloseInv'
        BY <1>7, <2>1 DEF LedgerExpires, LiveInv, CloseInv, postgres
    <2> QED BY <2>2, <2>3, <2>4 DEF LiveInv
<1> QED BY <1>1, <1>2, <1>3, <1>4, <1>5, <1>6, <1>7 DEF close_session, persist_live_session

\* The steps, with admissions as one.
LEMMA Steps ==
    ASSUME LiveInv, [Next]_vars
    PROVE  \/ \E b \in Batches : Admits(b)
           \/ \E b \in Batches : DuplicateBatch(b)
           \/ \E d \in Drainers : Drain(d) \/ DrainerDies(d)
           \/ LockExpires
           \/ \E c \in Closers : close_session(c) \/ FindsCompleted(c) \/ CloserDies(c)
           \/ \E p \in Persisters : persist_live_session(p) \/ PersisterDies(p)
           \/ LedgerExpires
           \/ UNCHANGED vars
BY AdmissionSteps DEF Next

\* Every step keeps LiveInv.
LEMMA LiveStep == LiveInv /\ [Next]_vars => LiveInv'
<1> SUFFICES ASSUME LiveInv, [Next]_vars PROVE LiveInv'
    OBVIOUS
<1>1. ASSUME NEW b \in Batches, DuplicateBatch(b) PROVE LiveInv'
    BY <1>1, SameLog DEF DuplicateBatch, LiveInv, TypeOK, AdmissionInv, CloseInv, ledger,
                         evidence, postgres
<1>2. CASE LockExpires
    BY <1>2, SameLog DEF LockExpires, LiveInv, TypeOK, AdmissionInv, CloseInv, ledger,
                         evidence, postgres
<1>3. CASE UNCHANGED vars
    BY <1>3, SameLog DEF vars, LiveInv, TypeOK, AdmissionInv, CloseInv, ledger,
                         evidence, postgres
<1> QED BY <1>1, <1>2, <1>3, Steps, AdmitsKeepsLive, DrainerKeepsLive, CloseKeepsLive

\* Every reachable state is type correct, and no entry is added to the stream
\* twice.
THEOREM TypeCorrect == Spec => []TypeOK
<1>1. LiveInv => TypeOK
    BY DEF LiveInv
<1> QED BY <1>1, LiveInit, LiveStep, PTL DEF Spec
(***************************************************************************)
(* The evidence of a finished run.                                         *)
(***************************************************************************)
\* Where a drainer is after a step.
LEMMA DrainerMoves ==
    ASSUME TypeOK, NEW d \in Drainers, Drain(d) \/ DrainerDies(d)
    PROVE  /\ \A e \in Drainers \ {d} : drainer'[e] = drainer[e]
           /\ \/ drainer'[d] = Idle
              \/ drainer'[d].phase = "locked" /\ _acquire_lock(d)
              \/ /\ drainer'[d].phase = "read" /\ drainer'[d].batch \in stream
                 /\ IsNext(drainer'[d].batch)
                 /\ drainer[d].phase = "locked"
                 /\ UNCHANGED <<stream, lock, projected, row>>
              \/ /\ drainer'[d].phase = "projecting" /\ drainer[d].phase = "read"
                 /\ drainer'[d].batch = drainer[d].batch
                 /\ UNCHANGED <<stream, lock, projected, row>>
              \/ /\ drainer'[d].phase = "committed" /\ drainer'[d].batch = drainer[d].batch
                 /\ _project(d)
           /\ _project(d) \/ UNCHANGED <<projected, row>>
<1>0. \A x, e : Goes(d, x) => /\ drainer'[d] = x
                              /\ e \in Drainers \ {d} => drainer'[e] = drainer[e]
    BY DEF Goes, TypeOK
<1>1. CASE _acquire_lock(d)
    BY <1>0, <1>1 DEF _acquire_lock, postgres
<1>2. CASE _read_stream_entries(d)
    <2>1. UNCHANGED <<stream, projected, row>> /\ drainer[d].phase = "locked"
        BY <1>2 DEF _read_stream_entries, In, postgres
    <2>2. CASE Goes(d, Idle)
        BY <1>0, <2>1, <2>2
    <2>3. ASSUME NEW b \in stream, IsNext(b), Goes(d, [phase |-> "read", batch |-> b]),
                 UNCHANGED lock
          PROVE  /\ drainer'[d].phase = "read" /\ drainer'[d].batch \in stream
                 /\ IsNext(drainer'[d].batch)
        <3>1. drainer'[d] = [phase |-> "read", batch |-> b]
            BY <1>0, <2>3
        <3>2. drainer'[d].phase = "read" /\ drainer'[d].batch = b
            BY <3>1
        <3> QED BY <2>3, <3>2
    <2> QED BY <1>0, <1>2, <2>1, <2>2, <2>3 DEF _read_stream_entries
<1>3. CASE _renew_lock(d)
    <2>1. drainer[d] \in [phase : {"read", "projecting", "committed"}, batch : Batches]
        BY <1>3 DEF TypeOK, _renew_lock, In, DrainStep, Idle
    <2>2. ThenProjects(d).phase = "projecting" /\ ThenProjects(d).batch = drainer[d].batch
        BY <2>1 DEF ThenProjects
    <2>3. Goes(d, ThenProjects(d)) \/ Goes(d, Idle)
        BY <1>3 DEF _renew_lock
    <2> QED BY <1>0, <1>3, <2>2, <2>3 DEF _renew_lock, In, evidence, postgres
<1>4. CASE _project(d)
    <2>1. drainer[d] \in [phase : {"read", "projecting", "committed"}, batch : Batches]
        BY <1>4 DEF TypeOK, _project, In, DrainStep, Idle
    <2>2. Goes(d, [drainer[d] EXCEPT !.phase = "committed"])
        BY <1>4 DEF _project
    <2> QED BY <1>0, <1>4, <2>1, <2>2
<1>5. CASE _ACK_BATCH(d)
    BY <1>0, <1>5 DEF _ACK_BATCH, postgres
<1>6. CASE DrainerDies(d)
    BY <1>0, <1>6 DEF DrainerDies, postgres
<1> QED BY <1>1, <1>2, <1>3, <1>4, <1>5, <1>6 DEF Drain

\* EvidenceInv holds initially.
LEMMA EvidenceInit == Init => EvidenceInv
BY DEF Init, EvidenceInv, InLog, Idle

\* An admission keeps EvidenceInv.
LEMMA AdmitsKeepsEvidence ==
    ASSUME LiveInv, EvidenceInv, NEW b \in Batches, Admits(b)
    PROVE  EvidenceInv'
<1>1. /\ \A c : InLog(c) => InLog(c)'
      /\ \A c : InLog(c)' => InLog(c) \/ (c = b /\ b \in stream')
      /\ stream \subseteq stream'
    <2>1. CASE UNCHANGED <<log, stream>>
        BY <2>1, SameLog
    <2>2. CASE ~InLog(b) /\ log' = log \o <<b>> /\ stream' = stream \cup {b}
        BY <2>2, Appending DEF LiveInv
    <2> QED BY <2>1, <2>2, AdmissionAdds
<1>2. UNCHANGED <<drainer, projected, run, persister>>
    BY DEF Admits, postgres
<1>3. b \in stream' => InLog(b)'
    BY AdmitsKeepsLive DEF LiveInv, AdmissionInv
<1>4. \A c \in accepted' : InLog(c)'
    BY <1>1, <1>3, AdmissionAdds DEF Admits, Accept, AddEntry, EvidenceInv
<1>5. \A c \in Batches : receipt'[c] \in {"accepted", "projected"} => InLog(c)'
    <2>1. receipt'[b] = "accepted" => b \in stream'
        BY AdmissionAdds DEF LiveInv, TypeOK
    <2>2. \/ receipt' = [receipt EXCEPT ![b] = "accepted"]
          \/ receipt' = [receipt EXCEPT ![b] = "staged"]
        BY AdmissionAdds
    <2>3. /\ receipt'[b] \in {"accepted", "staged"}
          /\ \A c \in Batches \ {b} : receipt'[c] = receipt[c]
        BY <2>2 DEF LiveInv, TypeOK
    <2> QED BY <1>1, <1>3, <2>1, <2>3 DEF EvidenceInv
<1>6. run # "finished" /\ \A p \in Persisters : persister[p] = "idle"
    BY AdmissionAdds DEF EvidenceInv
<1> QED BY <1>1, <1>2, <1>4, <1>5, <1>6 DEF EvidenceInv

\* The steps of a drainer keep EvidenceInv.
LEMMA DrainerKeepsEvidence ==
    ASSUME LiveInv, EvidenceInv, NEW d \in Drainers, Drain(d) \/ DrainerDies(d)
    PROVE  EvidenceInv'
<1>0. \A c : InLog(c)' <=> InLog(c)
    BY DrainerChanges, SameLog DEF LiveInv
<1>1. projected \subseteq projected' /\ \A c \in projected' : InLog(c)
    BY DrainerMoves DEF _project, In, EvidenceInv, LiveInv
<1>2. ASSUME NEW e \in Drainers
      PROVE  /\ drainer'[e].phase \in {"read", "projecting", "committed"}
                    => InLog(drainer'[e].batch)
             /\ drainer'[e].phase = "committed" => drainer'[e].batch \in projected'
    <2>1. CASE e # d
        BY <1>1, <2>1, DrainerMoves DEF EvidenceInv, LiveInv
    <2>2. CASE e = d
        <3>1. CASE drainer'[d] = Idle \/ drainer'[d].phase = "locked"
            BY <2>2, <3>1 DEF Idle
        <3>2. CASE drainer'[d].phase = "read" /\ drainer'[d].batch \in stream
            BY <2>2, <3>2 DEF LiveInv, AdmissionInv
        <3>3. CASE /\ drainer'[d].phase = "projecting" /\ drainer[d].phase = "read"
                   /\ drainer'[d].batch = drainer[d].batch
            BY <2>2, <3>3 DEF EvidenceInv
        <3>4. CASE /\ drainer'[d].phase = "committed" /\ drainer'[d].batch = drainer[d].batch
                   /\ _project(d)
            BY <2>2, <3>4 DEF EvidenceInv, _project, In
        <3> QED BY <3>1, <3>2, <3>3, <3>4, DrainerMoves DEF LiveInv
    <2> QED BY <2>1, <2>2
<1>3. CASE UNCHANGED <<receipt, pending, stream, expires>>
    BY <1>0, <1>1, <1>2, <1>3, DrainerChanges DEF EvidenceInv, LiveInv
<1>4. CASE _ACK_BATCH(d) /\ MayAck(d)
    <2> DEFINE b == drainer[d].batch
    <2>1. /\ b \in Batches /\ b \in projected /\ InLog(b)
          /\ receipt' = [receipt EXCEPT ![b] = "projected"] /\ stream' = stream \ {b}
        BY <1>4, DrainerShape DEF _ACK_BATCH, MayAck, LiveInv, In, EvidenceInv
    <2>2. \A c \in Batches : receipt'[c] \in {"accepted", "projected"} => InLog(c)
        BY <2>1 DEF EvidenceInv, LiveInv, TypeOK
    <2>3. \A c \in Batches : InLog(c) /\ c \notin stream' => c \in projected
        BY <2>1 DEF EvidenceInv
    <2> HIDE DEF b
    <2> QED BY <1>0, <1>1, <1>2, <2>1, <2>2, <2>3, DrainerChanges DEF EvidenceInv, LiveInv
<1> QED BY <1>3, <1>4, DrainerChanges DEF LiveInv

\* Every step keeps EvidenceInv.
LEMMA EvidenceStep == LiveInv /\ EvidenceInv /\ [Next]_vars => EvidenceInv'
<1> SUFFICES ASSUME LiveInv, EvidenceInv, [Next]_vars PROVE EvidenceInv'
    OBVIOUS
<1>1. ASSUME NEW b \in Batches, DuplicateBatch(b) PROVE EvidenceInv'
    BY <1>1, SameLog DEF DuplicateBatch, EvidenceInv, ledger, evidence, postgres
<1>2. CASE LockExpires \/ UNCHANGED vars
    BY <1>2, SameLog DEF LockExpires, vars, EvidenceInv, ledger, evidence, postgres
<1>3. ASSUME NEW c \in Closers, close_session(c) \/ FindsCompleted(c) \/ CloserDies(c)
      PROVE  EvidenceInv'
    <2>1. /\ UNCHANGED <<receipt, evidence, drainer, persister, projected, run, accepted>>
          /\ session' = session \/ session' = "completed"
        BY <1>3 DEF close_session, FindsActive, _CLOSE_ADMISSION, CommitClose, FinalizeClose,
                    _FINALIZE_CLOSE, FindsCompleted, CloserDies, ledger, postgres
    <2> QED BY <2>1, SameLog DEF EvidenceInv, evidence
<1>4. ASSUME NEW p \in Persisters, persist_live_session(p) \/ PersisterDies(p)
      PROVE  EvidenceInv'
    <2>1. UNCHANGED <<receipt, evidence, drainer, projected, session, accepted>>
        BY <1>4 DEF persist_live_session, _drain_live_evidence_before_finalize, CommitRun,
                    PersistEnds, _FINALIZE_CLOSE, PersisterDies, ledger, postgres
    <2>2. /\ run' = run \/ persister[p] # "idle"
          /\ \A q \in Persisters : persister'[q] # "idle" =>
                \/ \E r \in Persisters : persister[r] # "idle"
                \/ session = "completed" /\ stream = {}
        BY <1>4 DEF persist_live_session, _drain_live_evidence_before_finalize, CommitRun,
                    PersistEnds, PersisterDies, NothingLeft, LiveInv, TypeOK, CloseInv, postgres
    <2>3. (run' = "finished" \/ \E q \in Persisters : persister'[q] # "idle")
              => session = "completed" /\ stream = {}
        BY <2>2 DEF EvidenceInv
    <2> QED BY <2>1, <2>3, SameLog DEF EvidenceInv, evidence
<1>5. CASE LedgerExpires
    BY <1>5, SameLog DEF LedgerExpires, EvidenceInv, evidence, postgres
<1> QED BY <1>1, <1>2, <1>3, <1>4, <1>5, Steps, AdmitsKeepsEvidence, DrainerKeepsEvidence

\* The evidence is accounted for in every reachable state.
LEMMA EvidenceInvariant == Spec => [](LiveInv /\ EvidenceInv)
BY LiveInit, LiveStep, EvidenceInit, EvidenceStep, PTL DEF Spec

\* A finished run holds every batch a client was told is accepted, and no
\* batch is admitted later, also when the ledger of the run has expired.
THEOREM FinishedRunsAreComplete == Spec => []FinishedRunIsComplete
<1>1. LiveInv /\ EvidenceInv => FinishedRunIsComplete
    BY DEF LiveInv, TypeOK, EvidenceInv, FinishedRunIsComplete
<1> QED BY <1>1, EvidenceInvariant, PTL

(***************************************************************************)
(* The retention.                                                          *)
(***************************************************************************)
\* A closed ledger with nothing pending has its retention.
THEOREM RetentionIsAlwaysSet == Spec => []RetentionIsSet
<1>1. Init => RetentionIsSet
    BY DEF Init, RetentionIsSet
<1>2. LiveInv /\ RetentionIsSet /\ [Next]_vars => RetentionIsSet'
    <2> SUFFICES ASSUME LiveInv, RetentionIsSet, [Next]_vars PROVE RetentionIsSet'
        OBVIOUS
    <2>1. ASSUME NEW b \in Batches, Admits(b) \/ DuplicateBatch(b) PROVE RetentionIsSet'
        <3>1. UNCHANGED <<gate, expires>> /\ pending \subseteq pending'
            BY <2>1, AdmissionAdds DEF Admits, DuplicateBatch, ledger
        <3> QED BY <3>1 DEF RetentionIsSet
    <2>2. ASSUME NEW d \in Drainers, Drain(d) \/ DrainerDies(d) PROVE RetentionIsSet'
        <3>1. UNCHANGED gate
            BY <2>2, DrainerChanges DEF LiveInv
        <3>2. CASE UNCHANGED <<receipt, pending, stream, expires>>
            BY <3>1, <3>2 DEF RetentionIsSet
        <3>3. CASE _ACK_BATCH(d) /\ MayAck(d)
            BY <3>1, <3>3 DEF _ACK_BATCH, RetentionBegins, RetentionIsSet
        <3> QED BY <2>2, <3>2, <3>3, DrainerChanges DEF LiveInv
    <2>3. CASE LockExpires \/ UNCHANGED vars
        BY <2>3 DEF LockExpires, vars, ledger, RetentionIsSet
    <2>4. ASSUME NEW c \in Closers, close_session(c) \/ FindsCompleted(c) \/ CloserDies(c)
          PROVE  RetentionIsSet'
        BY <2>4 DEF close_session, FindsActive, _CLOSE_ADMISSION, CommitClose, FinalizeClose,
                    _FINALIZE_CLOSE, RetentionBegins, FindsCompleted, CloserDies, ledger,
                    RetentionIsSet
    <2>5. ASSUME NEW p \in Persisters, persist_live_session(p) \/ PersisterDies(p)
          PROVE  RetentionIsSet'
        BY <2>5 DEF persist_live_session, _drain_live_evidence_before_finalize, CommitRun,
                    PersistEnds, _FINALIZE_CLOSE, RetentionBegins, PersisterDies, ledger,
                    RetentionIsSet
    <2>6. CASE LedgerExpires
        BY <2>6 DEF LedgerExpires, RetentionIsSet
    <2> QED BY <2>1, <2>2, <2>3, <2>4, <2>5, <2>6, Steps
<1> QED BY <1>1, <1>2, LiveInit, LiveStep, PTL DEF Spec
(***************************************************************************)
(* The capacity.                                                           *)
(***************************************************************************)
\* One more batch takes one more place.
LEMMA OneMorePlace ==
    ASSUME NEW S, IsFiniteSet(S), NEW b, Cardinality(S) + 1 <= Capacity
    PROVE  Cardinality(S \cup {b}) <= Capacity
<1>1. Cardinality(S) \in Nat /\ (Cardinality(S \cup {b}) = Cardinality(S)
                                 \/ Cardinality(S \cup {b}) = Cardinality(S) + 1)
    BY FS_AddElement, FS_CardinalityType
<1> QED BY <1>1, LiveAssumption

\* A smaller set takes no more places.
LEMMA FewerPlaces ==
    ASSUME NEW S, NEW T, S \subseteq T, IsFiniteSet(T), Cardinality(T) <= Capacity
    PROVE  Cardinality(S) <= Capacity
<1>1. IsFiniteSet(S) /\ Cardinality(S) <= Cardinality(T)
    BY FS_Subset
<1> QED BY <1>1, FS_CardinalityType, LiveAssumption

\* What is pending or being admitted is a finite set.
LEMMA FinitelyManyPlaces ==
    ASSUME TypeOK
    PROVE  IsFiniteSet(pending) /\ IsFiniteSet(pending \cup Reserved)
<1>1. pending \subseteq Batches /\ pending \cup Reserved \subseteq Batches
    BY DEF TypeOK, Reserved
<1> QED BY <1>1, FS_Subset, LiveAssumption

\* CapacityInv holds initially.
LEMMA CapacityInit == Init => CapacityInv
<1> SUFFICES ASSUME Init PROVE CapacityInv
    OBVIOUS
<1>1. pending \cup Reserved = {} /\ pending = stream /\ expires = FALSE
    BY DEF Init, Reserved
<1>2. Cardinality({}) <= Capacity
    BY FS_EmptySet, LiveAssumption
<1> QED BY <1>1, <1>2 DEF CapacityInv

\* An admission keeps CapacityInv.
LEMMA AdmitsKeepsCapacity ==
    ASSUME LiveInv, CapacityInv, NEW b \in Batches, Admits(b)
    PROVE  CapacityInv'
<1>1. /\ pending \ {b} = stream \ {b}
      /\ Cardinality(pending \cup {b}) <= Capacity
    <2>1. CASE HasRoom /\ admitting = Nobody
        <3>1. pending = stream /\ Cardinality(pending) + 1 <= Capacity
            BY <2>1 DEF CapacityInv, HasRoom
        <3>2. Cardinality(pending \cup {b}) <= Capacity
            BY <3>1, OneMorePlace, FinitelyManyPlaces DEF LiveInv
        <3> QED BY <3>1, <3>2
    <2>2. CASE admitting = b
        <3>1. Reserved = {b}
            BY <2>2, LiveAssumption DEF Reserved
        <3> QED BY <3>1 DEF CapacityInv
    <2> QED BY <2>1, <2>2 DEF Admits
<1>2. stream' = stream \/ stream' = stream \cup {b}
    BY AdmissionAdds
<1>3. ~expires'
    BY AdmissionAdds DEF Admits, LiveInv, CloseInv, TypeOK
<1>4. CASE admitting' = Nobody /\ pending' = pending \cup {b} /\ b \in stream'
    <2>1. Reserved' = {} /\ pending' = stream'
        BY <1>1, <1>2, <1>4 DEF Reserved
    <2> HIDE DEF Reserved
    <2> QED BY <1>1, <1>3, <1>4, <2>1 DEF CapacityInv
<1>5. CASE admitting' = b /\ pending' = pending
    <2>1. Reserved' = {b} /\ admitting' # Nobody
        BY <1>5, LiveAssumption DEF Reserved
    <2> HIDE DEF Reserved
    <2> QED BY <1>1, <1>2, <1>3, <1>5, <2>1 DEF CapacityInv
<1> QED BY <1>4, <1>5, AdmissionAdds

\* An acknowledgement gives a place back.
LEMMA AckKeepsCapacity ==
    ASSUME LiveInv, CapacityInv, NEW d \in Drainers, _ACK_BATCH(d), MayAck(d)
    PROVE  CapacityInv'
<1> DEFINE b == drainer[d].batch
<1>1. /\ pending' = pending \ {b} /\ stream' = stream \ {b}
      /\ expires' = (expires \/ (pending' = {} /\ gate = "closed"))
      /\ UNCHANGED admitting
    BY DEF _ACK_BATCH, RetentionBegins
<1>2. Reserved' = Reserved
    BY <1>1 DEF Reserved
<1>3. Cardinality(pending' \cup Reserved) <= Capacity
    BY <1>1, FewerPlaces, FinitelyManyPlaces DEF CapacityInv, LiveInv
<1>4. pending' \ Reserved = stream' \ Reserved /\ (admitting' = Nobody => pending' = stream')
    BY <1>1 DEF CapacityInv
<1>5. expires' => pending' = {}
    BY <1>1 DEF CapacityInv
<1> HIDE DEF b
<1> QED BY <1>2, <1>3, <1>4, <1>5 DEF CapacityInv

\* Every step keeps CapacityInv.
LEMMA CapacityStep == LiveInv /\ CapacityInv /\ [Next]_vars => CapacityInv'
<1> SUFFICES ASSUME LiveInv, CapacityInv, [Next]_vars PROVE CapacityInv'
    OBVIOUS
<1>0. ASSUME UNCHANGED <<admitting, pending, stream>>, expires' => expires \/ pending = {}
      PROVE  CapacityInv'
    <2>1. Reserved' = Reserved
        BY <1>0 DEF Reserved
    <2> QED BY <1>0, <2>1 DEF CapacityInv
<1>1. ASSUME NEW b \in Batches, DuplicateBatch(b) PROVE CapacityInv'
    BY <1>0, <1>1 DEF DuplicateBatch, ledger, evidence
<1>2. ASSUME NEW d \in Drainers, Drain(d) \/ DrainerDies(d) PROVE CapacityInv'
    BY <1>0, <1>2, DrainerChanges, AckKeepsCapacity DEF LiveInv
<1>3. CASE LockExpires \/ UNCHANGED vars
    BY <1>0, <1>3 DEF LockExpires, vars, ledger, evidence
<1>4. ASSUME NEW c \in Closers, close_session(c) \/ FindsCompleted(c) \/ CloserDies(c)
      PROVE  CapacityInv'
    BY <1>0, <1>4 DEF close_session, FindsActive, _CLOSE_ADMISSION, CommitClose, FinalizeClose,
                      _FINALIZE_CLOSE, RetentionBegins, FindsCompleted, CloserDies, ledger,
                      evidence
<1>5. ASSUME NEW p \in Persisters, persist_live_session(p) \/ PersisterDies(p)
      PROVE  CapacityInv'
    BY <1>0, <1>5 DEF persist_live_session, _drain_live_evidence_before_finalize, CommitRun,
                      PersistEnds, _FINALIZE_CLOSE, RetentionBegins, PersisterDies, ledger,
                      evidence
<1>6. CASE LedgerExpires
    <2>1. session = "completed" /\ admitting = Nobody /\ pending = {}
        BY <1>6 DEF LedgerExpires, LiveInv, CloseInv, AdmissionInv, CapacityInv,
                    _CLOSE_ADMISSION
    <2> QED BY <1>0, <1>6, <2>1 DEF LedgerExpires, evidence
<1> QED BY <1>1, <1>2, <1>3, <1>4, <1>5, <1>6, Steps, AdmitsKeepsCapacity

\* The capacity an event takes is given back with its entry, whoever stopped
\* half way, and the stream never holds more than the run may.
THEOREM CapacityIsAlwaysGivenBack == Spec => []CapacityIsGivenBack
<1>1. LiveInv /\ CapacityInv => CapacityIsGivenBack
    <2> SUFFICES ASSUME LiveInv, CapacityInv PROVE CapacityIsGivenBack
        OBVIOUS
    <2>1. stream \subseteq pending \cup Reserved
        BY DEF CapacityInv
    <2>2. Cardinality(stream) <= Capacity
        BY <2>1, FewerPlaces, FinitelyManyPlaces DEF CapacityInv, LiveInv
    <2> QED BY <2>2 DEF CapacityInv, CapacityIsGivenBack
<1> QED BY <1>1, CapacityInit, CapacityStep, LiveInit, LiveStep, PTL DEF Spec

(***************************************************************************)
(* Who finishes a close.                                                   *)
(***************************************************************************)
\* A completed session has its intent; a task that committed has finished the run;
\* once the intent is done the ledger has its retention, or it has gone and no
\* closer fences it again.
OwnerInv ==
    /\ session = "completed" => intent # "none"
    /\ \A p \in Persisters : persister[p] = "committed" => run = "finished"
    /\ intent = "done" =>
          /\ run = "finished"
          /\ \/ expires
             \/ gate = "open" /\ \A c \in Closers : closer[c] \in {"idle", "committed"}

\* Nothing is pending in the ledger of a finished run.
LEMMA NothingPends ==
    ASSUME LiveInv, EvidenceInv, CapacityInv, session = "completed", stream = {}
    PROVE  pending = {}
<1>1. admitting = Nobody
    BY DEF LiveInv, AdmissionInv
<1> QED BY <1>1 DEF CapacityInv

\* Every step keeps the owner of a close.
LEMMA OwnerStep ==
    LiveInv /\ EvidenceInv /\ CapacityInv /\ OwnerInv /\ [Next]_vars => OwnerInv'
<1> SUFFICES ASSUME LiveInv, EvidenceInv, CapacityInv, OwnerInv, [Next]_vars
             PROVE  OwnerInv'
    OBVIOUS
<1>0. ASSUME UNCHANGED <<gate, closer, persister, session, intent, run>>, expires => expires'
      PROVE  OwnerInv'
    BY <1>0 DEF OwnerInv
<1>1. ASSUME NEW b \in Batches, Admits(b) \/ DuplicateBatch(b) PROVE OwnerInv'
    <2>1. UNCHANGED <<gate, expires, closer, persister, session, intent, run>>
        BY <1>1, AdmissionAdds DEF Admits, DuplicateBatch, ledger, postgres
    <2> QED BY <1>0, <2>1
<1>2. ASSUME NEW d \in Drainers, Drain(d) \/ DrainerDies(d) PROVE OwnerInv'
    <2>1. UNCHANGED <<gate, closer, persister, session, intent, run>>
        BY <1>2, DrainerChanges DEF LiveInv
    <2>2. ASSUME _ACK_BATCH(d), MayAck(d), expires PROVE expires'
        BY <2>2 DEF _ACK_BATCH, RetentionBegins
    <2>3. ASSUME expires PROVE expires'
        BY <1>2, <2>2, <2>3, DrainerChanges DEF LiveInv
    <2> QED BY <1>0, <2>1, <2>3
<1>3. CASE LockExpires \/ UNCHANGED vars
    BY <1>0, <1>3 DEF LockExpires, vars, ledger, postgres
<1>4. ASSUME NEW c \in Closers, close_session(c) \/ FindsCompleted(c) \/ CloserDies(c)
      PROVE  OwnerInv'
    <2>1. CASE FindsActive(c)
        <3>1. session = "active" /\ intent # "done"
            BY <2>1 DEF FindsActive, LiveInv, CloseInv
        <3>2. UNCHANGED <<persister, session, intent, run>>
            BY <2>1 DEF FindsActive, postgres
        <3> QED BY <3>1, <3>2 DEF OwnerInv
    <2>2. CASE FindsCompleted(c) \/ CloserDies(c)
        <3>1. UNCHANGED <<gate, expires, persister, session, intent, run>>
            BY <2>2 DEF FindsCompleted, CloserDies, ledger, postgres
        <3>2. closer' = [closer EXCEPT ![c] = "committed"] \/ closer' = [closer EXCEPT ![c] = "idle"]
            BY <2>2 DEF FindsCompleted, CloserDies
        <3>3. \A e \in Closers : closer'[e] \in {closer[e], "idle", "committed"}
            BY <3>2 DEF LiveInv, TypeOK
        <3> QED BY <3>1, <3>3 DEF OwnerInv
    <2>3. CASE _CLOSE_ADMISSION(c)
        <3>1. /\ closer[c] = "read"
              /\ UNCHANGED <<expires, persister, session, intent, run>>
            BY <2>3 DEF _CLOSE_ADMISSION, postgres
        <3> QED BY <3>1 DEF OwnerInv
    <2>4. CASE CommitClose(c)
        <3>1. /\ closer[c] = "fenced" /\ intent' # "none" /\ (intent' = "done" => intent = "done")
              /\ UNCHANGED <<gate, expires, persister, run>>
            BY <2>4 DEF CommitClose, ledger, LiveInv, TypeOK
        <3> QED BY <3>1 DEF OwnerInv
    <2>5. CASE FinalizeClose(c)
        <3>1. /\ session = "completed" /\ UNCHANGED <<persister, session, intent, run>>
              /\ expires' = (expires \/ pending = {})
            BY <2>5 DEF FinalizeClose, _FINALIZE_CLOSE, RetentionBegins, postgres, LiveInv, CloseInv
        <3>2. intent = "done" => pending = {}
            BY <3>1, NothingPends DEF OwnerInv, EvidenceInv
        <3> QED BY <3>1, <3>2 DEF OwnerInv
    <2> QED BY <1>4, <2>1, <2>2, <2>3, <2>4, <2>5 DEF close_session
<1>5. ASSUME NEW p \in Persisters, persist_live_session(p) \/ PersisterDies(p)
      PROVE  OwnerInv'
    <2>1. CASE _drain_live_evidence_before_finalize(p) \/ PersisterDies(p)
        <3>1. /\ UNCHANGED <<gate, expires, closer, session, intent, run>>
              /\ \A q \in Persisters : persister'[q] \in {persister[q], "drained", "idle"}
            BY <2>1 DEF _drain_live_evidence_before_finalize, PersisterDies, ledger, postgres,
                        LiveInv, TypeOK
        <3> QED BY <3>1 DEF OwnerInv
    <2>2. CASE CommitRun(p)
        BY <2>2 DEF CommitRun, ledger, OwnerInv
    <2>3. CASE PersistEnds(p)
        <3>1. /\ persister[p] = "committed" /\ intent' = "done"
              /\ UNCHANGED <<closer, session, run>>
              /\ expires' = (expires \/ pending = {})
              /\ \A q \in Persisters : persister'[q] \in {persister[q], "idle"}
            BY <2>3 DEF PersistEnds, _FINALIZE_CLOSE, RetentionBegins, LiveInv, TypeOK
        <3>2. run = "finished" /\ pending = {}
            BY <3>1, NothingPends DEF OwnerInv, EvidenceInv
        <3> QED BY <3>1, <3>2 DEF OwnerInv
    <2> QED BY <1>5, <2>1, <2>2, <2>3 DEF persist_live_session
<1>6. CASE LedgerExpires
    BY <1>6 DEF LedgerExpires, postgres, OwnerInv
<1> QED BY <1>1, <1>2, <1>3, <1>4, <1>5, <1>6, Steps

\* A fence is never left behind: the session is active, its intent is staged, or
\* all is done (ClosingIsOwned: close_session stages the intent in the transaction
\* that completes the session, and the task finalizes the ledger before it ends).
THEOREM ClosesAreOwned == Spec => []ClosingIsOwned
<1>1. Init => OwnerInv
    BY DEF Init, OwnerInv
<1>2. LiveInv /\ OwnerInv => ClosingIsOwned
    BY DEF LiveInv, TypeOK, OwnerInv, ClosingIsOwned
<1> QED BY <1>1, <1>2, OwnerStep, LiveInit, LiveStep, EvidenceInit, EvidenceStep,
           CapacityInit, CapacityStep, PTL DEF Spec

(***************************************************************************)
(* The order of results.                                                   *)
(***************************************************************************)
\* OrderInv holds initially.
LEMMA OrderInit == Init => OrderInv
BY DEF Init, OrderInv, Idle

\* An admission adds to the end of the log, after what was projected and what
\* a drainer is working on.
LEMMA AdmitsKeepsOrder ==
    ASSUME LiveInv, EvidenceInv, OrderInv, NEW b \in Batches, Admits(b)
    PROVE  OrderInv'
<1>1. UNCHANGED <<drainer, lock, projected, row>>
    BY DEF Admits, postgres
<1>2. CASE UNCHANGED <<log, stream>>
    BY <1>1, <1>2, SameLog DEF OrderInv
<1>3. CASE ~InLog(b) /\ log' = log \o <<b>> /\ stream' = stream \cup {b}
    <2>1. /\ \A c, e : Before(c, e) => Before(c, e)'
          /\ \A c : InLog(c) => Before(c, b)'
        BY <1>3, Appending DEF LiveInv
    <2>2. ASSUME NEW d \in Drainers, drainer'[d].phase \in {"read", "projecting"}
          PROVE  /\ drainer'[d].batch \in stream'
                 /\ \A c \in stream' \ {drainer'[d].batch} : Before(drainer[d].batch, c)'
        <3>0. PICK e : drainer[d].batch = e
            OBVIOUS
        <3>1. e \in stream /\ InLog(e) /\ (\A c \in stream \ {e} : Before(e, c))
            BY <1>1, <2>2, <3>0 DEF OrderInv, EvidenceInv
        <3>2. drainer'[d].batch = e
            BY <1>1, <3>0
        <3>3. \A c \in stream' \ {e} : Before(e, c)'
            BY <1>3, <2>1, <3>1
        <3> QED BY <1>3, <3>1, <3>2, <3>3
    <2>3. \A p \in projected' : \A c \in stream' : p = c \/ Before(p, c)'
        BY <1>1, <1>3, <2>1 DEF OrderInv, EvidenceInv
    <2>4. \A c \in projected' : row' = c \/ Before(c, row)'
        BY <1>1, <2>1 DEF OrderInv
    <2> QED BY <1>1, <2>2, <2>3, <2>4 DEF OrderInv
<1> QED BY <1>2, <1>3, AdmissionAdds

\* The steps of a drainer keep the order.
LEMMA DrainerKeepsOrder ==
    ASSUME LiveInv, OrderInv, NEW d \in Drainers, Drain(d) \/ DrainerDies(d)
    PROVE  OrderInv'
<1>0. \A c, e : Before(c, e)' <=> Before(c, e)
    BY DrainerChanges, SameLog DEF LiveInv
<1>1. stream' \subseteq stream
    BY DrainerChanges DEF LiveInv, _ACK_BATCH
<1>2. drainer[d].phase # "idle" => \A e \in Drainers \ {d} : drainer[e].phase = "idle"
    BY DEF OrderInv
<1>3. ASSUME NEW e \in Drainers, drainer'[e].phase # "idle"
      PROVE  lock' = e
    <2>1. CASE e # d
        <3>1. drainer[e].phase # "idle" /\ drainer[d].phase = "idle" /\ lock = e
            BY <1>2, <1>3, <2>1, DrainerMoves DEF LiveInv, OrderInv
        <3>2. FALSE
            BY <3>1, LiveAssumption
               DEF Drain, _acquire_lock, _read_stream_entries, _renew_lock, _project, _ACK_BATCH,
                   DrainerDies, In
        <3> QED BY <3>2
    <2>2. CASE e = d
        <3>1. CASE _acquire_lock(d)
            BY <2>2, <3>1 DEF _acquire_lock
        <3>2. CASE drainer[d].phase # "idle" /\ UNCHANGED lock
            BY <2>2, <3>2 DEF OrderInv
        <3>3. CASE drainer'[d] = Idle
            BY <1>3, <2>2, <3>3 DEF Idle
        <3> QED BY <3>1, <3>2, <3>3, DrainerMoves DEF LiveInv, _project, In
    <2> QED BY <2>1, <2>2
<1>4. ASSUME NEW e \in Drainers, drainer'[e].phase \in {"read", "projecting"}
      PROVE  /\ drainer'[e].batch \in stream'
             /\ \A c \in stream' \ {drainer'[e].batch} : Before(drainer'[e].batch, c)
    <2>1. e = d /\ drainer[d].phase # "idle"
        <3>1. lock' = e
            BY <1>3, <1>4
        <3>2. CASE e # d
            <4>1. drainer[e].phase # "idle"
                BY <1>4, <3>2, DrainerMoves DEF LiveInv
            <4>2. lock = e /\ drainer[d].phase = "idle"
                BY <1>2, <3>2, <4>1 DEF OrderInv
            <4>3. FALSE
                BY <4>2, LiveAssumption
                   DEF Drain, _acquire_lock, _read_stream_entries, _renew_lock, _project,
                       _ACK_BATCH, DrainerDies, In
            <4> QED BY <4>3
        <3>3. CASE e = d
            <4>1. drainer'[d].phase \notin {"idle", "locked", "committed"}
                BY <1>4, <3>3
            <4>2. drainer[d].phase \in {"locked", "read"}
                BY <4>1, DrainerMoves DEF LiveInv, Idle
            <4> QED BY <3>3, <4>2
        <3> QED BY <3>2, <3>3
    <2>2. CASE /\ drainer'[d].phase = "read" /\ drainer'[d].batch \in stream
               /\ IsNext(drainer'[d].batch) /\ UNCHANGED stream
        BY <2>1, <2>2 DEF IsNext
    <2>3. CASE /\ drainer'[d].phase = "projecting" /\ drainer[d].phase = "read"
               /\ drainer'[d].batch = drainer[d].batch /\ UNCHANGED stream
        BY <2>1, <2>3 DEF OrderInv
    <2> QED BY <1>4, <2>1, <2>2, <2>3, DrainerMoves DEF LiveInv, Idle
<1>5. CASE UNCHANGED <<projected, row>>
    BY <1>0, <1>1, <1>3, <1>4, <1>5 DEF OrderInv
<1>6. CASE _project(d)
    <2> DEFINE b == drainer[d].batch
    <2>1. /\ projected' = projected \cup {b} /\ row' = b /\ UNCHANGED stream
          /\ b \in stream /\ \A c \in stream \ {b} : Before(b, c)
        BY <1>6 DEF _project, In, OrderInv, evidence
    <2>2. \A p \in projected' : \A c \in stream' : p = c \/ Before(p, c)
        BY <2>1 DEF OrderInv
    <2>3. \A c \in projected' : row' = c \/ Before(c, row')
        BY <2>1 DEF OrderInv
    <2> HIDE DEF b
    <2> QED BY <1>0, <1>3, <1>4, <2>2, <2>3 DEF OrderInv
<1> QED BY <1>5, <1>6, DrainerMoves DEF LiveInv

\* Where the time limits hold, every step keeps the order.
LEMMA OrderStep ==
    TimeLimits /\ LiveInv /\ EvidenceInv /\ OrderInv /\ [Next]_vars => OrderInv'
<1> SUFFICES ASSUME TimeLimits, LiveInv, EvidenceInv, OrderInv, [Next]_vars PROVE OrderInv'
    OBVIOUS
<1>0. ASSUME UNCHANGED <<evidence, drainer, lock, projected, row>> PROVE OrderInv'
    BY <1>0, SameLog DEF OrderInv, evidence
<1>1. ASSUME NEW b \in Batches, DuplicateBatch(b) PROVE OrderInv'
    BY <1>0, <1>1 DEF DuplicateBatch, postgres
<1>2. CASE LockExpires
    <2>1. UNCHANGED <<evidence, drainer, projected, row>> /\ lock' = Nobody
        BY <1>2 DEF LockExpires, postgres
    <2>2. \A d \in Drainers : drainer[d].phase = "idle"
        BY <1>2 DEF LockExpires, Lapses, In, OrderInv
    <2> QED BY <2>1, <2>2, SameLog DEF OrderInv, evidence
<1>3. CASE UNCHANGED vars
    BY <1>0, <1>3 DEF vars, postgres
<1>4. ASSUME NEW c \in Closers, close_session(c) \/ FindsCompleted(c) \/ CloserDies(c)
      PROVE  OrderInv'
    BY <1>0, <1>4 DEF close_session, FindsActive, _CLOSE_ADMISSION, CommitClose, FinalizeClose,
                      FindsCompleted, CloserDies, postgres
<1>5. ASSUME NEW p \in Persisters, persist_live_session(p) \/ PersisterDies(p)
      PROVE  OrderInv'
    BY <1>0, <1>5 DEF persist_live_session, _drain_live_evidence_before_finalize, CommitRun,
                      PersistEnds, PersisterDies, postgres
<1>6. CASE LedgerExpires
    BY <1>0, <1>6 DEF LedgerExpires, postgres
<1> QED BY <1>1, <1>2, <1>3, <1>4, <1>5, <1>6, Steps, AdmitsKeepsOrder, DrainerKeepsOrder

\* Where a drainer commits and acknowledges within its lock, the row of a test
\* shows the newest of the results projected.
THEOREM NewestResultAlwaysWins == Spec => []NewestResultWins
<1>1. CASE TimeLimits
    <2>1. LiveInv /\ EvidenceInv /\ OrderInv /\ [Next]_vars => OrderInv'
        BY <1>1, OrderStep
    <2>2. OrderInv => NewestResultWins
        BY DEF OrderInv, NewestResultWins
    <2> QED BY <2>1, <2>2, OrderInit, EvidenceInvariant, PTL DEF Spec
<1>2. CASE ~TimeLimits
    <2>1. NewestResultWins
        BY <1>2 DEF NewestResultWins
    <2> QED BY <2>1, PTL
<1> QED BY <1>1, <1>2
(***************************************************************************)
(* Refinement of AtLeastOnce.                                              *)
(***************************************************************************)
\* A step that leaves the log, the stream and the projections alone is a
\* stutter of AtLeastOnce.
LEMMA Stutters ==
    ASSUME UNCHANGED <<log, stream, projected>>
    PROVE  UNCHANGED <<state, projected>>
<1>1. \A b : InLog(b)' <=> InLog(b)
    BY SameLog
<1>2. state' = state
    BY <1>1 DEF state
<1> QED BY <1>2

\* Each of the steps that move an entry, as a step of AtLeastOnce.
LEMMA AdmissionRefines ==
    ASSUME LiveInv, NEW b \in Batches, Admits(b)
    PROVE  Outbox!Next \/ UNCHANGED <<state, projected>>
<1>1. UNCHANGED projected
    BY AdmissionAdds DEF postgres
<1>2. CASE UNCHANGED <<log, stream>>
    BY <1>1, <1>2, Stutters
<1>3. CASE ~InLog(b) /\ log' = log \o <<b>> /\ stream' = stream \cup {b}
    <2>1. \A c : InLog(c)' <=> InLog(c) \/ c = b
        BY <1>3, Appending DEF LiveInv
    <2>2. \A c \in {b} : state[c] = "none"
        BY <1>3 DEF state
    <2>3. state' = [c \in Batches |-> IF c \in {b} THEN "open" ELSE state[c]]
        BY <1>3, <2>1 DEF state
    <2>4. Outbox!Create({b})
        BY <1>1, <2>2, <2>3 DEF Outbox!Create, Outbox!Moves
    <2> QED BY <2>4 DEF Outbox!Next
<1> QED BY <1>2, <1>3, AdmissionAdds

\* A projection performs the batch; an acknowledgement finishes it.
LEMMA DrainerRefines ==
    ASSUME LiveInv, EvidenceInv, NEW d \in Drainers, Drain(d) \/ DrainerDies(d)
    PROVE  Outbox!Next \/ UNCHANGED <<state, projected>>
<1> DEFINE b == drainer[d].batch
<1>0. UNCHANGED log /\ \A c : InLog(c)' <=> InLog(c)
    BY DrainerChanges, SameLog DEF LiveInv
<1>1. CASE _project(d)
    <2>1. b \in Batches /\ InLog(b) /\ projected' = projected \cup {b} /\ UNCHANGED stream
        BY <1>1, DrainerShape DEF _project, In, LiveInv, EvidenceInv, evidence
    <2>2. UNCHANGED state
        BY <1>0, <2>1 DEF state
    <2>3. state[b] # "none"
        BY <2>1 DEF state
    <2>4. Outbox!Perform(b)
        BY <2>1, <2>2, <2>3 DEF Outbox!Perform
    <2> QED BY <2>1, <2>4 DEF Outbox!Next
<1>2. CASE _ACK_BATCH(d) /\ MayAck(d)
    <2>1. /\ b \in Batches /\ b \in stream /\ InLog(b) /\ b \in projected
          /\ stream' = stream \ {b} /\ UNCHANGED projected
        BY <1>2, DrainerShape DEF _ACK_BATCH, MayAck, In, LiveInv, EvidenceInv, postgres
    <2>2. \A c \in {b} : state[c] = "open"
        BY <2>1 DEF state
    <2>3. state' = [c \in Batches |-> IF c \in {b} THEN "done" ELSE state[c]]
        BY <1>0, <2>1 DEF state
    <2>4. Outbox!Finish({b})
        BY <2>1, <2>2, <2>3 DEF Outbox!Finish, Outbox!Moves
    <2>5. {b} \in SUBSET Batches
        BY <2>1
    <2> QED BY <2>4, <2>5 DEF Outbox!Next
<1>3. CASE ~_project(d) /\ UNCHANGED stream
    BY <1>0, <1>3, DrainerMoves, Stutters DEF LiveInv
<1>4. CASE _project(d) \/ UNCHANGED stream \/ (_ACK_BATCH(d) /\ MayAck(d))
    BY <1>1, <1>2, <1>3, <1>4
<1> QED BY <1>4, DrainerChanges DEF LiveInv

\* Every step of the live evidence is a step of AtLeastOnce or a stutter.
LEMMA StepRefines ==
    LiveInv /\ EvidenceInv /\ [Next]_vars => [Outbox!Next]_<<state, projected>>
<1> SUFFICES ASSUME LiveInv, EvidenceInv, [Next]_vars
             PROVE  Outbox!Next \/ UNCHANGED <<state, projected>>
    OBVIOUS
<1>1. ASSUME NEW b \in Batches, DuplicateBatch(b) PROVE UNCHANGED <<state, projected>>
    BY <1>1, Stutters DEF DuplicateBatch, evidence, postgres
<1>2. CASE LockExpires \/ LedgerExpires \/ UNCHANGED vars
    BY <1>2, Stutters DEF LockExpires, LedgerExpires, vars, evidence, postgres
<1>3. ASSUME NEW c \in Closers, close_session(c) \/ FindsCompleted(c) \/ CloserDies(c)
      PROVE  UNCHANGED <<state, projected>>
    BY <1>3, Stutters DEF close_session, FindsActive, _CLOSE_ADMISSION, CommitClose,
                          FinalizeClose, FindsCompleted, CloserDies, evidence, postgres
<1>4. ASSUME NEW p \in Persisters, persist_live_session(p) \/ PersisterDies(p)
      PROVE  UNCHANGED <<state, projected>>
    BY <1>4, Stutters DEF persist_live_session, _drain_live_evidence_before_finalize, CommitRun,
                          PersistEnds, PersisterDies, evidence, postgres
<1> QED BY <1>1, <1>2, <1>3, <1>4, Steps, AdmissionRefines, DrainerRefines

\* The live evidence implements AtLeastOnce: an entry leaves the stream only
\* after it was projected, and never returns (drain_run_buffer, _ACK_BATCH).
THEOREM LiveImplementsAtLeastOnce == Spec => ImplementsAtLeastOnce
<1>1. Init => Outbox!Init
    BY DEF Init, Outbox!Init, state, InLog
<1> QED BY <1>1, LiveInit, LiveStep, EvidenceInit, EvidenceStep, StepRefines, PTL
        DEF Spec, ImplementsAtLeastOnce, Outbox!Spec
=============================================================================
