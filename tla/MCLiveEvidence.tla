--------------------------- MODULE MCLiveEvidence ---------------------------
(***************************************************************************)
(* Instances of LiveEvidence for TLC: batches of one session, two drainers *)
(* and two closers.                                                        *)
(***************************************************************************)
EXTENDS LiveEvidence
=============================================================================
