----------------------- MODULE MCRunDownstreamOutbox -----------------------
(***************************************************************************)
(* Instances of RunDownstreamOutbox for TLC: one run "r" with a live-close *)
(* intent "l" and the finalization children "c" and "d".  The cfg files    *)
(* pick the intents and the processes of each run.                         *)
(***************************************************************************)
EXTENDS RunDownstreamOutbox, TLC

AllRunOf == [i \in Intents |-> "r"]

\* Publishers, workers and finalizers are interchangeable.
Symmetry == Permutations(Publishers) \cup Permutations(Workers)
            \cup Permutations(Finalizers)
=============================================================================
