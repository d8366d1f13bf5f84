------------------------- MODULE MCAgentPipelineRun -------------------------
(***************************************************************************)
(* Instances of AgentPipelineRun for TLC.  The cfg files pick the trigger, *)
(* the stages, the ceilings and the faults of each run.                    *)
(***************************************************************************)
EXTENDS AgentPipelineRun, TLC

\* Worker slots are interchangeable.
Symmetry == Permutations(Workers)
=============================================================================
