---------------------------- MODULE MCAgentJobQueue ----------------------------
(* Instances of AgentJobQueue for TLC. *)
EXTENDS AgentJobProps, TLC

\* Workers are interchangeable when none of them is singled out.
WorkerSymmetry == Permutations(Workers)
=============================================================================
