---------------------------- MODULE MCAgentJobs ----------------------------
(* AgentJobs for TLC: interchangeable operators. *)
EXTENDS AgentJobs, TLC

OperatorSymmetry == Permutations(Operators)

=============================================================================
