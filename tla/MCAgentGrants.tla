---------------------------- MODULE MCAgentGrants ----------------------------
(* AgentGrants on small instances.                                         *)
EXTENDS AgentGrants, TLC

CONSTANTS planner, worker   \* the agents of an instance

\* One agent that delegates twice, to itself.
DepthOfOne == planner :> 2

\* The planner may delegate, the worker may not.
DepthsOfTwo == (planner :> 1) @@ (worker :> 0)

RequestSymmetry == Permutations(Requests)
=============================================================================
