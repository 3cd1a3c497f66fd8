------------------------- MODULE MCProbeSupervisor -------------------------
(* An instance of ProbeSupervisor: an update to a good build, one to a bad  *)
(* build and one back to the build the probe came with.                     *)
EXTENDS ProbeSupervisor

MCBuilds   == {"A", "B", "C"}
MCBad      == {"C"}
MCAttempts == {"toB", "toC", "toA"}
MCTarget   == [a \in MCAttempts |-> CASE a = "toB" -> "B" [] a = "toC" -> "C" [] a = "toA" -> "A"]
=============================================================================
