------------------------------ MODULE MCQueue ------------------------------
(* Deployments d1 and d2 belong to one application, d3 to a pull request of *)
(* another; all run on one server.                                          *)
EXTENDS DeploymentQueue, TLC

CONSTANTS d1, d2, d3

MCApp     == [d \in Deployments |-> IF d = d3 THEN "b" ELSE "a"]
MCSlot    == [d \in Deployments |-> IF d = d3 THEN "b7" ELSE "a0"]
MCServer  == [d \in Deployments |-> "s"]
MCCommit  == [d \in Deployments |-> d]
MCParent  == [d \in Deployments |-> NoDep]
MCPrimary == [a \in Apps |-> "s"]
MCBuilds  == [s \in Servers |-> 1]
MCLimit   == [s \in Servers |-> 1]

ProcSymmetry == Permutations(Procs)
=============================================================================
