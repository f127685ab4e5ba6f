------------------------------ MODULE MCMulti ------------------------------
(* One application on a main and an additional server: deployment m queues x *)
(* when it finishes, and n is a request for the additional server alone.     *)
EXTENDS DeploymentQueue, TLC

CONSTANTS m, x, n

MCApp     == [d \in Deployments |-> "a"]
MCSlot    == [d \in Deployments |-> "a0"]
MCServer  == m :> "s1" @@ x :> "s2" @@ n :> "s2"
MCCommit  == m :> "c1" @@ x :> "c1" @@ n :> "c2"
MCParent  == m :> NoDep @@ x :> m @@ n :> NoDep
MCPrimary == [a \in Apps |-> "s1"]
MCBuilds  == [s \in Servers |-> 1]
MCLimit   == [s \in Servers |-> 1]

ProcSymmetry == Permutations(Procs)
=============================================================================
