-------------------------- MODULE MCRegistrySecret --------------------------
(***************************************************************************)
(* Instances of RegistrySecret for TLC: a deployment and a stateful set    *)
(* that share a namespace, and a deployment in one of its own.             *)
(***************************************************************************)
EXTENDS RegistrySecret

MCNsOf == [w \in Workloads |-> IF w = "d2" THEN "n2" ELSE "n1"]
=============================================================================
