--------------------------- MODULE MCCertManager ---------------------------
(* Model values and symmetry for the runs of CertManager.                  *)
EXTENDS CertManager, TLC

CONSTANTS r1, r2

OneReplica == {r1}
TwoReplicas == {r1, r2}
Symmetry == Permutations(TwoReplicas)
=============================================================================
