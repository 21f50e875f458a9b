------------------------- MODULE MCManifestGroup -------------------------
(* Model-checking instance of ManifestGroup: three group keys, three       *)
(* deployer accounts, manifests of up to three groups.                     *)
EXTENDS ManifestGroup, TLC

CONSTANTS k1, k2, k3, d1, d2, d3

MCKeys == {k1, k2, k3}
MCDeployers == {d1, d2, d3}
=============================================================================
