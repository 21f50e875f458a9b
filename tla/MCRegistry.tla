---------------------------- MODULE MCRegistry ----------------------------
(* Model-checking instance of Registry: two domain names, two contracts,   *)
(* up to two records per domain, so that the first record can differ from *)
(* the others in encoding and in the contract it names.                   *)
EXTENDS Registry, TLC

CONSTANTS a1, a2, c1, c2

MCNames == {a1, a2}
MCContracts == {c1, c2}
=============================================================================
