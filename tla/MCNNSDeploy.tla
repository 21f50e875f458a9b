---------------------------- MODULE MCNNSDeploy ----------------------------
(* Model-checking instance of NNSDeploy: one node with deployment          *)
(* authority and one passive replica, transactions valid for two blocks,   *)
(* and a chain long enough for a transaction to expire and be resent.      *)
(* The .cfg files choose the restarts, lost Deploy responses and the set   *)
(* of nodes holding deployment authority.                                 *)
EXTENDS NNSDeploy, TLC

CONSTANTS n1, n2

MCNodes == {n1, n2}
MCDeployers == {n1}
MCTwoDeployers == {n1, n2}
MCMaxHeight == 5
MCShortChain == 4
MCVubIncrement == 2
=============================================================================
