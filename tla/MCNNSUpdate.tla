---------------------------- MODULE MCNNSUpdate ----------------------------
(* Model-checking instance of NNSUpdate: a rolling upgrade in which the    *)
(* chain runs version 1 and two committee nodes hold versions 2 and 3, so  *)
(* that one node may find the chain already ahead of it; transactions     *)
(* stay valid for two blocks.                                              *)
EXTENDS NNSUpdate, TLC

CONSTANTS n1, n2, nefA, nefB, nefC

MCNodes == {n1, n2}
MCNefs == {nefA, nefB, nefC}
MCVersion == nefA :> 1 @@ nefB :> 2 @@ nefC :> 3
MCLocalNef == n1 :> nefB @@ n2 :> nefC
MCMaxHeight == 3
MCVubIncrement == 2
=============================================================================
