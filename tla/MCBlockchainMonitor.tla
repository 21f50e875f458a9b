------------------------- MODULE MCBlockchainMonitor -------------------------
(* Model-checking instance of BlockchainMonitor: two operator processes,   *)
(* each with its monitor and a waiting caller, and a chain of four blocks  *)
(* after genesis: enough for a missed block at start, a lagging listener   *)
(* and repeated waits.                                                     *)
EXTENDS BlockchainMonitor, TLC

CONSTANTS n1, n2

MCNodes == {n1, n2}
MCMaxHeight == 4
=============================================================================
