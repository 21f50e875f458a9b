------------------------- MODULE MCTxGroupMonitor -------------------------
(* Model-checking instance of TxGroupMonitor: three groups submitted in    *)
(* turn, each valid for two blocks, on a chain long enough for every one  *)
(* of them to be accepted or to expire.                                   *)
EXTENDS TxGroupMonitor, TLC

MCMaxHeight == 8
MCVubIncrement == 2
MCMaxTracks == 3
=============================================================================
