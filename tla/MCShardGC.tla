----------------------------- MODULE MCShardGC -----------------------------
(* Model-checking instance of ShardGC: two handlers, three events, so that *)
(* handlers of two events can overlap in the pool, two objects and one     *)
(* failed call of the metabase or of Delete.                               *)
EXTENDS ShardGC, TLC

CONSTANTS o1, o2

MCObjects == {o1, o2}
=============================================================================
