--------------------------- MODULE MCPubSubShard ---------------------------
(* Instances of PubSubShard for TLC: see MCPubSubShard.cfg.                 *)
EXTENDS PubSubShard
=============================================================================
