-------------------------- MODULE MCPubSubManager --------------------------
(* Instances of PubSubManager for TLC: see MCPubSubManager.cfg.             *)
EXTENDS PubSubManager
=============================================================================
