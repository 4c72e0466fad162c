------------------------------ MODULE MCBridge ------------------------------
(* Bridge on small instances: one provider, one call, one loss.            *)
EXTENDS Bridge
=============================================================================
