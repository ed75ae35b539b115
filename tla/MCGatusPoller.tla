--------------------------- MODULE MCGatusPoller ---------------------------
(* The poller on small instances: the values are in the configurations.    *)
EXTENDS GatusPoller
=============================================================================
