-------------------------- MODULE MCGatewaySocket --------------------------
(* GatewaySocket on small instances. *)
EXTENDS GatewaySocket
=============================================================================
