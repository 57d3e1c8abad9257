--------------------------- MODULE MCGatewayPump ---------------------------
(* GatewayPump on small instances; the runs are interchangeable. *)
EXTENDS GatewayPumpProperties, TLC

Alike == Permutations(Runs)
=============================================================================
