--------------------------- MODULE MCGateCeremony ---------------------------
(* GateCeremony on small instances. *)
EXTENDS GateCeremony
=============================================================================
