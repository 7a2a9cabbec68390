----------------------------- MODULE MCTelemetry ---------------------------
(* Telemetry on small instances: pages of one entry, rings of two. *)
EXTENDS Telemetry
=============================================================================
