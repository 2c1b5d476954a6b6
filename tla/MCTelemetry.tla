---------------------------- MODULE MCTelemetry ----------------------------
(* Telemetry for TLC. *)
EXTENDS Telemetry

SomeSamples == {-1, 128}
=============================================================================
