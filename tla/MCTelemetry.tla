---------------------------- MODULE MCTelemetry ----------------------------
EXTENDS Telemetry

CONSTANTS c1, c2
=============================================================================
