------------------------ MODULE MCTelemetryDetails ------------------------
(* Instances of TelemetryDetails for TLC: one telemetry of each kind.      *)
EXTENDS TelemetryDetails

CONSTANTS power, state, plan

MCKind == [k \in Keys |-> CASE k = power -> "number" [] k = state -> "enum" [] k = plan -> "schedule"]
=============================================================================
