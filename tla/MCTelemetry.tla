----------------------------- MODULE MCTelemetry -----------------------------
(* Telemetry with one presenting thread, or two. *)
EXTENDS Telemetry
CONSTANTS t1, t2
MCPresenters == {{t1}, {t1, t2}}
=============================================================================
