----------------------------- MODULE MCIncidents -----------------------------
(* Instances of IncidentLedger for TLC. *)
EXTENDS IncidentProps

CONSTANTS c1, c2
=============================================================================
