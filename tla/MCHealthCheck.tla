--------------------------- MODULE MCHealthCheck ----------------------------
(* Instances of HealthCheck for TLC.                                        *)
EXTENDS HealthCheck

=============================================================================
