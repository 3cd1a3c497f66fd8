--------------------------- MODULE MCSensorChains ---------------------------
(* The root of SensorChains' runs; their values are in the configurations.  *)
EXTENDS SensorChains
=============================================================================
