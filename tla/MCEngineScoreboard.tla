--------------------------- MODULE MCEngineScoreboard ---------------------------
(* Constants for model-checking EngineScoreboard.                          *)
EXTENDS EngineScoreboard

MCInstrumentIds == [s \in Slot |-> s + 1]
===============================================================================
