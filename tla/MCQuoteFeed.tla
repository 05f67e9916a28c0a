------------------------------ MODULE MCQuoteFeed ------------------------------
(* Constants for model-checking QuoteFeed: one instrument, one price.      *)
EXTENDS QuoteFeed

MCInstrumentIds == [s \in {0} |-> 1]
===============================================================================
