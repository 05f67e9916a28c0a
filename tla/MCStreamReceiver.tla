--------------------------- MODULE MCStreamReceiver ---------------------------
(* Two senders, of a stream of three quotes and one of a single quote.     *)
EXTENDS StreamReceiver

CONSTANTS long, short

MCSenders == {long, short}
MCPlanned == [s \in MCSenders |-> IF s = long THEN 3 ELSE 1]
===============================================================================
