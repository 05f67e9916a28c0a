---------------------------- MODULE MCSenderSession ----------------------------
(* The shipped parameters, and the two sessions.                           *)
EXTENDS SenderSession

MCInstrumentIds == [s \in 0 .. 4 |-> s + 1]
MCLiveSession == LiveSession(200)
MCPrice == 0 .. 110000
MCQuantity == 0 .. 500
===============================================================================
