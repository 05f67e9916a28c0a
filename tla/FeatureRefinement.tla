--------------------------- MODULE FeatureRefinement ---------------------------
(***************************************************************************)
(* The feature engine implements the moving averages.  The abstract window *)
(* of a slot is read off the long ring: the sample_count entries that end  *)
(* just before the pointer, oldest first.                                  *)
(***************************************************************************)
EXTENDS FeatureEngine, Sequences

RingWindow(s) ==
  [i \in 1 .. sample_count[s] |->
     slow_buffer[s][(slow_pointer[s] + SLOW - sample_count[s] + i - 1) % SLOW]]

Averages == INSTANCE MovingAverages WITH
  window <- [s \in Slot |-> RingWindow(s)],
  due <- calculation

(***************************************************************************)
(* Every published feature is computed from the last FAST and SLOW samples *)
(* of this stream and no others: no entry left by an earlier stream or by  *)
(* power-up ever reaches a sum, and the running sums never drift.          *)
(***************************************************************************)
ImplementsMovingAverages == Averages!Spec

MCInstrumentIds == [s \in Slot |-> s + 1]
===============================================================================
