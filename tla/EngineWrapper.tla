----------------------------- MODULE EngineWrapper -----------------------------
(***************************************************************************)
(* phase5/rtl/hft_engine_wrapper.v: the five stages wired together.  The   *)
(* two stream pulses of the filter go to the tracker, the book and the     *)
(* feature engine at once, while quotes travel from stage to stage, one    *)
(* clock each; the decision stage receives no pulse.  Every register       *)
(* samples its inputs before the edge.                                     *)
(***************************************************************************)
EXTENDS PacketFilter, SequenceTracker, InstrumentBook, FeatureEngine,
        WeightedDecision

engineVars == <<filterVars, trackerVars, bookVars, featureVars, decisionVars>>

EngineInit ==
  /\ FilterInit
  /\ TrackerInit
  /\ BookInit
  /\ FeatureInit
  /\ DecisionInit

(* One clock of the whole engine; p is what the parser presents, or None.  *)
EngineTick(p) ==
  /\ FilterTick(p)
  /\ TrackerTick(stream_start_pulse, stream_end_pulse, quote)
  /\ BookTick(stream_start_pulse, stream_end_pulse, tracked)
  /\ FeatureTick(stream_start_pulse, stream_end_pulse, book_update)
  /\ DecisionTick(feature)
-------------------------------------------------------------------------------
(* The registers of all stages keep their types and local relations while  *)
(* the stages run on each other's outputs.                                 *)
EngineTypeOK ==
  /\ FilterTypeOK
  /\ TrackerTypeOK
  /\ BookTypeOK
  /\ FeatureTypeOK
===============================================================================
