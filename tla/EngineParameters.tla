---------------------------- MODULE EngineParameters ----------------------------
(***************************************************************************)
(* The parameters of the feature engine and of the decision stage, and the *)
(* three trade signals.                                                    *)
(***************************************************************************)
EXTENDS Hft1

CONSTANTS
  FAST,              (* length of the short window, 8 in the RTL           *)
  SLOW,              (* length of the long window, 32 in the RTL           *)
  PowerUp,           (* midpoints the buffers may hold before a write      *)
  TREND_WEIGHT,      (* 4 in the wrapper                                   *)
  IMBALANCE_WEIGHT,  (* 1                                                  *)
  SPREAD_WEIGHT,     (* 2                                                  *)
  BASE_THRESHOLD     (* 100                                                *)

HOLD == "HOLD"
BUY  == "BUY"
SELL == "SELL"

(* What the two feature stages and the stages of the decision register.    *)
CalculationRecord == [slot : Slot, imbalance : Int, spread : Int]
FeatureRecord == [slot : Slot, trend : Int, imbalance : Int, spread : Int]
ScoreRecord == [slot : Slot, direction_score : Int, required_score : Int]

ASSUME RecordAssumption ==
  /\ None \notin CalculationRecord
  /\ None \notin FeatureRecord
  /\ None \notin ScoreRecord

ASSUME ParameterAssumption ==
  /\ FAST \in Nat /\ SLOW \in Nat
  /\ 0 < FAST /\ FAST < SLOW
  /\ PowerUp \subseteq Nat
  /\ TREND_WEIGHT \in Int /\ IMBALANCE_WEIGHT \in Int
  /\ SPREAD_WEIGHT \in Nat /\ BASE_THRESHOLD \in Nat
===============================================================================
