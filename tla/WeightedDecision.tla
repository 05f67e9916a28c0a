---------------------------- MODULE WeightedDecision ----------------------------
(***************************************************************************)
(* phase5/rtl/weighted_decsion.sv: turns a feature into BUY, SELL or HOLD  *)
(* in three registered stages.  The stages have no stream input: nothing   *)
(* but time empties them.  The widths are ample (|trend| < 2^33, weights   *)
(* of 16 bits, 64-bit scores), so the arithmetic is exact.  One step is    *)
(* one rising clock edge.                                                  *)
(***************************************************************************)
EXTENDS EngineParameters

VARIABLES
  products,   (* stage 1, None when valid_s1 is low                        *)
  scores,     (* stage 2, None when valid_s2 is low                        *)
  signal      (* stage 3, None when signal_valid is low                    *)

decisionVars == <<products, scores, signal>>

DecisionInit ==
  /\ products = None
  /\ scores = None
  /\ signal = None

Products(f) == [slot |-> f.slot,
                trend |-> f.trend * TREND_WEIGHT,
                imbalance |-> f.imbalance * IMBALANCE_WEIGHT,
                spread |-> f.spread * SPREAD_WEIGHT]

Scores(p) == [slot |-> p.slot,
              direction_score |-> p.trend + p.imbalance,
              required_score |-> BASE_THRESHOLD + p.spread]

Trade(direction_score, required_score) ==
  IF direction_score > required_score THEN BUY
  ELSE IF direction_score < -required_score THEN SELL
  ELSE HOLD

Signal(s) == [slot |-> s.slot,
              trade_signal |-> Trade(s.direction_score, s.required_score),
              direction_score |-> s.direction_score,
              required_score |-> s.required_score]

(* f is the feature port; every stage reads the register before it.        *)
DecisionTick(f) ==
  /\ products' = IF f = None THEN None ELSE Products(f)
  /\ scores' = IF products = None THEN None ELSE Scores(products)
  /\ signal' = IF scores = None THEN None ELSE Signal(scores)
===============================================================================
