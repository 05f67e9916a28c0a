----------------------------- MODULE FeatureEngine -----------------------------
(***************************************************************************)
(* phase5/rtl/hft_feature_engine.sv: per instrument a short and a long     *)
(* ring buffer of midpoints with running sums, a warm-up state machine,    *)
(* and a two-stage calculation of trend, imbalance and spread.             *)
(*                                                                         *)
(* The buffers are never reset, neither at power-up nor at STREAM_START:   *)
(* their first contents are whatever the flip-flops hold.  One step is one *)
(* rising clock edge; all assignments are nonblocking.                     *)
(***************************************************************************)
EXTENDS EngineParameters

VARIABLES
  fast_buffer, fast_pointer, fast_sum,
  slow_buffer, slow_pointer, slow_sum,
  sample_count,
  current_state,
  calculation,   (* the stage-1 registers, None when calculation_valid_s1 is low *)
  feature        (* the stage-2 registers, None when feature_valid is low  *)

windowVars == <<fast_buffer, fast_pointer, fast_sum, slow_buffer, slow_pointer,
                slow_sum, sample_count, current_state>>
featureVars == <<windowVars, calculation, feature>>

FastIndex == 0 .. FAST - 1
SlowIndex == 0 .. SLOW - 1

WARMUP_FAST   == "WARMUP_FAST"
WARMUP_SLOW   == "WARMUP_SLOW"
FEATURE_READY == "FEATURE_READY"

AllZero == [s \in Slot |-> 0]
AllWarmingUp == [s \in Slot |-> WARMUP_FAST]

FeatureInit ==
  /\ fast_buffer \in [Slot -> [FastIndex -> PowerUp]]
  /\ slow_buffer \in [Slot -> [SlowIndex -> PowerUp]]
  /\ fast_pointer = AllZero /\ fast_sum = AllZero
  /\ slow_pointer = AllZero /\ slow_sum = AllZero
  /\ sample_count = AllZero
  /\ current_state = AllWarmingUp
  /\ calculation = None
  /\ feature = None

(* STREAM_START clears everything but the buffer entries.                  *)
FeatureStart ==
  /\ fast_pointer' = AllZero /\ fast_sum' = AllZero
  /\ slow_pointer' = AllZero /\ slow_sum' = AllZero
  /\ sample_count' = AllZero
  /\ current_state' = AllWarmingUp
  /\ calculation' = None
  /\ feature' = None
  /\ UNCHANGED <<fast_buffer, slow_buffer>>

(* STREAM_END cancels what is in flight, and an update of this very clock. *)
FeatureEnd ==
  /\ calculation' = None
  /\ feature' = None
  /\ UNCHANGED windowVars

(* process_book_update: complete books that are not crossed.               *)
Processed(u) == u # None /\ u.book_valid /\ ~u.crossed_book

midpoint2(u) == u.bid.price + u.ask.price

Calculation(u) == [slot |-> u.slot,
                   imbalance |-> u.bid.quantity - u.ask.quantity,
                   spread |-> u.ask.price - u.bid.price]

(* Overwrite the oldest midpoint of both rings and advance the pointers.   *)
PushMidpoint(s, mid) ==
  /\ fast_buffer' = [fast_buffer EXCEPT ![s][fast_pointer[s]] = mid]
  /\ slow_buffer' = [slow_buffer EXCEPT ![s][slow_pointer[s]] = mid]
  /\ fast_pointer' = [fast_pointer EXCEPT ![s] = (@ + 1) % FAST]
  /\ slow_pointer' = [slow_pointer EXCEPT ![s] = (@ + 1) % SLOW]

(* Both sums gain mid and lose what leaves their window.                   *)
RollSums(s, mid, leaves_fast, leaves_slow) ==
  /\ fast_sum' = [fast_sum EXCEPT ![s] = @ - leaves_fast + mid]
  /\ slow_sum' = [slow_sum EXCEPT ![s] = @ - leaves_slow + mid]

(* Mutated form: subtracts an entry this stream has not written.           *)
WarmupFastSubtracts(u) ==
  LET s == u.slot IN
  /\ current_state[s] = WARMUP_FAST
  /\ PushMidpoint(s, midpoint2(u))
  /\ RollSums(s, midpoint2(u), fast_buffer[s][fast_pointer[s]], 0)
  /\ sample_count' = [sample_count EXCEPT ![s] = @ + 1]
  /\ current_state' = [current_state EXCEPT ![s] =
       IF sample_count[s] = FAST - 1 THEN WARMUP_SLOW ELSE @]
  /\ calculation' = None

WarmupFast(u) ==
  LET s == u.slot IN
  /\ current_state[s] = WARMUP_FAST
  /\ PushMidpoint(s, midpoint2(u))
  /\ RollSums(s, midpoint2(u), 0, 0)
  /\ sample_count' = [sample_count EXCEPT ![s] = @ + 1]
  /\ current_state' = [current_state EXCEPT ![s] =
       IF sample_count[s] = FAST - 1 THEN WARMUP_SLOW ELSE @]
  /\ calculation' = None

(* Mutated form: the first feature comes one sample early.                 *)
WarmupSlowEarly(u) ==
  LET s == u.slot IN
  /\ current_state[s] = WARMUP_SLOW
  /\ PushMidpoint(s, midpoint2(u))
  /\ RollSums(s, midpoint2(u), fast_buffer[s][fast_pointer[s]], 0)
  /\ sample_count' = [sample_count EXCEPT ![s] = @ + 1]
  /\ current_state' = [current_state EXCEPT ![s] =
       IF sample_count[s] = SLOW - 1 THEN FEATURE_READY ELSE @]
  /\ calculation' = IF sample_count[s] >= SLOW - 2 THEN Calculation(u) ELSE None

WarmupSlow(u) ==
  LET s == u.slot IN
  /\ current_state[s] = WARMUP_SLOW
  /\ PushMidpoint(s, midpoint2(u))
  /\ RollSums(s, midpoint2(u), fast_buffer[s][fast_pointer[s]], 0)
  /\ sample_count' = [sample_count EXCEPT ![s] = @ + 1]
  /\ current_state' = [current_state EXCEPT ![s] =
       IF sample_count[s] = SLOW - 1 THEN FEATURE_READY ELSE @]
  /\ calculation' = IF sample_count[s] = SLOW - 1 THEN Calculation(u) ELSE None

(* Mutated form: the long sum loses the entry after the oldest one.        *)
FeatureReadyOffByOne(u) ==
  LET s == u.slot IN
  /\ current_state[s] = FEATURE_READY
  /\ PushMidpoint(s, midpoint2(u))
  /\ RollSums(s, midpoint2(u), fast_buffer[s][fast_pointer[s]],
              slow_buffer[s][(slow_pointer[s] + 1) % SLOW])
  /\ sample_count' = [sample_count EXCEPT ![s] = SLOW]
  /\ calculation' = Calculation(u)
  /\ UNCHANGED current_state

FeatureReady(u) ==
  LET s == u.slot IN
  /\ current_state[s] = FEATURE_READY
  /\ PushMidpoint(s, midpoint2(u))
  /\ RollSums(s, midpoint2(u), fast_buffer[s][fast_pointer[s]],
              slow_buffer[s][slow_pointer[s]])
  /\ sample_count' = [sample_count EXCEPT ![s] = SLOW]
  /\ calculation' = Calculation(u)
  /\ UNCHANGED current_state

NoSample == calculation' = None /\ UNCHANGED windowVars

(* Stage 2 divides the sums registered by stage 1 one clock earlier.       *)
Trend(s) == fast_sum[s] \div FAST - slow_sum[s] \div SLOW

CalculateFeature ==
  feature' = IF calculation = None THEN None
             ELSE [slot |-> calculation.slot, trend |-> Trend(calculation.slot),
                   imbalance |-> calculation.imbalance, spread |-> calculation.spread]

FeatureClock(u) ==
  /\ CalculateFeature
  /\ \/ Processed(u) /\ (WarmupFast(u) \/ WarmupSlow(u) \/ FeatureReady(u))
     \/ ~Processed(u) /\ NoSample

FeatureTick(start_pulse, end_pulse, u) ==
  \/ start_pulse /\ FeatureStart
  \/ ~start_pulse /\ end_pulse /\ FeatureEnd
  \/ ~start_pulse /\ ~end_pulse /\ FeatureClock(u)
-------------------------------------------------------------------------------
(* A crossed flag is the comparison of the two prices of a complete book.  *)
Consistent(u) == u.crossed_book = (u.book_valid /\ u.ask.price < u.bid.price)

(* Alone, the engine runs on any consistent updates, at any distance.      *)
FeatureNext ==
  \E start_pulse, end_pulse \in BOOLEAN,
     u \in {v \in BookUpdate : Consistent(v)} \cup {None} :
    FeatureTick(start_pulse, end_pulse, u)

FeatureSpec == FeatureInit /\ [][FeatureNext]_featureVars
-------------------------------------------------------------------------------
(* Every register keeps its type: pointers stay in their ring, sums are    *)
(* never negative, counts never exceed SLOW.                               *)
FeatureTypeOK ==
  /\ fast_buffer \in [Slot -> [FastIndex -> Nat]]
  /\ slow_buffer \in [Slot -> [SlowIndex -> Nat]]
  /\ fast_pointer \in [Slot -> FastIndex]
  /\ slow_pointer \in [Slot -> SlowIndex]
  /\ fast_sum \in [Slot -> Nat]
  /\ slow_sum \in [Slot -> Nat]
  /\ sample_count \in [Slot -> 0 .. SLOW]
  /\ current_state \in [Slot -> {WARMUP_FAST, WARMUP_SLOW, FEATURE_READY}]
  /\ calculation # None => calculation.slot \in Slot /\ calculation.spread \in Nat
  /\ feature # None => feature.slot \in Slot /\ feature.spread \in Nat

(***************************************************************************)
(* The state machine and the sample counter never disagree: the state says *)
(* which windows are full, which is why an entry is subtracted only after  *)
(* this stream has written it.  Both pointers are determined by the count  *)
(* until the windows are full.                                             *)
(***************************************************************************)
WarmupConsistent ==
  \A s \in Slot :
    /\ current_state[s] = WARMUP_FAST <=> sample_count[s] < FAST
    /\ current_state[s] = FEATURE_READY <=> sample_count[s] = SLOW
    /\ sample_count[s] < FAST => fast_pointer[s] = sample_count[s]
    /\ sample_count[s] < SLOW => slow_pointer[s] = sample_count[s]

(* A calculation, and the feature it becomes, belong to a full window.     *)
FeaturesNeedFullWindows ==
  \A r \in {calculation, feature} : r # None => sample_count[r.slot] = SLOW
===============================================================================
