--------------------------- MODULE FeatureEngineProofs ---------------------------
(***************************************************************************)
(* Theorems about the feature engine, for windows of every length, any     *)
(* number of instruments and updates in any order.  The warm-up is about   *)
(* counts and pointers only; the refinement of the moving averages needs   *)
(* what the rings hold and what their running sums add up to.              *)
(***************************************************************************)
EXTENDS FeatureRefinement, Functions, FiniteSetTheorems, WellFoundedInduction,
        SequenceTheorems, TLAPS

(* The registers the warm-up is about.                                     *)
WarmupTypes ==
  /\ fast_pointer \in [Slot -> FastIndex]
  /\ slow_pointer \in [Slot -> SlowIndex]
  /\ sample_count \in [Slot -> 0 .. SLOW]
  /\ current_state \in [Slot -> {WARMUP_FAST, WARMUP_SLOW, FEATURE_READY}]
  /\ calculation # None => calculation.slot \in Slot
  /\ feature # None => feature.slot \in Slot

WarmupInv == WarmupTypes /\ WarmupConsistent /\ FeaturesNeedFullWindows

LEMMA Remainder ==
  ASSUME NEW n \in Nat \ {0}, NEW k \in Nat
  PROVE  k % n \in 0 .. n - 1 /\ (k < n => k % n = k)
OBVIOUS

LEMMA WindowLengths == FAST \in Nat \ {0} /\ SLOW \in Nat \ {0} /\ FAST < SLOW
BY ParameterAssumption

LEMMA IndicesAreNaturals ==
  (\A i \in FastIndex : i \in Nat) /\ (\A i \in SlowIndex : i \in Nat)
BY WindowLengths DEF FastIndex, SlowIndex

LEMMA PointersWrap ==
  \A k \in Nat : (k + 1) % FAST \in FastIndex /\ (k + 1) % SLOW \in SlowIndex
<1> TAKE k \in Nat
<1> QED BY WindowLengths, Remainder DEF FastIndex, SlowIndex

LEMMA StatesDiffer ==
  WARMUP_FAST # WARMUP_SLOW /\ WARMUP_FAST # FEATURE_READY /\ WARMUP_SLOW # FEATURE_READY
BY DEF WARMUP_FAST, WARMUP_SLOW, FEATURE_READY

LEMMA WarmupInit == FeatureInit => WarmupInv
<1> SUFFICES ASSUME FeatureInit PROVE WarmupInv
  OBVIOUS
<1>1. WarmupTypes
  BY WindowLengths DEF FeatureInit, WarmupTypes, AllZero, AllWarmingUp, FastIndex, SlowIndex
<1>2. WarmupConsistent
  BY WindowLengths, StatesDiffer DEF FeatureInit, WarmupConsistent, AllZero, AllWarmingUp
<1>3. FeaturesNeedFullWindows
  BY DEF FeatureInit, FeaturesNeedFullWindows
<1> QED BY <1>1, <1>2, <1>3 DEF WarmupInv

LEMMA StartKeepsInv == ASSUME FeatureStart PROVE WarmupInv'
<1>1. WarmupTypes'
  BY WindowLengths DEF FeatureStart, WarmupTypes, AllZero, AllWarmingUp, FastIndex, SlowIndex
<1>2. WarmupConsistent'
  BY WindowLengths, StatesDiffer DEF FeatureStart, WarmupConsistent, AllZero, AllWarmingUp
<1>3. FeaturesNeedFullWindows'
  BY DEF FeatureStart, FeaturesNeedFullWindows
<1> QED BY <1>1, <1>2, <1>3 DEF WarmupInv

(* One more sample for the slot s: both pointers move on, the count grows  *)
(* unless it is full, and the state follows the count.                     *)
LEMMA SampleKeepsWarmup ==
  ASSUME WarmupInv, NEW s \in Slot, NEW mid, PushMidpoint(s, mid),
         NEW n \in 0 .. SLOW,
         n = (IF sample_count[s] = SLOW THEN SLOW ELSE sample_count[s] + 1),
         sample_count' = [sample_count EXCEPT ![s] = n],
         current_state' = [current_state EXCEPT ![s] =
            IF n < FAST THEN WARMUP_FAST
            ELSE IF n = SLOW THEN FEATURE_READY ELSE WARMUP_SLOW]
  PROVE  /\ fast_pointer' \in [Slot -> FastIndex]
         /\ slow_pointer' \in [Slot -> SlowIndex]
         /\ sample_count' \in [Slot -> 0 .. SLOW]
         /\ current_state' \in [Slot -> {WARMUP_FAST, WARMUP_SLOW, FEATURE_READY}]
         /\ WarmupConsistent'
         /\ \A t \in Slot : sample_count[t] = SLOW => sample_count'[t] = SLOW
<1> USE WindowLengths DEF WarmupInv, WarmupTypes
<1>1. /\ fast_pointer' = [fast_pointer EXCEPT ![s] = (@ + 1) % FAST]
      /\ slow_pointer' = [slow_pointer EXCEPT ![s] = (@ + 1) % SLOW]
  BY DEF PushMidpoint
<1>2. fast_pointer[s] \in Nat /\ slow_pointer[s] \in Nat /\ sample_count[s] \in 0 .. SLOW
  <2>1. fast_pointer[s] \in FastIndex /\ slow_pointer[s] \in SlowIndex
        /\ sample_count[s] \in 0 .. SLOW
    OBVIOUS
  <2> QED BY <2>1, IndicesAreNaturals
<1>3. (fast_pointer[s] + 1) % FAST \in FastIndex /\ (slow_pointer[s] + 1) % SLOW \in SlowIndex
  BY <1>2, PointersWrap
<1>4. /\ fast_pointer' \in [Slot -> FastIndex]
      /\ slow_pointer' \in [Slot -> SlowIndex]
      /\ sample_count' \in [Slot -> 0 .. SLOW]
      /\ current_state' \in [Slot -> {WARMUP_FAST, WARMUP_SLOW, FEATURE_READY}]
  <2>1. fast_pointer' \in [Slot -> FastIndex] /\ slow_pointer' \in [Slot -> SlowIndex]
    BY <1>1, <1>3
  <2>2. sample_count' \in [Slot -> 0 .. SLOW]
    OBVIOUS
  <2>3. current_state' \in [Slot -> {WARMUP_FAST, WARMUP_SLOW, FEATURE_READY}]
    OBVIOUS
  <2> QED BY <2>1, <2>2, <2>3
<1>5. ASSUME NEW t \in Slot
      PROVE  /\ current_state'[t] = WARMUP_FAST <=> sample_count'[t] < FAST
             /\ current_state'[t] = FEATURE_READY <=> sample_count'[t] = SLOW
             /\ sample_count'[t] < FAST => fast_pointer'[t] = sample_count'[t]
             /\ sample_count'[t] < SLOW => slow_pointer'[t] = sample_count'[t]
  <2>1. CASE t # s
    BY <1>1, <2>1 DEF WarmupConsistent
  <2>2. CASE t = s
    <3>1. sample_count'[s] = n /\ current_state'[s] =
            IF n < FAST THEN WARMUP_FAST ELSE IF n = SLOW THEN FEATURE_READY ELSE WARMUP_SLOW
      OBVIOUS
    <3>2. /\ current_state'[s] = WARMUP_FAST <=> n < FAST
          /\ current_state'[s] = FEATURE_READY <=> n = SLOW
      BY <3>1, StatesDiffer
    <3>3. /\ fast_pointer'[s] = (fast_pointer[s] + 1) % FAST
          /\ slow_pointer'[s] = (slow_pointer[s] + 1) % SLOW
      BY <1>1
    <3>4. ASSUME n < FAST PROVE fast_pointer'[s] = n
      <4>1. sample_count[s] < FAST /\ n = sample_count[s] + 1
        BY <1>2, <3>4
      <4>2. fast_pointer[s] = sample_count[s]
        BY <4>1 DEF WarmupConsistent
      <4> QED BY <1>2, <3>3, <3>4, <4>1, <4>2, Remainder
    <3>5. ASSUME n < SLOW PROVE slow_pointer'[s] = n
      <4>1. sample_count[s] < SLOW /\ n = sample_count[s] + 1
        BY <1>2, <3>5
      <4>2. slow_pointer[s] = sample_count[s]
        BY <4>1 DEF WarmupConsistent
      <4> QED BY <1>2, <3>3, <3>5, <4>1, <4>2, Remainder
    <3> QED BY <2>2, <3>1, <3>2, <3>4, <3>5
  <2> QED BY <2>1, <2>2
<1>6. WarmupConsistent'
  BY <1>5 DEF WarmupConsistent
<1>7. \A t \in Slot : sample_count[t] = SLOW => sample_count'[t] = SLOW
  BY <1>2
<1> QED BY <1>4, <1>6, <1>7

(* The three branches of the state machine all take such a sample, and     *)
(* raise a calculation only with a full window.                            *)
LEMMA BranchesSample ==
  ASSUME WarmupInv, NEW u, u.slot \in Slot,
         WarmupFast(u) \/ WarmupSlow(u) \/ FeatureReady(u)
  PROVE  /\ WarmupConsistent'
         /\ fast_pointer' \in [Slot -> FastIndex]
         /\ slow_pointer' \in [Slot -> SlowIndex]
         /\ sample_count' \in [Slot -> 0 .. SLOW]
         /\ current_state' \in [Slot -> {WARMUP_FAST, WARMUP_SLOW, FEATURE_READY}]
         /\ \A t \in Slot : sample_count[t] = SLOW => sample_count'[t] = SLOW
         /\ calculation' # None => calculation'.slot = u.slot /\ sample_count'[u.slot] = SLOW
<1> DEFINE s == u.slot
           n == IF sample_count[s] = SLOW THEN SLOW ELSE sample_count[s] + 1
           next == IF n < FAST THEN WARMUP_FAST
                   ELSE IF n = SLOW THEN FEATURE_READY ELSE WARMUP_SLOW
<1>1. /\ s \in Slot /\ sample_count[s] \in 0 .. SLOW
      /\ current_state[s] \in {WARMUP_FAST, WARMUP_SLOW, FEATURE_READY}
      /\ current_state[s] = WARMUP_FAST <=> sample_count[s] < FAST
      /\ current_state[s] = FEATURE_READY <=> sample_count[s] = SLOW
  BY DEF WarmupInv, WarmupTypes, WarmupConsistent
<1>2. n \in 0 .. SLOW
  BY <1>1, WindowLengths
<1>3. /\ PushMidpoint(s, midpoint2(u))
      /\ sample_count' = [sample_count EXCEPT ![s] = n]
      /\ current_state' = [current_state EXCEPT ![s] = next]
      /\ calculation' # None => calculation'.slot = s /\ n = SLOW
  <2>1. CASE WarmupFast(u)
    <3>1. n = sample_count[s] + 1 /\ n <= FAST /\ n # SLOW
      BY <2>1, <1>1, WindowLengths DEF WarmupFast
    <3>2. next = IF sample_count[s] = FAST - 1 THEN WARMUP_SLOW ELSE current_state[s]
      BY <2>1, <1>1, <3>1, WindowLengths DEF WarmupFast
    <3> HIDE DEF n, next
    <3> QED BY <2>1, <3>1, <3>2 DEF WarmupFast
  <2>2. CASE WarmupSlow(u)
    <3>1. sample_count[s] >= FAST /\ sample_count[s] < SLOW
      BY <2>2, <1>1, WindowLengths, StatesDiffer DEF WarmupSlow
    <3>2. n = sample_count[s] + 1 /\ n > FAST
      BY <1>1, <3>1, WindowLengths
    <3>3. next = IF sample_count[s] = SLOW - 1 THEN FEATURE_READY ELSE current_state[s]
      BY <2>2, <1>1, <3>1, <3>2, WindowLengths DEF WarmupSlow
    <3>4. sample_count[s] = SLOW - 1 => n = SLOW
      BY <3>2, WindowLengths
    <3> HIDE DEF n, next
    <3> QED BY <2>2, <3>2, <3>3, <3>4 DEF WarmupSlow, Calculation
  <2>3. CASE FeatureReady(u)
    <3>1. sample_count[s] = SLOW /\ n = SLOW
      BY <2>3, <1>1 DEF FeatureReady
    <3>2. next = current_state[s]
      BY <2>3, <3>1, WindowLengths DEF FeatureReady
    <3>3. current_state = [current_state EXCEPT ![s] = next]
      BY <3>2 DEF WarmupInv, WarmupTypes
    <3> HIDE DEF n, next
    <3> QED BY <2>3, <3>1, <3>3 DEF FeatureReady, Calculation
  <2> QED BY <2>1, <2>2, <2>3
<1>4. sample_count'[s] = n
  BY <1>1, <1>3 DEF WarmupInv, WarmupTypes
<1> HIDE DEF n
<1> QED BY <1>1, <1>2, <1>3, <1>4, SampleKeepsWarmup DEF n

LEMMA ClockKeepsInv ==
  ASSUME WarmupInv, NEW u \in BookUpdate \cup {None}, FeatureClock(u)
  PROVE  WarmupInv'
<1>1. feature' # None => calculation # None /\ feature'.slot = calculation.slot
  BY DEF FeatureClock, CalculateFeature
<1>2. calculation # None => calculation.slot \in Slot /\ sample_count[calculation.slot] = SLOW
  BY DEF WarmupInv, WarmupTypes, FeaturesNeedFullWindows
<1>3. CASE Processed(u) /\ (WarmupFast(u) \/ WarmupSlow(u) \/ FeatureReady(u))
  <2>1. u.slot \in Slot
    BY <1>3 DEF Processed, BookUpdate
  <2>2. /\ WarmupConsistent'
        /\ fast_pointer' \in [Slot -> FastIndex]
        /\ slow_pointer' \in [Slot -> SlowIndex]
        /\ sample_count' \in [Slot -> 0 .. SLOW]
        /\ current_state' \in [Slot -> {WARMUP_FAST, WARMUP_SLOW, FEATURE_READY}]
        /\ \A t \in Slot : sample_count[t] = SLOW => sample_count'[t] = SLOW
        /\ calculation' # None => calculation'.slot = u.slot /\ sample_count'[u.slot] = SLOW
    BY <1>3, <2>1, BranchesSample
  <2>3. WarmupTypes'
    BY <1>1, <1>2, <2>1, <2>2 DEF WarmupTypes
  <2>4. FeaturesNeedFullWindows'
    BY <1>1, <1>2, <2>2 DEF FeaturesNeedFullWindows
  <2> QED BY <2>2, <2>3, <2>4 DEF WarmupInv
<1>4. CASE ~Processed(u) /\ NoSample
  <2>1. UNCHANGED <<fast_pointer, slow_pointer, sample_count, current_state>> /\ calculation' = None
    BY <1>4 DEF NoSample, windowVars
  <2>2. WarmupTypes'
    BY <1>1, <1>2, <2>1 DEF WarmupInv, WarmupTypes
  <2>3. WarmupConsistent'
    BY <2>1 DEF WarmupInv, WarmupConsistent
  <2>4. FeaturesNeedFullWindows'
    BY <1>1, <1>2, <2>1 DEF FeaturesNeedFullWindows
  <2> QED BY <2>2, <2>3, <2>4 DEF WarmupInv
<1> QED BY <1>3, <1>4 DEF FeatureClock

LEMMA EndKeepsInv == ASSUME WarmupInv, FeatureEnd PROVE WarmupInv'
<1>1. UNCHANGED <<fast_pointer, slow_pointer, sample_count, current_state>>
      /\ calculation' = None /\ feature' = None
  BY DEF FeatureEnd, windowVars
<1> QED
  BY <1>1 DEF WarmupInv, WarmupTypes, WarmupConsistent, FeaturesNeedFullWindows

LEMMA WarmupInvHolds == FeatureSpec => []WarmupInv
<1>1. FeatureInit => WarmupInv
  BY WarmupInit
<1>2. WarmupInv /\ [FeatureNext]_featureVars => WarmupInv'
  <2> SUFFICES ASSUME WarmupInv, [FeatureNext]_featureVars PROVE WarmupInv'
    OBVIOUS
  <2>1. ASSUME NEW start_pulse \in BOOLEAN, NEW end_pulse \in BOOLEAN,
               NEW u \in BookUpdate \cup {None}, FeatureTick(start_pulse, end_pulse, u)
        PROVE  WarmupInv'
    <3>1. CASE FeatureStart BY <3>1, StartKeepsInv
    <3>2. CASE FeatureEnd BY <3>2, EndKeepsInv
    <3>3. CASE FeatureClock(u) BY <3>3, ClockKeepsInv
    <3> QED BY <2>1, <3>1, <3>2, <3>3 DEF FeatureTick
  <2>2. CASE UNCHANGED featureVars
    BY <2>2 DEF featureVars, windowVars, WarmupInv, WarmupTypes, WarmupConsistent,
                FeaturesNeedFullWindows
  <2> QED BY <2>1, <2>2 DEF FeatureNext
<1> QED BY <1>1, <1>2, PTL DEF FeatureSpec
-------------------------------------------------------------------------------
(* For windows of any length, the state machine always says what the       *)
(* sample counter says, so that an entry is subtracted from a running sum  *)
(* only after this stream has written it.                                  *)
THEOREM WarmupConsistentHolds == FeatureSpec => []WarmupConsistent
<1>1. WarmupInv => WarmupConsistent BY DEF WarmupInv
<1> QED BY <1>1, WarmupInvHolds, PTL

(* No feature is ever calculated for an instrument with fewer than SLOW    *)
(* samples in this stream.                                                 *)
THEOREM FeaturesNeedFullWindowsHolds == FeatureSpec => []FeaturesNeedFullWindows
<1>1. WarmupInv => FeaturesNeedFullWindows BY DEF WarmupInv
<1> QED BY <1>1, WarmupInvHolds, PTL
-------------------------------------------------------------------------------
(* Facts about sums.  The library's SumFunction folds over a set; these    *)
(* lemmas say that the order does not matter and what one more element, or *)
(* one less, does to a sum.                                                *)
LEMMA LeastNat ==
  ASSUME NEW T \in SUBSET Nat, T # {}
  PROVE  \E n \in T : \A m \in T : n <= m
<1> DEFINE less == {pair \in Nat \X Nat : pair[1] < pair[2]}
<1>1. IsWellFoundedOn(less, Nat)
  BY NatLessThanWellFounded DEF OpToRel
<1>2. PICK n \in T : \A m \in T : <<m, n>> \notin less
  <2> HIDE DEF less
  <2> QED BY <1>1, WFMin
<1>3. ASSUME NEW m \in T PROVE n <= m
  <2>1. m \in Nat /\ n \in Nat
    OBVIOUS
  <2>2. m < n => <<m, n>> \in less
    BY <2>1
  <2> QED BY <1>2, <2>1, <2>2
<1> QED BY <1>3

(* Induction over the subsets of a finite set, in the form of a smallest   *)
(* counterexample.                                                         *)
LEMMA MinimalSet ==
  ASSUME NEW A, IsFiniteSet(A), NEW T \in SUBSET (SUBSET A), T # {}
  PROVE  \E s \in T : \A x \in s : s \ {x} \notin T
<1> DEFINE sizes == {Cardinality(s) : s \in T}
<1>1. \A s \in T : IsFiniteSet(s) /\ Cardinality(s) \in Nat
  BY FS_Subset, FS_CardinalityType
<1>2. sizes \in SUBSET Nat /\ sizes # {}
  BY <1>1
<1>3. PICK n \in sizes : \A m \in sizes : n <= m
  BY <1>2, LeastNat
<1>4. PICK s \in T : Cardinality(s) = n
  OBVIOUS
<1>5. ASSUME NEW x \in s, s \ {x} \in T PROVE FALSE
  <2>1. Cardinality(s \ {x}) = Cardinality(s) - 1
    BY <1>1, FS_RemoveElement
  <2>2. Cardinality(s) <= Cardinality(s \ {x})
    BY <1>3, <1>4, <1>5
  <2> QED BY <1>1, <2>1, <2>2
<1> QED BY <1>5

(* The library's sums add the elements of a set in some order: sums is a   *)
(* table of the sums over the subsets of S.                                *)
AnyOf(s) == CHOOSE x \in s : TRUE

Unfolds(f, S, sums) ==
  sums = [s \in SUBSET S |-> IF s = {} THEN 0 ELSE f[AnyOf(s)] + sums[s \ {AnyOf(s)}]]

LEMMA AnyOfIn == ASSUME NEW s, s # {} PROVE AnyOf(s) \in s
BY DEF AnyOf

LEMMA SumUnfolds ==
  ASSUME NEW f, NEW S PROVE SumFunctionOnSet(f, S) = (CHOOSE sums : Unfolds(f, S, sums))[S]
BY DEF SumFunctionOnSet, FoldFunctionOnSet, MapThenFoldSet, AnyOf, Unfolds

LEMMA UnfoldsAt ==
  ASSUME NEW f, NEW S, NEW sums, Unfolds(f, S, sums), NEW s \in SUBSET S
  PROVE  sums[s] = IF s = {} THEN 0 ELSE f[AnyOf(s)] + sums[s \ {AnyOf(s)}]
<1> DEFINE table == [t \in SUBSET S |->
                       IF t = {} THEN 0 ELSE f[AnyOf(t)] + sums[t \ {AnyOf(t)}]]
<1>1. sums = table
  BY DEF Unfolds
<1>2. table[s] = IF s = {} THEN 0 ELSE f[AnyOf(s)] + sums[s \ {AnyOf(s)}]
  OBVIOUS
<1> QED BY <1>1, <1>2

(* There is such a table: it is built for larger and larger subsets.       *)
LEMMA SumsExist ==
  ASSUME NEW S, IsFiniteSet(S), NEW f, \A x \in S : f[x] \in Int
  PROVE  \E sums \in [SUBSET S -> Int] : Unfolds(f, S, sums)
<1> DEFINE Unfolded(g, s) == IF s = {} THEN 0 ELSE f[AnyOf(s)] + g[s \ {AnyOf(s)}]
           Right(g, n) == \A s \in SUBSET S : Cardinality(s) <= n => g[s] = Unfolded(g, s)
           bad == {n \in Nat : ~ \E g \in [SUBSET S -> Int] : Right(g, n)}
<1>1. \A s \in SUBSET S : IsFiniteSet(s) /\ Cardinality(s) \in Nat /\ Cardinality(s) <= Cardinality(S)
  BY FS_Subset, FS_CardinalityType
<1>2. ASSUME NEW s \in SUBSET S, s # {}
      PROVE  /\ AnyOf(s) \in S /\ s \ {AnyOf(s)} \in SUBSET S
             /\ Cardinality(s \ {AnyOf(s)}) = Cardinality(s) - 1
  BY <1>1, <1>2, AnyOfIn, FS_RemoveElement
<1>3. Cardinality({}) = 0 /\ \A s \in SUBSET S : Cardinality(s) = 0 <=> s = {}
  BY <1>1, FS_EmptySet
<1>4. bad = {}
  <2> SUFFICES ASSUME bad # {} PROVE FALSE
    OBVIOUS
  <2>1. PICK n \in bad : \A m \in bad : n <= m
    BY LeastNat
  <2>2. CASE n = 0
    <3> DEFINE g == [s \in SUBSET S |-> 0]
    <3>1. g \in [SUBSET S -> Int]
      OBVIOUS
    <3>2. Right(g, 0)
      BY <1>1, <1>3
    <3> HIDE DEF g, Right
    <3> QED BY <2>2, <3>1, <3>2
  <2>3. CASE n # 0
    <3>1. n \in Nat /\ n - 1 \in Nat /\ n - 1 \notin bad
      <4>1. n \in Nat /\ n - 1 \in Nat /\ ~(n <= n - 1)
        BY <2>3
      <4> HIDE DEF bad
      <4> QED BY <2>1, <4>1
    <3>2. PICK g \in [SUBSET S -> Int] : Right(g, n - 1)
      <4> HIDE DEF Right
      <4> QED BY <3>1
    <3> DEFINE h == [s \in SUBSET S |-> IF Cardinality(s) < n THEN g[s] ELSE Unfolded(g, s)]
    <3>3. ASSUME NEW s \in SUBSET S PROVE Unfolded(g, s) \in Int
      <4>1. s # {} => f[AnyOf(s)] \in Int /\ g[s \ {AnyOf(s)}] \in Int
        BY <1>2
      <4> QED BY <4>1
    <3>4. h \in [SUBSET S -> Int]
      BY <3>3
    <3>5. ASSUME NEW s \in SUBSET S, Cardinality(s) <= n PROVE h[s] = Unfolded(h, s)
      <4>1. h[s] = Unfolded(g, s)
        BY <1>1, <3>1, <3>2, <3>5
      <4>2. CASE s = {}
        BY <4>1, <4>2
      <4>3. CASE s # {}
        <5> DEFINE r == s \ {AnyOf(s)}
        <5>1. r \in SUBSET S /\ Cardinality(r) < n
          BY <1>1, <1>2, <3>1, <3>5, <4>3
        <5>2. h[r] = g[r]
          BY <5>1
        <5> QED BY <4>1, <4>3, <5>2
      <4> QED BY <4>2, <4>3
    <3>6. Right(h, n)
      <4> HIDE DEF h, Unfolded
      <4> QED BY <3>5
    <3> HIDE DEF h, Right
    <3> QED BY <2>1, <3>4, <3>6
  <2> QED BY <2>2, <2>3
<1>5. PICK g \in [SUBSET S -> Int] : Right(g, Cardinality(S))
  <2>1. Cardinality(S) \in Nat /\ Cardinality(S) \notin bad
    BY <1>4, FS_CardinalityType
  <2> HIDE DEF Right
  <2> QED BY <2>1
<1>6. g = [s \in SUBSET S |-> Unfolded(g, s)]
  <2>1. \A s \in SUBSET S : g[s] = Unfolded(g, s)
    <3> HIDE DEF Unfolded
    <3> QED BY <1>1, <1>5
  <2> HIDE DEF Unfolded
  <2> QED BY <2>1
<1> QED BY <1>6 DEF Unfolds

(* Tables over two sets agree where the functions agree.                   *)
LEMMA SumsAgree ==
  ASSUME NEW A, NEW B, IsFiniteSet(A), NEW f, NEW g, NEW a, NEW b,
         Unfolds(f, A, a), Unfolds(g, B, b),
         \A x \in A \cap B : f[x] = g[x]
  PROVE  \A s \in SUBSET (A \cap B) : a[s] = b[s]
<1> DEFINE bad == {s \in SUBSET (A \cap B) : a[s] # b[s]}
<1> SUFFICES ASSUME bad # {} PROVE FALSE
  OBVIOUS
<1>1. PICK s \in bad : \A x \in s : s \ {x} \notin bad
  <2>1. bad \in SUBSET (SUBSET A)
    OBVIOUS
  <2> HIDE DEF bad
  <2> QED BY <2>1, MinimalSet
<1>2. s \in SUBSET A /\ s \in SUBSET B /\ a[s] # b[s]
  OBVIOUS
<1>3. /\ a[s] = IF s = {} THEN 0 ELSE f[AnyOf(s)] + a[s \ {AnyOf(s)}]
      /\ b[s] = IF s = {} THEN 0 ELSE g[AnyOf(s)] + b[s \ {AnyOf(s)}]
  <2> HIDE DEF bad
  <2> QED BY <1>2, UnfoldsAt
<1>4. s # {}
  BY <1>2, <1>3
<1>5. AnyOf(s) \in s /\ f[AnyOf(s)] = g[AnyOf(s)]
  BY <1>2, <1>4, AnyOfIn
<1>6. a[s \ {AnyOf(s)}] = b[s \ {AnyOf(s)}]
  BY <1>1, <1>2, <1>5
<1> QED BY <1>2, <1>3, <1>4, <1>5, <1>6

LEMMA TableOfSums ==
  ASSUME NEW S, IsFiniteSet(S), NEW f, \A x \in S : f[x] \in Int
  PROVE  \E sums \in [SUBSET S -> Int] :
           Unfolds(f, S, sums) /\ SumFunctionOnSet(f, S) = sums[S]
<1> DEFINE chosen == CHOOSE sums : Unfolds(f, S, sums)
<1>1. PICK sums \in [SUBSET S -> Int] : Unfolds(f, S, sums)
  BY SumsExist
<1>2. Unfolds(f, S, chosen)
  BY <1>1
<1>3. \A s \in SUBSET (S \cap S) : chosen[s] = sums[s]
  <2> HIDE DEF chosen
  <2> QED BY <1>1, <1>2, SumsAgree
<1>4. SumFunctionOnSet(f, S) = chosen[S]
  BY SumUnfolds
<1>5. S \in SUBSET (S \cap S)
  OBVIOUS
<1> HIDE DEF chosen
<1> QED BY <1>1, <1>3, <1>4, <1>5

(* A sum depends on the values in the set only.                            *)
LEMMA SumSame ==
  ASSUME NEW S, IsFiniteSet(S), NEW f, NEW g, \A x \in S : f[x] = g[x] /\ g[x] \in Int
  PROVE  SumFunctionOnSet(f, S) = SumFunctionOnSet(g, S)
<1>1. PICK a \in [SUBSET S -> Int] : Unfolds(f, S, a) /\ SumFunctionOnSet(f, S) = a[S]
  BY TableOfSums
<1>2. PICK b \in [SUBSET S -> Int] : Unfolds(g, S, b) /\ SumFunctionOnSet(g, S) = b[S]
  BY TableOfSums
<1>3. \A s \in SUBSET (S \cap S) : a[s] = b[s]
  BY <1>1, <1>2, SumsAgree
<1>4. S \in SUBSET (S \cap S)
  OBVIOUS
<1> QED BY <1>1, <1>2, <1>3, <1>4

LEMMA SumOfNone == ASSUME NEW f PROVE SumFunctionOnSet(f, {}) = 0
<1>1. PICK a \in [SUBSET {} -> Int] : Unfolds(f, {}, a) /\ SumFunctionOnSet(f, {}) = a[{}]
  BY TableOfSums, FS_EmptySet
<1>2. {} \in SUBSET {}
  OBVIOUS
<1> QED BY <1>1, <1>2, UnfoldsAt

LEMMA SumIsInt ==
  ASSUME NEW S, IsFiniteSet(S), NEW f, \A x \in S : f[x] \in Int
  PROVE  SumFunctionOnSet(f, S) \in Int
<1>1. PICK a \in [SUBSET S -> Int] : SumFunctionOnSet(f, S) = a[S]
  BY TableOfSums
<1>2. S \in SUBSET S
  OBVIOUS
<1> QED BY <1>1, <1>2

(* In whatever order: any element may be taken out first.                  *)
LEMMA SumTakeOut ==
  ASSUME NEW S, IsFiniteSet(S), NEW f, \A x \in S : f[x] \in Int, NEW y \in S
  PROVE  SumFunctionOnSet(f, S) = f[y] + SumFunctionOnSet(f, S \ {y})
<1>1. PICK a \in [SUBSET S -> Int] : Unfolds(f, S, a) /\ SumFunctionOnSet(f, S) = a[S]
  BY TableOfSums
<1> DEFINE bad == {s \in SUBSET S : \E x \in s : a[s] # f[x] + a[s \ {x}]}
<1>2. bad = {}
  <2> SUFFICES ASSUME bad # {} PROVE FALSE
    OBVIOUS
  <2>1. PICK s \in bad : \A x \in s : s \ {x} \notin bad
    <3>1. bad \in SUBSET (SUBSET S)
      OBVIOUS
    <3> HIDE DEF bad
    <3> QED BY <3>1, MinimalSet
  <2>2. PICK x \in s : a[s] # f[x] + a[s \ {x}]
    OBVIOUS
  <2> DEFINE z == AnyOf(s)
  <2>3. s \in SUBSET S /\ z \in s
    BY AnyOfIn
  <2>4. a[s] = f[z] + a[s \ {z}]
    BY <1>1, <2>3, UnfoldsAt
  <2>5. x # z
    BY <2>2, <2>4
  <2> HIDE DEF z
  <2>6. s \ {z} \in SUBSET S /\ s \ {x} \in SUBSET S /\ (s \ {z}) \ {x} \in SUBSET S
        /\ x \in s \ {z} /\ z \in s \ {x}
    BY <2>3, <2>5
  <2>7. a[s \ {z}] = f[x] + a[(s \ {z}) \ {x}]
    BY <2>1, <2>3, <2>6
  <2>8. a[s \ {x}] = f[z] + a[(s \ {x}) \ {z}]
    BY <2>1, <2>6
  <2>9. (s \ {x}) \ {z} = (s \ {z}) \ {x}
    OBVIOUS
  <2>10. f[x] \in Int /\ f[z] \in Int /\ a[(s \ {z}) \ {x}] \in Int
    BY <2>3, <2>6
  <2> DEFINE p == f[x]
             q == f[z]
             v == a[(s \ {z}) \ {x}]
  <2>11. p \in Int /\ q \in Int /\ v \in Int /\ a[s \ {z}] = p + v /\ a[s \ {x}] = q + v
    BY <2>7, <2>8, <2>9, <2>10
  <2>12. q + a[s \ {z}] = p + a[s \ {x}]
    <3> HIDE DEF p, q, v
    <3> QED BY <2>11
  <2> QED BY <2>2, <2>4, <2>12
<1>3. a[S] = f[y] + a[S \ {y}]
  BY <1>2
<1>4. IsFiniteSet(S \ {y}) /\ S \ {y} \in SUBSET S
  BY FS_RemoveElement
<1>5. PICK b \in [SUBSET (S \ {y}) -> Int] :
        Unfolds(f, S \ {y}, b) /\ SumFunctionOnSet(f, S \ {y}) = b[S \ {y}]
  BY <1>4, TableOfSums
<1>6. \A s \in SUBSET (S \cap (S \ {y})) : a[s] = b[s]
  <2> HIDE DEF bad
  <2> QED BY <1>1, <1>5, SumsAgree
<1>7. S \ {y} \in SUBSET (S \cap (S \ {y}))
  OBVIOUS
<1> HIDE DEF bad
<1> QED BY <1>1, <1>3, <1>5, <1>6, <1>7
(* Sequences, as functions over 1 .. n: a new last element adds itself,    *)
(* the first one takes itself away, and a window that slides does both.    *)
LEMMA UpTo ==
  ASSUME NEW n \in Nat
  PROVE  /\ IsFiniteSet(1 .. n) /\ IsFiniteSet(1 .. n + 1)
         /\ n + 1 \in 1 .. n + 1
         /\ (1 .. n + 1) \ {n + 1} = 1 .. n
<1>1. \A i : i \in (1 .. n + 1) \ {n + 1} <=> i \in 1 .. n
  OBVIOUS
<1>2. (1 .. n + 1) \ {n + 1} = 1 .. n
  BY <1>1
<1>3. IsFiniteSet(1 .. n) /\ IsFiniteSet(1 .. n + 1)
  BY FS_Interval
<1> QED BY <1>2, <1>3

LEMMA SumWithLast ==
  ASSUME NEW n \in Nat, NEW f, DOMAIN f = 1 .. n + 1, \A i \in 1 .. n + 1 : f[i] \in Int,
         NEW g, DOMAIN g = 1 .. n, \A i \in 1 .. n : g[i] = f[i]
  PROVE  SumFunction(f) = SumFunction(g) + f[n + 1] /\ SumFunction(g) \in Int
<1>1. /\ IsFiniteSet(1 .. n) /\ IsFiniteSet(1 .. n + 1)
      /\ n + 1 \in 1 .. n + 1
      /\ (1 .. n + 1) \ {n + 1} = 1 .. n
  BY UpTo
<1>2. SumFunctionOnSet(f, 1 .. n + 1) = f[n + 1] + SumFunctionOnSet(f, 1 .. n)
  BY <1>1, SumTakeOut
<1>3. SumFunctionOnSet(g, 1 .. n) = SumFunctionOnSet(f, 1 .. n)
  BY <1>1, SumSame
<1>4. SumFunctionOnSet(f, 1 .. n) \in Int
  BY <1>1, SumIsInt
<1> QED BY <1>1, <1>2, <1>3, <1>4 DEF SumFunction

LEMMA SumWithoutFirst ==
  ASSUME NEW n \in Nat, NEW f, DOMAIN f = 1 .. n + 1, \A i \in 1 .. n + 1 : f[i] \in Int,
         NEW g, DOMAIN g = 1 .. n, \A i \in 1 .. n : g[i] = f[i + 1]
  PROVE  SumFunction(f) = SumFunction(g) + f[1] /\ SumFunction(g) \in Int
<1> DEFINE F(k) == SumFunctionOnSet(f, 1 .. k + 1)
           G(k) == SumFunctionOnSet(g, 1 .. k)
           bad  == {k \in 0 .. n : F(k) # G(k) + f[1]}
<1>1. ASSUME NEW k \in 0 .. n
      PROVE  /\ F(k) = f[k + 1] + SumFunctionOnSet(f, 1 .. k)
             /\ F(k) \in Int /\ G(k) \in Int
  <2>0. k \in Nat
    OBVIOUS
  <2>1. /\ IsFiniteSet(1 .. k) /\ IsFiniteSet(1 .. k + 1)
        /\ k + 1 \in 1 .. k + 1 /\ (1 .. k + 1) \ {k + 1} = 1 .. k
    BY <2>0, UpTo
  <2>2. \A i \in 1 .. k + 1 : f[i] \in Int
    OBVIOUS
  <2>3. \A i \in 1 .. k : g[i] \in Int
    OBVIOUS
  <2>4. F(k) = f[k + 1] + SumFunctionOnSet(f, (1 .. k + 1) \ {k + 1})
    BY <2>1, <2>2, SumTakeOut
  <2>5. F(k) \in Int /\ G(k) \in Int
    BY <2>1, <2>2, <2>3, SumIsInt
  <2> QED BY <2>1, <2>4, <2>5
<1>2. ASSUME NEW k \in 0 .. n, k > 0
      PROVE  G(k) = f[k + 1] + G(k - 1)
  <2> DEFINE m == k - 1
  <2>1. m \in Nat /\ m + 1 = k
    BY <1>2
  <2> HIDE DEF m
  <2>2. /\ IsFiniteSet(1 .. m + 1)
        /\ m + 1 \in 1 .. m + 1 /\ (1 .. m + 1) \ {m + 1} = 1 .. m
    BY <2>1, UpTo
  <2>3. \A i \in 1 .. k : g[i] \in Int /\ g[i] = f[i + 1]
    OBVIOUS
  <2>4. G(k) = g[k] + SumFunctionOnSet(g, 1 .. m)
    <3>1. \A i \in 1 .. m + 1 : g[i] \in Int
      BY <2>1, <2>3
    <3>2. SumFunctionOnSet(g, 1 .. m + 1)
            = g[m + 1] + SumFunctionOnSet(g, (1 .. m + 1) \ {m + 1})
      BY <2>2, <3>1, SumTakeOut
    <3> QED BY <2>1, <2>2, <3>2
  <2>5. g[k] = f[k + 1]
    BY <2>1, <2>2, <2>3
  <2> QED BY <2>4, <2>5 DEF m
<1>3. bad = {}
  <2> SUFFICES ASSUME bad # {} PROVE FALSE
    OBVIOUS
  <2>1. PICK k \in bad : \A m \in bad : k <= m
    <3>1. bad \in SUBSET Nat
      OBVIOUS
    <3> HIDE DEF bad
    <3> QED BY <3>1, LeastNat
  <2>2. k \in 0 .. n /\ F(k) # G(k) + f[1]
    OBVIOUS
  <2>3. k # 0
    <3>1. 1 .. 0 = {} /\ 0 \in 0 .. n
      OBVIOUS
    <3>2. F(0) = f[0 + 1] + SumFunctionOnSet(f, 1 .. 0)
      BY <1>1, <3>1
    <3>3. SumFunctionOnSet(f, 1 .. 0) = 0 /\ G(0) = 0
      BY <3>1, SumOfNone
    <3>4. f[1] \in Int /\ 0 + 1 = 1
      OBVIOUS
    <3> HIDE DEF F, G, bad
    <3> QED BY <2>2, <3>2, <3>3, <3>4
  <2>4. k - 1 \in 0 .. n /\ k - 1 \notin bad
    <3>1. k - 1 \in 0 .. n /\ ~(k <= k - 1)
      BY <2>2, <2>3
    <3> HIDE DEF bad
    <3> QED BY <2>1, <3>1
  <2>5. F(k - 1) = G(k - 1) + f[1]
    BY <2>4
  <2>6. F(k) = f[k + 1] + F(k - 1)
    <3>1. (k - 1) + 1 = k
      BY <2>2
    <3> QED BY <1>1, <2>2, <3>1
  <2>7. G(k) = f[k + 1] + G(k - 1) /\ G(k - 1) \in Int /\ F(k - 1) \in Int
    BY <1>1, <1>2, <2>2, <2>3, <2>4
  <2>8. f[k + 1] \in Int /\ f[1] \in Int
    BY <2>2
  <2> HIDE DEF F, G, bad
  <2> QED BY <2>2, <2>5, <2>6, <2>7, <2>8
<1>4. F(n) = G(n) + f[1]
  <2>1. n \in 0 .. n
    OBVIOUS
  <2> QED BY <1>3, <2>1
<1>5. G(n) \in Int
  BY <1>1
<1> QED BY <1>4, <1>5 DEF SumFunction

LEMMA SumSlides ==
  ASSUME NEW n \in Nat \ {0},
         NEW f, DOMAIN f = 1 .. n, \A i \in 1 .. n : f[i] \in Int,
         NEW g, DOMAIN g = 1 .. n, g[n] \in Int,
         \A i \in 1 .. n : i < n => g[i] = f[i + 1]
  PROVE  SumFunction(g) = SumFunction(f) - f[1] + g[n]
<1> DEFINE m == n - 1
           common == [i \in 1 .. m |-> f[i + 1]]
<1>1. m \in Nat /\ m + 1 = n
  OBVIOUS
<1>2. /\ DOMAIN common = 1 .. m
      /\ \A i \in 1 .. m : common[i] = f[i + 1]
      /\ \A i \in 1 .. m : common[i] = g[i]
  OBVIOUS
<1>3. \A i \in 1 .. n : g[i] \in Int
  OBVIOUS
<1>4. /\ DOMAIN f = 1 .. m + 1 /\ \A i \in 1 .. m + 1 : f[i] \in Int
      /\ DOMAIN g = 1 .. m + 1
  BY <1>1
<1> HIDE DEF common, m
<1>5. SumFunction(f) = SumFunction(common) + f[1] /\ SumFunction(common) \in Int
  <2>1. m \in Nat /\ DOMAIN f = 1 .. m + 1 /\ DOMAIN common = 1 .. m
    BY <1>1, <1>2, <1>4
  <2>2. \A i \in 1 .. m + 1 : f[i] \in Int
    BY <1>4
  <2>3. \A i \in 1 .. m : common[i] = f[i + 1]
    BY <1>2
  <2> QED BY <2>1, <2>2, <2>3, SumWithoutFirst, ZenonT(60)
<1>6. SumFunction(g) = SumFunction(common) + g[n]
  BY <1>1, <1>2, <1>3, <1>4, SumWithLast
<1>7. f[1] \in Int
  OBVIOUS
<1> QED BY <1>5, <1>6, <1>7
-------------------------------------------------------------------------------
(* The count newest entries of a ring of N that writes at pointer next,    *)
(* oldest first.                                                           *)
RingOf(buffer, pointer, count, N) ==
  [i \in 1 .. count |-> buffer[(pointer + N - count + i - 1) % N]]

IsRing(buffer, p, c, N) ==
  /\ N \in Nat \ {0}
  /\ buffer \in [0 .. N - 1 -> Nat]
  /\ p \in 0 .. N - 1
  /\ c \in 0 .. N

(* The midpoint mid is written into a ring of c entries.                   *)
Writes(mid, buffer, p, c, N, written, next, d) ==
  /\ mid \in Nat
  /\ written = [buffer EXCEPT ![p] = mid]
  /\ next = (p + 1) % N
  /\ d = IF c = N THEN N ELSE c + 1

(* The entry i of a ring lies at the index at, written without remainders. *)
Lies(i, p, c, N, at) ==
  /\ at \in 0 .. N - 1
  /\ p + i <= c => at = p + N - c + i - 1
  /\ p + i > c => at = p - c + i - 1

LEMMA WrapsOnce ==
  ASSUME NEW N \in Nat \ {0}, NEW x \in 0 .. 2 * N - 1
  PROVE  x % N = IF x < N THEN x ELSE x - N
OBVIOUS

LEMMA RingAt ==
  ASSUME NEW N, NEW buffer, NEW p, NEW c, IsRing(buffer, p, c, N),
         NEW i \in 1 .. c, NEW at, Lies(i, p, c, N, at)
  PROVE  RingOf(buffer, p, c, N)[i] = buffer[at]
<1> DEFINE x == p + N - c + i - 1
           wrapped == x % N
<1>1. /\ N \in Nat \ {0} /\ x \in 0 .. 2 * N - 1
      /\ (x < N => at = x) /\ (x >= N => at = x - N)
  BY DEF Lies, IsRing
<1>2. RingOf(buffer, p, c, N)[i] = buffer[wrapped]
  BY DEF RingOf
<1> HIDE DEF x
<1>3. wrapped = IF x < N THEN x ELSE x - N
  BY <1>1, WrapsOnce
<1> HIDE DEF wrapped
<1>4. wrapped = at
  BY <1>1, <1>3
<1> QED BY <1>2, <1>4

LEMMA RingLies ==
  ASSUME NEW N, NEW buffer, NEW p, NEW c, IsRing(buffer, p, c, N), NEW i \in 1 .. c
  PROVE  \E at \in 0 .. N - 1 : Lies(i, p, c, N, at) /\ (i > 1 \/ c < N => at # p)
<1>1. CASE p + i <= c
  <2>1. p + N - c + i - 1 \in 0 .. N - 1 /\ (i > 1 \/ c < N => p + N - c + i - 1 # p)
    BY <1>1 DEF IsRing
  <2> QED BY <1>1, <2>1 DEF Lies, IsRing
<1>2. CASE ~(p + i <= c)
  <2>1. p - c + i - 1 \in 0 .. N - 1 /\ (i > 1 \/ c < N => p - c + i - 1 # p)
    BY <1>2 DEF IsRing
  <2> QED BY <1>2, <2>1 DEF Lies, IsRing
<1> QED BY <1>1, <1>2

LEMMA RingOfNaturals ==
  ASSUME NEW N, NEW buffer, NEW p, NEW c, IsRing(buffer, p, c, N)
  PROVE  /\ DOMAIN RingOf(buffer, p, c, N) = 1 .. c
         /\ \A i \in 1 .. c : RingOf(buffer, p, c, N)[i] \in Nat
<1>1. ASSUME NEW i \in 1 .. c PROVE RingOf(buffer, p, c, N)[i] \in Nat
  <2>1. PICK at \in 0 .. N - 1 : Lies(i, p, c, N, at)
    BY RingLies
  <2>2. RingOf(buffer, p, c, N)[i] = buffer[at]
    BY <2>1, RingAt
  <2> QED BY <2>2 DEF IsRing
<1>2. DOMAIN RingOf(buffer, p, c, N) = 1 .. c
  BY DEF RingOf
<1> QED BY <1>1, <1>2

LEMMA WritesInto ==
  ASSUME NEW N, NEW buffer, NEW p, NEW c, IsRing(buffer, p, c, N),
         NEW mid, NEW written, NEW next, NEW d, Writes(mid, buffer, p, c, N, written, next, d)
  PROVE  /\ IsRing(written, next, d, N) /\ d \in 1 .. N
         /\ next = IF p = N - 1 THEN 0 ELSE p + 1
         /\ written[p] = mid /\ \A k \in 0 .. N - 1 : k # p => written[k] = buffer[k]
<1> DEFINE x == p + 1
<1>1. N \in Nat \ {0} /\ x \in 0 .. 2 * N - 1 /\ p \in 0 .. N - 1 /\ next = x % N
  BY DEF IsRing, Writes
<1> HIDE DEF x
<1>2. next = IF x < N THEN x ELSE x - N
  BY <1>1, WrapsOnce
<1>3. next = IF p = N - 1 THEN 0 ELSE p + 1
  <2>1. /\ x \in Int /\ N \in Int /\ p \in Int /\ p < N
        /\ x = p + 1
    BY <1>1 DEF x
  <2> QED BY <1>2, <2>1
<1>4. next \in 0 .. N - 1
  BY <1>1, <1>3
<1>5. d \in 1 .. N
  BY DEF IsRing, Writes
<1>6. written \in [0 .. N - 1 -> Nat]
      /\ written[p] = mid /\ \A k \in 0 .. N - 1 : k # p => written[k] = buffer[k]
  BY DEF IsRing, Writes
<1> QED BY <1>1, <1>3, <1>4, <1>5, <1>6 DEF IsRing

(* The last entry of the new window is what was written; the others are    *)
(* the newest of the old one.                                              *)
LEMMA RingRolls ==
  ASSUME NEW N, NEW buffer, NEW p, NEW c, IsRing(buffer, p, c, N),
         NEW mid, NEW written, NEW next, NEW d, Writes(mid, buffer, p, c, N, written, next, d)
  PROVE  /\ RingOf(written, next, d, N)[d] = mid
         /\ \A i \in 1 .. d : i < d =>
              RingOf(written, next, d, N)[i] = RingOf(buffer, p, c, N)[i + c + 1 - d]
         /\ c = N => RingOf(buffer, p, c, N)[1] = buffer[p]
<1>1. /\ IsRing(written, next, d, N) /\ d \in 1 .. N
      /\ next = IF p = N - 1 THEN 0 ELSE p + 1
      /\ written[p] = mid /\ \A k \in 0 .. N - 1 : k # p => written[k] = buffer[k]
  BY WritesInto
<1>2. /\ N \in Nat \ {0} /\ p \in 0 .. N - 1 /\ c \in 0 .. N
      /\ d = IF c = N THEN N ELSE c + 1
  BY DEF IsRing, Writes
<1>3. RingOf(written, next, d, N)[d] = mid
  <2>1. Lies(d, next, d, N, p) /\ d \in 1 .. d
    BY <1>1, <1>2 DEF Lies
  <2> QED BY <1>1, <2>1, RingAt
<1>4. ASSUME NEW i \in 1 .. d, i < d
      PROVE  RingOf(written, next, d, N)[i] = RingOf(buffer, p, c, N)[i + c + 1 - d]
  <2> DEFINE j == i + c + 1 - d
  <2>1. j \in 1 .. c /\ (j > 1 \/ c < N)
    BY <1>2, <1>4
  <2>2. PICK at \in 0 .. N - 1 : Lies(j, p, c, N, at) /\ at # p
    <3> HIDE DEF j
    <3> QED BY <2>1, RingLies
  <2>3. Lies(i, next, d, N, at)
    BY <1>1, <1>2, <1>4, <2>2 DEF Lies
  <2> HIDE DEF j
  <2>4. RingOf(buffer, p, c, N)[j] = buffer[at]
    BY <2>1, <2>2, RingAt
  <2>5. RingOf(written, next, d, N)[i] = written[at]
    BY <1>1, <2>3, RingAt
  <2>6. written[at] = buffer[at]
    BY <1>1, <2>2
  <2> QED BY <2>4, <2>5, <2>6 DEF j
<1>5. ASSUME c = N PROVE RingOf(buffer, p, c, N)[1] = buffer[p]
  <2>1. Lies(1, p, c, N, p) /\ 1 \in 1 .. c
    BY <1>2, <1>5 DEF Lies
  <2> QED BY <2>1, RingAt
<1> QED BY <1>3, <1>4, <1>5

(* A running sum gains what is written and, once the ring is full, loses   *)
(* what is overwritten.                                                    *)
LEMMA RingSum ==
  ASSUME NEW N, NEW buffer, NEW p, NEW c, IsRing(buffer, p, c, N),
         NEW mid, NEW written, NEW next, NEW d, Writes(mid, buffer, p, c, N, written, next, d)
  PROVE  SumFunction(RingOf(written, next, d, N)) =
           SumFunction(RingOf(buffer, p, c, N)) - (IF c = N THEN buffer[p] ELSE 0) + mid
<1> DEFINE old == RingOf(buffer, p, c, N)
           new == RingOf(written, next, d, N)
<1>1. /\ \A i \in 1 .. d : i < d => new[i] = old[i + c + 1 - d]
      /\ new[d] = mid
      /\ c = N => old[1] = buffer[p]
  BY RingRolls
<1>2. IsRing(written, next, d, N) /\ d \in 1 .. N
  BY WritesInto
<1>3. DOMAIN old = 1 .. c /\ DOMAIN new = 1 .. d
  BY <1>2, RingOfNaturals
<1>4. (\A i \in 1 .. c : old[i] \in Nat) /\ \A i \in 1 .. d : new[i] \in Nat
  BY <1>2, RingOfNaturals
<1>5. N \in Nat \ {0} /\ c \in 0 .. N /\ d = (IF c = N THEN N ELSE c + 1) /\ mid \in Nat
  BY DEF IsRing, Writes
<1> HIDE DEF old, new
<1>6. CASE c # N
  <2>1. c \in Nat /\ d = c + 1
    BY <1>5, <1>6
  <2>2. \A i \in 1 .. c : old[i] = new[i]
    <3> SUFFICES ASSUME NEW i \in 1 .. c PROVE old[i] = new[i]
      OBVIOUS
    <3>1. i \in 1 .. d /\ i < d /\ i + c + 1 - d = i
      BY <2>1
    <3> QED BY <1>1, <3>1
  <2>3. DOMAIN new = 1 .. c + 1 /\ \A i \in 1 .. c + 1 : new[i] \in Int
    BY <1>3, <1>4, <2>1
  <2>4. SumFunction(new) = SumFunction(old) + new[c + 1] /\ SumFunction(old) \in Int
    BY <1>3, <2>1, <2>2, <2>3, SumWithLast
  <2>5. SumFunction(new) = SumFunction(old) - 0 + mid
    BY <1>1, <1>5, <2>1, <2>4
  <2> QED BY <1>6, <2>5 DEF old, new
<1>7. CASE c = N
  <2>1. d = N /\ c = d
    BY <1>5, <1>7
  <2>2. \A i \in 1 .. N : i < N => new[i] = old[i + 1]
    <3> SUFFICES ASSUME NEW i \in 1 .. N, i < N PROVE new[i] = old[i + 1]
      OBVIOUS
    <3>1. i \in 1 .. d /\ i < d /\ i + c + 1 - d = i + 1
      BY <1>5, <2>1
    <3> QED BY <1>1, <3>1
  <2>3. DOMAIN new = 1 .. N /\ DOMAIN old = 1 .. N /\ \A i \in 1 .. N : old[i] \in Int
    BY <1>3, <1>4, <2>1
  <2>4. new[N] \in Int /\ N \in Nat \ {0}
    BY <1>1, <1>5, <2>1
  <2>5. SumFunction(new) = SumFunction(old) - old[1] + new[N]
    BY <2>2, <2>3, <2>4, SumSlides
  <2> QED BY <1>1, <1>7, <2>1, <2>5 DEF old, new
<1> QED BY <1>6, <1>7

(***************************************************************************)
(* The feature engine implements the moving averages.  The inductive       *)
(* invariant adds to that of the warm-up, for every slot: the two running  *)
(* sums are the sums of the two rings, and the short ring holds the        *)
(* youngest entries of the long one.                                       *)
(***************************************************************************)
(* The short window: all samples until there are FAST of them.             *)
FastCount(s) == IF sample_count[s] < FAST THEN sample_count[s] ELSE FAST
FastWindow(s) == RingOf(fast_buffer[s], fast_pointer[s], FastCount(s), FAST)

BufferTypes ==
  /\ fast_buffer \in [Slot -> [FastIndex -> Nat]]
  /\ slow_buffer \in [Slot -> [SlowIndex -> Nat]]
  /\ fast_sum \in [Slot -> Int]
  /\ slow_sum \in [Slot -> Int]

SumsRight ==
  \A s \in Slot : /\ fast_sum[s] = SumFunction(FastWindow(s))
                  /\ slow_sum[s] = SumFunction(RingWindow(s))

RingsAgree ==
  \A s \in Slot : \A i \in 1 .. FastCount(s) :
    FastWindow(s)[i] = RingWindow(s)[sample_count[s] - FastCount(s) + i]

SumsInv == WarmupInv /\ BufferTypes /\ SumsRight /\ RingsAgree

(* Whichever branch of the state machine runs, the count is the number of  *)
(* entries of the long ring, and a sum loses an entry exactly when its     *)
(* ring is full.                                                           *)
LEMMA BranchesRoll ==
  ASSUME WarmupInv, NEW u, u.slot \in Slot,
         WarmupFast(u) \/ WarmupSlow(u) \/ FeatureReady(u)
  PROVE  /\ PushMidpoint(u.slot, midpoint2(u))
         /\ RollSums(u.slot, midpoint2(u),
              IF FastCount(u.slot) = FAST THEN fast_buffer[u.slot][fast_pointer[u.slot]] ELSE 0,
              IF sample_count[u.slot] = SLOW THEN slow_buffer[u.slot][slow_pointer[u.slot]] ELSE 0)
         /\ sample_count' = [sample_count EXCEPT ![u.slot] =
              IF sample_count[u.slot] = SLOW THEN SLOW ELSE sample_count[u.slot] + 1]
         /\ calculation' = IF sample_count'[u.slot] = SLOW THEN Calculation(u) ELSE None
<1> DEFINE s == u.slot
           c == sample_count[s]
           leaves_fast == IF FastCount(s) = FAST THEN fast_buffer[s][fast_pointer[s]] ELSE 0
           leaves_slow == IF c = SLOW THEN slow_buffer[s][slow_pointer[s]] ELSE 0
           n == IF c = SLOW THEN SLOW ELSE c + 1
<1>1. /\ s \in Slot /\ c \in 0 .. SLOW
      /\ current_state[s] = WARMUP_FAST <=> c < FAST
      /\ current_state[s] = FEATURE_READY <=> c = SLOW
      /\ sample_count \in [Slot -> 0 .. SLOW]
  BY DEF WarmupInv, WarmupTypes, WarmupConsistent
<1>2. FastCount(s) = FAST <=> c >= FAST
  BY <1>1, WindowLengths DEF FastCount
<1>3. CASE WarmupFast(u)
  <2>1. c < FAST /\ c # SLOW
    BY <1>1, <1>3, WindowLengths DEF WarmupFast
  <2>2. leaves_fast = 0 /\ leaves_slow = 0 /\ n = c + 1
    BY <1>1, <1>2, <2>1, WindowLengths
  <2>3. sample_count'[s] # SLOW
    BY <1>1, <1>3, <2>1, WindowLengths DEF WarmupFast
  <2> HIDE DEF leaves_fast, leaves_slow
  <2>4. PushMidpoint(s, midpoint2(u)) /\ RollSums(s, midpoint2(u), leaves_fast, leaves_slow)
    BY <1>3, <2>2 DEF WarmupFast
  <2>5. sample_count' = [sample_count EXCEPT ![s] = n] /\ calculation' = None
    BY <1>3, <2>2 DEF WarmupFast
  <2> QED BY <2>3, <2>4, <2>5 DEF leaves_fast, leaves_slow
<1>4. CASE WarmupSlow(u)
  <2>1. c >= FAST /\ c < SLOW
    BY <1>1, <1>4, StatesDiffer, WindowLengths DEF WarmupSlow
  <2>2. leaves_fast = fast_buffer[s][fast_pointer[s]] /\ leaves_slow = 0 /\ n = c + 1
    BY <1>1, <1>2, <2>1, WindowLengths
  <2>3. sample_count'[s] = SLOW <=> c = SLOW - 1
    BY <1>1, <1>4, <2>1, WindowLengths DEF WarmupSlow
  <2> HIDE DEF leaves_fast, leaves_slow
  <2>4. PushMidpoint(s, midpoint2(u)) /\ RollSums(s, midpoint2(u), leaves_fast, leaves_slow)
    BY <1>4, <2>2 DEF WarmupSlow
  <2>5. /\ sample_count' = [sample_count EXCEPT ![s] = n]
        /\ calculation' = IF c = SLOW - 1 THEN Calculation(u) ELSE None
    BY <1>4, <2>2 DEF WarmupSlow
  <2> QED BY <2>3, <2>4, <2>5 DEF leaves_fast, leaves_slow
<1>5. CASE FeatureReady(u)
  <2>1. c = SLOW
    BY <1>1, <1>5 DEF FeatureReady
  <2>2. /\ leaves_fast = fast_buffer[s][fast_pointer[s]]
        /\ leaves_slow = slow_buffer[s][slow_pointer[s]] /\ n = SLOW
    BY <1>1, <1>2, <2>1, WindowLengths
  <2>3. sample_count'[s] = SLOW
    BY <1>1, <1>5 DEF FeatureReady
  <2> HIDE DEF leaves_fast, leaves_slow
  <2>4. PushMidpoint(s, midpoint2(u)) /\ RollSums(s, midpoint2(u), leaves_fast, leaves_slow)
    BY <1>5, <2>2 DEF FeatureReady
  <2>5. sample_count' = [sample_count EXCEPT ![s] = n] /\ calculation' = Calculation(u)
    BY <1>5, <2>2 DEF FeatureReady
  <2> QED BY <2>3, <2>4, <2>5 DEF leaves_fast, leaves_slow
<1> QED BY <1>3, <1>4, <1>5

LEMMA WindowsAreRings ==
  ASSUME SumsInv, NEW s \in Slot
  PROVE  /\ RingWindow(s) = RingOf(slow_buffer[s], slow_pointer[s], sample_count[s], SLOW)
         /\ IsRing(slow_buffer[s], slow_pointer[s], sample_count[s], SLOW)
         /\ IsRing(fast_buffer[s], fast_pointer[s], FastCount(s), FAST)
<1>1. RingWindow(s) = RingOf(slow_buffer[s], slow_pointer[s], sample_count[s], SLOW)
  BY DEF RingWindow, RingOf
<1>2. IsRing(slow_buffer[s], slow_pointer[s], sample_count[s], SLOW)
  BY WindowLengths DEF SumsInv, WarmupInv, WarmupTypes, BufferTypes, IsRing, SlowIndex
<1>3. FastCount(s) \in 0 .. FAST
  BY WindowLengths DEF SumsInv, WarmupInv, WarmupTypes, FastCount
<1>4. IsRing(fast_buffer[s], fast_pointer[s], FastCount(s), FAST)
  BY <1>3, WindowLengths DEF SumsInv, WarmupInv, WarmupTypes, BufferTypes, IsRing, FastIndex
<1> QED BY <1>1, <1>2, <1>4

(* A sample enters the windows of its slot and no others.                  *)
LEMMA SampleWrites ==
  ASSUME SumsInv, NEW u, u.slot \in Slot, midpoint2(u) \in Nat,
         WarmupFast(u) \/ WarmupSlow(u) \/ FeatureReady(u)
  PROVE  /\ Writes(midpoint2(u), slow_buffer[u.slot], slow_pointer[u.slot],
                   sample_count[u.slot], SLOW,
                   slow_buffer'[u.slot], slow_pointer'[u.slot], sample_count'[u.slot])
         /\ Writes(midpoint2(u), fast_buffer[u.slot], fast_pointer[u.slot],
                   FastCount(u.slot), FAST,
                   fast_buffer'[u.slot], fast_pointer'[u.slot], FastCount(u.slot)')
         /\ \A t \in Slot : t # u.slot =>
              /\ slow_buffer'[t] = slow_buffer[t] /\ slow_pointer'[t] = slow_pointer[t]
              /\ fast_buffer'[t] = fast_buffer[t] /\ fast_pointer'[t] = fast_pointer[t]
              /\ sample_count'[t] = sample_count[t] /\ FastCount(t)' = FastCount(t)
              /\ fast_sum'[t] = fast_sum[t] /\ slow_sum'[t] = slow_sum[t]
<1> DEFINE s == u.slot
<1>1. /\ fast_buffer' = [fast_buffer EXCEPT ![s][fast_pointer[s]] = midpoint2(u)]
      /\ slow_buffer' = [slow_buffer EXCEPT ![s][slow_pointer[s]] = midpoint2(u)]
      /\ fast_pointer' = [fast_pointer EXCEPT ![s] = (@ + 1) % FAST]
      /\ slow_pointer' = [slow_pointer EXCEPT ![s] = (@ + 1) % SLOW]
      /\ sample_count' = [sample_count EXCEPT ![s] =
           IF sample_count[s] = SLOW THEN SLOW ELSE sample_count[s] + 1]
  BY BranchesRoll DEF SumsInv, PushMidpoint
<1>2. \E lf, ls : RollSums(s, midpoint2(u), lf, ls)
  BY BranchesRoll DEF SumsInv
<1>3. /\ fast_buffer \in [Slot -> [FastIndex -> Nat]]
      /\ slow_buffer \in [Slot -> [SlowIndex -> Nat]]
      /\ fast_sum \in [Slot -> Int] /\ slow_sum \in [Slot -> Int]
      /\ fast_pointer \in [Slot -> FastIndex]
      /\ slow_pointer \in [Slot -> SlowIndex]
      /\ sample_count \in [Slot -> 0 .. SLOW]
  BY DEF SumsInv, BufferTypes, WarmupInv, WarmupTypes
<1>4. /\ slow_buffer'[s] = [slow_buffer[s] EXCEPT ![slow_pointer[s]] = midpoint2(u)]
      /\ fast_buffer'[s] = [fast_buffer[s] EXCEPT ![fast_pointer[s]] = midpoint2(u)]
  BY <1>1, <1>3
<1>5. /\ slow_pointer'[s] = (slow_pointer[s] + 1) % SLOW
      /\ fast_pointer'[s] = (fast_pointer[s] + 1) % FAST
  BY <1>1, <1>3
<1>6. sample_count'[s] = IF sample_count[s] = SLOW THEN SLOW ELSE sample_count[s] + 1
  BY <1>1, <1>3
<1>7. FastCount(s)' = IF FastCount(s) = FAST THEN FAST ELSE FastCount(s) + 1
  <2>1. sample_count[s] \in 0 .. SLOW
    BY <1>3
  <2> QED BY <1>6, <2>1, WindowLengths DEF FastCount
<1>8. ASSUME NEW t \in Slot, t # s
      PROVE  /\ slow_buffer'[t] = slow_buffer[t] /\ slow_pointer'[t] = slow_pointer[t]
             /\ fast_buffer'[t] = fast_buffer[t] /\ fast_pointer'[t] = fast_pointer[t]
             /\ sample_count'[t] = sample_count[t] /\ FastCount(t)' = FastCount(t)
             /\ fast_sum'[t] = fast_sum[t] /\ slow_sum'[t] = slow_sum[t]
  <2>1. /\ slow_buffer'[t] = slow_buffer[t] /\ slow_pointer'[t] = slow_pointer[t]
        /\ fast_buffer'[t] = fast_buffer[t] /\ fast_pointer'[t] = fast_pointer[t]
        /\ sample_count'[t] = sample_count[t]
    BY <1>1, <1>3, <1>8
  <2>2. fast_sum'[t] = fast_sum[t] /\ slow_sum'[t] = slow_sum[t]
    BY <1>2, <1>3, <1>8 DEF RollSums
  <2>3. FastCount(t)' = FastCount(t)
    BY <2>1 DEF FastCount
  <2> QED BY <2>1, <2>2, <2>3
<1> QED BY <1>4, <1>5, <1>6, <1>7, <1>8 DEF Writes

LEMMA SampleKeepsSums ==
  ASSUME SumsInv, NEW u, u.slot \in Slot, midpoint2(u) \in Nat,
         WarmupFast(u) \/ WarmupSlow(u) \/ FeatureReady(u)
  PROVE  BufferTypes' /\ SumsRight' /\ RingsAgree'
<1> DEFINE s == u.slot
           mid == midpoint2(u)
           sb == slow_buffer[s]
           fb == fast_buffer[s]
           sp == slow_pointer[s]
           fp == fast_pointer[s]
           c == sample_count[s]
           fc == FastCount(s)
           W == RingOf(sb, sp, c, SLOW)
           F == RingOf(fb, fp, fc, FAST)
           newW == RingOf(slow_buffer'[s], slow_pointer'[s], sample_count'[s], SLOW)
           newF == RingOf(fast_buffer'[s], fast_pointer'[s], FastCount(s)', FAST)
<1>1. /\ IsRing(sb, sp, c, SLOW) /\ IsRing(fb, fp, fc, FAST)
      /\ RingWindow(s) = W /\ FastWindow(s) = F
  BY WindowsAreRings DEF FastWindow
<1>2. /\ Writes(mid, sb, sp, c, SLOW, slow_buffer'[s], slow_pointer'[s], sample_count'[s])
      /\ Writes(mid, fb, fp, fc, FAST, fast_buffer'[s], fast_pointer'[s], FastCount(s)')
  BY SampleWrites
<1>3. ASSUME NEW t \in Slot, t # s
      PROVE  /\ slow_buffer'[t] = slow_buffer[t] /\ slow_pointer'[t] = slow_pointer[t]
             /\ fast_buffer'[t] = fast_buffer[t] /\ fast_pointer'[t] = fast_pointer[t]
             /\ sample_count'[t] = sample_count[t] /\ FastCount(t)' = FastCount(t)
             /\ fast_sum'[t] = fast_sum[t] /\ slow_sum'[t] = slow_sum[t]
  BY <1>3, SampleWrites
<1>4. RingWindow(s)' = newW /\ FastWindow(s)' = newF
  BY DEF RingWindow, FastWindow, RingOf
<1>5. /\ SumFunction(newW) = SumFunction(W) - (IF c = SLOW THEN sb[sp] ELSE 0) + mid
      /\ SumFunction(newF) = SumFunction(F) - (IF fc = FAST THEN fb[fp] ELSE 0) + mid
  BY <1>1, <1>2, RingSum
<1>6. /\ fast_sum' = [fast_sum EXCEPT ![s] = @ - (IF fc = FAST THEN fb[fp] ELSE 0) + mid]
      /\ slow_sum' = [slow_sum EXCEPT ![s] = @ - (IF c = SLOW THEN sb[sp] ELSE 0) + mid]
  BY BranchesRoll DEF SumsInv, RollSums
<1>7. /\ fast_sum[s] = SumFunction(F) /\ slow_sum[s] = SumFunction(W)
      /\ fast_sum \in [Slot -> Int] /\ slow_sum \in [Slot -> Int] /\ s \in Slot
  BY <1>1 DEF SumsInv, SumsRight, BufferTypes
<1>8. mid \in Nat /\ (c = SLOW => sb[sp] \in Nat) /\ (fc = FAST => fb[fp] \in Nat)
  BY <1>1 DEF IsRing
<1>9. BufferTypes'
  <2>1. fast_buffer' \in [Slot -> [FastIndex -> Nat]] /\ slow_buffer' \in [Slot -> [SlowIndex -> Nat]]
    <3>1. PushMidpoint(s, mid)
      BY BranchesRoll DEF SumsInv
    <3> QED BY <1>1, <1>8, <3>1, WindowLengths DEF PushMidpoint, SumsInv, BufferTypes
  <2>2. fast_sum' \in [Slot -> Int] /\ slow_sum' \in [Slot -> Int]
    <3> DEFINE lf == IF fc = FAST THEN fb[fp] ELSE 0
               ls == IF c = SLOW THEN sb[sp] ELSE 0
    <3>1. lf \in Int /\ ls \in Int /\ mid \in Int
      BY <1>8
    <3>2. /\ fast_sum' = [fast_sum EXCEPT ![s] = @ - lf + mid]
          /\ slow_sum' = [slow_sum EXCEPT ![s] = @ - ls + mid]
      BY <1>6
    <3> HIDE DEF lf, ls, mid
    <3> QED BY <1>7, <3>1, <3>2
  <2> QED BY <2>1, <2>2 DEF BufferTypes
<1>10. SumsRight'
  <2>1. fast_sum'[s] = SumFunction(newF) /\ slow_sum'[s] = SumFunction(newW)
    <3> HIDE DEF F, W, newF, newW, fc, c, fb, fp, sb, sp, mid
    <3> QED BY <1>5, <1>6, <1>7
  <2>2. ASSUME NEW t \in Slot, t # s
        PROVE  fast_sum'[t] = SumFunction(FastWindow(t)') /\ slow_sum'[t] = SumFunction(RingWindow(t)')
    <3>1. FastWindow(t)' = FastWindow(t) /\ RingWindow(t)' = RingWindow(t)
      BY <1>3, <2>2 DEF FastWindow, RingWindow, RingOf
    <3> QED BY <1>3, <2>2, <3>1 DEF SumsInv, SumsRight
  <2> HIDE DEF newF, newW, s
  <2> QED BY <1>4, <2>1, <2>2 DEF SumsRight
<1>11. RingsAgree'
  <2>1. ASSUME NEW t \in Slot, t # s, NEW i \in 1 .. FastCount(t)'
        PROVE  FastWindow(t)'[i] = RingWindow(t)'[sample_count'[t] - FastCount(t)' + i]
    <3>1. FastWindow(t)' = FastWindow(t) /\ RingWindow(t)' = RingWindow(t)
      BY <1>3, <2>1 DEF FastWindow, RingWindow, RingOf
    <3> QED BY <1>3, <2>1, <3>1 DEF SumsInv, RingsAgree
  <2>2. ASSUME NEW i \in 1 .. FastCount(s)'
        PROVE  newF[i] = newW[sample_count'[s] - FastCount(s)' + i]
    <3> DEFINE d == sample_count'[s]
               fd == FastCount(s)'
               k == d - fd + i
    <3>1. /\ newW[d] = mid /\ newF[fd] = mid
          /\ \A j \in 1 .. d : j < d => newW[j] = W[j + c + 1 - d]
          /\ \A j \in 1 .. fd : j < fd => newF[j] = F[j + fc + 1 - fd]
      BY <1>1, <1>2, RingRolls
    <3>2. /\ c \in 0 .. SLOW /\ fc \in 0 .. FAST /\ fc <= c /\ fc \in Int
          /\ d = (IF c = SLOW THEN SLOW ELSE c + 1)
          /\ fd = (IF fc = FAST THEN FAST ELSE fc + 1)
          /\ fc = (IF c < FAST THEN c ELSE FAST)
      <4>1. c \in 0 .. SLOW /\ fc \in 0 .. FAST
        BY <1>1 DEF IsRing
      <4>2. fc = (IF c < FAST THEN c ELSE FAST)
        BY DEF FastCount
      <4>3. d = (IF c = SLOW THEN SLOW ELSE c + 1) /\ fd = (IF fc = FAST THEN FAST ELSE fc + 1)
        BY <1>2 DEF Writes
      <4> HIDE DEF c, fc, d, fd
      <4> QED BY <4>1, <4>2, <4>3, WindowLengths
    <3>3. \A j \in 1 .. fc : F[j] = W[c - fc + j]
      BY <1>1 DEF SumsInv, RingsAgree
    <3>4. i \in 1 .. fd
      OBVIOUS
    <3> HIDE DEF newF, newW, F, W, c, fc, d, fd, mid
    <3>5. i = fd => newF[i] = newW[k]
      <4> SUFFICES ASSUME i = fd PROVE newF[i] = newW[k]
        OBVIOUS
      <4>1. k = d
        BY <3>2, WindowLengths
      <4> HIDE DEF k
      <4> QED BY <3>1, <4>1
    <3>6. i # fd => newF[i] = newW[k]
      <4> SUFFICES ASSUME i # fd PROVE newF[i] = newW[k]
        OBVIOUS
      <4>1. i < fd /\ i + fc + 1 - fd \in 1 .. fc
        BY <3>2, <3>4, WindowLengths
      <4>2. k \in 1 .. d /\ k < d
        BY <3>2, <3>4, WindowLengths
      <4>3. c - fc + (i + fc + 1 - fd) = k + c + 1 - d
        BY <3>2, <3>4, WindowLengths
      <4>4. newF[i] = W[c - fc + (i + fc + 1 - fd)]
        BY <3>1, <3>3, <3>4, <4>1
      <4>5. newW[k] = W[k + c + 1 - d]
        <5> HIDE DEF k
        <5> QED BY <3>1, <4>2
      <4> HIDE DEF k
      <4> QED BY <4>3, <4>4, <4>5
    <3> HIDE DEF k
    <3>7. newF[i] = newW[k]
      BY <3>5, <3>6
    <3> QED BY <3>7 DEF k, d, fd
  <2> HIDE DEF newF, newW, s
  <2> QED BY <1>4, <2>1, <2>2 DEF RingsAgree
<1> QED BY <1>9, <1>10, <1>11

(* The abstract window takes the same sample.                              *)
LEMMA SampleSlides ==
  ASSUME SumsInv, NEW u, u.slot \in Slot, midpoint2(u) \in Nat,
         WarmupFast(u) \/ WarmupSlow(u) \/ FeatureReady(u)
  PROVE  /\ RingWindow(u.slot)' =
              Averages!Newest(SLOW, Append(RingWindow(u.slot), midpoint2(u)))
         /\ Len(RingWindow(u.slot)') = sample_count'[u.slot]
         /\ \A t \in Slot : t # u.slot => RingWindow(t)' = RingWindow(t)
<1> DEFINE s == u.slot
           mid == midpoint2(u)
           c == sample_count[s]
           d == sample_count'[s]
           W == RingWindow(s)
           newW == RingWindow(s)'
           longer == Append(W, mid)
<1>1. /\ RingWindow(s) = RingOf(slow_buffer[s], slow_pointer[s], c, SLOW)
      /\ IsRing(slow_buffer[s], slow_pointer[s], c, SLOW)
  BY WindowsAreRings
<1>2. Writes(mid, slow_buffer[s], slow_pointer[s], c, SLOW, slow_buffer'[s], slow_pointer'[s], d)
  BY SampleWrites
<1>3. newW = RingOf(slow_buffer'[s], slow_pointer'[s], d, SLOW)
  BY DEF RingWindow, RingOf
<1>4. newW[d] = mid /\ \A i \in 1 .. d : i < d => newW[i] = W[i + c + 1 - d]
  BY <1>1, <1>2, <1>3, RingRolls
<1>5. /\ DOMAIN W = 1 .. c /\ \A i \in 1 .. c : W[i] \in Nat
      /\ c \in 0 .. SLOW /\ d = (IF c = SLOW THEN SLOW ELSE c + 1) /\ mid \in Nat
  BY <1>1, <1>2, RingOfNaturals DEF IsRing, Writes
<1>6. /\ DOMAIN newW = 1 .. d /\ \A i \in 1 .. d : newW[i] \in Nat
  <2>1. IsRing(slow_buffer'[s], slow_pointer'[s], d, SLOW)
    BY <1>1, <1>2, WritesInto
  <2> QED BY <1>3, <2>1, RingOfNaturals
<1>7. W \in Seq(Nat) /\ Len(W) = c /\ newW \in Seq(Nat) /\ Len(newW) = d
  <2>1. W \in [1 .. c -> Nat] /\ newW \in [1 .. d -> Nat]
    BY <1>5, <1>6 DEF RingWindow
  <2>2. c \in Nat /\ d \in Nat
    BY <1>5, WindowLengths
  <2> HIDE DEF W, newW, c, d
  <2>3. W \in Seq(Nat) /\ newW \in Seq(Nat)
    BY <2>1, <2>2, SeqDef
  <2> QED BY <1>5, <1>6, <2>2, <2>3, LenProperties
<1> HIDE DEF W, newW, c, d, mid
<1>8. /\ longer \in Seq(Nat) /\ Len(longer) = c + 1
      /\ \A i \in 1 .. c : longer[i] = W[i]
      /\ longer[c + 1] = mid
  BY <1>5, <1>7, AppendProperties
<1> HIDE DEF longer
<1>9. newW = Averages!Newest(SLOW, longer)
  <2>1. CASE c = SLOW
    <3>1. Averages!Newest(SLOW, longer) = SubSeq(longer, Len(longer) - SLOW + 1, Len(longer))
      BY <1>8, <2>1, WindowLengths DEF Averages!Newest
    <3>2. Len(longer) = SLOW + 1 /\ Len(longer) - SLOW + 1 = 2 /\ d = SLOW
      BY <1>5, <1>8, <2>1, WindowLengths
    <3> DEFINE last == SLOW + 1
               recent == SubSeq(longer, 2, last)
    <3>3. /\ recent \in Seq(Nat) /\ Len(recent) = SLOW
          /\ \A i \in 1 .. SLOW : recent[i] = longer[i + 1]
      <4>1. last \in Int /\ \A i \in 2 .. last : longer[i] \in Nat
        BY <1>8, <3>2, WindowLengths, ElementOfSeq
      <4>2. \A i \in 1 .. SLOW : 2 + i - 1 = i + 1 /\ i \in 1 .. last - 2 + 1
        BY WindowLengths
      <4>3. last - 2 + 1 = SLOW /\ 2 <= last
        BY WindowLengths
      <4> HIDE DEF last
      <4>4. /\ recent \in Seq(Nat)
            /\ Len(recent) = IF 2 <= last THEN last - 2 + 1 ELSE 0
            /\ \A i \in 1 .. last - 2 + 1 : recent[i] = longer[2 + i - 1]
        BY <4>1, SubSeqProperties
      <4> HIDE DEF recent
      <4> QED BY <4>2, <4>3, <4>4
    <3> HIDE DEF recent
    <3>4. \A i \in 1 .. SLOW : newW[i] = recent[i]
      <4> SUFFICES ASSUME NEW i \in 1 .. SLOW PROVE newW[i] = recent[i]
        OBVIOUS
      <4>1. CASE i = SLOW
        BY <1>4, <1>8, <2>1, <3>2, <3>3, <4>1
      <4>2. CASE i # SLOW
        <5>1. i \in 1 .. d /\ i < d /\ i + c + 1 - d = i + 1 /\ i + 1 \in 1 .. c
          BY <2>1, <3>2, <4>2, WindowLengths
        <5> QED BY <1>4, <1>8, <3>3, <5>1
      <4> QED BY <4>1, <4>2
    <3>5. newW = recent
      BY <1>7, <3>2, <3>3, <3>4, SeqEqual
    <3> QED BY <3>1, <3>2, <3>5 DEF recent, last
  <2>2. CASE c # SLOW
    <3>1. d = c + 1 /\ c + 1 <= SLOW /\ c \in Nat
      BY <1>5, <2>2, WindowLengths
    <3>2. Averages!Newest(SLOW, longer) = longer
      BY <1>8, <3>1 DEF Averages!Newest
    <3>3. \A i \in 1 .. d : newW[i] = longer[i]
      <4> SUFFICES ASSUME NEW i \in 1 .. d PROVE newW[i] = longer[i]
        OBVIOUS
      <4>1. CASE i = d
        BY <1>4, <1>8, <3>1, <4>1
      <4>2. CASE i # d
        <5>1. i < d /\ i + c + 1 - d = i /\ i \in 1 .. c
          BY <3>1, <4>2
        <5> QED BY <1>4, <1>8, <5>1
      <4> QED BY <4>1, <4>2
    <3> QED BY <1>7, <1>8, <3>1, <3>2, <3>3, SeqEqual
  <2> QED BY <2>1, <2>2
<1>10. ASSUME NEW t \in Slot, t # s PROVE RingWindow(t)' = RingWindow(t)
  BY <1>10, SampleWrites DEF RingWindow
<1> QED BY <1>7, <1>9, <1>10 DEF W, newW, longer, mid, d

LEMMA ClearedWindows ==
  ASSUME \A s \in Slot : sample_count[s] = 0
  PROVE  /\ \A s \in Slot : RingWindow(s) = <<>> /\ FastCount(s) = 0
         /\ \A s \in Slot : SumFunction(RingWindow(s)) = 0 /\ SumFunction(FastWindow(s)) = 0
<1> SUFFICES ASSUME NEW s \in Slot
             PROVE  /\ RingWindow(s) = <<>> /\ FastCount(s) = 0
                    /\ SumFunction(RingWindow(s)) = 0 /\ SumFunction(FastWindow(s)) = 0
  OBVIOUS
<1>1. FastCount(s) = 0
  BY WindowLengths DEF FastCount
<1>2. 1 .. 0 = {}
  OBVIOUS
<1>3. DOMAIN RingWindow(s) = {} /\ DOMAIN FastWindow(s) = {}
  BY <1>1, <1>2 DEF RingWindow, FastWindow, RingOf
<1>4. RingWindow(s) = <<>>
  <2>1. RingWindow(s) \in [1 .. 0 -> Nat]
    BY <1>2, <1>3 DEF RingWindow
  <2>2. RingWindow(s) \in Seq(Nat) /\ Len(RingWindow(s)) = 0
    <3>1. RingWindow(s) \in Seq(Nat)
      BY <2>1, SeqDef
    <3> QED BY <1>2, <1>3, <3>1, LenProperties
  <2> QED BY <2>2, EmptySeq
<1>5. SumFunction(RingWindow(s)) = 0 /\ SumFunction(FastWindow(s)) = 0
  BY <1>3, SumOfNone DEF SumFunction
<1> QED BY <1>1, <1>4, <1>5

LEMMA SumsInit == FeatureInit => SumsInv
<1> SUFFICES ASSUME FeatureInit PROVE SumsInv
  OBVIOUS
<1>1. WarmupInv
  BY WarmupInit
<1>2. BufferTypes
  <2>1. fast_sum \in [Slot -> Int] /\ slow_sum \in [Slot -> Int]
    BY DEF FeatureInit, AllZero
  <2>2. fast_buffer \in [Slot -> [FastIndex -> Nat]] /\ slow_buffer \in [Slot -> [SlowIndex -> Nat]]
    BY ParameterAssumption DEF FeatureInit
  <2> QED BY <2>1, <2>2 DEF BufferTypes
<1>3. \A s \in Slot : sample_count[s] = 0
  BY DEF FeatureInit, AllZero
<1>4. SumsRight
  BY <1>3, ClearedWindows DEF FeatureInit, AllZero, SumsRight
<1>5. RingsAgree
  <2>1. \A s \in Slot : 1 .. FastCount(s) = {}
    BY <1>3, ClearedWindows
  <2> QED BY <2>1 DEF RingsAgree
<1> QED BY <1>1, <1>2, <1>4, <1>5 DEF SumsInv

LEMMA StartKeepsSums == ASSUME SumsInv, FeatureStart PROVE SumsInv'
<1>1. WarmupInv'
  BY StartKeepsInv
<1>2. BufferTypes'
  BY DEF FeatureStart, SumsInv, BufferTypes, AllZero
<1>3. \A s \in Slot : /\ sample_count'[s] = 0 /\ fast_sum'[s] = 0 /\ slow_sum'[s] = 0
  BY DEF FeatureStart, AllZero
<1>4. ASSUME NEW s \in Slot
      PROVE  /\ SumFunction(RingWindow(s)') = 0 /\ SumFunction(FastWindow(s)') = 0
             /\ 1 .. FastCount(s)' = {}
  <2>1. sample_count'[s] = 0 /\ FastCount(s)' = 0 /\ 1 .. 0 = {}
    BY <1>3, WindowLengths DEF FastCount
  <2>2. DOMAIN (RingWindow(s)') = {} /\ DOMAIN (FastWindow(s)') = {}
    BY <2>1 DEF RingWindow, FastWindow, RingOf
  <2> QED BY <2>1, <2>2, SumOfNone DEF SumFunction
<1>5. SumsRight'
  BY <1>3, <1>4 DEF SumsRight
<1>6. RingsAgree'
  BY <1>4 DEF RingsAgree
<1> QED BY <1>1, <1>2, <1>5, <1>6 DEF SumsInv

(* Registers of the rings that stay as they are keep what is said of them. *)
LEMMA SameWindows ==
  ASSUME SumsInv, UNCHANGED windowVars
  PROVE  BufferTypes' /\ SumsRight' /\ RingsAgree' /\ \A s \in Slot : RingWindow(s)' = RingWindow(s)
<1>1. BufferTypes'
  BY DEF windowVars, SumsInv, BufferTypes
<1>2. ASSUME NEW s \in Slot
      PROVE  RingWindow(s)' = RingWindow(s) /\ FastWindow(s)' = FastWindow(s)
             /\ FastCount(s)' = FastCount(s)
  BY DEF windowVars, RingWindow, FastWindow, FastCount, RingOf
<1>3. UNCHANGED <<fast_sum, slow_sum, sample_count>>
  BY DEF windowVars
<1>4. SumsRight'
  BY <1>2, <1>3 DEF SumsInv, SumsRight
<1>5. RingsAgree'
  BY <1>2, <1>3 DEF SumsInv, RingsAgree
<1> QED BY <1>1, <1>2, <1>4, <1>5

LEMMA LevelPricesAreNaturals == \A l \in Level : l.price \in Nat
<1>1. Price \subseteq Nat
  BY Hft1Assumption
<1> SUFFICES ASSUME NEW l \in Level PROVE l.price \in Nat
  OBVIOUS
<1>2. CASE l \in [price : Price, quantity : Quantity]
  BY <1>1, <1>2
<1>3. CASE l = NoLevel
  BY <1>3 DEF NoLevel
<1> QED BY <1>2, <1>3 DEF Level

LEMMA MidpointsAreNaturals ==
  ASSUME NEW u \in BookUpdate PROVE u.slot \in Slot /\ midpoint2(u) \in Nat
<1>1. u.slot \in Slot /\ u.bid \in Level /\ u.ask \in Level
  BY DEF BookUpdate
<1>2. \A l \in Level : l.price \in Nat
  BY LevelPricesAreNaturals
<1> QED BY <1>1, <1>2 DEF midpoint2

LEMMA ClockKeepsSums ==
  ASSUME SumsInv, NEW u \in BookUpdate \cup {None}, FeatureClock(u)
  PROVE  SumsInv'
<1>1. WarmupInv'
  BY ClockKeepsInv DEF SumsInv
<1>2. CASE Processed(u) /\ (WarmupFast(u) \/ WarmupSlow(u) \/ FeatureReady(u))
  <2>1. u \in BookUpdate
    BY <1>2 DEF Processed
  <2> QED BY <1>1, <1>2, <2>1, MidpointsAreNaturals, SampleKeepsSums DEF SumsInv
<1>3. CASE ~Processed(u) /\ NoSample
  BY <1>1, <1>3, SameWindows DEF NoSample, SumsInv
<1> QED BY <1>2, <1>3 DEF FeatureClock

LEMMA EndKeepsSums == ASSUME SumsInv, FeatureEnd PROVE SumsInv'
BY EndKeepsInv, SameWindows DEF FeatureEnd, SumsInv
-------------------------------------------------------------------------------
(* The refinement of the moving averages.                                  *)
LEMMA SameParameters ==
  Averages!Slot = Slot /\ Averages!Level = Level
BY DEF Averages!Slot, Averages!Level, Averages!NoLevel, Slot, Level, NoLevel

LEMMA SameSums ==
  ASSUME NEW n, NEW seq
  PROVE  Averages!Mean(n, seq) = SumFunction(Averages!Newest(n, seq)) \div n
BY DEF Averages!Mean, Averages!SumFunction, Averages!SumFunctionOnSet, SumFunction,
       SumFunctionOnSet, Averages!FoldFunctionOnSet, FoldFunctionOnSet,
       Averages!MapThenFoldSet, MapThenFoldSet

(* With full windows, the two running sums are those of the two means.     *)
LEMMA MeansFromSums ==
  ASSUME SumsInv, NEW s \in Slot, sample_count[s] = SLOW
  PROVE  Trend(s) = Averages!Mean(FAST, RingWindow(s)) - Averages!Mean(SLOW, RingWindow(s))
<1> DEFINE W == RingWindow(s)
           F == FastWindow(s)
           first == SLOW - FAST + 1
           newest == SubSeq(W, first, SLOW)
<1>1. /\ fast_sum[s] = SumFunction(F) /\ slow_sum[s] = SumFunction(W)
      /\ FastCount(s) = FAST
      /\ \A i \in 1 .. FAST : F[i] = W[SLOW - FAST + i]
  BY WindowLengths DEF SumsInv, SumsRight, RingsAgree, FastCount
<1>2. /\ IsRing(slow_buffer[s], slow_pointer[s], SLOW, SLOW)
      /\ W = RingOf(slow_buffer[s], slow_pointer[s], SLOW, SLOW)
      /\ IsRing(fast_buffer[s], fast_pointer[s], FAST, FAST)
      /\ F = RingOf(fast_buffer[s], fast_pointer[s], FAST, FAST)
  BY <1>1, WindowsAreRings DEF FastWindow
<1>3. /\ DOMAIN W = 1 .. SLOW /\ \A i \in 1 .. SLOW : W[i] \in Nat
      /\ DOMAIN F = 1 .. FAST /\ \A i \in 1 .. FAST : F[i] \in Nat
  BY <1>2, RingOfNaturals
<1>4. W \in [1 .. SLOW -> Nat] /\ F \in [1 .. FAST -> Nat]
  BY <1>2, <1>3 DEF RingOf
<1> HIDE DEF W, F
<1>5. W \in Seq(Nat) /\ Len(W) = SLOW /\ F \in Seq(Nat) /\ Len(F) = FAST
  <2>1. W \in Seq(Nat) /\ F \in Seq(Nat)
    BY <1>4, WindowLengths, SeqDef
  <2> QED BY <1>3, <2>1, LenProperties, WindowLengths
<1>6. newest = F
  <2>1. first \in 1 .. SLOW /\ SLOW - first + 1 = FAST /\ first <= SLOW
    BY WindowLengths
  <2>2. \A i \in 1 .. FAST : first + i - 1 = SLOW - FAST + i
    BY WindowLengths
  <2>3. \A i \in first .. SLOW : W[i] \in Nat
    BY <1>3, <2>1
  <2>4. SLOW \in Int /\ first \in Int
    BY <2>1, WindowLengths
  <2> HIDE DEF first
  <2>5. /\ newest \in Seq(Nat)
        /\ Len(newest) = IF first <= SLOW THEN SLOW - first + 1 ELSE 0
        /\ \A i \in 1 .. SLOW - first + 1 : newest[i] = W[first + i - 1]
    BY <2>3, <2>4, SubSeqProperties
  <2> HIDE DEF newest
  <2>6. \A i \in 1 .. FAST : newest[i] = F[i]
    BY <1>1, <2>1, <2>2, <2>5 DEF W, F
  <2>7. Len(newest) = FAST
    BY <2>1, <2>5
  <2> QED BY <1>5, <2>5, <2>6, <2>7, SeqEqual
<1>7. Averages!Newest(FAST, W) = F /\ Averages!Newest(SLOW, W) = W
  <2>1. Averages!Newest(FAST, W) = SubSeq(W, Len(W) - FAST + 1, Len(W))
    BY <1>5, WindowLengths DEF Averages!Newest
  <2>2. Averages!Newest(SLOW, W) = W
    BY <1>5, WindowLengths DEF Averages!Newest
  <2> QED BY <1>5, <1>6, <2>1, <2>2
<1>8. /\ Averages!Mean(FAST, W) = SumFunction(F) \div FAST
      /\ Averages!Mean(SLOW, W) = SumFunction(W) \div SLOW
  BY <1>7, SameSums
<1>9. Trend(s) = SumFunction(F) \div FAST - SumFunction(W) \div SLOW
  BY <1>1 DEF Trend, W, F
<1> QED BY <1>8, <1>9 DEF W

LEMMA PublishesMeans ==
  ASSUME SumsInv, CalculateFeature
  PROVE  Averages!Publish
<1>1. CASE calculation = None
  BY <1>1 DEF CalculateFeature, Averages!Publish
<1>2. CASE calculation # None
  <2>1. calculation.slot \in Slot /\ sample_count[calculation.slot] = SLOW
    BY <1>2 DEF SumsInv, WarmupInv, WarmupTypes, FeaturesNeedFullWindows
  <2> DEFINE s == calculation.slot
  <2>2. Trend(s) = Averages!Mean(FAST, RingWindow(s)) - Averages!Mean(SLOW, RingWindow(s))
    BY <2>1, MeansFromSums
  <2>3. [t \in Slot |-> RingWindow(t)][s] = RingWindow(s)
    BY <2>1
  <2> QED BY <1>2, <2>2, <2>3 DEF CalculateFeature, Averages!Publish
<1> QED BY <1>1, <1>2

LEMMA SampleRefines ==
  ASSUME SumsInv, NEW u \in BookUpdate, Consistent(u), Processed(u), CalculateFeature,
         WarmupFast(u) \/ WarmupSlow(u) \/ FeatureReady(u)
  PROVE  Averages!Next
<1> DEFINE s == u.slot
           windows == [t \in Slot |-> RingWindow(t)]
<1>1. s \in Slot /\ midpoint2(u) \in Nat /\ u.bid \in Level /\ u.ask \in Level
  BY MidpointsAreNaturals DEF BookUpdate
<1>2. /\ RingWindow(s)' = Averages!Newest(SLOW, Append(RingWindow(s), midpoint2(u)))
      /\ Len(RingWindow(s)') = sample_count'[s]
      /\ \A t \in Slot : t # s => RingWindow(t)' = RingWindow(t)
  BY <1>1, SampleSlides
<1>3. windows' = [windows EXCEPT ![s] = Averages!Newest(SLOW, Append(@, u.bid.price + u.ask.price))]
  BY <1>1, <1>2 DEF midpoint2
<1>4. windows'[s] = RingWindow(s)'
  BY <1>1
<1>5. calculation' = IF Len(windows'[s]) < SLOW THEN None
                     ELSE [slot |-> s, imbalance |-> u.bid.quantity - u.ask.quantity,
                           spread |-> u.ask.price - u.bid.price]
  <2>1. calculation' = IF sample_count'[s] = SLOW THEN Calculation(u) ELSE None
    BY <1>1, BranchesRoll DEF SumsInv
  <2>2. sample_count'[s] \in 0 .. SLOW
    BY <1>1, BranchesSample DEF SumsInv
  <2>3. sample_count'[s] = SLOW <=> ~(sample_count'[s] < SLOW)
    BY <2>2, WindowLengths
  <2> QED BY <1>2, <1>4, <2>1, <2>3 DEF Calculation
<1>6. u.bid.price <= u.ask.price
  <2>1. \A l \in Level : l.price \in Nat
    BY LevelPricesAreNaturals
  <2>2. ~(u.ask.price < u.bid.price)
    BY DEF Consistent, Processed
  <2> QED BY <1>1, <2>1, <2>2
<1>7. Averages!Publish
  BY PublishesMeans
<1> HIDE DEF windows
<1>8. Averages!Sample(s, u.bid, u.ask)
  BY <1>3, <1>5, <1>7 DEF Averages!Sample, windows
<1> QED BY <1>1, <1>6, <1>8, SameParameters DEF Averages!Next

LEMMA StepRefines ==
  ASSUME SumsInv, [FeatureNext]_featureVars
  PROVE  SumsInv' /\ [Averages!Next]_<<[s \in Slot |-> RingWindow(s)], calculation, feature>>
<1> DEFINE windows == [s \in Slot |-> RingWindow(s)]
<1>1. CASE FeatureStart
  <2>1. \A s \in Slot : sample_count'[s] = 0
    BY <1>1 DEF FeatureStart, AllZero
  <2>2. ASSUME NEW s \in Slot PROVE RingWindow(s)' = <<>>
    <3>1. sample_count'[s] = 0 /\ 1 .. 0 = {}
      BY <2>1
    <3>2. RingWindow(s)' \in [1 .. 0 -> Nat] /\ DOMAIN (RingWindow(s)') = {}
      BY <3>1 DEF RingWindow
    <3>3. RingWindow(s)' \in Seq(Nat) /\ Len(RingWindow(s)') = 0
      <4>1. RingWindow(s)' \in Seq(Nat)
        BY <3>2, SeqDef
      <4> QED BY <3>1, <3>2, <4>1, LenProperties
    <3> QED BY <3>3, EmptySeq
  <2>3. windows' = [s \in Slot |-> <<>>]
    BY <2>2
  <2>4. Averages!NewStream
    BY <1>1, <2>3, SameParameters DEF FeatureStart, Averages!NewStream
  <2> QED BY <1>1, <2>4, StartKeepsSums DEF Averages!Next
<1>2. CASE FeatureEnd
  <2>1. windows' = windows
    BY <1>2, SameWindows DEF FeatureEnd
  <2>2. Averages!EndOfStream
    BY <1>2, <2>1 DEF FeatureEnd, Averages!EndOfStream
  <2> QED BY <1>2, <2>2, EndKeepsSums DEF Averages!Next
<1>3. ASSUME NEW u \in BookUpdate \cup {None}, u = None \/ Consistent(u), FeatureClock(u)
      PROVE  SumsInv' /\ Averages!Next
  <2>1. SumsInv'
    BY <1>3, ClockKeepsSums
  <2>2. CASE Processed(u) /\ (WarmupFast(u) \/ WarmupSlow(u) \/ FeatureReady(u))
    BY <1>3, <2>1, <2>2, SampleRefines DEF FeatureClock, Processed
  <2>3. CASE ~Processed(u) /\ NoSample
    <3>1. windows' = windows
      BY <2>3, SameWindows DEF NoSample
    <3>2. Averages!NoSample
      BY <1>3, <2>3, <3>1, PublishesMeans DEF NoSample, FeatureClock, Averages!NoSample
    <3> QED BY <2>1, <3>2 DEF Averages!Next
  <2> QED BY <1>3, <2>2, <2>3 DEF FeatureClock
<1>4. CASE UNCHANGED featureVars
  <2>1. UNCHANGED windowVars /\ UNCHANGED <<calculation, feature>>
    BY <1>4 DEF featureVars
  <2>2. windows' = windows /\ BufferTypes' /\ SumsRight' /\ RingsAgree'
    BY <2>1, SameWindows
  <2>3. WarmupInv'
    BY <2>1 DEF windowVars, SumsInv, WarmupInv, WarmupTypes, WarmupConsistent,
                FeaturesNeedFullWindows
  <2> QED BY <2>1, <2>2, <2>3 DEF SumsInv
<1>5. CASE FeatureNext
  <2>1. PICK start_pulse \in BOOLEAN, end_pulse \in BOOLEAN,
             u \in {v \in BookUpdate : Consistent(v)} \cup {None} :
               FeatureTick(start_pulse, end_pulse, u)
    BY <1>5 DEF FeatureNext
  <2>2. FeatureStart \/ FeatureEnd \/ FeatureClock(u)
    BY <2>1 DEF FeatureTick
  <2> QED BY <1>1, <1>2, <1>3, <2>2
<1> QED BY <1>4, <1>5

(* For windows of every length and updates at any distance, every feature  *)
(* published is the one that the last FAST and SLOW midpoints of this      *)
(* stream call for: the rings hold exactly these, what power-up or an      *)
(* earlier stream left in the buffers never enters a sum, and the running  *)
(* sums, which are only ever corrected, stay the sums of the rings.        *)
THEOREM ImplementsMovingAveragesHolds == FeatureSpec => ImplementsMovingAverages
<1> DEFINE windows == [s \in Slot |-> RingWindow(s)]
<1>1. FeatureInit => SumsInv
  BY SumsInit
<1>2. FeatureInit => Averages!Init
  <2> SUFFICES ASSUME FeatureInit PROVE Averages!Init
    OBVIOUS
  <2>1. \A s \in Slot : sample_count[s] = 0
    BY DEF FeatureInit, AllZero
  <2>2. windows = [s \in Slot |-> <<>>]
    BY <2>1, ClearedWindows
  <2> QED BY <2>2, SameParameters DEF FeatureInit, Averages!Init
<1>3. SumsInv /\ [FeatureNext]_featureVars =>
        SumsInv' /\ [Averages!Next]_<<windows, calculation, feature>>
  BY StepRefines
<1> QED BY <1>1, <1>2, <1>3, PTL DEF FeatureSpec, ImplementsMovingAverages, Averages!Spec
===============================================================================
