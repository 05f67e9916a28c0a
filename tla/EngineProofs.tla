------------------------------ MODULE EngineProofs ------------------------------
(***************************************************************************)
(* Theorems about the engine under packets SPACING clocks apart.  The      *)
(* first argument is the same for all: whatever a stage holds it holds at  *)
(* one distance from the last packet, so stages at different distances     *)
(* never hold something together.  On it rests the comparison with the     *)
(* atomic engine: what the stages will hold once the one quote in flight   *)
(* has passed is what the reference holds already, and what is on its way  *)
(* through the later stages is what the reference decided.                 *)
(***************************************************************************)
EXTENDS EngineScoreboard, FeatureEngineProofs, InstrumentBookProofs, TLAPS

(* What the stages up to the first feature stage hold is at most three     *)
(* clocks behind the filter.                                               *)
EarlyInv ==
  /\ age \in 1 .. LATENCY
  /\ stream_start_pulse \/ stream_end_pulse => age = 1 /\ quote = None
  /\ quote # None => age = 1 /\ stream_active
  /\ tracked # None => age = 2 /\ stream_active
  /\ book_update # None => age = 3 /\ stream_active
  /\ calculation # None => age = 4 /\ stream_active

(* The stages behind it, when packets are LATENCY clocks apart.            *)
LateInv ==
  /\ feature # None => age = 5 /\ stream_active
  /\ products # None => age = 6 /\ stream_active
  /\ scores # None => age = 7 /\ stream_active
  /\ signal # None => age = 8 /\ stream_active
-------------------------------------------------------------------------------
(* No stage makes up a quote: what it registers comes from its input.      *)
LEMMA StagesForward ==
  ASSUME NEW p, EngineTick(p)
  PROVE  /\ tracked' # None => quote # None
         /\ book_update' # None => tracked # None
         /\ calculation' # None => book_update # None
         /\ feature' # None => calculation # None
         /\ products' # None => feature # None
         /\ scores' # None => products # None
         /\ signal' # None => scores # None
<1>1. tracked' # None => quote # None
  BY DEF EngineTick, TrackerTick, TrackerStart, TrackerEnd, TrackerIdle, RejectQuote
<1>2. book_update' # None => tracked # None
  BY DEF EngineTick, BookTick, BookStart, BookEnd, BookIdle
<1>3. calculation' # None => book_update # None
  BY DEF EngineTick, FeatureTick, FeatureStart, FeatureEnd, FeatureClock,
         Processed, NoSample
<1>4. feature' # None => calculation # None
  BY DEF EngineTick, FeatureTick, FeatureStart, FeatureEnd, FeatureClock,
         CalculateFeature
<1>5. /\ products' # None => feature # None
      /\ scores' # None => products # None
      /\ signal' # None => scores # None
  BY DEF EngineTick, DecisionTick
<1> QED BY <1>1, <1>2, <1>3, <1>4, <1>5

(* Without a packet the filter offers nothing and keeps its stream state.  *)
LEMMA FilterWithoutPacket ==
  ASSUME FilterTick(None)
  PROVE  /\ quote' = None
         /\ stream_start_pulse' = FALSE /\ stream_end_pulse' = FALSE
         /\ stream_active' = stream_active
BY DEF FilterTick, FilterIdle, Pulses

(* A packet raises a pulse or becomes a quote of an open stream, not both. *)
LEMMA FilterWithPacket ==
  ASSUME NEW p, FilterTick(p)
  PROVE  /\ stream_start_pulse' \/ stream_end_pulse' => quote' = None
         /\ quote' # None => stream_active'
BY DEF FilterTick, FilterStart, FilterEnd, FilterQuote, FilterUnknown,
       FilterInactive, FilterIdle, Pulses

LEMMA EarlyInit == Init => EarlyInv
BY DEF Init, EarlyInv, EngineInit, FilterInit, TrackerInit, BookInit, FeatureInit,
       LATENCY

LEMMA EarlyStep ==
  ASSUME SPACING >= 4, EarlyInv, [Next]_vars
  PROVE  EarlyInv'
<1>1. ASSUME NEW p \in Presented, PacketClock(p)
      PROVE  EarlyInv'
  <2>1. age \in 4 .. LATENCY /\ age' = 1
    BY <1>1, ScoreboardAssumption DEF PacketClock, EarlyInv, LATENCY
  <2>2. quote = None /\ tracked = None /\ book_update = None
    BY <2>1 DEF EarlyInv, LATENCY
  <2>3. tracked' = None /\ book_update' = None /\ calculation' = None
    BY <1>1, <2>2, StagesForward DEF PacketClock
  <2>4. FilterTick(p)
    BY <1>1 DEF PacketClock, EngineTick
  <2> QED BY <2>1, <2>3, <2>4, FilterWithPacket DEF EarlyInv, LATENCY
<1>2. CASE IdleClock
  <2>1. /\ quote' = None /\ stream_active' = stream_active
        /\ ~stream_start_pulse' /\ ~stream_end_pulse'
    BY <1>2, FilterWithoutPacket DEF IdleClock, EngineTick
  <2>2. age' \in 1 .. LATENCY /\ (age < LATENCY => age' = age + 1)
    BY <1>2 DEF IdleClock, EarlyInv, LATENCY
  <2>3. /\ tracked' # None => quote # None
        /\ book_update' # None => tracked # None
        /\ calculation' # None => book_update # None
    BY <1>2, StagesForward DEF IdleClock
  <2> QED BY <2>1, <2>2, <2>3 DEF EarlyInv, LATENCY
<1>3. CASE UNCHANGED vars
  BY <1>3 DEF EarlyInv, vars, engineVars, filterVars, trackerVars, bookVars,
              featureVars, windowVars, decisionVars, scoreboardVars
<1> QED BY <1>1, <1>2, <1>3 DEF Next

(* With packets at least four clocks apart, no START or END pulse ever     *)
(* meets a quote on its way: the distance the parser keeps is twice that.  *)
THEOREM PulsesFlushNothingHolds ==
  ASSUME SPACING >= 4 PROVE Spec => []PulsesFlushNothing
<1>1. Init => EarlyInv BY EarlyInit
<1>2. EarlyInv /\ [Next]_vars => EarlyInv' BY EarlyStep
<1>3. EarlyInv => PulsesFlushNothing BY DEF EarlyInv, PulsesFlushNothing
<1> QED BY <1>1, <1>2, <1>3, PTL DEF Spec
-------------------------------------------------------------------------------
LEMMA LateStep ==
  ASSUME SPACING >= LATENCY, EarlyInv, LateInv, [Next]_vars
  PROVE  LateInv'
<1>1. ASSUME NEW p \in Presented, PacketClock(p)
      PROVE  LateInv'
  <2>1. age = 8
    BY <1>1, ScoreboardAssumption DEF PacketClock, EarlyInv, LATENCY
  <2>2. calculation = None /\ feature = None /\ products = None /\ scores = None
    BY <2>1 DEF EarlyInv, LateInv
  <2> QED BY <1>1, <2>2, StagesForward DEF PacketClock, LateInv
<1>2. CASE IdleClock
  <2>1. stream_active' = stream_active
    BY <1>2, FilterWithoutPacket DEF IdleClock, EngineTick
  <2>2. age < LATENCY => age' = age + 1
    BY <1>2 DEF IdleClock
  <2>3. /\ feature' # None => calculation # None
        /\ products' # None => feature # None
        /\ scores' # None => products # None
        /\ signal' # None => scores # None
    BY <1>2, StagesForward DEF IdleClock
  <2> QED BY <2>1, <2>2, <2>3 DEF EarlyInv, LateInv, LATENCY
<1>3. CASE UNCHANGED vars
  BY <1>3 DEF LateInv, vars, engineVars, filterVars, trackerVars, bookVars,
              featureVars, windowVars, decisionVars, scoreboardVars
<1> QED BY <1>1, <1>2, <1>3 DEF Next

(* With packets no closer than the pipeline is long, no decision appears   *)
(* once the filter has closed the stream, although the decision stage      *)
(* never hears of the end.                                                 *)
THEOREM NoDecisionAfterEndHolds ==
  ASSUME SPACING >= LATENCY PROVE Spec => []NoDecisionAfterEnd
<1>1. Init => EarlyInv /\ LateInv
  BY EarlyInit DEF Init, LateInv, EngineInit, FeatureInit, DecisionInit
<1>2. SPACING >= 4
  BY ScoreboardAssumption DEF LATENCY
<1>3. EarlyInv /\ LateInv /\ [Next]_vars => (EarlyInv /\ LateInv)'
  BY <1>2, EarlyStep, LateStep
<1>4. LateInv => NoDecisionAfterEnd BY DEF LateInv, NoDecisionAfterEnd
<1> QED BY <1>1, <1>3, <1>4, PTL DEF Spec
-------------------------------------------------------------------------------
(***************************************************************************)
(* The engine and its reference.  CoreInv completes the pipeline: the      *)
(* table, the windows and the numbers the stages will hold once what is in *)
(* flight has reached them are those of the atomic engine.                 *)
(***************************************************************************)
(* What the tracker, about to read the quote port, will forward.           *)
Fresh(q) == ~sequence_initialized \/ q.seq > last_seq
Forward == IF quote # None /\ Fresh(quote) THEN quote ELSE None

(* The quote that has not reached the book yet, if there is one.           *)
Unbooked == IF tracked # None THEN tracked ELSE Forward

(* The table of latest quotes, and the snapshot of the book, once q is in. *)
LevelOf(q) == [price |-> q.price, quantity |-> q.quantity]
TableAfter(q, table) ==
  IF q = None THEN table ELSE [table EXCEPT ![q.slot][q.side] = LevelOf(q)]

Other(q) == level[q.slot][Opposite(q.side)]
UpdateOf(q) ==
  IF q = None THEN None
  ELSE Snapshot(q.slot,
                IF q.side = BID THEN LevelOf(q) ELSE Other(q),
                IF q.side = ASK THEN LevelOf(q) ELSE Other(q),
                initialized[q.slot][Opposite(q.side)])

(* The snapshot the windows have not seen yet, and the windows with it.    *)
Unsampled == IF book_update # None THEN book_update ELSE UpdateOf(Unbooked)

Windows == [s \in Slot |-> RingWindow(s)]
WindowsAfter(u, windows) ==
  IF Processed(u)
  THEN [windows EXCEPT ![u.slot] = Last(SLOW, Append(@, midpoint2(u)))]
  ELSE windows

(* The tracker knows what has been taken, up to what it forwards next.     *)
Newest == IF Forward # None THEN Forward.seq ELSE last_seq

TakenInv ==
  /\ taken \subseteq 0 .. MaxSeq
  /\ in_stream /\ ~stream_start_pulse =>
       /\ taken # {} <=> sequence_initialized \/ Forward # None
       /\ taken # {} => Newest \in taken /\ \A n \in taken : n <= Newest
  /\ in_stream /\ ~stream_start_pulse /\ sequence_initialized => last_seq \in taken

(* A pulse tells the stages what the reference has done already.           *)
StreamInv ==
  /\ stream_active = in_stream
  /\ stream_start_pulse \in BOOLEAN /\ stream_end_pulse \in BOOLEAN
  /\ stream_start_pulse => in_stream /\ taken = {}
  /\ stream_end_pulse => ~in_stream

(* With what is in flight, table and windows are those of the reference.   *)
BooksInv ==
  IF stream_start_pulse THEN best = NothingQuoted
  ELSE best = TableAfter(Unbooked, Best)

WindowsInv ==
  IF stream_start_pulse THEN window = NoMidpoints
  ELSE window = WindowsAfter(Unsampled, Windows)

(* The registers of the stages; below the wrap the expected number is the  *)
(* successor of the last one.                                              *)
StageTypes ==
  /\ sequence_initialized \in BOOLEAN /\ last_seq \in Nat
  /\ sequence_initialized => expected_seq = last_seq + 1
  /\ tracked \in Quote \cup {None}
  /\ BookTypeOK /\ SumsInv
  /\ quote \in Quote \cup {None} /\ (quote # None => quote.seq <= MaxSeq)
  /\ book_update # None => Consistent(book_update)

(* What the atomic engine decides on a snapshot, with it in the windows.   *)
VerdictOn(u, windows) ==
  IF Processed(u) /\ ~(Len(windows[u.slot]) < SLOW)
  THEN Verdict(u.slot, u.bid, u.ask, windows[u.slot]) ELSE None

DecisionOn(u) == VerdictOn(u, window)

Decision(f) == Signal(Scores(Products(f)))

(* The stages behind the windows hold records, which None is not.          *)
RecordsInv ==
  /\ calculation \in CalculationRecord \cup {None}
  /\ feature \in FeatureRecord \cup {None}
  /\ products \in FeatureRecord \cup {None}
  /\ scores \in ScoreRecord \cup {None}

(* The feature that the calculation in stage 1 is about to become.         *)
Due == [slot |-> calculation.slot,
        trend |-> Average(FAST, RingWindow(calculation.slot))
                    - Average(SLOW, RingWindow(calculation.slot)),
        imbalance |-> calculation.imbalance,
        spread |-> calculation.spread]

(* Every stage holds what will be the decision expected of its clock.      *)
DecisionsInv ==
  /\ expected[8] = signal
  /\ expected[7] = IF scores = None THEN None ELSE Signal(scores)
  /\ expected[6] = IF products = None THEN None ELSE Signal(Scores(products))
  /\ expected[5] = IF feature = None THEN None ELSE Decision(feature)
  /\ expected[4] = IF calculation = None THEN None ELSE Decision(Due)
  /\ expected[3] = DecisionOn(book_update)
  /\ expected[2] = DecisionOn(UpdateOf(tracked))
  /\ expected[1] = DecisionOn(UpdateOf(Forward))

(* The numbers without effect, and those of them not counted yet.          *)
Gaps(set) == {n \in 0 .. MaxSeq \ set : \E a, b \in set : a < n /\ n < b}
Unmissed == IF Forward # None /\ sequence_initialized
            THEN Forward.seq - last_seq - 1 ELSE 0
GapsInv ==
  /\ missing_count \in SeqNo
  /\ in_stream /\ ~stream_start_pulse =>
       missing_count + Unmissed = Cardinality(Gaps(taken))

(* The inductive invariant the three comparisons rest on.                  *)
CoreInv == EarlyInv /\ StageTypes /\ StreamInv /\ TakenInv /\ BooksInv /\ WindowsInv
-------------------------------------------------------------------------------
(* The stages one by one.                                                  *)
LEMMA RestOfNumbers == MaxSeq \in Nat /\ NumSeqNos \in Nat /\ MaxSeq + 1 < NumSeqNos
BY ScoreboardAssumption, Hft1Assumption

LEMMA NumbersOfQuotes == \A q \in Quote : q.seq \in Nat /\ q.slot \in Slot /\ q.side \in Side
BY Hft1Assumption DEF Quote, SeqNo

LEMMA NoneIsNoQuote == None \notin Quote /\ None \notin Packet
BY Hft1Assumption

(* No number of a sender makes the tracker expect 0 again.                 *)
LEMMA SuccessorExact ==
  ASSUME NEW n \in 0 .. MaxSeq PROVE (n + 1) % NumSeqNos = n + 1
<1>1. n + 1 \in Nat /\ n + 1 < NumSeqNos
  BY RestOfNumbers
<1> DEFINE m == n + 1
<1> HIDE DEF m
<1>2. ASSUME m \in Nat, m < NumSeqNos, NumSeqNos \in Nat PROVE m % NumSeqNos = m
  BY <1>2
<1> QED BY <1>1, <1>2, RestOfNumbers DEF m

(* Below the wrap the tracker forwards exactly the fresh quotes, and what  *)
(* it skips is what lies between the last number and this one.             *)
LEMMA QuoteJudged ==
  ASSUME StageTypes, quote # None, JudgeQuote(quote)
  PROVE  /\ Fresh(quote) =>
              /\ tracked' = quote
              /\ last_seq' = quote.seq
              /\ expected_seq' = quote.seq + 1
              /\ sequence_initialized' = TRUE
              /\ missing_count' = (missing_count + Unmissed) % NumSeqNos
         /\ ~Fresh(quote) =>
              /\ tracked' = None
              /\ UNCHANGED <<last_seq, expected_seq, sequence_initialized, missing_count>>
<1> DEFINE n == quote.seq
<1>1. n \in 0 .. MaxSeq /\ last_seq \in Nat /\ sequence_initialized \in BOOLEAN
      /\ (sequence_initialized => expected_seq = last_seq + 1)
  BY NumbersOfQuotes, RestOfNumbers DEF StageTypes
<1>2. (n + 1) % NumSeqNos = n + 1
  BY <1>1, SuccessorExact
<1>3. \A lost : AcceptQuote(quote, lost) =>
        /\ tracked' = quote /\ last_seq' = n /\ expected_seq' = n + 1
        /\ sequence_initialized' = TRUE
        /\ missing_count' = (missing_count + lost) % NumSeqNos
  BY <1>2 DEF AcceptQuote
<1>4. RejectQuote => tracked' = None
        /\ UNCHANGED <<last_seq, expected_seq, sequence_initialized, missing_count>>
  BY DEF RejectQuote
<1>5. Fresh(quote) <=> (sequence_initialized => n > last_seq)
  BY DEF Fresh
<1>6. Unmissed = IF Fresh(quote) /\ sequence_initialized THEN n - last_seq - 1 ELSE 0
  BY DEF Unmissed, Forward
<1> HIDE DEF n
<1>7. CASE FirstQuote(quote)
  <2>1. Fresh(quote) /\ Unmissed = 0 /\ AcceptQuote(quote, 0)
    BY <1>5, <1>6, <1>7 DEF FirstQuote
  <2> QED BY <1>3, <2>1 DEF n
<1>8. CASE InOrder(quote)
  <2>1. n = last_seq + 1 /\ sequence_initialized /\ AcceptQuote(quote, 0)
    BY <1>1, <1>8 DEF InOrder, n
  <2>2. Fresh(quote) /\ Unmissed = 0
    BY <1>1, <1>5, <1>6, <2>1
  <2> QED BY <1>3, <2>1, <2>2 DEF n
<1>9. CASE Gap(quote)
  <2>1. n > last_seq + 1 /\ sequence_initialized /\ AcceptQuote(quote, n - expected_seq)
        /\ expected_seq = last_seq + 1
    BY <1>1, <1>9 DEF Gap, n
  <2>2. Fresh(quote) /\ Unmissed = n - expected_seq
    BY <1>1, <1>5, <1>6, <2>1
  <2> QED BY <1>3, <2>1, <2>2 DEF n
<1>10. CASE Duplicate(quote) \/ OutOfOrder(quote)
  <2>1. sequence_initialized /\ n <= last_seq /\ RejectQuote
    BY <1>1, <1>10 DEF Duplicate, OutOfOrder, n
  <2>2. ~Fresh(quote)
    BY <1>1, <1>5, <2>1
  <2> QED BY <1>4, <2>1, <2>2
<1> QED BY <1>7, <1>8, <1>9, <1>10 DEF JudgeQuote

(* Nothing but the filter's port is in flight when a pulse is up.          *)
LEMMA PulsesAlone ==
  ASSUME EarlyInv, stream_start_pulse \/ stream_end_pulse
  PROVE  /\ age = 1 /\ quote = None /\ tracked = None /\ book_update = None
         /\ calculation = None
BY DEF EarlyInv, LATENCY

LEMMA OneAtATime ==
  ASSUME EarlyInv
  PROVE  /\ quote # None => age = 1 /\ tracked = None /\ book_update = None
         /\ tracked # None => age = 2 /\ quote = None /\ book_update = None
         /\ book_update # None => age = 3 /\ quote = None /\ tracked = None
BY DEF EarlyInv, LATENCY

(* The tracker after a clock without a START.                              *)
LEMMA TrackerForwards ==
  ASSUME EarlyInv, StageTypes, StreamInv, ~stream_start_pulse,
         TrackerTick(stream_start_pulse, stream_end_pulse, quote)
  PROVE  /\ tracked' = Forward
         /\ Forward # None => /\ last_seq' = Forward.seq
                              /\ sequence_initialized' = TRUE
                              /\ expected_seq' = Forward.seq + 1
                              /\ missing_count' = (missing_count + Unmissed) % NumSeqNos
         /\ Forward = None => /\ UNCHANGED <<last_seq, expected_seq, missing_count>>
                              /\ sequence_initialized' = (sequence_initialized /\ ~stream_end_pulse)
<1>1. CASE stream_end_pulse
  <2>1. quote = None /\ Forward = None
    BY <1>1, PulsesAlone DEF Forward
  <2>2. TrackerEnd
    BY <1>1 DEF TrackerTick
  <2> QED BY <1>1, <2>1, <2>2 DEF TrackerEnd, sequenceCounts
<1>2. CASE ~stream_end_pulse /\ quote = None
  <2>1. Forward = None /\ TrackerIdle
    BY <1>2 DEF Forward, TrackerTick
  <2>2. tracked' = None /\ UNCHANGED <<last_seq, expected_seq, sequence_initialized, missing_count>>
    BY <2>1 DEF TrackerIdle, RejectQuote
  <2>3. sequence_initialized \in BOOLEAN
    BY DEF StageTypes
  <2> QED BY <1>2, <2>1, <2>2, <2>3
<1>3. CASE ~stream_end_pulse /\ quote # None
  <2>1. JudgeQuote(quote)
    BY <1>3 DEF TrackerTick
  <2>2. sequence_initialized \in BOOLEAN
    BY DEF StageTypes
  <2>3. CASE Fresh(quote)
    <3>1. Forward = quote
      BY <1>3, <2>3 DEF Forward
    <3> QED BY <1>3, <2>1, <2>3, <3>1, QuoteJudged
  <2>4. CASE ~Fresh(quote)
    <3>1. Forward = None
      BY <2>4 DEF Forward
    <3> QED BY <1>3, <2>1, <2>2, <2>4, <3>1, QuoteJudged
  <2> QED BY <2>3, <2>4
<1> QED BY <1>1, <1>2, <1>3

(* The book after a clock without a START: the quote on its way is in, and *)
(* the snapshot of it is out.                                              *)
LEMMA BookForwards ==
  ASSUME EarlyInv, StageTypes, ~stream_start_pulse,
         BookTick(stream_start_pulse, stream_end_pulse, tracked)
  PROVE  /\ Best' = TableAfter(tracked, Best)
         /\ book_update' = UpdateOf(tracked)
         /\ tracked = None => UNCHANGED <<level, initialized>>
<1>1. CASE tracked = None
  <2>1. BookEnd \/ BookIdle
    BY <1>1 DEF BookTick
  <2>2. book_update' = None /\ UNCHANGED <<level, initialized>>
    BY <2>1 DEF BookEnd, BookIdle
  <2>3. Best' = Best
    BY <2>2 DEF Best
  <2> QED BY <1>1, <2>2, <2>3 DEF TableAfter, UpdateOf
<1>2. CASE tracked # None
  <2>1. tracked \in Quote /\ BookTypeOK /\ ~stream_end_pulse
    BY <1>2, PulsesAlone DEF StageTypes
  <2>2. BookQuote(tracked)
    BY <1>2, <2>1 DEF BookTick
  <2>3. Best' = TableAfter(tracked, Best)
    BY <1>2, <2>1, <2>2, BestAfterQuote DEF TableAfter, LevelOf
  <2>4. book_update' = UpdateOf(tracked)
    BY <1>2, <2>2 DEF BookQuote, UpdateOf, LevelOf, Other
  <2> QED BY <1>2, <2>3, <2>4
<1> QED BY <1>1, <1>2

LEMMA UpdatesAreSnapshots ==
  ASSUME BookTypeOK, NEW q \in Quote
  PROVE  /\ UpdateOf(q) \in BookUpdate /\ UpdateOf(q) # None /\ Consistent(UpdateOf(q))
         /\ UpdateOf(q).slot = q.slot
<1> DEFINE bid == IF q.side = BID THEN LevelOf(q) ELSE Other(q)
           ask == IF q.side = ASK THEN LevelOf(q) ELSE Other(q)
           complete == initialized[q.slot][Opposite(q.side)]
<1>1. q # None /\ q.slot \in Slot
  BY NoneIsNoQuote, NumbersOfQuotes
<1>2. bid \in Level /\ ask \in Level /\ complete \in BOOLEAN
  BY LevelOfQuote, OppositeSide DEF BookTypeOK, LevelOf, Other
<1>3. UpdateOf(q) = Snapshot(q.slot, bid, ask, complete)
  BY <1>1 DEF UpdateOf
<1> HIDE DEF bid, ask, complete
<1>4. Snapshot(q.slot, bid, ask, complete) \in BookUpdate
  BY <1>1, <1>2 DEF Snapshot, BookUpdate
<1>5. Consistent(UpdateOf(q)) /\ UpdateOf(q).slot = q.slot
  BY <1>3 DEF Snapshot, Consistent
<1> QED BY <1>3, <1>4, <1>5, NoneIsNoLevel

LEMMA UpdatesConsistent ==
  ASSUME NEW start_pulse, NEW end_pulse, NEW q, BookTick(start_pulse, end_pulse, q)
  PROVE  (book_update # None => Consistent(book_update))'
<1>1. ASSUME BookQuote(q) PROVE Consistent(book_update')
  BY <1>1 DEF BookQuote, Snapshot, Consistent
<1>2. BookQuote(q) \/ book_update' = None
  BY DEF BookTick, BookStart, BookEnd, BookIdle
<1> QED BY <1>1, <1>2 DEF Consistent

LEMMA SameNewest ==
  ASSUME NEW n, NEW seq
  PROVE  Averages!Newest(n, seq) = Last(n, seq) /\ Averages!Mean(n, seq) = Average(n, seq)
<1>1. Averages!Newest(n, seq) = Last(n, seq)
  BY DEF Averages!Newest, Last
<1> QED BY <1>1, SameSums DEF Average

(* The windows after a clock without a START: the snapshot is in.          *)
LEMMA WindowsForward ==
  ASSUME EarlyInv, StageTypes, ~stream_start_pulse,
         FeatureTick(stream_start_pulse, stream_end_pulse, book_update)
  PROVE  Windows' = WindowsAfter(book_update, Windows)
<1> PICK u : u = book_update
  OBVIOUS
<1>1. SumsInv /\ (u # None => u \in BookUpdate)
  BY DEF StageTypes, BookTypeOK
<1>2. CASE UNCHANGED windowVars /\ ~Processed(u)
  <2>1. \A s \in Slot : RingWindow(s)' = RingWindow(s)
    BY <1>1, <1>2, SameWindows
  <2>2. Windows' = Windows
    BY <2>1 DEF Windows
  <2> QED BY <1>2, <2>2 DEF WindowsAfter
<1>3. CASE /\ Processed(u)
           /\ WarmupFast(u) \/ WarmupSlow(u) \/ FeatureReady(u)
  <2> DEFINE s == u.slot
             longer == Last(SLOW, Append(RingWindow(s), midpoint2(u)))
  <2>1. s \in Slot /\ midpoint2(u) \in Nat
    BY <1>1, <1>3, MidpointsAreNaturals DEF Processed
  <2>2. /\ RingWindow(s)' = longer
        /\ \A t \in Slot : t # s => RingWindow(t)' = RingWindow(t)
    <3>1. /\ RingWindow(s)' = Averages!Newest(SLOW, Append(RingWindow(s), midpoint2(u)))
          /\ \A t \in Slot : t # s => RingWindow(t)' = RingWindow(t)
      BY <1>1, <1>3, <2>1, SampleSlides
    <3> QED BY <3>1, SameNewest
  <2>3. Windows' = [t \in Slot |-> RingWindow(t)'] /\ Windows = [t \in Slot |-> RingWindow(t)]
    BY DEF Windows
  <2>4. WindowsAfter(u, Windows) = [Windows EXCEPT ![s] = longer]
    BY <1>3, <2>1, <2>3 DEF WindowsAfter
  <2> HIDE DEF longer, s
  <2>5. [t \in Slot |-> RingWindow(t)'] = [[t \in Slot |-> RingWindow(t)] EXCEPT ![s] = longer]
    BY <2>1, <2>2
  <2> QED BY <2>3, <2>4, <2>5
<1>4. CASE FeatureEnd
  <2>1. stream_end_pulse => u = None
    BY PulsesAlone
  <2>2. CASE stream_end_pulse
    BY <1>2, <1>4, <2>1, <2>2 DEF FeatureEnd, Processed
  <2>3. CASE ~stream_end_pulse
    <3>1. FeatureClock(u)
      BY <2>3 DEF FeatureTick
    <3> QED BY <1>2, <1>3, <3>1 DEF FeatureClock, NoSample
  <2> QED BY <2>2, <2>3
<1>5. CASE FeatureClock(u)
  BY <1>2, <1>3, <1>5 DEF FeatureClock, NoSample
<1> QED BY <1>4, <1>5 DEF FeatureTick
-------------------------------------------------------------------------------
(* What a packet can be to the reference and the filter: a START, one that *)
(* leaves table and windows alone, or a quote q that is taken.             *)
Started ==
  /\ stream_start_pulse' = TRUE /\ stream_end_pulse' = FALSE /\ quote' = None
  /\ in_stream' = TRUE /\ taken' = {}
  /\ best' = NothingQuoted /\ window' = NoMidpoints /\ decided' = None

Passed ==
  /\ stream_start_pulse' = FALSE /\ stream_end_pulse' \in BOOLEAN
  /\ stream_end_pulse' => ~in_stream'
  /\ in_stream' => in_stream
  /\ quote' # None => sequence_initialized /\ quote'.seq <= last_seq
  /\ decided' = None
  /\ UNCHANGED <<taken, best, window>>

Took(q) ==
  /\ stream_start_pulse' = FALSE /\ stream_end_pulse' = FALSE
  /\ quote' = q
  /\ in_stream /\ in_stream'
  /\ \A n \in taken : n < q.seq
  /\ taken' = taken \cup {q.seq}
  /\ best' = TableAfter(q, best)
  /\ window' = WindowsAfter(UpdateOf(q), window)
  /\ decided' = VerdictOn(UpdateOf(q), window')

(* With nothing in flight the stages hold what the reference holds.        *)
LEMMA NothingInFlight ==
  ASSUME CoreInv, age >= 4
  PROVE  /\ ~stream_start_pulse /\ ~stream_end_pulse
         /\ quote = None /\ tracked = None /\ book_update = None
         /\ Forward = None /\ Unbooked = None
         /\ best = Best /\ window = Windows
         /\ in_stream => /\ taken # {} <=> sequence_initialized
                         /\ taken # {} => last_seq \in taken /\ \A n \in taken : n <= last_seq
<1>1. /\ ~stream_start_pulse /\ ~stream_end_pulse
      /\ quote = None /\ tracked = None /\ book_update = None
  BY DEF CoreInv, EarlyInv, LATENCY
<1>2. Forward = None /\ Unbooked = None
  BY <1>1 DEF Forward, Unbooked
<1>3. Unsampled = None
  BY <1>1, <1>2 DEF Unsampled, UpdateOf
<1>4. best = Best
  BY <1>1, <1>2 DEF CoreInv, BooksInv, TableAfter
<1>5. window = Windows
  BY <1>1, <1>3 DEF CoreInv, WindowsInv, WindowsAfter, Processed
<1>6. Newest = last_seq
  BY <1>2 DEF Newest
<1>7. in_stream => /\ taken # {} <=> sequence_initialized
                   /\ taken # {} => last_seq \in taken /\ \A n \in taken : n <= last_seq
  BY <1>1, <1>2, <1>6 DEF CoreInv, TakenInv
<1> QED BY <1>1, <1>2, <1>4, <1>5, <1>7

(* The reference's table with one side quoted is what the snapshot shows.  *)
LEMMA TakeMatches ==
  ASSUME BookTypeOK, best = Best, window = Windows,
         NEW p, NEW q \in Quote, Take(q.slot, p),
         q.side = p.side, q.price = p.price_ticks, q.quantity = p.quantity, q.seq = p.seq
  PROVE  /\ taken' = taken \cup {q.seq}
         /\ best' = TableAfter(q, best)
         /\ window' = WindowsAfter(UpdateOf(q), window)
         /\ decided' = VerdictOn(UpdateOf(q), window')
<1> DEFINE s == q.slot
           new == LevelOf(q)
           touch == [best[s] EXCEPT ![q.side] = new]
           u == UpdateOf(q)
           complete == initialized[s][Opposite(q.side)]
           longer == Last(SLOW, Append(window[s], touch[BID].price + touch[ASK].price))
<1>1. /\ q.side \in Side /\ Opposite(q.side) \in Side /\ Opposite(q.side) # q.side
      /\ s \in Slot /\ new \in Level /\ new # None
      /\ Side = {BID, ASK} /\ BID # ASK
  BY LevelOfQuote, OppositeSide, Sides, NoneIsNoLevel DEF Side, Opposite, LevelOf
<1>2. /\ Other(q) \in Level /\ Other(q) # None /\ complete \in BOOLEAN
  BY <1>1, NoneIsNoLevel DEF BookTypeOK, Other
<1>3. touch[q.side] = new /\ touch[Opposite(q.side)] = IF complete THEN Other(q) ELSE None
  BY <1>1 DEF Best, Other
<1>4. /\ u.slot = s /\ u # None
      /\ u.book_valid = complete
      /\ u.crossed_book = (complete /\ u.ask.price < u.bid.price)
      /\ u.bid = (IF q.side = BID THEN new ELSE Other(q))
      /\ u.ask = (IF q.side = ASK THEN new ELSE Other(q))
      /\ u.bid \in Level /\ u.ask \in Level
  <2>1. u \in BookUpdate /\ u # None /\ u.slot = s
    BY UpdatesAreSnapshots
  <2>2. u.bid \in Level /\ u.ask \in Level
    BY <2>1 DEF BookUpdate
  <2>3. u = Snapshot(s, IF q.side = BID THEN new ELSE Other(q),
                     IF q.side = ASK THEN new ELSE Other(q), complete)
    BY NoneIsNoQuote DEF UpdateOf
  <2> QED BY <2>1, <2>2, <2>3 DEF Snapshot
<1>5. complete => touch[BID] = u.bid /\ touch[ASK] = u.ask
  BY <1>1, <1>3, <1>4
<1>6. None \notin {touch[BID], touch[ASK]} <=> complete
  BY <1>1, <1>2, <1>3
<1>7. u.bid.price \in Nat /\ u.ask.price \in Nat
  BY <1>4, LevelPricesAreNaturals
<1>8. Processed(u) <=> (None \notin {touch[BID], touch[ASK]} /\ touch[BID].price <= touch[ASK].price)
  <2> DEFINE a == u.ask.price
             b == u.bid.price
  <2>1. complete => (u.crossed_book <=> a < b)
    BY <1>2, <1>4
  <2>2. Processed(u) <=> complete /\ ~u.crossed_book
    BY <1>4 DEF Processed
  <2>3. a \in Nat /\ b \in Nat
    BY <1>7
  <2>4. complete => touch[BID].price = b /\ touch[ASK].price = a
    BY <1>5
  <2> HIDE DEF a, b, u, touch, complete
  <2>5. ~(a < b) <=> b <= a
    BY <2>3
  <2> QED BY <1>6, <2>1, <2>2, <2>4, <2>5
<1>9. /\ taken' = taken \cup {q.seq}
      /\ best' = [best EXCEPT ![s] = touch]
      /\ Processed(u) => window' = [window EXCEPT ![s] = longer]
           /\ decided' = IF Len(longer) < SLOW THEN None
                         ELSE Verdict(s, touch[BID], touch[ASK], longer)
      /\ ~Processed(u) => decided' = None /\ UNCHANGED window
  BY <1>8 DEF Take, LevelOf
<1> HIDE DEF touch, u, complete
<1>10. Processed(u) => longer = Last(SLOW, Append(window[s], midpoint2(u)))
  BY <1>5, <1>6, <1>8 DEF midpoint2
<1> HIDE DEF longer
<1>11. window' = WindowsAfter(u, window)
  BY <1>4, <1>9, <1>10 DEF WindowsAfter
<1>12. best' = TableAfter(q, best)
  BY <1>9, NoneIsNoQuote DEF TableAfter, touch
<1>13. decided' = VerdictOn(u, window')
  <2>1. CASE Processed(u)
    <3>1. window'[s] = longer
      BY <1>1, <1>9, <2>1 DEF s, Windows
    <3> QED BY <1>4, <1>5, <1>6, <1>8, <1>9, <2>1, <3>1 DEF VerdictOn
  <2>2. CASE ~Processed(u)
    BY <1>9, <2>2 DEF VerdictOn
  <2> QED BY <2>1, <2>2
<1> QED BY <1>9, <1>11, <1>12, <1>13 DEF u

LEMMA MessageTypesDiffer ==
  /\ MESSAGE_QUOTE_UPDATE # MESSAGE_STREAM_START
  /\ MESSAGE_QUOTE_UPDATE # MESSAGE_STREAM_END
  /\ MESSAGE_STREAM_START # MESSAGE_STREAM_END
BY DEF MESSAGE_QUOTE_UPDATE, MESSAGE_STREAM_START, MESSAGE_STREAM_END

(* Filter and reference look an identifier up in the same table.           *)
LEMMA SlotsOfPackets ==
  ASSUME NEW p \in Presented, p.message_type = MESSAGE_QUOTE_UPDATE
  PROVE  /\ Known(p.instrument_id) <=> {s \in Slot : InstrumentIds[s] = p.instrument_id} # {}
         /\ Known(p.instrument_id) =>
              /\ QuoteOf(p) \in Quote
              /\ {s \in Slot : InstrumentIds[s] = p.instrument_id} = {QuoteOf(p).slot}
         /\ p.seq \in 0 .. MaxSeq
<1>1. p \in [message_type : {MESSAGE_QUOTE_UPDATE}, side : Side, seq : SeqNo,
             instrument_id : Instrument, price_ticks : Price, quantity : Quantity]
  BY MessageTypesDiffer DEF Presented, Packet
<1>2. p.seq \in 0 .. MaxSeq /\ p.seq \in SeqNo
  BY <1>1, RestOfNumbers DEF Presented, SeqNo
<1>3. ASSUME Known(p.instrument_id)
      PROVE  /\ SlotOf(p.instrument_id) \in Slot
             /\ InstrumentIds[SlotOf(p.instrument_id)] = p.instrument_id
  BY <1>3 DEF Known, SlotOf
<1>4. \A s, t \in Slot : InstrumentIds[s] = InstrumentIds[t] => s = t
  BY Hft1Assumption
<1>5. ASSUME Known(p.instrument_id)
      PROVE  {s \in Slot : InstrumentIds[s] = p.instrument_id} = {SlotOf(p.instrument_id)}
  BY <1>3, <1>4, <1>5
<1>6. Known(p.instrument_id) => QuoteOf(p) \in Quote
  BY <1>1, <1>3 DEF QuoteOf, Quote
<1>7. QuoteOf(p).slot = SlotOf(p.instrument_id)
  BY DEF QuoteOf
<1> QED BY <1>2, <1>5, <1>6, <1>7 DEF Known

(* A packet is taken by the reference exactly when the filter passes its   *)
(* quote on and the tracker will find it fresh.                            *)
LEMMA PacketEffect ==
  ASSUME CoreInv, age >= 4, NEW p \in Presented, FilterTick(p), Handle(p)
  PROVE  /\ Started \/ Passed \/ \E q \in Quote : Took(q)
         /\ stream_active' = in_stream'
         /\ (quote \in Quote \cup {None} /\ (quote # None => quote.seq <= MaxSeq))'
<1>1. /\ stream_active = in_stream
      /\ best = Best /\ window = Windows /\ BookTypeOK
      /\ last_seq \in Nat /\ sequence_initialized \in BOOLEAN
      /\ taken \subseteq 0 .. MaxSeq
      /\ in_stream => /\ taken # {} <=> sequence_initialized
                      /\ taken # {} => last_seq \in taken /\ \A n \in taken : n <= last_seq
  BY NothingInFlight DEF CoreInv, StageTypes, StreamInv, TakenInv
<1>2. p # None /\ p.message_type \in {MESSAGE_QUOTE_UPDATE, MESSAGE_STREAM_START, MESSAGE_STREAM_END}
  BY NoneIsNoQuote DEF Presented, Packet
<1>3. CASE p.message_type = MESSAGE_STREAM_START
  <2>1. StartStream /\ FilterStart(p)
    BY <1>2, <1>3, MessageTypesDiffer
    DEF Handle, FilterTick, FilterEnd, FilterQuote, FilterUnknown, FilterInactive
  <2> QED BY <2>1 DEF StartStream, FilterStart, Pulses, Started
<1>4. CASE p.message_type = MESSAGE_STREAM_END
  <2>1. EndStream /\ FilterEnd(p)
    BY <1>2, <1>4, MessageTypesDiffer
    DEF Handle, FilterTick, FilterStart, FilterQuote, FilterUnknown, FilterInactive
  <2> QED BY <2>1 DEF EndStream, FilterEnd, Pulses, Passed
<1>5. CASE p.message_type = MESSAGE_QUOTE_UPDATE
  <2> DEFINE slots == {s \in Slot : InstrumentIds[s] = p.instrument_id}
             q == QuoteOf(p)
             fresh == \A n \in taken : p.seq > n
  <2>1. HandleQuote(p) /\ (FilterQuote(p) \/ FilterUnknown(p) \/ FilterInactive(p))
    BY <1>2, <1>5, MessageTypesDiffer DEF Handle, FilterTick, FilterStart, FilterEnd
  <2>2. /\ stream_start_pulse' = FALSE /\ stream_end_pulse' = FALSE
        /\ stream_active' = stream_active
        /\ quote' = IF in_stream /\ Known(p.instrument_id) THEN q ELSE None
    BY <1>1, <2>1 DEF FilterQuote, FilterUnknown, FilterInactive, FilterIdle, Pulses
  <2>3. /\ Known(p.instrument_id) <=> slots # {}
        /\ Known(p.instrument_id) => q \in Quote /\ slots = {q.slot}
        /\ p.seq \in 0 .. MaxSeq
        /\ q.side = p.side /\ q.price = p.price_ticks /\ q.quantity = p.quantity /\ q.seq = p.seq
    <3>1. /\ Known(p.instrument_id) <=> slots # {}
          /\ Known(p.instrument_id) => q \in Quote /\ slots = {q.slot}
          /\ p.seq \in 0 .. MaxSeq
      BY <1>5, SlotsOfPackets
    <3> QED BY <3>1 DEF QuoteOf
  <2>4. HandleQuote(p) <=> \/ in_stream /\ fresh /\ \E s \in slots : Take(s, p)
                           \/ ~(in_stream /\ fresh /\ slots # {}) /\ Ignore
    BY DEF HandleQuote
  <2> HIDE DEF slots, q, fresh
  <2>5. CASE ~(in_stream /\ fresh /\ slots # {}) /\ Ignore
    <3>1. decided' = None /\ UNCHANGED <<in_stream, taken, best, window>>
      BY <2>5 DEF Ignore
    <3>2. ASSUME quote' # None PROVE sequence_initialized /\ quote'.seq <= last_seq
      <4>1. in_stream /\ ~fresh /\ quote'.seq = p.seq
        BY <2>2, <2>3, <2>5, <3>2
      <4>2. PICK n \in taken : ~(p.seq > n)
        BY <4>1 DEF fresh
      <4>3. sequence_initialized /\ n <= last_seq /\ n \in 0 .. MaxSeq
        BY <1>1, <4>1
      <4>4. p.seq <= last_seq
        BY <1>1, <2>3, <4>2, <4>3
      <4> QED BY <4>1, <4>3, <4>4
    <3>3. Passed
      BY <2>2, <3>1, <3>2 DEF Passed
    <3>4. stream_active' = in_stream'
      BY <1>1, <2>2, <3>1
    <3>5. quote' \in Quote \cup {None} /\ (quote' # None => quote'.seq <= MaxSeq)
      BY <2>2, <2>3
    <3> QED BY <3>3, <3>4, <3>5
  <2>6. CASE in_stream /\ fresh /\ \E s \in slots : Take(s, p)
    <3>1. Known(p.instrument_id) /\ q \in Quote /\ Take(q.slot, p) /\ quote' = q
      BY <2>2, <2>3, <2>6
    <3>2. /\ taken' = taken \cup {q.seq}
          /\ best' = TableAfter(q, best)
          /\ window' = WindowsAfter(UpdateOf(q), window)
          /\ decided' = VerdictOn(UpdateOf(q), window')
      BY <1>1, <2>3, <3>1, TakeMatches
    <3>3. in_stream' = in_stream
      BY <3>1 DEF Take
    <3>4. \A n \in taken : n < q.seq
      BY <1>1, <2>3, <2>6 DEF fresh
    <3>5. Took(q)
      BY <2>2, <2>6, <3>1, <3>2, <3>3, <3>4 DEF Took
    <3>6. quote' \in Quote \cup {None} /\ (quote' # None => quote'.seq <= MaxSeq)
      BY <2>3, <3>1
    <3> QED BY <1>1, <2>2, <3>1, <3>3, <3>5, <3>6
  <2> QED BY <2>1, <2>4, <2>5, <2>6
<1> QED BY <1>2, <1>3, <1>4, <1>5
-------------------------------------------------------------------------------
(* All stages after a clock without a START, and after one with it.        *)
LEMMA StagesAdvance ==
  ASSUME CoreInv, ~stream_start_pulse, NEW p, EngineTick(p)
  PROVE  /\ tracked' = Forward
         /\ Forward # None => /\ last_seq' = Forward.seq /\ sequence_initialized' = TRUE
                              /\ missing_count' = (missing_count + Unmissed) % NumSeqNos
         /\ Forward = None => /\ last_seq' = last_seq /\ missing_count' = missing_count
                              /\ sequence_initialized' = (sequence_initialized /\ ~stream_end_pulse)
         /\ Best' = TableAfter(tracked, Best)
         /\ book_update' = UpdateOf(tracked)
         /\ tracked = None => UNCHANGED <<level, initialized>>
         /\ Windows' = WindowsAfter(book_update, Windows)
<1>1. /\ TrackerTick(stream_start_pulse, stream_end_pulse, quote)
      /\ BookTick(stream_start_pulse, stream_end_pulse, tracked)
      /\ FeatureTick(stream_start_pulse, stream_end_pulse, book_update)
  BY DEF EngineTick
<1>2. EarlyInv /\ StageTypes /\ StreamInv
  BY DEF CoreInv
<1>3. /\ tracked' = Forward
      /\ Forward # None => /\ last_seq' = Forward.seq /\ sequence_initialized' = TRUE
                           /\ missing_count' = (missing_count + Unmissed) % NumSeqNos
      /\ Forward = None => /\ last_seq' = last_seq /\ missing_count' = missing_count
                           /\ sequence_initialized' = (sequence_initialized /\ ~stream_end_pulse)
  BY <1>1, <1>2, TrackerForwards
<1>4. /\ Best' = TableAfter(tracked, Best)
      /\ book_update' = UpdateOf(tracked)
      /\ tracked = None => UNCHANGED <<level, initialized>>
  BY <1>1, <1>2, BookForwards
<1>5. Windows' = WindowsAfter(book_update, Windows)
  BY <1>1, <1>2, WindowsForward
<1> QED BY <1>3, <1>4, <1>5

LEMMA StagesRestart ==
  ASSUME CoreInv, stream_start_pulse, NEW p, EngineTick(p)
  PROVE  /\ tracked' = None /\ book_update' = None
         /\ sequence_initialized' = FALSE /\ missing_count' = 0
         /\ calculation' = None /\ feature' = None
         /\ Best' = NothingQuoted /\ Windows' = NoMidpoints
<1>1. /\ TrackerTick(stream_start_pulse, stream_end_pulse, quote)
      /\ BookTick(stream_start_pulse, stream_end_pulse, tracked)
      /\ FeatureTick(stream_start_pulse, stream_end_pulse, book_update)
  BY DEF EngineTick
<1>2. TrackerStart /\ BookStart /\ FeatureStart
  BY <1>1 DEF TrackerTick, BookTick, FeatureTick
<1>3. Best' = NothingQuoted
  BY <1>2 DEF BookStart, Best, NothingInitialized, NothingQuoted
<1>4. \A s \in Slot : RingWindow(s)' = <<>>
  <2>1. \A s \in Slot : sample_count'[s] = 0
    BY <1>2 DEF FeatureStart, AllZero
  <2> SUFFICES ASSUME NEW s \in Slot PROVE RingWindow(s)' = <<>>
    OBVIOUS
  <2>2. 1 .. sample_count'[s] = {}
    BY <2>1
  <2> QED BY <2>2 DEF RingWindow
<1>5. Windows' = NoMidpoints
  BY <1>4 DEF Windows, NoMidpoints
<1> QED BY <1>2, <1>3, <1>5 DEF TrackerStart, BookStart, FeatureStart

LEMMA StagesKeepTypes ==
  ASSUME CoreInv, NEW p, EngineTick(p),
         (quote \in Quote \cup {None} /\ (quote # None => quote.seq <= MaxSeq))'
  PROVE  StageTypes'
<1>1. /\ TrackerTick(stream_start_pulse, stream_end_pulse, quote)
      /\ BookTick(stream_start_pulse, stream_end_pulse, tracked)
      /\ FeatureTick(stream_start_pulse, stream_end_pulse, book_update)
  BY DEF EngineTick
<1>2. EarlyInv /\ StageTypes /\ StreamInv
  BY DEF CoreInv
<1>3. /\ sequence_initialized' \in BOOLEAN /\ last_seq' \in Nat
      /\ sequence_initialized' => expected_seq' = last_seq' + 1
      /\ tracked' \in Quote \cup {None}
  <2>1. CASE stream_start_pulse
    <3>1. last_seq' = 0 /\ sequence_initialized' = FALSE /\ tracked' = None
      BY <1>1, <2>1 DEF TrackerTick, TrackerStart
    <3> QED BY <3>1
  <2>2. CASE ~stream_start_pulse
    <3>1. Forward \in Quote \cup {None}
      BY <1>2 DEF StageTypes, Forward
    <3>2. /\ tracked' = Forward
          /\ Forward # None => /\ last_seq' = Forward.seq
                               /\ sequence_initialized' = TRUE
                               /\ expected_seq' = Forward.seq + 1
          /\ Forward = None => /\ UNCHANGED <<last_seq, expected_seq>>
                               /\ sequence_initialized' = (sequence_initialized /\ ~stream_end_pulse)
      BY <1>1, <1>2, <2>2, TrackerForwards
    <3>3. /\ last_seq \in Nat /\ sequence_initialized \in BOOLEAN
          /\ (sequence_initialized => expected_seq = last_seq + 1)
      BY <1>2 DEF StageTypes
    <3>4. CASE Forward = None
      BY <3>1, <3>2, <3>3, <3>4
    <3>5. CASE Forward # None
      BY <3>1, <3>2, <3>5, NumbersOfQuotes
    <3> QED BY <3>4, <3>5
  <2> QED BY <2>1, <2>2
<1>4. BookTypeOK'
  BY <1>1, <1>2, BookTickTypes DEF StageTypes
<1>5. SumsInv'
  <2>1. SumsInv /\ book_update \in BookUpdate \cup {None}
    BY <1>2 DEF StageTypes, BookTypeOK
  <2> QED BY <1>1, <2>1, StartKeepsSums, EndKeepsSums, ClockKeepsSums DEF FeatureTick
<1>6. (book_update # None => Consistent(book_update))'
  BY <1>1, <1>2, UpdatesConsistent
<1> QED BY <1>3, <1>4, <1>5, <1>6 DEF StageTypes

LEMMA CoreInit == Init => CoreInv
<1> SUFFICES ASSUME Init PROVE CoreInv
  OBVIOUS
<1>1. /\ EarlyInv /\ BookTypeOK /\ SumsInv
      /\ stream_start_pulse = FALSE /\ stream_end_pulse = FALSE
      /\ quote = None /\ tracked = None /\ book_update = None
      /\ sequence_initialized = FALSE /\ last_seq = 0
      /\ stream_active = FALSE /\ in_stream = FALSE /\ taken = {}
      /\ best = NothingQuoted /\ window = NoMidpoints
  BY EarlyInit, BookInitTypes, SumsInit
  DEF Init, EngineInit, FilterInit, TrackerInit, BookInit, AtomicInit
<1>2. Forward = None /\ Unbooked = None /\ Unsampled = None
  BY <1>1 DEF Forward, Unbooked, Unsampled, UpdateOf
<1>3. Best = NothingQuoted
  BY DEF Init, EngineInit, BookInit, Best, NothingInitialized, NothingQuoted
<1>4. Windows = NoMidpoints
  <2>1. \A s \in Slot : sample_count[s] = 0
    BY DEF Init, EngineInit, FeatureInit, AllZero
  <2>2. \A s \in Slot : RingWindow(s) = <<>>
    BY <2>1, ClearedWindows
  <2> QED BY <2>2 DEF Windows, NoMidpoints
<1>5. StageTypes
  BY <1>1 DEF StageTypes
<1>6. StreamInv /\ TakenInv
  BY <1>1 DEF StreamInv, TakenInv
<1>7. BooksInv /\ WindowsInv
  BY <1>1, <1>2, <1>3, <1>4 DEF BooksInv, WindowsInv, TableAfter, WindowsAfter, Processed
<1> QED BY <1>1, <1>5, <1>6, <1>7 DEF CoreInv

(* A clock without a packet moves everything one stage on.                 *)
LEMMA IdleKeepsCore ==
  ASSUME SPACING >= 4, CoreInv, IdleClock
  PROVE  CoreInv'
<1>1. /\ EngineTick(None)
      /\ UNCHANGED <<in_stream, taken, best, window>>
  BY DEF IdleClock, atomicVars
<1>2. /\ quote' = None
      /\ stream_start_pulse' = FALSE /\ stream_end_pulse' = FALSE
      /\ stream_active' = stream_active
  BY <1>1, FilterWithoutPacket DEF EngineTick
<1>3. EarlyInv'
  BY EarlyStep DEF CoreInv, Next
<1>4. StageTypes'
  BY <1>1, <1>2, StagesKeepTypes
<1>5. StreamInv'
  BY <1>1, <1>2 DEF CoreInv, StreamInv
<1>6. Forward' = None /\ Newest' = last_seq' /\ Unbooked' = tracked'
  BY <1>2 DEF Forward, Newest, Unbooked
<1>7. UpdateOf(Unbooked)' = (IF tracked' = None THEN None ELSE UpdateOf(tracked)')
  BY <1>6 DEF UpdateOf
<1>8. CASE stream_start_pulse
  <2>1. /\ tracked' = None /\ book_update' = None /\ sequence_initialized' = FALSE
        /\ Best' = NothingQuoted /\ Windows' = NoMidpoints
    BY <1>1, <1>8, StagesRestart
  <2>2. taken = {} /\ best = NothingQuoted /\ window = NoMidpoints
    BY <1>8 DEF CoreInv, StreamInv, BooksInv, WindowsInv
  <2>3. TakenInv'
    BY <1>1, <1>6, <2>1, <2>2 DEF TakenInv
  <2>4. BooksInv'
    BY <1>1, <1>2, <1>6, <2>1, <2>2 DEF BooksInv, TableAfter
  <2>5. WindowsInv'
    BY <1>1, <1>2, <1>7, <2>1, <2>2 DEF WindowsInv, WindowsAfter, Unsampled, Processed
  <2> QED BY <1>3, <1>4, <1>5, <2>3, <2>4, <2>5 DEF CoreInv
<1>9. CASE ~stream_start_pulse
  <2>1. /\ tracked' = Forward
        /\ Forward # None => last_seq' = Forward.seq /\ sequence_initialized' = TRUE
        /\ Forward = None => /\ last_seq' = last_seq
                             /\ sequence_initialized' = (sequence_initialized /\ ~stream_end_pulse)
        /\ Best' = TableAfter(tracked, Best)
        /\ book_update' = UpdateOf(tracked)
        /\ tracked = None => UNCHANGED <<level, initialized>>
        /\ Windows' = WindowsAfter(book_update, Windows)
    BY <1>1, <1>9, StagesAdvance
  <2>2. /\ tracked # None => Forward = None /\ book_update = None
        /\ book_update # None => Forward = None /\ tracked = None
    BY OneAtATime DEF CoreInv, Forward
  <2>3. best = TableAfter(Unbooked, Best) /\ window = WindowsAfter(Unsampled, Windows)
    BY <1>9 DEF CoreInv, BooksInv, WindowsInv
  <2>4. TakenInv'
    <3>1. /\ taken \subseteq 0 .. MaxSeq
          /\ in_stream => /\ taken # {} <=> sequence_initialized \/ Forward # None
                          /\ taken # {} => Newest \in taken /\ \A n \in taken : n <= Newest
                          /\ sequence_initialized => last_seq \in taken
                          /\ ~stream_end_pulse
      BY <1>9 DEF CoreInv, TakenInv, StreamInv
    <3>2. in_stream => (sequence_initialized' <=> sequence_initialized \/ Forward # None)
      BY <2>1, <3>1
    <3>3. last_seq' = Newest
      BY <2>1 DEF Newest
    <3> QED BY <1>1, <1>2, <1>6, <3>1, <3>2, <3>3 DEF TakenInv
  <2>5. best = TableAfter(tracked', Best')
    <3>1. CASE tracked = None
      BY <2>1, <2>3, <3>1 DEF Unbooked, TableAfter
    <3>2. CASE tracked # None
      BY <2>1, <2>2, <2>3, <3>2 DEF Unbooked, TableAfter
    <3> QED BY <3>1, <3>2
  <2>6. BooksInv'
    BY <1>1, <1>2, <1>6, <2>5 DEF BooksInv, TableAfter
  <2>7. window = WindowsAfter(Unsampled', Windows')
    <3>1. CASE book_update # None
      <4>1. Unsampled' = None
        BY <1>7, <2>1, <2>2, <3>1 DEF Unsampled, UpdateOf
      <4>2. Unsampled = book_update
        BY <3>1 DEF Unsampled
      <4> QED BY <2>1, <2>3, <4>1, <4>2 DEF WindowsAfter, Processed
    <3>2. CASE tracked # None
      <4>1. tracked \in Quote /\ BookTypeOK
        BY <3>2 DEF CoreInv, StageTypes
      <4>2. book_update' # None
        BY <2>1, <4>1, UpdatesAreSnapshots
      <4>3. Unsampled = UpdateOf(tracked) /\ Unsampled' = UpdateOf(tracked)
        BY <2>1, <2>2, <3>2, <4>2 DEF Unsampled, Unbooked
      <4>4. Windows' = Windows
        BY <2>1, <2>2, <3>2 DEF WindowsAfter, Processed
      <4> QED BY <2>3, <4>3, <4>4
    <3>3. CASE book_update = None /\ tracked = None
      <4>1. Windows' = Windows /\ book_update' = None
        BY <2>1, <3>3 DEF WindowsAfter, Processed, UpdateOf
      <4>2. Unsampled = UpdateOf(Forward)
        BY <3>3 DEF Unsampled, Unbooked
      <4>3. Unsampled' = UpdateOf(tracked)' \/ (Unsampled' = None /\ tracked' = None)
        BY <1>7, <4>1 DEF Unsampled
      <4>4. UpdateOf(tracked)' = UpdateOf(Forward)
        BY <2>1, <3>3 DEF UpdateOf, Other, LevelOf
      <4>5. Unsampled' = UpdateOf(Forward)
        BY <2>1, <4>3, <4>4 DEF UpdateOf
      <4> QED BY <2>3, <4>1, <4>2, <4>5
    <3> QED BY <3>1, <3>2, <3>3
  <2>8. WindowsInv'
    BY <1>1, <1>2, <2>7 DEF WindowsInv, WindowsAfter
  <2> QED BY <1>3, <1>4, <1>5, <2>4, <2>6, <2>8 DEF CoreInv
<1> QED BY <1>8, <1>9

(* A packet finds nothing in flight: the stages stand still while the      *)
(* reference handles it.                                                   *)
LEMMA PacketMeetsRest ==
  ASSUME CoreInv, NEW p \in Presented, PacketClock(p), SPACING >= 4
  PROVE  /\ Started \/ Passed \/ \E q \in Quote : Took(q)
         /\ age >= 4 /\ stream_active' = in_stream'
         /\ (quote \in Quote \cup {None} /\ (quote # None => quote.seq <= MaxSeq))'
         /\ tracked' = None /\ book_update' = None
         /\ UNCHANGED <<last_seq, sequence_initialized, missing_count, level, initialized>>
         /\ Best' = best /\ Windows' = window
<1>1. age >= 4
  BY ScoreboardAssumption DEF PacketClock, CoreInv, EarlyInv, LATENCY
<1>2. EngineTick(p) /\ Handle(p) /\ FilterTick(p)
  BY DEF PacketClock, EngineTick
<1>3. /\ Started \/ Passed \/ \E q \in Quote : Took(q)
      /\ stream_active' = in_stream'
      /\ (quote \in Quote \cup {None} /\ (quote # None => quote.seq <= MaxSeq))'
  BY <1>1, <1>2, PacketEffect
<1>4. /\ ~stream_start_pulse /\ ~stream_end_pulse /\ tracked = None /\ book_update = None
      /\ Forward = None /\ best = Best /\ window = Windows
  BY <1>1, NothingInFlight
<1>5. /\ tracked' = Forward /\ last_seq' = last_seq /\ missing_count' = missing_count
      /\ sequence_initialized' = (sequence_initialized /\ ~stream_end_pulse)
      /\ Best' = TableAfter(tracked, Best)
      /\ book_update' = UpdateOf(tracked)
      /\ UNCHANGED <<level, initialized>>
      /\ Windows' = WindowsAfter(book_update, Windows)
  BY <1>2, <1>4, StagesAdvance
<1>6. sequence_initialized \in BOOLEAN
  BY DEF CoreInv, StageTypes
<1>7. TableAfter(None, Best) = Best /\ UpdateOf(None) = None /\ WindowsAfter(None, Windows) = Windows
  BY DEF TableAfter, UpdateOf, WindowsAfter, Processed
<1> QED BY <1>1, <1>3, <1>4, <1>5, <1>6, <1>7

(* The tracker will forward exactly what the reference took.               *)
LEMMA PacketForwards ==
  ASSUME CoreInv, NEW p \in Presented, PacketClock(p), SPACING >= 4
  PROVE  /\ Started \/ Passed => Forward' = None
         /\ \A q \in Quote : Took(q) => Forward' = q /\ q.seq \in 0 .. MaxSeq /\ q # None
<1>1. /\ age >= 4
      /\ (quote \in Quote \cup {None} /\ (quote # None => quote.seq <= MaxSeq))'
      /\ UNCHANGED <<last_seq, sequence_initialized>>
  BY PacketMeetsRest
<1>2. /\ last_seq \in Nat /\ sequence_initialized \in BOOLEAN
      /\ in_stream => /\ taken # {} <=> sequence_initialized
                      /\ taken # {} => last_seq \in taken
  BY <1>1, NothingInFlight DEF CoreInv, StageTypes
<1>3. Started => Forward' = None
  BY DEF Started, Forward
<1>4. ASSUME Passed PROVE Forward' = None
  <2>1. ASSUME quote' # None PROVE ~Fresh(quote)'
    <3>1. sequence_initialized /\ quote'.seq <= last_seq
      BY <1>4, <2>1 DEF Passed
    <3>2. quote'.seq \in Nat
      BY <1>1, <2>1, NumbersOfQuotes
    <3> QED BY <1>1, <1>2, <3>1, <3>2 DEF Fresh
  <2> QED BY <2>1 DEF Forward
<1>5. ASSUME NEW q \in Quote, Took(q)
      PROVE  Forward' = q /\ q.seq \in 0 .. MaxSeq /\ q # None
  <2>1. quote' = q /\ in_stream /\ \A n \in taken : n < q.seq
    BY <1>5 DEF Took
  <2>2. q # None /\ q.seq \in Nat /\ q.seq \in 0 .. MaxSeq
    BY <1>1, <2>1, NoneIsNoQuote, NumbersOfQuotes, RestOfNumbers
  <2>3. sequence_initialized => last_seq < q.seq
    BY <1>2, <2>1
  <2>4. ~sequence_initialized' \/ q.seq > last_seq'
    BY <1>1, <1>2, <2>2, <2>3
  <2> QED BY <2>1, <2>2, <2>4 DEF Fresh, Forward
<1> QED BY <1>3, <1>4, <1>5

LEMMA PacketKeepsCore ==
  ASSUME SPACING >= 4, CoreInv, NEW p \in Presented, PacketClock(p)
  PROVE  CoreInv'
<1>1. /\ Started \/ Passed \/ \E q \in Quote : Took(q)
      /\ age >= 4 /\ stream_active' = in_stream'
      /\ (quote \in Quote \cup {None} /\ (quote # None => quote.seq <= MaxSeq))'
      /\ tracked' = None /\ book_update' = None
      /\ UNCHANGED <<last_seq, sequence_initialized, missing_count, level, initialized>>
      /\ Best' = best /\ Windows' = window
  BY PacketMeetsRest
<1>2. EarlyInv'
  BY EarlyStep DEF CoreInv, Next
<1>3. StageTypes'
  BY <1>1, StagesKeepTypes DEF PacketClock
<1>4. Unbooked' = Forward' /\ Unsampled' = UpdateOf(Forward)'
  BY <1>1 DEF Unbooked, Unsampled, UpdateOf
<1>5. /\ taken \subseteq 0 .. MaxSeq /\ last_seq \in Nat /\ sequence_initialized \in BOOLEAN
      /\ in_stream => /\ taken # {} <=> sequence_initialized
                      /\ taken # {} => last_seq \in taken /\ \A n \in taken : n <= last_seq
  BY <1>1, NothingInFlight DEF CoreInv, TakenInv, StageTypes
<1>6. CASE Started
  <2>1. StreamInv' /\ TakenInv' /\ BooksInv' /\ WindowsInv'
    BY <1>1, <1>6 DEF Started, StreamInv, TakenInv, BooksInv, WindowsInv
  <2> QED BY <1>2, <1>3, <2>1 DEF CoreInv
<1>7. CASE Passed
  <2>1. Forward' = None
    BY <1>7, PacketForwards
  <2>2. Unbooked' = None /\ Unsampled' = None /\ Newest' = last_seq
    BY <1>1, <1>4, <2>1 DEF UpdateOf, Newest
  <2>3. UNCHANGED <<taken, best, window>> /\ (in_stream' => in_stream)
        /\ stream_start_pulse' = FALSE /\ stream_end_pulse' \in BOOLEAN
        /\ (stream_end_pulse' => ~in_stream')
    BY <1>7 DEF Passed
  <2>4. StreamInv'
    BY <1>1, <2>3 DEF StreamInv
  <2>5. TakenInv'
    BY <1>1, <1>5, <2>1, <2>2, <2>3 DEF TakenInv
  <2>6. BooksInv'
    BY <1>1, <2>2, <2>3 DEF BooksInv, TableAfter
  <2>7. WindowsInv'
    BY <1>1, <2>2, <2>3 DEF WindowsInv, WindowsAfter, Processed
  <2> QED BY <1>2, <1>3, <2>4, <2>5, <2>6, <2>7 DEF CoreInv
<1>8. ASSUME NEW q \in Quote, Took(q) PROVE CoreInv'
  <2>1. /\ stream_start_pulse' = FALSE /\ stream_end_pulse' = FALSE
        /\ quote' = q /\ in_stream /\ in_stream'
        /\ \A n \in taken : n < q.seq
        /\ taken' = taken \cup {q.seq}
        /\ best' = TableAfter(q, best)
        /\ window' = WindowsAfter(UpdateOf(q), window)
    BY <1>8 DEF Took
  <2>2. q # None /\ q.seq \in 0 .. MaxSeq /\ q.seq \in Nat /\ Forward' = q
    BY <1>8, PacketForwards, RestOfNumbers
  <2>4. Forward' = q /\ Unbooked' = q
    BY <1>4, <2>2
  <2>5. Unsampled' = UpdateOf(q)
    BY <1>1, <1>4, <2>2, <2>4 DEF UpdateOf, Other
  <2>6. Newest' = q.seq
    BY <2>2, <2>4 DEF Newest
  <2>7. StreamInv'
    BY <1>1, <2>1 DEF StreamInv
  <2>8. TakenInv'
    <3>1. taken' \subseteq 0 .. MaxSeq
      <4>1. taken \subseteq 0 .. MaxSeq /\ taken' = taken \cup {q.seq}
        BY <1>5, <2>1
      <4> QED BY <2>2, <4>1
    <3>2. taken' # {} /\ Newest' \in taken' /\ \A n \in taken' : n <= Newest'
      <4>1. \A n \in taken : n <= q.seq
        BY <1>5, <2>1, <2>2
      <4> QED BY <2>1, <2>2, <2>6, <4>1
    <3>3. sequence_initialized' => last_seq' \in taken'
      BY <1>1, <1>5, <2>1
    <3> QED BY <2>1, <2>2, <2>4, <3>1, <3>2, <3>3 DEF TakenInv
  <2>9. BooksInv'
    BY <1>1, <2>1, <2>4 DEF BooksInv, TableAfter
  <2>10. WindowsInv'
    BY <1>1, <2>1, <2>5 DEF WindowsInv, WindowsAfter
  <2> QED BY <1>2, <1>3, <2>7, <2>8, <2>9, <2>10 DEF CoreInv
<1> QED BY <1>1, <1>6, <1>7, <1>8

LEMMA CoreStep ==
  ASSUME SPACING >= 4, CoreInv, [Next]_vars PROVE CoreInv'
<1>1. CASE UNCHANGED vars
  <2>1. /\ UNCHANGED <<filterVars, trackerVars, bookVars, windowVars, calculation, feature>>
        /\ UNCHANGED <<in_stream, taken, best, window, age>>
    BY <1>1 DEF vars, engineVars, featureVars, atomicVars, scoreboardVars
  <2>2. /\ UNCHANGED <<Forward, Unbooked, Unsampled, Newest, Best>>
    BY <2>1 DEF filterVars, trackerVars, bookVars, Forward, Fresh, Unbooked, Unsampled,
                UpdateOf, Other, Newest, Best
  <2>3. EarlyInv'
    BY <1>1, EarlyStep DEF CoreInv
  <2>4. SumsInv' /\ Windows' = Windows
    <3>1. SumsInv /\ WarmupInv
      BY DEF CoreInv, StageTypes, SumsInv
    <3>2. BufferTypes' /\ SumsRight' /\ RingsAgree' /\ \A s \in Slot : RingWindow(s)' = RingWindow(s)
      BY <2>1, <3>1, SameWindows
    <3>3. WarmupInv'
      BY <2>1, <3>1 DEF windowVars, WarmupInv, WarmupTypes, WarmupConsistent,
                        FeaturesNeedFullWindows
    <3> QED BY <3>2, <3>3 DEF SumsInv, Windows
  <2>5. StageTypes'
    BY <2>1, <2>4 DEF CoreInv, StageTypes, BookTypeOK, filterVars, trackerVars, bookVars, Consistent
  <2>6. StreamInv' /\ TakenInv'
    BY <2>1, <2>2 DEF CoreInv, StreamInv, TakenInv, filterVars, trackerVars
  <2>7. BooksInv' /\ WindowsInv'
    BY <2>1, <2>2, <2>4 DEF CoreInv, BooksInv, WindowsInv, TableAfter, WindowsAfter, filterVars
  <2> QED BY <2>3, <2>5, <2>6, <2>7 DEF CoreInv
<1> QED BY <1>1, IdleKeepsCore, PacketKeepsCore DEF Next

LEMMA CoreInvHolds == ASSUME SPACING >= 4 PROVE Spec => []CoreInv
<1>1. Init => CoreInv BY CoreInit
<1>2. CoreInv /\ [Next]_vars => CoreInv' BY CoreStep
<1> QED BY <1>1, <1>2, PTL DEF Spec

(* For every spacing from four clocks on, all numbers, instruments and     *)
(* windows: once a packet has passed the stages with state, filter,        *)
(* tracker, book and windows are where the atomic engine is.               *)
THEOREM SettledStateAgreesHolds ==
  ASSUME SPACING >= 4 PROVE Spec => []SettledStateAgrees
<1>1. CoreInv => SettledStateAgrees
  <2> SUFFICES ASSUME CoreInv, age >= 4
      PROVE  /\ stream_active = in_stream
             /\ in_stream => sequence_initialized = (taken # {})
             /\ in_stream /\ taken # {} => last_seq \in taken /\ \A n \in taken : n <= last_seq
             /\ \A s \in Slot, side \in Side :
                  best[s][side] = IF initialized[s][side] THEN level[s][side] ELSE None
             /\ \A s \in Slot : sample_count[s] = Len(window[s])
    BY DEF SettledStateAgrees
  <2>1. /\ best = Best /\ window = Windows
        /\ in_stream => /\ taken # {} <=> sequence_initialized
                        /\ taken # {} => last_seq \in taken /\ \A n \in taken : n <= last_seq
    BY NothingInFlight
  <2>2. stream_active = in_stream /\ sequence_initialized \in BOOLEAN
    BY DEF CoreInv, StreamInv, StageTypes
  <2>3. \A s \in Slot, side \in Side :
          best[s][side] = IF initialized[s][side] THEN level[s][side] ELSE None
    BY <2>1 DEF Best
  <2>4. \A s \in Slot : sample_count[s] = Len(window[s])
    <3> SUFFICES ASSUME NEW s \in Slot PROVE sample_count[s] = Len(window[s])
      OBVIOUS
    <3>1. sample_count[s] \in Nat
      BY WindowLengths DEF CoreInv, StageTypes, SumsInv, WarmupInv, WarmupTypes
    <3>2. window[s] = RingWindow(s)
      BY <2>1 DEF Windows
    <3> QED BY <3>1, <3>2 DEF RingWindow
  <2> QED BY <2>1, <2>2, <2>3, <2>4
<1> QED BY <1>1, CoreInvHolds, PTL
-------------------------------------------------------------------------------
(* The numbers that had no effect, and the counter that counts them.       *)
LEMMA GapsAreFew ==
  ASSUME NEW set PROVE IsFiniteSet(Gaps(set)) /\ Cardinality(Gaps(set)) \in 0 .. MaxSeq + 1
<1>1. IsFiniteSet(0 .. MaxSeq) /\ Cardinality(0 .. MaxSeq) = MaxSeq + 1
  BY FS_Interval, RestOfNumbers
<1>2. Gaps(set) \in SUBSET (0 .. MaxSeq)
  BY DEF Gaps
<1>3. IsFiniteSet(Gaps(set)) /\ Cardinality(Gaps(set)) <= MaxSeq + 1
  BY <1>1, <1>2, FS_Subset
<1> QED BY <1>3, FS_CardinalityType, RestOfNumbers

LEMMA NoGapsInNothing == Cardinality(Gaps({})) = 0
<1>1. Gaps({}) = {}
  BY DEF Gaps
<1> QED BY <1>1, FS_EmptySet

LEMMA NoGapsInOne == ASSUME NEW n \in Nat PROVE Cardinality(Gaps({n})) = 0
<1>1. Gaps({n}) = {}
  BY DEF Gaps
<1> QED BY <1>1, FS_EmptySet

(* A number above all others adds what lies between it and the highest.    *)
LEMMA GapsGrow ==
  ASSUME NEW set \in SUBSET (0 .. MaxSeq), NEW last \in set, \A n \in set : n <= last,
         NEW seq \in 0 .. MaxSeq, last < seq
  PROVE  Cardinality(Gaps(set \cup {seq})) = Cardinality(Gaps(set)) + (seq - last - 1)
<1> DEFINE between == last + 1 .. seq - 1
<1>1. last \in Nat /\ seq \in Nat /\ seq <= MaxSeq
  BY RestOfNumbers
<1>2. \A n \in Int : n \in between <=> last < n /\ n < seq
  BY <1>1
<1>3. Gaps(set \cup {seq}) = Gaps(set) \cup between
  <2>1. ASSUME NEW n \in Gaps(set) PROVE n \in Gaps(set \cup {seq})
    <3>1. n \in 0 .. MaxSeq /\ n \notin set
      BY <2>1 DEF Gaps
    <3>2. PICK a \in set, b \in set : a < n /\ n < b
      BY <2>1 DEF Gaps
    <3>3. n # seq
      <4>1. b <= last /\ b \in Nat /\ n \in Nat
        BY <3>1, RestOfNumbers
      <4> QED BY <1>1, <3>2, <4>1
    <3> QED BY <3>1, <3>2, <3>3 DEF Gaps
  <2>2. ASSUME NEW n \in between PROVE n \in Gaps(set \cup {seq})
    <3>1. n \in Int /\ last < n /\ n < seq
      BY <1>1, <1>2
    <3>2. n \in 0 .. MaxSeq /\ n # seq
      BY <1>1, <3>1, RestOfNumbers
    <3>3. n \notin set
      BY <3>1, <1>1
    <3> QED BY <3>1, <3>2, <3>3 DEF Gaps
  <2>3. ASSUME NEW n \in Gaps(set \cup {seq}) PROVE n \in Gaps(set) \cup between
    <3>1. n \in 0 .. MaxSeq /\ n \notin set /\ n # seq
      BY <2>3 DEF Gaps
    <3>2. PICK a \in set \cup {seq}, b \in set \cup {seq} : a < n /\ n < b
      BY <2>3 DEF Gaps
    <3>3. a \in Nat /\ b \in Nat /\ n \in Nat /\ b <= seq
      <4>1. \A m \in set \cup {seq} : m \in Nat /\ m <= seq
        BY <1>1, RestOfNumbers
      <4> QED BY <3>1, <4>1, RestOfNumbers
    <3>4. n < seq /\ a # seq
      BY <1>1, <3>2, <3>3
    <3>5. CASE n < last
      <4>1. n \in Gaps(set)
        BY <3>1, <3>2, <3>4, <3>5 DEF Gaps
      <4> QED BY <4>1
    <3>6. CASE last < n
      BY <1>2, <3>3, <3>4, <3>6
    <3>7. n # last
      BY <3>1
    <3> QED BY <1>1, <3>3, <3>5, <3>6, <3>7
  <2> HIDE DEF between
  <2> QED BY <2>1, <2>2, <2>3
<1>4. Gaps(set) \cap between = {}
  <2> SUFFICES ASSUME NEW n \in Gaps(set), n \in between PROVE FALSE
    OBVIOUS
  <2>1. PICK b \in set : n < b
    BY DEF Gaps
  <2>2. n \in Nat /\ b \in Nat /\ b <= last
    BY RestOfNumbers DEF Gaps
  <2>3. last < n
    BY <1>2, <2>2
  <2> QED BY <1>1, <2>1, <2>2, <2>3
<1>5. IsFiniteSet(between) /\ Cardinality(between) = seq - last - 1
  <2>1. last + 1 \in Int /\ seq - 1 \in Int
    BY <1>1
  <2>2. IsFiniteSet(between)
        /\ Cardinality(between) = IF last + 1 > seq - 1 THEN 0 ELSE (seq - 1) - (last + 1) + 1
    BY <2>1, FS_Interval
  <2> HIDE DEF between
  <2> QED BY <1>1, <2>2
<1> HIDE DEF between
<1>6. IsFiniteSet(Gaps(set)) /\ Cardinality(Gaps(set)) \in Int
  BY GapsAreFew
<1>7. Cardinality(Gaps(set) \cup between)
        = Cardinality(Gaps(set)) + Cardinality(between) - Cardinality({})
  BY <1>4, <1>5, <1>6, FS_Union
<1> DEFINE before == Cardinality(Gaps(set))
<1>8. before + (seq - last - 1) - 0 = before + (seq - last - 1)
  BY <1>1, <1>6
<1>9. Cardinality({}) = 0
  BY FS_EmptySet
<1> QED BY <1>3, <1>5, <1>7, <1>8, <1>9

LEMMA GapsIdle ==
  ASSUME CoreInv, GapsInv, IdleClock
  PROVE  GapsInv'
<1>1. EngineTick(None) /\ UNCHANGED <<in_stream, taken>>
  BY DEF IdleClock, atomicVars
<1>2. quote' = None /\ Unmissed' = 0
  BY <1>1, FilterWithoutPacket DEF EngineTick, Unmissed, Forward
<1>3. CASE stream_start_pulse
  <2>1. missing_count' = 0 /\ taken = {}
    BY <1>1, <1>3, StagesRestart DEF CoreInv, StreamInv
  <2>2. 0 \in SeqNo
    BY Hft1Assumption DEF SeqNo
  <2> QED BY <1>1, <1>2, <2>1, <2>2, NoGapsInNothing DEF GapsInv
<1>4. CASE ~stream_start_pulse
  <2> DEFINE gaps == Cardinality(Gaps(taken))
  <2>1. gaps \in 0 .. MaxSeq + 1 /\ missing_count \in SeqNo
    BY GapsAreFew DEF GapsInv
  <2>2. in_stream => missing_count + Unmissed = gaps
    BY <1>4 DEF GapsInv
  <2> HIDE DEF gaps
  <2>3. CASE Forward = None
    <3>1. missing_count' = missing_count /\ Unmissed = 0
      BY <1>1, <1>4, <2>3, StagesAdvance DEF Unmissed
    <3>2. missing_count + 0 = missing_count
      BY <2>1 DEF SeqNo
    <3> QED BY <1>1, <1>2, <2>1, <2>2, <3>1, <3>2 DEF GapsInv, gaps
  <2>4. CASE Forward # None
    <3>1. missing_count' = (missing_count + Unmissed) % NumSeqNos
      BY <1>1, <1>4, <2>4, StagesAdvance
    <3>2. in_stream
      BY <2>4 DEF Forward, CoreInv, EarlyInv, StreamInv
    <3>3. missing_count' = gaps % NumSeqNos
      BY <2>2, <3>1, <3>2
    <3>4. gaps \in SeqNo /\ gaps % NumSeqNos = gaps /\ gaps + 0 = gaps
      <4>1. gaps \in 0 .. NumSeqNos - 1
        BY <2>1, RestOfNumbers
      <4>2. \A n \in 0 .. NumSeqNos - 1 : n % NumSeqNos = n
        BY RestOfNumbers
      <4> QED BY <4>1, <4>2, RestOfNumbers DEF SeqNo
    <3> QED BY <1>1, <1>2, <3>3, <3>4 DEF GapsInv, gaps
  <2> QED BY <2>3, <2>4
<1> QED BY <1>3, <1>4

LEMMA GapsPacket ==
  ASSUME SPACING >= 4, CoreInv, GapsInv, NEW p \in Presented, PacketClock(p)
  PROVE  GapsInv'
<1>1. /\ Started \/ Passed \/ \E q \in Quote : Took(q)
      /\ age >= 4
      /\ UNCHANGED <<last_seq, sequence_initialized, missing_count>>
      /\ (quote \in Quote \cup {None} /\ (quote # None => quote.seq <= MaxSeq))'
  BY PacketMeetsRest
<1>2. /\ ~stream_start_pulse /\ Forward = None
      /\ in_stream => /\ taken # {} <=> sequence_initialized
                      /\ taken # {} => last_seq \in taken /\ \A n \in taken : n <= last_seq
  BY <1>1, NothingInFlight
<1>3. /\ missing_count \in SeqNo /\ missing_count \in Int
      /\ in_stream => missing_count = Cardinality(Gaps(taken))
  <2>1. missing_count \in SeqNo /\ missing_count \in Int
    BY DEF GapsInv, SeqNo
  <2>2. Unmissed = 0
    BY <1>2 DEF Unmissed
  <2> QED BY <1>2, <2>1, <2>2 DEF GapsInv
<1>4. last_seq \in Nat /\ sequence_initialized \in BOOLEAN /\ taken \subseteq 0 .. MaxSeq
  BY DEF CoreInv, StageTypes, TakenInv
<1>5. CASE Started
  BY <1>1, <1>3, <1>5 DEF Started, GapsInv
<1>6. CASE Passed
  <2>2. Unmissed' = 0
    BY <1>6, PacketForwards DEF Unmissed
  <2>3. taken' = taken /\ (in_stream' => in_stream)
    BY <1>6 DEF Passed
  <2> QED BY <1>1, <1>3, <2>2, <2>3 DEF GapsInv
<1>7. ASSUME NEW q \in Quote, Took(q) PROVE GapsInv'
  <2>1. /\ quote' = q /\ in_stream
        /\ \A n \in taken : n < q.seq
        /\ taken' = taken \cup {q.seq}
    BY <1>7 DEF Took
  <2>2. q # None /\ q.seq \in Nat /\ q.seq \in 0 .. MaxSeq
    BY <1>7, PacketForwards, RestOfNumbers
  <2>3. sequence_initialized => last_seq < q.seq
    BY <1>2, <2>1
  <2>4. Forward' = q
    BY <1>7, PacketForwards
  <2>5. Unmissed' = IF sequence_initialized THEN q.seq - last_seq - 1 ELSE 0
    BY <1>1, <2>2, <2>4 DEF Unmissed
  <2>6. CASE sequence_initialized
    <3>1. last_seq \in taken /\ \A n \in taken : n <= last_seq
      BY <1>2, <2>1, <2>6
    <3>2. Cardinality(Gaps(taken \cup {q.seq})) = Cardinality(Gaps(taken)) + (q.seq - last_seq - 1)
      BY <1>4, <2>2, <2>3, <2>6, <3>1, GapsGrow
    <3> QED BY <1>1, <1>3, <2>1, <2>5, <2>6, <3>2 DEF GapsInv
  <2>7. CASE ~sequence_initialized
    <3>1. taken = {} /\ taken' = {q.seq}
      BY <1>2, <2>1, <2>7
    <3>2. missing_count = 0 /\ Cardinality(Gaps(taken')) = 0
      BY <1>3, <2>1, <2>2, <3>1, NoGapsInNothing, NoGapsInOne
    <3> QED BY <1>1, <1>3, <2>5, <2>7, <3>2 DEF GapsInv
  <2> QED BY <2>6, <2>7
<1> QED BY <1>1, <1>5, <1>6, <1>7

(* missing_count never wraps, since no more numbers are in use than it has *)
(* values, and once a packet has settled it counts the numbers without     *)
(* effect between the first quote and the newest, exactly.                 *)
THEOREM MissingCountsFilteredHolds ==
  ASSUME SPACING >= 4 PROVE Spec => []MissingCountsFiltered
<1>1. Init => GapsInv
  <2>1. 0 \in SeqNo
    BY Hft1Assumption DEF SeqNo
  <2> QED BY <2>1 DEF Init, EngineInit, TrackerInit, AtomicInit, GapsInv
<1>2. CoreInv /\ GapsInv /\ [Next]_vars => GapsInv'
  <2>1. ASSUME GapsInv, UNCHANGED vars PROVE GapsInv'
    BY <2>1 DEF vars, engineVars, filterVars, trackerVars, atomicVars, GapsInv, Unmissed,
                Forward, Fresh
  <2> QED BY <2>1, GapsIdle, GapsPacket DEF Next
<1>3. CoreInv /\ GapsInv => MissingCountsFiltered
  <2> SUFFICES ASSUME CoreInv, GapsInv, age >= 4, in_stream
               PROVE  missing_count = Cardinality(Gaps(taken))
    BY DEF MissingCountsFiltered, Gaps
  <2>1. ~stream_start_pulse /\ Unmissed = 0 /\ missing_count \in Int
    BY NothingInFlight DEF Unmissed, GapsInv, SeqNo
  <2> QED BY <2>1 DEF GapsInv
<1> QED BY <1>1, <1>2, <1>3, CoreInvHolds, PTL DEF Spec
-------------------------------------------------------------------------------
(* The decisions.  Full windows give integer trends, so that the products  *)
(* of the decision stages may be commuted.                                 *)
TrendOf(seq) == Average(FAST, seq) - Average(SLOW, seq)

TrendsAgree ==
  \A s \in Slot : sample_count[s] = SLOW =>
    Trend(s) = TrendOf(RingWindow(s)) /\ Trend(s) \in Int

LEMMA SumsGiveTrends == SumsInv => TrendsAgree
<1> SUFFICES ASSUME SumsInv, NEW s \in Slot, sample_count[s] = SLOW
             PROVE  Trend(s) = TrendOf(RingWindow(s)) /\ Trend(s) \in Int
  BY DEF TrendsAgree
<1>1. Trend(s) = Averages!Mean(FAST, RingWindow(s)) - Averages!Mean(SLOW, RingWindow(s))
  BY MeansFromSums
<1>2. fast_sum[s] \in Int /\ slow_sum[s] \in Int
  BY DEF SumsInv, BufferTypes
<1>3. Trend(s) \in Int
  <2> DEFINE x == fast_sum[s]
             y == slow_sum[s]
  <2> HIDE DEF x, y
  <2>1. x \in Int /\ y \in Int
    BY <1>2 DEF x, y
  <2>2. x \div FAST \in Int /\ y \div SLOW \in Int
    BY <2>1, WindowLengths
  <2> QED BY <2>2 DEF Trend, x, y
<1> QED BY <1>1, <1>3, SameNewest DEF TrendOf

LEMMA PrimedTrends == SumsInv' => TrendsAgree'
BY SumsGiveTrends, PTL

LEMMA LevelsAreNatural == \A l \in Level : l.price \in Int /\ l.quantity \in Int
<1>1. Quantity \subseteq Nat
  BY Hft1Assumption
<1> SUFFICES ASSUME NEW l \in Level PROVE l.price \in Int /\ l.quantity \in Int
  OBVIOUS
<1>2. l.price \in Nat
  BY LevelPricesAreNaturals
<1>3. ASSUME l \in [price : Price, quantity : Quantity] PROVE l.quantity \in Nat
  BY <1>1, <1>3
<1>4. ASSUME l = NoLevel PROVE l.quantity \in Nat
  BY <1>4 DEF NoLevel
<1>5. l \in [price : Price, quantity : Quantity] \/ l = NoLevel
  BY DEF Level
<1> QED BY <1>2, <1>3, <1>4, <1>5

(* Three stages of products, sums and comparisons make up the verdict.     *)
LEMMA StagesDecide ==
  ASSUME NEW s, NEW seq, TrendOf(seq) \in Int,
         NEW bid \in Level, NEW ask \in Level
  PROVE  Decision([slot |-> s, trend |-> TrendOf(seq),
                   imbalance |-> bid.quantity - ask.quantity,
                   spread |-> ask.price - bid.price]) = Verdict(s, bid, ask, seq)
<1> DEFINE t == TrendOf(seq)
           i == bid.quantity - ask.quantity
           d == ask.price - bid.price
           score == TREND_WEIGHT * t + IMBALANCE_WEIGHT * i
           needed == BASE_THRESHOLD + SPREAD_WEIGHT * d
           f == [slot |-> s, trend |-> t, imbalance |-> i, spread |-> d]
<1>1. t \in Int /\ i \in Int /\ d \in Int
  BY LevelsAreNatural
<1>2. /\ TREND_WEIGHT \in Int /\ IMBALANCE_WEIGHT \in Int
      /\ SPREAD_WEIGHT \in Int /\ BASE_THRESHOLD \in Int
  BY ParameterAssumption
<1>3. Verdict(s, bid, ask, seq) =
        [slot |-> s,
         trade_signal |-> IF score > needed THEN BUY ELSE IF -score > needed THEN SELL ELSE HOLD,
         direction_score |-> score, required_score |-> needed]
  BY DEF Verdict, TrendOf
<1> HIDE DEF t, i, d
<1>4. /\ t * TREND_WEIGHT = TREND_WEIGHT * t
      /\ i * IMBALANCE_WEIGHT = IMBALANCE_WEIGHT * i
      /\ d * SPREAD_WEIGHT = SPREAD_WEIGHT * d
  BY <1>1, <1>2
<1>5. score \in Int /\ needed \in Int
  BY <1>1, <1>2
<1>6. Scores(Products(f)) = [slot |-> s, direction_score |-> score, required_score |-> needed]
  BY <1>4 DEF Scores, Products
<1> HIDE DEF score, needed
<1>7. score < -needed <=> -score > needed
  BY <1>5
<1>8. Decision(f) = [slot |-> s, trade_signal |-> Trade(score, needed),
                     direction_score |-> score, required_score |-> needed]
  BY <1>6 DEF Decision, Signal
<1> QED BY <1>3, <1>7, <1>8 DEF Trade, t, i, d

(* The decision stages hand on what they hold.                             *)
LEMMA ExpectedShifts ==
  ASSUME NEW d, Shift(d)
  PROVE  /\ expected'[1] = d /\ expected'[2] = expected[1] /\ expected'[3] = expected[2]
         /\ expected'[4] = expected[3] /\ expected'[5] = expected[4]
         /\ expected'[6] = expected[5] /\ expected'[7] = expected[6]
         /\ expected'[8] = expected[7]
BY DEF Shift, LATENCY

LEMMA StagesMakeRecords ==
  /\ \A f \in FeatureRecord : Products(f) \in FeatureRecord
  /\ \A p \in FeatureRecord : Scores(p) \in ScoreRecord
<1>1. /\ TREND_WEIGHT \in Int /\ IMBALANCE_WEIGHT \in Int
      /\ SPREAD_WEIGHT \in Int /\ BASE_THRESHOLD \in Int
  BY ParameterAssumption
<1>2. \A x, y \in Int : x * y \in Int /\ x + y \in Int
  OBVIOUS
<1> SUFFICES ASSUME NEW f \in FeatureRecord
             PROVE  Products(f) \in FeatureRecord /\ Scores(f) \in ScoreRecord
  OBVIOUS
<1>3. f.slot \in Slot /\ f.trend \in Int /\ f.imbalance \in Int /\ f.spread \in Int
  BY DEF FeatureRecord
<1>4. /\ f.trend * TREND_WEIGHT \in Int /\ f.imbalance * IMBALANCE_WEIGHT \in Int
      /\ f.spread * SPREAD_WEIGHT \in Int
      /\ f.trend + f.imbalance \in Int /\ BASE_THRESHOLD + f.spread \in Int
  BY <1>1, <1>2, <1>3
<1>5. Products(f) \in FeatureRecord
  BY <1>3, <1>4 DEF Products, FeatureRecord
<1>6. Scores(f) \in ScoreRecord
  BY <1>3, <1>4 DEF Scores, ScoreRecord
<1> QED BY <1>5, <1>6

LEMMA LateDecisions ==
  ASSUME RecordsInv, DecisionsInv, NEW d, Shift(d), DecisionTick(feature)
  PROVE  /\ expected'[8] = signal'
         /\ expected'[7] = IF scores' = None THEN None ELSE Signal(scores')
         /\ expected'[6] = IF products' = None THEN None ELSE Signal(Scores(products'))
         /\ products' \in FeatureRecord \cup {None}
         /\ scores' \in ScoreRecord \cup {None}
<1>1. /\ expected'[6] = expected[5] /\ expected'[7] = expected[6] /\ expected'[8] = expected[7]
  BY ExpectedShifts
<1>2. /\ products' = (IF feature = None THEN None ELSE Products(feature))
      /\ scores' = (IF products = None THEN None ELSE Scores(products))
      /\ signal' = (IF scores = None THEN None ELSE Signal(scores))
  BY DEF DecisionTick
<1>3. /\ feature # None => Products(feature) \in FeatureRecord
      /\ products # None => Scores(products) \in ScoreRecord
  BY StagesMakeRecords DEF RecordsInv
<1>4. /\ feature # None => Products(feature) # None
      /\ products # None => Scores(products) # None
  BY <1>3, RecordAssumption
<1>5. expected'[6] = IF products' = None THEN None ELSE Signal(Scores(products'))
  BY <1>1, <1>2, <1>4 DEF DecisionsInv, Decision
<1>6. expected'[7] = IF scores' = None THEN None ELSE Signal(scores')
  BY <1>1, <1>2, <1>4 DEF DecisionsInv
<1>7. expected'[8] = signal'
  BY <1>1, <1>2 DEF DecisionsInv
<1> QED BY <1>2, <1>3, <1>5, <1>6, <1>7

(* Stage 2 divides the sums of the very window the calculation came from.  *)
LEMMA FeatureDecision ==
  ASSUME CoreInv, RecordsInv, DecisionsInv, NEW p, EngineTick(p), NEW d, Shift(d)
  PROVE  /\ expected'[5] = IF feature' = None THEN None ELSE Decision(feature')
         /\ feature' \in FeatureRecord \cup {None}
<1>1. FeatureTick(stream_start_pulse, stream_end_pulse, book_update)
  BY DEF EngineTick
<1>2. expected'[5] = IF calculation = None THEN None ELSE Decision(Due)
  BY ExpectedShifts DEF DecisionsInv
<1>3. CASE calculation = None
  <2>1. feature' = None
    BY <1>1, <1>3 DEF FeatureTick, FeatureStart, FeatureEnd, FeatureClock, CalculateFeature
  <2> QED BY <1>2, <1>3, <2>1
<1>4. CASE calculation # None
  <2>1. ~stream_start_pulse /\ ~stream_end_pulse
    BY <1>4, PulsesAlone DEF CoreInv
  <2>2. CalculateFeature
    BY <1>1, <2>1 DEF FeatureTick, FeatureClock
  <2>3. calculation.slot \in Slot /\ calculation.imbalance \in Int /\ calculation.spread \in Int
    BY <1>4 DEF RecordsInv, CalculationRecord
  <2>4. sample_count[calculation.slot] = SLOW /\ SumsInv
    BY <1>4 DEF CoreInv, StageTypes, SumsInv, WarmupInv, FeaturesNeedFullWindows
  <2>5. Trend(calculation.slot) = TrendOf(RingWindow(calculation.slot))
        /\ Trend(calculation.slot) \in Int
    BY <2>3, <2>4, SumsGiveTrends DEF TrendsAgree
  <2>6. feature' = [slot |-> calculation.slot, trend |-> Trend(calculation.slot),
                    imbalance |-> calculation.imbalance, spread |-> calculation.spread]
    BY <1>4, <2>2 DEF CalculateFeature
  <2>7. feature' \in FeatureRecord
    BY <2>3, <2>5, <2>6 DEF FeatureRecord
  <2>8. feature' = Due
    BY <2>5, <2>6 DEF Due, TrendOf
  <2>9. feature' # None
    BY <2>7, RecordAssumption
  <2> QED BY <1>2, <1>4, <2>7, <2>8, <2>9
<1> QED BY <1>3, <1>4

(* The window a full sample completes is the one the reference decided on. *)
LEMMA CalculationDecision ==
  ASSUME CoreInv, StageTypes', RecordsInv, DecisionsInv, NEW p, EngineTick(p), NEW d, Shift(d)
  PROVE  /\ expected'[4] = IF calculation' = None THEN None ELSE Decision(Due)'
         /\ calculation' \in CalculationRecord \cup {None}
<1> PICK u : u = book_update
  OBVIOUS
<1>1. FeatureTick(stream_start_pulse, stream_end_pulse, u)
  BY DEF EngineTick
<1>2. expected'[4] = DecisionOn(u)
  BY ExpectedShifts DEF DecisionsInv
<1>3. CASE ~Processed(u)
  <2>1. calculation' = None
    BY <1>1, <1>3 DEF FeatureTick, FeatureStart, FeatureEnd, FeatureClock, NoSample
  <2>2. DecisionOn(u) = None
    BY <1>3 DEF DecisionOn, VerdictOn
  <2> QED BY <1>2, <2>1, <2>2
<1>4. CASE Processed(u)
  <2> DEFINE s == u.slot
             c == sample_count'[s]
  <2>1. u # None /\ ~stream_start_pulse /\ ~stream_end_pulse
    BY <1>4, PulsesAlone DEF Processed, CoreInv
  <2>2. u \in BookUpdate /\ s \in Slot /\ midpoint2(u) \in Nat /\ u.bid \in Level /\ u.ask \in Level
    <3>1. u \in BookUpdate
      BY <2>1 DEF CoreInv, StageTypes, BookTypeOK
    <3> QED BY <3>1, MidpointsAreNaturals DEF BookUpdate
  <2>3. SumsInv /\ WarmupInv /\ (WarmupFast(u) \/ WarmupSlow(u) \/ FeatureReady(u))
    BY <1>1, <1>4, <2>1 DEF FeatureTick, FeatureClock, CoreInv, StageTypes, SumsInv
  <2>4. /\ calculation' = IF c = SLOW THEN Calculation(u) ELSE None
        /\ c \in 0 .. SLOW
    BY <2>2, <2>3, BranchesRoll, BranchesSample
  <2>5. window[s] = RingWindow(s)'
    <3>1. window = WindowsAfter(u, Windows)
      BY <2>1 DEF CoreInv, WindowsInv, Unsampled
    <3>2. Windows' = WindowsAfter(u, Windows)
      BY <2>1, StagesAdvance
    <3>3. Windows'[s] = RingWindow(s)'
      BY <2>2 DEF Windows
    <3> QED BY <3>1, <3>2, <3>3
  <2>6. Len(RingWindow(s)') = c
    BY <2>2, <2>3, SampleSlides
  <2>7. CASE c # SLOW
    <3>1. Len(window[s]) < SLOW
      BY <2>4, <2>5, <2>6, <2>7, WindowLengths
    <3>2. DecisionOn(u) = None
      BY <3>1 DEF DecisionOn, VerdictOn
    <3> QED BY <1>2, <2>4, <2>7, <3>2
  <2>8. CASE c = SLOW
    <3>1. ~(Len(window[s]) < SLOW)
      BY <2>5, <2>6, <2>8, WindowLengths
    <3>2. DecisionOn(u) = Verdict(s, u.bid, u.ask, RingWindow(s)')
      BY <1>4, <2>5, <3>1 DEF DecisionOn, VerdictOn
    <3>3. TrendOf(RingWindow(s)') \in Int
      <4>1. TrendsAgree'
        BY PrimedTrends DEF StageTypes
      <4>2. Trend(s)' = TrendOf(RingWindow(s)') /\ Trend(s)' \in Int
        BY <2>2, <2>8, <4>1 DEF TrendsAgree
      <4> QED BY <4>2
    <3>4. calculation' = [slot |-> s, imbalance |-> u.bid.quantity - u.ask.quantity,
                          spread |-> u.ask.price - u.bid.price]
      BY <2>4, <2>8 DEF Calculation
    <3>5. calculation' \in CalculationRecord
      BY <2>2, <3>4, LevelsAreNatural DEF CalculationRecord
    <3>6. Due' = [slot |-> s, trend |-> TrendOf(RingWindow(s)'),
                  imbalance |-> u.bid.quantity - u.ask.quantity,
                  spread |-> u.ask.price - u.bid.price]
      <4>1. calculation'.slot = s /\ calculation'.imbalance = u.bid.quantity - u.ask.quantity
            /\ calculation'.spread = u.ask.price - u.bid.price
        BY <3>4
      <4>2. RingWindow(calculation.slot)' = RingWindow(s)'
        BY <4>1 DEF RingWindow
      <4> QED BY <4>1, <4>2 DEF Due, TrendOf
    <3>7. Decision(Due') = Verdict(s, u.bid, u.ask, RingWindow(s)')
      BY <2>2, <3>3, <3>6, StagesDecide
    <3>8. calculation' # None
      BY <3>5, RecordAssumption
    <3> QED BY <1>2, <3>2, <3>5, <3>7, <3>8
  <2> QED BY <2>7, <2>8
<1> QED BY <1>3, <1>4

(* What is on its way to the windows will be decided upon as the reference *)
(* did, since nothing else reaches the windows meanwhile.                  *)
LEMMA EarlyDecisions ==
  ASSUME CoreInv, DecisionsInv, NEW p, EngineTick(p), NEW d, Shift(d),
         tracked # None \/ Forward # None => window' = window
  PROVE  /\ expected'[3] = DecisionOn(book_update)'
         /\ expected'[2] = DecisionOn(UpdateOf(tracked))'
<1>1. /\ expected'[3] = DecisionOn(UpdateOf(tracked))
      /\ expected'[2] = DecisionOn(UpdateOf(Forward))
  BY ExpectedShifts DEF DecisionsInv
<1>2. DecisionOn(None) = None /\ UpdateOf(None) = None
  BY DEF DecisionOn, VerdictOn, UpdateOf, Processed
<1>3. /\ book_update' = None => DecisionOn(book_update)' = None
      /\ tracked' = None => DecisionOn(UpdateOf(tracked))' = None
  BY DEF DecisionOn, VerdictOn, UpdateOf, Processed
<1>4. CASE stream_start_pulse
  <2>1. tracked = None /\ Forward = None /\ tracked' = None /\ book_update' = None
    BY <1>4, PulsesAlone, StagesRestart DEF CoreInv, Forward
  <2> QED BY <1>1, <1>2, <1>3, <2>1
<1>5. CASE ~stream_start_pulse
  <2>1. /\ book_update' = UpdateOf(tracked) /\ tracked' = Forward
        /\ tracked = None => UNCHANGED <<level, initialized>>
    BY <1>5, StagesAdvance
  <2>2. expected'[3] = DecisionOn(book_update)'
    <3>1. CASE tracked = None
      BY <1>1, <1>2, <1>3, <2>1, <3>1
    <3>2. CASE tracked # None
      BY <1>1, <2>1, <3>2 DEF DecisionOn, VerdictOn
    <3> QED BY <3>1, <3>2
  <2>3. expected'[2] = DecisionOn(UpdateOf(tracked))'
    <3>1. CASE Forward = None
      BY <1>1, <1>2, <1>3, <2>1, <3>1
    <3>2. CASE Forward # None
      <4>1. tracked = None
        BY <3>2, OneAtATime DEF CoreInv, Forward
      <4>2. UpdateOf(tracked)' = UpdateOf(Forward)
        BY <2>1, <4>1 DEF UpdateOf, Other, LevelOf
      <4>3. DecisionOn(UpdateOf(tracked))' = DecisionOn(UpdateOf(Forward))
        BY <3>2, <4>2 DEF DecisionOn, VerdictOn
      <4> QED BY <1>1, <4>3
    <3> QED BY <3>1, <3>2
  <2> QED BY <2>2, <2>3
<1> QED BY <1>4, <1>5

LEMMA NewDecision ==
  ASSUME SPACING >= 4, CoreInv, NEW p \in Presented, PacketClock(p)
  PROVE  decided' = DecisionOn(UpdateOf(Forward))'
<1>1. /\ Started \/ Passed \/ \E q \in Quote : Took(q)
      /\ UNCHANGED <<level, initialized>>
  BY PacketMeetsRest
<1>2. CASE Started \/ Passed
  <2>1. Forward' = None /\ decided' = None
    BY <1>2, PacketForwards DEF Started, Passed
  <2> QED BY <2>1 DEF DecisionOn, VerdictOn, UpdateOf, Processed
<1>3. ASSUME NEW q \in Quote, Took(q) PROVE decided' = DecisionOn(UpdateOf(Forward))'
  <2>1. Forward' = q /\ q # None /\ decided' = VerdictOn(UpdateOf(q), window')
    BY <1>3, PacketForwards DEF Took
  <2>2. UpdateOf(Forward)' = UpdateOf(q)
    BY <1>1, <2>1 DEF UpdateOf, Other
  <2>3. DecisionOn(UpdateOf(Forward))' = VerdictOn(UpdateOf(q), window')
    BY <2>2 DEF DecisionOn, VerdictOn
  <2> QED BY <2>1, <2>3
<1> QED BY <1>1, <1>2, <1>3

LEMMA DecisionsStep ==
  ASSUME SPACING >= 4, CoreInv, CoreInv', RecordsInv, DecisionsInv, [Next]_vars
  PROVE  RecordsInv' /\ DecisionsInv'
<1>1. ASSUME NEW p, EngineTick(p), NEW d, Shift(d),
             tracked # None \/ Forward # None => window' = window,
             d = DecisionOn(UpdateOf(Forward))'
      PROVE  RecordsInv' /\ DecisionsInv'
  <2>1. /\ expected'[8] = signal'
        /\ expected'[7] = IF scores' = None THEN None ELSE Signal(scores')
        /\ expected'[6] = IF products' = None THEN None ELSE Signal(Scores(products'))
        /\ products' \in FeatureRecord \cup {None}
        /\ scores' \in ScoreRecord \cup {None}
    BY <1>1, LateDecisions DEF EngineTick
  <2>2. /\ expected'[5] = IF feature' = None THEN None ELSE Decision(feature')
        /\ feature' \in FeatureRecord \cup {None}
    BY <1>1, FeatureDecision
  <2>3. /\ expected'[4] = IF calculation' = None THEN None ELSE Decision(Due)'
        /\ calculation' \in CalculationRecord \cup {None}
    BY <1>1, CalculationDecision DEF CoreInv
  <2>4. /\ expected'[3] = DecisionOn(book_update)'
        /\ expected'[2] = DecisionOn(UpdateOf(tracked))'
    BY <1>1, EarlyDecisions
  <2>5. expected'[1] = DecisionOn(UpdateOf(Forward))'
    BY <1>1, ExpectedShifts
  <2> QED BY <2>1, <2>2, <2>3, <2>4, <2>5 DEF RecordsInv, DecisionsInv
<1>2. CASE IdleClock
  <2>1. EngineTick(None) /\ Shift(None) /\ window' = window
    BY <1>2 DEF IdleClock, atomicVars
  <2>2. Forward' = None
    BY <2>1, FilterWithoutPacket DEF EngineTick, Forward
  <2>3. DecisionOn(UpdateOf(Forward))' = None
    BY <2>2 DEF DecisionOn, VerdictOn, UpdateOf, Processed
  <2> QED BY <1>1, <2>1, <2>3
<1>3. ASSUME NEW p \in Presented, PacketClock(p) PROVE RecordsInv' /\ DecisionsInv'
  <2>1. EngineTick(p) /\ Shift(decided')
    BY <1>3 DEF PacketClock
  <2>2. tracked = None /\ Forward = None
    BY <1>3, PacketMeetsRest, NothingInFlight
  <2>3. decided' = DecisionOn(UpdateOf(Forward))'
    BY <1>3, NewDecision
  <2> QED BY <1>1, <2>1, <2>2, <2>3
<1>4. CASE UNCHANGED vars
  <2>1. /\ UNCHANGED <<filterVars, trackerVars, bookVars, windowVars, decisionVars>>
        /\ UNCHANGED <<calculation, feature, window, expected>>
    BY <1>4 DEF vars, engineVars, featureVars, atomicVars, scoreboardVars
  <2>2. UNCHANGED <<scores, products, signal>> /\ RecordsInv'
    BY <2>1 DEF decisionVars, RecordsInv
  <2>3. UNCHANGED <<DecisionOn(book_update), DecisionOn(UpdateOf(tracked)),
                    DecisionOn(UpdateOf(Forward))>>
    BY <2>1 DEF filterVars, trackerVars, bookVars, DecisionOn, VerdictOn, UpdateOf, Other, Forward, Fresh
  <2>4. Due' = Due
    BY <2>1 DEF windowVars, Due, RingWindow
  <2> QED BY <2>1, <2>2, <2>3, <2>4 DEF DecisionsInv
<1> QED BY <1>2, <1>3, <1>4 DEF Next

(* With packets at least four clocks apart, for every length of window,    *)
(* all weights and any number of instruments: the pipeline decides what    *)
(* the atomic engine decides, eight clocks later, and nothing else.        *)
THEOREM DecisionsMatchReferenceHolds ==
  ASSUME SPACING >= 4 PROVE Spec => []DecisionsMatchReference
<1>1. Init => RecordsInv /\ DecisionsInv
  <2> SUFFICES ASSUME Init PROVE RecordsInv /\ DecisionsInv
    OBVIOUS
  <2>1. /\ calculation = None /\ feature = None /\ products = None /\ scores = None
        /\ signal = None /\ quote = None /\ tracked = None /\ book_update = None
        /\ expected = [i \in 1 .. 8 |-> None]
    BY DEF Init, EngineInit, FilterInit, TrackerInit, BookInit, FeatureInit, DecisionInit, LATENCY
  <2>2. Forward = None /\ UpdateOf(None) = None /\ DecisionOn(None) = None
    BY <2>1 DEF Forward, UpdateOf, DecisionOn, VerdictOn, Processed
  <2> QED BY <2>1, <2>2 DEF RecordsInv, DecisionsInv
<1>2. CoreInv /\ CoreInv' /\ RecordsInv /\ DecisionsInv /\ [Next]_vars
        => (RecordsInv /\ DecisionsInv)'
  BY DecisionsStep
<1>3. DecisionsInv => DecisionsMatchReference
  BY DEF DecisionsInv, DecisionsMatchReference, LATENCY
<1> QED BY <1>1, <1>2, <1>3, CoreInvHolds, PTL DEF Spec
-------------------------------------------------------------------------------
(* Whatever the distance of the packets, every stage runs as it would      *)
(* alone: the wires between the stages carry what each expects.            *)
WiresInv ==
  /\ stream_start_pulse \in BOOLEAN /\ stream_end_pulse \in BOOLEAN
  /\ quote \in Quote \cup {None} /\ tracked \in Quote \cup {None}
  /\ BookTypeOK
  /\ book_update # None => Consistent(book_update)

LEMMA WiresStep ==
  ASSUME WiresInv, NEW p \in Presented \cup {None}, EngineTick(p) PROVE WiresInv'
<1>1. /\ FilterTick(p)
      /\ TrackerTick(stream_start_pulse, stream_end_pulse, quote)
      /\ BookTick(stream_start_pulse, stream_end_pulse, tracked)
  BY DEF EngineTick
<1>2. stream_start_pulse' \in BOOLEAN /\ stream_end_pulse' \in BOOLEAN
  BY <1>1 DEF FilterTick, FilterStart, FilterEnd, FilterQuote, FilterUnknown,
              FilterInactive, FilterIdle, Pulses
<1>3. quote' \in Quote \cup {None}
  <2>1. CASE p # None /\ FilterQuote(p)
    <3>1. QuoteOf(p) \in Quote
      BY <2>1, SlotsOfPackets DEF FilterQuote
    <3> QED BY <2>1, <3>1 DEF FilterQuote
  <2>2. CASE ~(p # None /\ FilterQuote(p))
    BY <1>1, <2>2 DEF FilterTick, FilterStart, FilterEnd, FilterUnknown, FilterInactive,
                      FilterIdle
  <2> QED BY <2>1, <2>2
<1>4. tracked' \in Quote \cup {None}
  <2>1. tracked' = quote \/ tracked' = None
    BY <1>1 DEF TrackerTick, TrackerStart, TrackerEnd, TrackerIdle, JudgeQuote, FirstQuote,
                InOrder, Duplicate, Gap, OutOfOrder, AcceptQuote, RejectQuote
  <2> QED BY <2>1 DEF WiresInv
<1>5. BookTypeOK'
  BY <1>1, BookTickTypes DEF WiresInv
<1>6. (book_update # None => Consistent(book_update))'
  BY <1>1, UpdatesConsistent
<1> QED BY <1>2, <1>3, <1>4, <1>5, <1>6 DEF WiresInv

LEMMA StagesRunAlone == Spec => TrackerSpec /\ BookSpec /\ FeatureSpec
<1>1. Init => TrackerInit /\ BookInit /\ FeatureInit /\ WiresInv
  BY BookInitTypes DEF Init, EngineInit, FilterInit, TrackerInit, BookInit, WiresInv
<1>2. WiresInv /\ [Next]_vars =>
        WiresInv' /\ [TrackerNext]_trackerVars /\ [BookNext]_bookVars /\ [FeatureNext]_featureVars
  <2> SUFFICES ASSUME WiresInv, [Next]_vars
               PROVE  WiresInv' /\ [TrackerNext]_trackerVars /\ [BookNext]_bookVars
                        /\ [FeatureNext]_featureVars
    OBVIOUS
  <2>1. CASE UNCHANGED vars
    <3>1. UNCHANGED <<filterVars, trackerVars, bookVars, featureVars>>
      BY <2>1 DEF vars, engineVars
    <3>2. WiresInv'
      BY <3>1 DEF filterVars, trackerVars, bookVars, WiresInv, BookTypeOK, Consistent
    <3> QED BY <3>1, <3>2
  <2>2. ASSUME NEW p \in Presented \cup {None}, EngineTick(p)
        PROVE  WiresInv' /\ TrackerNext /\ BookNext /\ FeatureNext
    <3>1. WiresInv'
      BY <2>2, WiresStep
    <3>2. TrackerNext
      BY <2>2 DEF EngineTick, TrackerNext, WiresInv
    <3>3. BookNext
      BY <2>2 DEF EngineTick, BookNext, WiresInv
    <3>4. book_update \in {v \in BookUpdate : Consistent(v)} \cup {None}
      BY DEF WiresInv, BookTypeOK
    <3>5. FeatureNext
      BY <2>2, <3>4 DEF EngineTick, FeatureNext, WiresInv
    <3> QED BY <3>1, <3>2, <3>3, <3>5
  <2>3. CASE Next
    <3>1. \E p \in Presented \cup {None} : EngineTick(p)
      BY <2>3 DEF Next, PacketClock, IdleClock
    <3> QED BY <2>2, <3>1
  <2> QED BY <2>1, <2>3
<1> QED BY <1>1, <1>2, PTL DEF Spec, TrackerSpec, BookSpec, FeatureSpec

(* In the wired engine, however close the packets come: the book shows     *)
(* views of the table of latest quotes.                                    *)
THEOREM EngineImplementsLatestQuotes == Spec => ImplementsLatestQuotes
BY StagesRunAlone, BookImplementsLatestQuotes, PTL

(* In the wired engine, however close the packets come: the features are   *)
(* those of the moving averages.                                           *)
THEOREM EngineImplementsMovingAverages == Spec => ImplementsMovingAverages
BY StagesRunAlone, ImplementsMovingAveragesHolds, PTL
================================================================================
