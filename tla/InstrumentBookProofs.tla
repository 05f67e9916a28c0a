-------------------------- MODULE InstrumentBookProofs --------------------------
(***************************************************************************)
(* The instrument book implements the table of latest quotes, for every    *)
(* number of instruments and all prices and quantities.                    *)
(***************************************************************************)
EXTENDS InstrumentBook, TLAPS

LEMMA Sides == BID \in Side /\ ASK \in Side /\ BID # ASK
               /\ Opposite(BID) = ASK /\ Opposite(ASK) = BID
BY DEF Side, BID, ASK, Opposite

LEMMA OppositeSide == \A side \in Side : Opposite(side) \in Side
BY DEF Opposite, Side, BID, ASK

(* None is no level, so a view holds None only where nothing was quoted.   *)
LEMMA NoneIsNoLevel == None \notin Level /\ None \notin BookUpdate
BY Hft1Assumption

LEMMA LevelOfQuote ==
  ASSUME NEW q \in Quote
  PROVE  [price |-> q.price, quantity |-> q.quantity] \in Level
         /\ q.slot \in Slot /\ q.side \in Side
BY DEF Quote, Level

LEMMA PricesAreNaturals == \A l \in Level : l.price \in Nat
<1> TAKE l \in Level
<1>1. CASE l \in [price : Price, quantity : Quantity]
  BY <1>1, Hft1Assumption
<1>2. CASE l = NoLevel
  BY <1>2 DEF NoLevel
<1> QED BY <1>1, <1>2 DEF Level

(* The abstract module sees the same protocol.                             *)
LEMMA SameProtocol ==
  /\ Promise!Slot = Slot /\ Promise!Side = Side /\ Promise!Quote = Quote
  /\ Promise!BID = BID /\ Promise!ASK = ASK
BY DEF Promise!Slot, Promise!Side, Promise!Quote, Promise!BID, Promise!ASK,
       Promise!SeqNo, Slot, Side, Quote, BID, ASK, SeqNo

LEMMA ClearedTypes ==
  /\ ClearedLevels \in [Slot -> [Side -> Level]]
  /\ NothingInitialized \in [Slot -> [Side -> BOOLEAN]]
  /\ \A s \in Slot, side \in Side :
       ClearedLevels[s][side] = NoLevel /\ NothingInitialized[s][side] = FALSE
BY DEF ClearedLevels, NothingInitialized, Level, NoLevel

LEMMA BookInitTypes == BookInit => BookTypeOK
BY ClearedTypes DEF BookInit, BookTypeOK

LEMMA BookQuoteTypes ==
  ASSUME BookTypeOK, NEW q \in Quote, BookQuote(q)
  PROVE  BookTypeOK'
<1> DEFINE quoted == [price |-> q.price, quantity |-> q.quantity]
           other == level[q.slot][Opposite(q.side)]
<1>1. quoted \in Level /\ q.slot \in Slot /\ q.side \in Side /\ Opposite(q.side) \in Side
  BY LevelOfQuote, OppositeSide
<1>2. other \in Level /\ initialized[q.slot][Opposite(q.side)] \in BOOLEAN
  BY <1>1 DEF BookTypeOK
<1>3. /\ level' = [level EXCEPT ![q.slot][q.side] = quoted]
      /\ initialized' = [initialized EXCEPT ![q.slot][q.side] = TRUE]
      /\ book_update' = Snapshot(q.slot, IF q.side = BID THEN quoted ELSE other,
                                 IF q.side = ASK THEN quoted ELSE other,
                                 initialized[q.slot][Opposite(q.side)])
  BY DEF BookQuote
<1> HIDE DEF quoted, other
<1>4. level' \in [Slot -> [Side -> Level]]
  BY <1>1, <1>3 DEF BookTypeOK
<1>5. initialized' \in [Slot -> [Side -> BOOLEAN]]
  BY <1>1, <1>3 DEF BookTypeOK
<1>6. book_update' \in BookUpdate
  BY <1>1, <1>2, <1>3 DEF Snapshot, BookUpdate
<1>7. \A s \in Slot, side \in Side : ~initialized'[s][side] => level'[s][side] = NoLevel
  BY <1>1, <1>3 DEF BookTypeOK
<1> QED BY <1>4, <1>5, <1>6, <1>7 DEF BookTypeOK

LEMMA BookTickTypes ==
  ASSUME BookTypeOK, NEW start_pulse, NEW end_pulse, NEW q \in Quote \cup {None},
         BookTick(start_pulse, end_pulse, q)
  PROVE  BookTypeOK'
<1>1. CASE BookStart
  BY <1>1, ClearedTypes DEF BookStart, BookTypeOK
<1>2. CASE BookEnd \/ BookIdle
  BY <1>2 DEF BookEnd, BookIdle, BookTypeOK
<1>3. CASE q # None /\ BookQuote(q)
  BY <1>3, BookQuoteTypes
<1> QED BY <1>1, <1>2, <1>3 DEF BookTick

(* The memories of the book keep their types, and a side that was never    *)
(* quoted in this stream reads as zero.                                    *)
THEOREM BookTypes == BookSpec => []BookTypeOK
<1>1. BookInit => BookTypeOK BY BookInitTypes
<1>2. BookTypeOK /\ [BookNext]_bookVars => BookTypeOK'
  <2>1. ASSUME BookTypeOK, BookNext PROVE BookTypeOK'
    BY <2>1, BookTickTypes DEF BookNext
  <2>2. ASSUME BookTypeOK, UNCHANGED bookVars PROVE BookTypeOK'
    BY <2>2 DEF BookTypeOK, bookVars
  <2> QED BY <2>1, <2>2
<1> QED BY <1>1, <1>2, PTL DEF BookSpec
-------------------------------------------------------------------------------
LEMMA ClearedMeansNone ==
  ASSUME initialized = NothingInitialized
  PROVE  Best = [s \in Slot |-> [side \in Side |-> None]]
BY DEF Best, NothingInitialized

(* The table after a quote: the quoted side is replaced, the rest stays.   *)
LEMMA BestAfterQuote ==
  ASSUME BookTypeOK, NEW q \in Quote, BookQuote(q)
  PROVE  Best' = [Best EXCEPT ![q.slot][q.side] =
                    [price |-> q.price, quantity |-> q.quantity]]
<1> DEFINE quoted == [price |-> q.price, quantity |-> q.quantity]
<1>1. q.slot \in Slot /\ q.side \in Side
  BY LevelOfQuote
<1>2. /\ level' = [level EXCEPT ![q.slot][q.side] = quoted]
      /\ initialized' = [initialized EXCEPT ![q.slot][q.side] = TRUE]
  BY DEF BookQuote
<1> HIDE DEF quoted
<1>3. ASSUME NEW s \in Slot, NEW side \in Side
      PROVE  (IF initialized'[s][side] THEN level'[s][side] ELSE None)
               = [Best EXCEPT ![q.slot][q.side] = quoted][s][side]
  <2>1. CASE s = q.slot /\ side = q.side
    BY <1>1, <1>2, <2>1 DEF Best, BookTypeOK
  <2>2. CASE s # q.slot \/ side # q.side
    BY <1>1, <1>2, <2>2 DEF Best, BookTypeOK
  <2> QED BY <2>1, <2>2
<1>4. Best' = [Best EXCEPT ![q.slot][q.side] = quoted]
  <2> DEFINE replaced == [Best EXCEPT ![q.slot][q.side] = quoted]
  <2>1. \A s \in Slot : Best[s] = [side \in Side |-> Best[s][side]]
    BY DEF Best
  <2>2. \A s \in Slot : replaced[s] = [side \in Side |-> replaced[s][side]]
    BY <1>1, <2>1 DEF Best
  <2>3. replaced = [s \in Slot |-> replaced[s]]
    BY DEF Best
  <2>4. Best' = [s \in Slot |-> [side \in Side |->
                   IF initialized'[s][side] THEN level'[s][side] ELSE None]]
    BY DEF Best
  <2> HIDE DEF replaced
  <2>5. \A s \in Slot :
          [side \in Side |-> IF initialized'[s][side] THEN level'[s][side] ELSE None]
            = [side \in Side |-> replaced[s][side]]
    BY <1>3 DEF replaced
  <2> QED BY <2>2, <2>3, <2>4, <2>5 DEF replaced
<1> QED BY <1>4 DEF quoted

(* The snapshot of a quote shows the table after it.                       *)
LEMMA ShownAfterQuote ==
  ASSUME BookTypeOK, NEW q \in Quote, BookQuote(q)
  PROVE  Shown' = Promise!View(q.slot, Best')
<1> DEFINE quoted == [price |-> q.price, quantity |-> q.quantity]
           other == level[q.slot][Opposite(q.side)]
           complete == initialized[q.slot][Opposite(q.side)]
           bid == IF q.side = BID THEN quoted ELSE other
           ask == IF q.side = ASK THEN quoted ELSE other
<1>1. quoted \in Level /\ q.slot \in Slot /\ q.side \in Side /\ Opposite(q.side) \in Side
      /\ Opposite(q.side) # q.side
  BY LevelOfQuote, OppositeSide, Sides DEF Side, Opposite
<1>2. other \in Level /\ complete \in BOOLEAN
  BY <1>1 DEF BookTypeOK
<1>3. book_update' = Snapshot(q.slot, bid, ask, complete)
  BY DEF BookQuote
<1>4. book_update' # None
  <2>1. bid \in Level /\ ask \in Level
    BY <1>1, <1>2
  <2> HIDE DEF bid, ask, complete
  <2>2. Snapshot(q.slot, bid, ask, complete) \in BookUpdate
    BY <2>1, <1>1, <1>2 DEF Snapshot, BookUpdate
  <2> QED BY <2>2, <1>3, NoneIsNoLevel
<1>4a. /\ Best' = [Best EXCEPT ![q.slot][q.side] = quoted]
      /\ Best \in [Slot -> [Side -> Level \cup {None}]]
  <2>1. Best' = [Best EXCEPT ![q.slot][q.side] = quoted]
    BY BestAfterQuote
  <2>2. Best \in [Slot -> [Side -> Level \cup {None}]]
    BY DEF Best, BookTypeOK
  <2> QED BY <2>1, <2>2
<1>5. Best'[q.slot][q.side] = quoted
  BY <1>4a, <1>1
<1>6. Best'[q.slot][Opposite(q.side)] = IF complete THEN other ELSE None
  <2>1. Best'[q.slot][Opposite(q.side)] = Best[q.slot][Opposite(q.side)]
    BY <1>4a, <1>1
  <2> QED BY <2>1, <1>1 DEF Best
<1>7. CASE ~complete
  <2>1. Shown' = None
    BY <1>3, <1>7 DEF Shown, Snapshot
  <2>2. None \in {Best'[q.slot][BID], Best'[q.slot][ASK]}
    BY <1>1, <1>6, <1>7 DEF Side
  <2> QED BY <2>1, <2>2, SameProtocol DEF Promise!View
<1>8. CASE complete
  <2>1. Best'[q.slot][BID] = bid /\ Best'[q.slot][ASK] = ask
    BY <1>1, <1>5, <1>6, <1>8, Sides DEF Side
  <2>2. bid \in Level /\ ask \in Level
    BY <1>1, <1>2
  <2>3. bid # None /\ ask # None /\ bid.price \in Nat /\ ask.price \in Nat
    BY <2>2, NoneIsNoLevel, PricesAreNaturals
  <2> HIDE DEF bid, ask, complete
  <2>4. Shown' = [slot |-> q.slot, bid |-> bid, ask |-> ask,
                  tradable |-> ~(complete /\ ask.price < bid.price)]
    BY <1>3, <1>4, <1>8 DEF Shown, Snapshot
  <2>5. ~(complete /\ ask.price < bid.price) = (bid.price <= ask.price)
    BY <1>8, <2>3
  <2> QED BY <2>1, <2>3, <2>4, <2>5, SameProtocol DEF Promise!View
<1> QED BY <1>2, <1>7, <1>8

LEMMA BookStepRefines ==
  ASSUME BookTypeOK, NEW start_pulse, NEW end_pulse, NEW q \in Quote \cup {None},
         BookTick(start_pulse, end_pulse, q)
  PROVE  Promise!Next
<1>1. CASE BookStart
  <2>1. Best' = [s \in Slot |-> [side \in Side |-> None]]
    BY <1>1 DEF BookStart, Best, NothingInitialized
  <2>2. Shown' = None
    BY <1>1 DEF BookStart, Shown
  <2> QED BY <2>1, <2>2, SameProtocol DEF Promise!Next, Promise!NewStream
<1>2. CASE BookEnd \/ BookIdle
  <2>1. Best' = Best /\ Shown' = None
    BY <1>2 DEF BookEnd, BookIdle, Best, Shown
  <2> QED BY <2>1 DEF Promise!Next, Promise!NothingQuoted
<1>3. CASE q # None /\ BookQuote(q)
  <2>1. q \in Quote /\ BookQuote(q)
    BY <1>3
  <2>2. Promise!Quoted(q)
    BY <2>1, BestAfterQuote, ShownAfterQuote DEF Promise!Quoted
  <2> QED BY <2>1, <2>2, SameProtocol DEF Promise!Next
<1> QED BY <1>1, <1>2, <1>3 DEF BookTick

(* Whatever the tracker forwards and whenever streams start and end, the   *)
(* snapshots of the book are views of the table of latest quotes.          *)
THEOREM BookImplementsLatestQuotes == BookSpec => ImplementsLatestQuotes
<1>1. BookInit => Promise!Init
  BY ClearedMeansNone, SameProtocol DEF BookInit, Promise!Init, Shown
<1>2. BookTypeOK /\ [BookNext]_bookVars => [Promise!Next]_<<Best, Shown>>
  <2>1. ASSUME BookTypeOK, BookNext PROVE Promise!Next
    BY <2>1, BookStepRefines DEF BookNext
  <2>2. ASSUME UNCHANGED bookVars PROVE UNCHANGED <<Best, Shown>>
    BY <2>2 DEF bookVars, Best, Shown
  <2> QED BY <2>1, <2>2
<1> QED BY <1>1, <1>2, BookTypes, PTL DEF BookSpec, ImplementsLatestQuotes, Promise!Spec
===============================================================================
