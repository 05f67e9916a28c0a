SPECIFICATION Spec
CONSTANTS
  NumSeqNos = 7
  MaxSeq = 4
  NumSlots = 2
  InstrumentIds <- MCInstrumentIds
  Instrument = {1, 2, 9}
  Price = {1, 3}
  Quantity = {1}
  None = None
  FAST = 1
  SLOW = 2
  PowerUp = {0}
  TREND_WEIGHT = 4
  IMBALANCE_WEIGHT = 1
  SPREAD_WEIGHT = 2
  BASE_THRESHOLD = 3
  SPACING = 8
  MaxPackets = 6
PROPERTY ImplementsLatestQuotes
INVARIANT DecisionsMatchReference
INVARIANT SettledStateAgrees
INVARIANT NoDecisionAfterEnd
INVARIANT PulsesFlushNothing
INVARIANT MissingCountsFiltered
