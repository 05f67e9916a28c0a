SPECIFICATION Spec
CONSTANTS
  NumSeqNos = 1024
  NumSlots = 5
  InstrumentIds <- MCInstrumentIds
  Instrument = {1, 2, 3, 4, 5}
  Price <- MCPrice
  Quantity <- MCQuantity
  None = None
  FAST = 8
  SLOW = 32
  PowerUp = {7}
  TREND_WEIGHT = 4
  IMBALANCE_WEIGHT = 1
  SPREAD_WEIGHT = 2
  BASE_THRESHOLD = 100
  Session <- IlaSession
  SPACING = 8
PROPERTY IlaDecisionsExact
