SPECIFICATION FeatureSpec
CONSTANTS
  NumSeqNos = 2
  NumSlots = 1
  InstrumentIds <- MCInstrumentIds
  Instrument = {1, 2}
  Price = {1, 3}
  Quantity = {1}
  None = None
  FAST = 2
  SLOW = 4
  PowerUp = {0, 7}
  TREND_WEIGHT = 4
  IMBALANCE_WEIGHT = 1
  SPREAD_WEIGHT = 2
  BASE_THRESHOLD = 100
INVARIANT FeaturesNeedFullWindows
PROPERTY ImplementsMovingAverages
