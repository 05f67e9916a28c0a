SPECIFICATION Spec
CONSTANTS
  NumSeqNos = 4
  NumSlots = 1
  InstrumentIds <- MCInstrumentIds
  Instrument = {1, 9}
  Price = {3}
  Quantity = {1}
  None = None
  FirstSeq = 2
  MaxQuotes = 4
  MaxArrivals = 7
INVARIANT AcceptedInOrder
