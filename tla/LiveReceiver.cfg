SPECIFICATION FairSpec
CONSTANTS
  Variants = {"recvfrom", "recvmmsg"}
  TotalPackets = 3
  BATCH_PACKETS = 2
  RECEIVE_BATCH = 2
  MAX_EXAMPLES = 1
  MaxArrivals = 5
  None = None
INVARIANT BatchesInOrder
INVARIANT NumbersAccounted
INVARIANT PassMeansStreamArrived
INVARIANT InterruptedPassRepeatsLastBatch
INVARIANT ExamplesNameTheirPackets
PROPERTY VerdictReached
