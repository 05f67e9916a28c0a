SPECIFICATION FairSpec
CONSTANTS
  Versions = {"first", "optimized", "optimized2", "live"}
  Rates = {0, 1, 5, 13}
  Durations = {1, 11, 24}
  NANOSECONDS_PER_SECOND = 12
  MAX_PPS = 12
  MAX_PLANNED_PACKETS = 5
  MAX_FIELD = 1000
  SPIN_WINDOW_NS = 1
  LIVE_SLEEP_FROM = 2
  LIVE_SPIN_WINDOW = 1
  LIVE_LEAD = 3
  CONTROL_SETTLE = 1
  END_MARKER_INTERVAL = 1
  END_MARKER_REPEATS = 2
  OVERSLEEP = 3
  STALL = 1
  None = None
INVARIANT PacedByDeadline
INVARIANT MissedPeriodsBracketed
INVARIANT EndCountsTheStream
PROPERTY TimestampsInOrder
PROPERTY SenderExits
