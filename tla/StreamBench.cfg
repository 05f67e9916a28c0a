SPECIFICATION BenchFairSpec
CONSTANTS
  Versions = {"first", "optimized"}
  Rates = {2, 3, 4}
  Durations = {4}
  NANOSECONDS_PER_SECOND = 4
  MAX_PPS = 4
  MAX_PLANNED_PACKETS = 3
  MAX_FIELD = 1000
  SPIN_WINDOW_NS = 1
  LIVE_SLEEP_FROM = 2
  LIVE_SPIN_WINDOW = 1
  LIVE_LEAD = 1
  CONTROL_SETTLE = 1
  END_MARKER_INTERVAL = 1
  END_MARKER_REPEATS = 2
  OVERSLEEP = 1
  STALL = 0
  SOCKET_SLOTS = 2
  SOCKET_TIMEOUT = 2
  INACTIVITY_TIMEOUT = 8
  None = None
INVARIANT KernelExplainsMissing
INVARIANT OnTimeStreamPasses
INVARIANT GivenUpWhenOver
PROPERTY StreamReported
