SPECIFICATION FairSpec
CONSTANTS
  long = long
  short = short
  Senders <- MCSenders
  Planned <- MCPlanned
  Versions = {"first", "later"}
  MaxArrivals = 6
  None = None
CHECK_DEADLOCK FALSE
INVARIANT IntegrityMeansStreamArrived
INVARIANT MissingAccounted
INVARIANT CountersExact
INVARIANT SentWithinOne
PROPERTY TestsEnd
