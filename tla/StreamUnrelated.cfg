SPECIFICATION Spec
CONSTANTS
  long = long
  short = short
  Senders <- MCSenders
  Planned <- MCPlanned
  Versions = {"later"}
  MaxArrivals = 6
  None = None
CHECK_DEADLOCK FALSE
INVARIANT UnrelatedTrafficHarmless
