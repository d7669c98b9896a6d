SPECIFICATION Spec
CONSTANTS
  LeapSeconds <- Table
  TimeOffset <- Offsets
  LeapDates <- Dates
  Window <- Windows
  Zone <- Zones
INVARIANT LeapSecondsAreCounted
\* A clock that reaches the end of its window stops.
CHECK_DEADLOCK FALSE
