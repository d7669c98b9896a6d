SPECIFICATION Spec
CONSTANTS
  LeapSeconds <- Table
  TimeOffset <- Offsets
  LeapDates <- Dates
  Window <- Windows
  Zone <- Zones
INVARIANTS TypeOK ConversionsInvert GpsIsRightSinceLastDate WeekCountsDays
PROPERTY OrderIsKept
\* A clock that reaches the end of its window stops.
CHECK_DEADLOCK FALSE
