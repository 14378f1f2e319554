SPECIFICATION FairSpec
CONSTANTS
  Events = {e1, e2}
  Passes = {p1}
  MaxClock = 3
  MaxResets = 2
  MaxFaults = 1
  MaxPurges = 1
INVARIANTS TypeOK NothingMissed NextScanReaches PurgedStaysPurged
PROPERTIES AbsenceIsReal MirrorsCalendar
