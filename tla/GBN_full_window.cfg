\* One line of exactly N bytes.
SPECIFICATION Spec
CONSTANTS
  N = 3
  LineLengths = {3}
  MaxBytes = 3
  MaxFlight = 6
  MaxDelivered = 7
INVARIANTS AnnouncedWindowIsEmpty
CHECK_DEADLOCK FALSE
