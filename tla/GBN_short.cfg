\* Windows that are never full: lines shorter than N, a few wraps of the
\* sequence numbers.
SPECIFICATION FairSpec
CONSTANTS
  N = 4
  LineLengths = {0, 1, 3}
  MaxBytes = 7
  MaxFlight = 4
  MaxDelivered = 8
INVARIANTS TypeOK WindowCount WindowHoldsActive AcksWithinWindow OnlyFirstByteDisowned
PROPERTIES DeliversStream LineReturns
\* After the last line the client stays at its prompt and the server blocks.
CHECK_DEADLOCK FALSE
