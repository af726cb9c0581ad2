\* The machine the program was built for: stores may be delayed.
SPECIFICATION Spec
CONSTANTS
  Thread = {1, 2}
  Loc = {"accnt1", "accnt2", "c1", "c2", "will_wait"}
  BufferSize = 2
  W = 3
  Count = 1
INVARIANTS NobodySeesImbalance
