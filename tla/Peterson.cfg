SPECIFICATION FairSpec
CONSTANTS
  Thread = {1, 2}
  Loc = {"accnt1", "accnt2", "c1", "c2", "will_wait"}
  BufferSize = 0
  W = 3
  Count = 1
INVARIANTS TypeOK MutualExclusion NobodySeesImbalance
PROPERTIES TurnsAreAtomic BothFinish
