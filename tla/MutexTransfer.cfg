SPECIFICATION FairSpec
CONSTANTS
  Thread = {1, 2}
  Loc = {"accnt1", "accnt2", "mutex"}
  BufferSize = 2
  W = 3
  Count = 1
INVARIANTS TypeOK OwnerAlone NobodySeesImbalance
PROPERTIES TurnsAreAtomic AllFinish
