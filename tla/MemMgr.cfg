\* Five blocks fit: a block is returned between two free ones, another free
\* block is in the ring to be sorted among, and remainders of 0 to 3 cells
\* occur.  A request of 9 is refused while several short blocks are free.
SPECIFICATION Spec
CONSTANTS
  MEM_SIZE = 33
  Request = {1, 9}
INVARIANTS TypeOK UserDataIntact RingIsFreeBlocks
PROPERTIES ImplementsAllocator
