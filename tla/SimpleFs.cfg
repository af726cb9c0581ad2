\* Three names and two handles on four free blocks of two bytes.  A file of
\* three blocks and the directory's first fill the disk, so the touch after it
\* loses its file.  The descriptors are in two blocks, the directory has one
\* item in a block; reads of five bytes go through three blocks.
SPECIFICATION Spec
CONSTANTS
    Name = {a, b, c}
    BLOCK_COUNT = 7
    BLOCK_SIZE = 2
    RESERVED_BLOCK_CNT = 3
    FBLK_CNT = 3
    FD_CNT = 2
    DIR_ITEM_CNT_PER_BLOCK = 1
    MAX_OPEN = 2
    Count = {1, 2, 5}
    SeekLen = {2}
    MaxChanges = 4
SYMMETRY Symmetry
INVARIANTS TypeOK BlocksDisjoint DirMatchesFds ReadsWhatIsThere ImpossibleMeansLost
PROPERTIES ImplementsFileSystem
