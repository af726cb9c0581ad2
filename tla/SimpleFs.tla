------------------------------- MODULE SimpleFs -------------------------------
(***************************************************************************)
(* simplefs (src/OS/实验四/project_4): a file system on a disk of blocks   *)
(* kept in memory, with one root directory.  Block 0 is the bitmap, the    *)
(* reserved blocks after it hold the file descriptors, of which number 1   *)
(* is the directory's; its length is the number of files.                  *)
(*                                                                         *)
(* The client is the shell's discipline with more freedom: it opens a file *)
(* once at a time, closes it before it destroys it and all before it       *)
(* stores, loads what it has formatted, and keeps a write inside one block *)
(* and below MAX_FILE_LEN.  The README says what happens beyond.           *)
(***************************************************************************)
EXTENDS Integers, FiniteSets, Sequences, SequencesExt

CONSTANTS
    Name,                    \* file names
    BLOCK_COUNT, BLOCK_SIZE, \* of the disk
    RESERVED_BLOCK_CNT,
    FBLK_CNT,                \* blocks of a file
    FD_CNT,                  \* descriptors in a block, BLOCK_SIZE / FD_SIZE
    DIR_ITEM_CNT_PER_BLOCK,  \* BLOCK_SIZE / DIR_ITEM_SIZE
    MAX_OPEN,
    Count, SeekLen,          \* lengths the client reads, writes and seeks
    MaxChanges               \* bound: commands but open, close, read and seek

NoName       == "none"
MAX_FD       == FD_CNT * (RESERVED_BLOCK_CNT - 1)
MAX_FILE_LEN == BLOCK_SIZE * FBLK_CNT

ASSUME FsAssumption ==
    /\ {BLOCK_COUNT, BLOCK_SIZE, FBLK_CNT, FD_CNT, DIR_ITEM_CNT_PER_BLOCK, MAX_OPEN}
         \subseteq Nat \ {0}
    /\ RESERVED_BLOCK_CNT \in FBLK_CNT .. BLOCK_COUNT - 1
    /\ RESERVED_BLOCK_CNT > 1
    /\ MAX_FD <= MAX_FILE_LEN
    /\ SeekLen \subseteq Nat
    /\ Count \subseteq Nat \ {0}
    /\ NoName \notin Name
    /\ MaxChanges \in Nat

VARIABLES
    fs,       \* what is in memory: disk, bitmap and the cached descriptors
    open_file_table,
    image,    \* the file of the last store: its set of disks, if any
    changes

vars == <<fs, open_file_table, image, changes>>

(* A definition whose name ends in _ and a fault is the one after it with  *)
(* that fault: the properties have to notice each.                         *)

-----------------------------------------------------------------------------
(* Blocks.  A block of zeros reads as free descriptors, unused directory   *)
(* items, or data.                                                         *)

Pos    == 0 .. FBLK_CNT - 1
Slot   == 1 .. FD_CNT
Item   == 1 .. DIR_ITEM_CNT_PER_BLOCK
Offset == 0 .. BLOCK_SIZE - 1

FreeFd   == [tag |-> 0, len |-> 0, blk |-> [i \in Pos |-> 0]]
FreeItem == [tag |-> 0, name |-> NoName, fd |-> 0]
Zero     == [kind |-> "zero"]

FdsOf(b)  == IF b.kind = "fds"  THEN b.fds  ELSE [i \in Slot |-> FreeFd]
DirOf(b)  == IF b.kind = "dir"  THEN b.dir  ELSE [j \in Item |-> FreeItem]
DataOf(b) == IF b.kind = "data" THEN b.data ELSE [o \in Offset |-> 0]
BitsOf(b) == IF b.kind = "bits" THEN b.bits ELSE {}

write_block(s, blk, b) == [s EXCEPT !.disk[blk] = b]

-----------------------------------------------------------------------------
(* Descriptors: sf_get_fd keeps the block of the last one in fd_blk_buf.   *)

FD_IDX_TO_BLK_NUM(fd_idx) == ((fd_idx - 1) \div FD_CNT) + 1
FD_IDX_TO_SLOT(fd_idx)    == ((fd_idx - 1) % FD_CNT) + 1

FdBlock(s) == [kind |-> "fds", fds |-> s.fd_blk_buf]

sf_get_fd_NoWriteBack(s, fd_idx) ==
    LET blk == FD_IDX_TO_BLK_NUM(fd_idx)
    IN  [s EXCEPT !.fd_blk_buf = IF blk = s.loaded_blk THEN @ ELSE FdsOf(s.disk[blk]),
                  !.loaded_blk = blk]

sf_get_fd(s, fd_idx) ==
    LET blk == FD_IDX_TO_BLK_NUM(fd_idx)
    IN  IF blk = s.loaded_blk THEN s
        ELSE [write_block(s, s.loaded_blk, FdBlock(s)) EXCEPT
                 !.fd_blk_buf = FdsOf(s.disk[blk]),
                 !.loaded_blk = blk]

(* What is read through it, and the state once fd has been written.        *)
Fd(s, fd_idx) ==
    LET blk == FD_IDX_TO_BLK_NUM(fd_idx)
    IN  (IF blk = s.loaded_blk THEN s.fd_blk_buf ELSE FdsOf(s.disk[blk]))[FD_IDX_TO_SLOT(fd_idx)]

SetFd(s, fd_idx, fd) ==
    [sf_get_fd(s, fd_idx) EXCEPT !.fd_blk_buf[FD_IDX_TO_SLOT(fd_idx)] = fd]

sf_fd_set_len(s, fd_idx, len) == SetFd(s, fd_idx, [Fd(s, fd_idx) EXCEPT !.len = len])
sf_fd_set_free(s, fd_idx)     == SetFd(s, fd_idx, [Fd(s, fd_idx) EXCEPT !.tag = 0])
sf_fd_set_blk(s, fd_idx, i, blk) == SetFd(s, fd_idx, [Fd(s, fd_idx) EXCEPT !.blk[i] = blk])

Least(S) == CHOOSE i \in S : \A j \in S : i <= j

sf_find_free_fd(s) ==
    LET free == {fd_idx \in 2 .. MAX_FD : Fd(s, fd_idx).tag = 0}
    IN  IF free = {} THEN 0 ELSE Least(free)

FreeBlocks(s) == (RESERVED_BLOCK_CNT .. BLOCK_COUNT - 1) \ s.bitmap

sf_find_free_block(s) == IF FreeBlocks(s) = {} THEN 0 ELSE Least(FreeBlocks(s))

-----------------------------------------------------------------------------
(* The root directory.                                                     *)

DirBlk(s, i) == Fd(s, 1).blk[i]
Used(s, i) ==
    IF DirBlk(s, i) = 0 THEN {}
    ELSE {j \in Item : DirOf(s.disk[DirBlk(s, i)])[j].tag = 1}
Named(s, i, n) == {j \in Used(s, i) : DirOf(s.disk[DirBlk(s, i)])[j].name = n}

(* The blocks of the directory where a search for n ends: at the name, at  *)
(* a block there is not, or with the last of the files.                    *)
Stops(s, n) ==
    {i \in Pos : \/ DirBlk(s, i) = 0 \/ Named(s, i, n) # {}
                 \/ Cardinality({e \in (0 .. i) \X Item : e[2] \in Used(s, e[1])})
                        = Fd(s, 1).len}

E_UNKNOWN == -9

sf_root_find_file(s, n) ==
    IF Fd(s, 1).len = 0 \/ Stops(s, n) = {} THEN 0
    ELSE LET i == Least(Stops(s, n))
         IN  CASE DirBlk(s, i) = 0    -> E_UNKNOWN
               [] Named(s, i, n) # {} -> DirOf(s.disk[DirBlk(s, i)])[Least(Named(s, i, n))].fd
               [] OTHER               -> 0

(* A block with room for an item, or the place of a new one.  The index is *)
(* one too far when the loop ends with the item found: what the third      *)
(* block has room for is refused.                                          *)
Rooms(s) == {i \in Pos : DirBlk(s, i) = 0 \/ Used(s, i) # Item}

sf_root_has_room(s) ==
    /\ Rooms(s) # {}
    /\ DirBlk(s, Least(Rooms(s))) = 0 \/ Least(Rooms(s)) + 1 # FBLK_CNT

(* When a block is needed and none is free the item goes to block 0, where *)
(* no search comes.                                                        *)
sf_root_add_dir_item(s, n, fd_idx) ==
    LET i     == Least(Rooms(s))
        fresh == DirBlk(s, i) = 0
        blk   == IF fresh THEN sf_find_free_block(s) ELSE DirBlk(s, i)
        j     == IF fresh THEN 1 ELSE Least(Item \ Used(s, i))
        dir   == [DirOf(s.disk[blk]) EXCEPT ![j] = [tag |-> 1, name |-> n, fd |-> fd_idx]]
        grown == IF fresh THEN [sf_fd_set_blk(s, 1, i, blk) EXCEPT !.bitmap = @ \cup {blk}]
                          ELSE s
    IN  sf_fd_set_len(write_block(grown, blk, [kind |-> "dir", dir |-> dir]),
                      1, Fd(s, 1).len + 1)

(* As above: what is in the third block is not found.                      *)
sf_root_can_delete(s, n) ==
    /\ sf_root_find_file(s, n) > 0
    /\ Least(Stops(s, n)) + 1 # FBLK_CNT

sf_root_delete_dir_item_KeepsLen(s, n) ==
    LET blk == DirBlk(s, Least(Stops(s, n)))
        dir == [DirOf(s.disk[blk]) EXCEPT ![Least(Named(s, Least(Stops(s, n)), n))].tag = 0]
    IN  sf_get_fd(write_block(s, blk, [kind |-> "dir", dir |-> dir]), 1)

sf_root_delete_dir_item(s, n) ==
    LET blk == DirBlk(s, Least(Stops(s, n)))
        dir == [DirOf(s.disk[blk]) EXCEPT ![Least(Named(s, Least(Stops(s, n)), n))].tag = 0]
    IN  sf_fd_set_len(write_block(s, blk, [kind |-> "dir", dir |-> dir]), 1, Fd(s, 1).len - 1)

-----------------------------------------------------------------------------
(* Files.  Both end with descriptor fd_idx loaded.                         *)

sf_create(s, n) ==
    LET fd_idx == sf_find_free_fd(s)
    IN  SetFd(sf_root_add_dir_item(s, n, fd_idx), fd_idx, [FreeFd EXCEPT !.tag = 1])

(* The bits cleared are those of the numbers 0, 1, 2 and not of the blocks.*)
sf_destroy(s, n) ==
    LET fd_idx == sf_root_find_file(s, n)
        held   == {i \in Pos : Fd(s, fd_idx).blk[i] # 0}
    IN  [sf_fd_set_free(sf_root_delete_dir_item(s, n), fd_idx) EXCEPT !.bitmap = @ \ held]

Closed == [fd_idx |-> 0, file_len |-> 0, offset |-> 0, cur_blk |-> 0, buf |-> DataOf(Zero)]

sf_open(s, n) ==
    LET fd_idx == sf_root_find_file(s, n)
        fd     == Fd(s, fd_idx)
    IN  [fd_idx |-> fd_idx, file_len |-> fd.len, offset |-> 0, cur_blk |-> fd.blk[0],
         buf |-> IF fd.blk[0] = 0 THEN DataOf(Zero) ELSE DataOf(s.disk[fd.blk[0]])]

(* The handle's buffer is written back, if there is a block it belongs to. *)
Flushed(s, file) ==
    IF file.cur_blk = 0 THEN s
    ELSE write_block(s, file.cur_blk, [kind |-> "data", data |-> file.buf])

sf_close(s, file) == sf_fd_set_len(Flushed(s, file), file.fd_idx, file.file_len)

(* A read goes through the block of its offset and the next, which every   *)
(* further round reads again: the third block of a read is the second.     *)
OFFSET_TO_BLK_IDX(offset)    == offset \div BLOCK_SIZE
OFFSET_TO_BLK_OFFSET(offset) == offset % BLOCK_SIZE

(* Handle file is moved to block blk: the buffer goes back to its own.     *)
Moved(s, file, blk) ==
    IF file.cur_blk = blk THEN [fs |-> s, file |-> file]
    ELSE [fs   |-> Flushed(s, file),
          file |-> [file EXCEPT !.cur_blk = blk, !.buf = DataOf(Flushed(s, file).disk[blk])]]

sf_read_PastEnd(s, file, count) ==
    LET fd   == Fd(s, file.fd_idx)
        i    == OFFSET_TO_BLK_IDX(file.offset)
        from == OFFSET_TO_BLK_OFFSET(file.offset)
        here == Moved(s, file, fd.blk[i])
        n    == IF from + count > BLOCK_SIZE THEN BLOCK_SIZE - from ELSE count
    IN  IF file.offset >= file.file_len THEN [fs |-> s, file |-> file, read |-> <<>>]
        ELSE [fs |-> here.fs, file |-> [here.file EXCEPT !.offset = @ + n],
              read |-> [k \in 1 .. n |-> here.file.buf[from + k - 1]]]

sf_read(s, file, count) ==
    LET fd   == Fd(s, file.fd_idx)
        i    == OFFSET_TO_BLK_IDX(file.offset)
        from == OFFSET_TO_BLK_OFFSET(file.offset)
        n    == IF file.offset + count > file.file_len THEN file.file_len - file.offset
                                                       ELSE count
        here == Moved(s, file, fd.blk[i])
        last == IF from + n > BLOCK_SIZE THEN Moved(here.fs, here.file, fd.blk[i + 1]) ELSE here
        byte == [k \in 1 .. n |-> IF from + k <= BLOCK_SIZE THEN here.file.buf[from + k - 1]
                                  ELSE last.file.buf[(from + k - 1) % BLOCK_SIZE]]
    IN  IF file.offset >= file.file_len THEN [fs |-> s, file |-> file, read |-> <<>>]
        ELSE [fs |-> last.fs, file |-> [last.file EXCEPT !.offset = @ + n], read |-> byte]

(* The members of S below x; the member with n below it.                   *)
Before(S, x) == Cardinality({y \in S : y < x})
Nth(S, n)    == {x \in S : Before(S, x) = n}

(* Blocks are found for every position up to that of the last byte, the    *)
(* one after the data too when it ends with a block; when there are not    *)
(* enough, only what is before the first position without one is written.  *)
sf_write_Unmarked(s, file, data) ==
    LET fd     == Fd(s, file.fd_idx)
        last   == OFFSET_TO_BLK_IDX(file.offset + Len(data))
        needed == {i \in Pos : i <= last /\ fd.blk[i] = 0}
        found  == [i \in needed |-> Nth(FreeBlocks(s), Before(needed, i))]
        given  == {i \in needed : found[i] # {}}
        blk    == [i \in Pos |-> IF i \in given THEN Least(found[i]) ELSE fd.blk[i]]
        n      == IF given = needed THEN Len(data)
                  ELSE Least(needed \ given) * BLOCK_SIZE - file.offset
        from   == OFFSET_TO_BLK_OFFSET(file.offset)
        here   == Moved(SetFd(s, file.fd_idx, [fd EXCEPT !.blk = blk]), file,
                        blk[OFFSET_TO_BLK_IDX(file.offset)])
        buf    == [o \in Offset |-> IF o \in from .. from + n - 1 THEN data[o - from + 1]
                                                                  ELSE here.file.buf[o]]
        end    == file.offset + n
    IN  [fs   |-> here.fs,
         file |-> [here.file EXCEPT !.buf = buf, !.offset = end,
                                    !.file_len = IF @ < end THEN end ELSE @]]

sf_write(s, file, data) ==
    LET unmarked == sf_write_Unmarked(s, file, data)
        blocks   == {Fd(unmarked.fs, file.fd_idx).blk[i] : i \in Pos} \ {0}
    IN  [unmarked EXCEPT !.fs.bitmap = @ \cup blocks]

Base(file, whence) == CASE whence = "CUR" -> file.offset
                        [] whence = "SET" -> 0
                        [] whence = "END" -> file.file_len

sf_lseek_NotBelowMax(file, len, whence) ==
    LET to == Base(file, whence) + len
    IN  [file EXCEPT !.offset = IF to > MAX_FILE_LEN THEN MAX_FILE_LEN ELSE to]

sf_lseek(file, len, whence) ==
    LET to == Base(file, whence) + len
    IN  [file EXCEPT !.offset = IF to < 0 THEN 0 ELSE IF to > MAX_FILE_LEN THEN MAX_FILE_LEN
                                                 ELSE to]

-----------------------------------------------------------------------------
(* The whole system: store and load.                                       *)

sf_store_NoFds(s) == write_block(s, 0, [kind |-> "bits", bits |-> s.bitmap])

sf_store(s) ==
    LET saved == write_block(s, 0, [kind |-> "bits", bits |-> s.bitmap])
    IN  IF s.loaded_blk = 0 THEN saved ELSE write_block(saved, s.loaded_blk, FdBlock(s))

(* The buffer keeps what was in it: as block 0's, it goes to where sf_store *)
(* writes the bitmap before it is read again, and counts as zeros here.    *)
sf_load(disk) ==
    [disk |-> disk, bitmap |-> BitsOf(disk[0]), fd_blk_buf |-> FdsOf(Zero), loaded_blk |-> 0]

sf_mkfs == [b \in 0 .. BLOCK_COUNT - 1 |-> Zero]

(* What the program starts with is what it would load after mkfs.          *)
Zeroed == sf_load(sf_mkfs)

-----------------------------------------------------------------------------
(* The commands.                                                           *)

Handle    == 0 .. MAX_OPEN - 1
AllClosed == [h \in Handle |-> Closed]

Find(n)    == sf_root_find_file(fs, n)
IsOpen(h)  == open_file_table[h].fd_idx # 0
OpenFds    == {open_file_table[h].fd_idx : h \in Handle}
Bytes(w, n) == [k \in 1 .. n |-> (BLOCK_SIZE + 1) * w + k]

Init ==
    /\ fs = Zeroed
    /\ open_file_table = AllClosed
    /\ image = {}
    /\ changes = 0

Change == changes < MaxChanges /\ changes' = changes + 1

(* Refused for want of a descriptor or of room, or done.                   *)
touch(n) ==
    /\ Find(n) = 0
    /\ Change
    /\ fs' = IF sf_find_free_fd(fs) = 0 THEN sf_get_fd(fs, MAX_FD)
             ELSE IF sf_root_has_room(fs) THEN sf_create(fs, n) ELSE sf_get_fd(fs, 1)
    /\ UNCHANGED <<open_file_table, image>>

rm(n) ==
    /\ Change
    /\ Find(n) > 0 /\ Find(n) \notin OpenFds
    /\ fs' = IF sf_root_can_delete(fs, n) THEN sf_destroy(fs, n) ELSE sf_get_fd(fs, 1)
    /\ UNCHANGED <<open_file_table, image>>

(* touch of a file there is, rm or sf_open of one there is not: to touch   *)
(* E_UNKNOWN, as the unsigned number it is returned as, is a descriptor.   *)
refuse(n) ==
    /\ fs' = sf_get_fd(fs, 1)
    /\ UNCHANGED <<open_file_table, image, changes>>

sf_open_file(n) ==
    /\ Find(n) > 0 /\ Find(n) \notin OpenFds
    /\ \E h \in Handle :
           /\ ~IsOpen(h) /\ \A g \in 0 .. h - 1 : IsOpen(g)
           /\ open_file_table' = [open_file_table EXCEPT ![h] = sf_open(fs, n)]
    /\ fs' = sf_get_fd(fs, Find(n))
    /\ UNCHANGED <<image, changes>>

close(h) ==
    /\ IsOpen(h)
    /\ fs' = sf_close(fs, open_file_table[h])
    /\ open_file_table' = [open_file_table EXCEPT ![h] = Closed]
    /\ UNCHANGED <<image, changes>>

read(h, count) ==
    LET r == sf_read(fs, open_file_table[h], count)
    IN  /\ IsOpen(h)
        /\ fs' = sf_get_fd(r.fs, open_file_table[h].fd_idx)
        /\ open_file_table' = [open_file_table EXCEPT ![h] = r.file]
        /\ UNCHANGED <<image, changes>>

write(h, count) ==
    LET file == open_file_table[h]
        w    == sf_write(fs, file, Bytes(changes, count))
    IN  /\ IsOpen(h)
        /\ Change
        /\ file.offset <= file.file_len
        /\ OFFSET_TO_BLK_OFFSET(file.offset) + count <= BLOCK_SIZE
        /\ file.offset + count < MAX_FILE_LEN
        /\ fs' = w.fs
        /\ open_file_table' = [open_file_table EXCEPT ![h] = w.file]
        /\ UNCHANGED image

lseek(h, len, whence) ==
    /\ IsOpen(h)
    /\ open_file_table' = [open_file_table EXCEPT ![h] = sf_lseek(@, len, whence)]
    /\ open_file_table'[h].offset <= open_file_table[h].file_len + 1
    /\ UNCHANGED <<fs, image, changes>>

storefs ==
    /\ open_file_table = AllClosed
    /\ Change
    /\ fs' = sf_store(fs)
    /\ image' = {fs'.disk}
    /\ UNCHANGED open_file_table

loadfs ==
    /\ Change
    /\ \E disk \in image : fs' = sf_load(disk)
    /\ open_file_table' = AllClosed
    /\ UNCHANGED image

(* mkfs, and the loadfs that has to follow it: by itself mkfs leaves the   *)
(* bitmap, the cached descriptors and the open files as they were.         *)
mkfs_loadfs ==
    /\ Change
    /\ fs' = sf_load(sf_mkfs)
    /\ image' = {sf_mkfs}
    /\ open_file_table' = AllClosed

(* The program ends, however it does, and is started again.                *)
restart ==
    /\ Change
    /\ fs' = Zeroed
    /\ open_file_table' = AllClosed
    /\ UNCHANGED image

Next ==
    \/ \E n \in Name : touch(n) \/ rm(n) \/ refuse(n) \/ sf_open_file(n)
    \/ \E h \in Handle :
           \/ close(h)
           \/ \E count \in Count : read(h, count) \/ write(h, count)
           \/ \E len \in SeekLen \cup {-l : l \in SeekLen}, whence \in {"CUR", "SET", "END"} : lseek(h, len, whence)
    \/ storefs \/ loadfs \/ mkfs_loadfs \/ restart

Spec == Init /\ [][Next]_vars

(* Names are only compared.                                                *)
Symmetry == Permutations(Name)

-----------------------------------------------------------------------------
(* Properties.                                                             *)

Blk  == 0 .. BLOCK_COUNT - 1
FdIdx == 0 .. MAX_FD
FdRec == [tag : {0, 1}, len : 0 .. MAX_FILE_LEN, blk : [Pos -> Blk]]

(* Positions, lengths and block numbers stay in their ranges, a write that *)
(* finds the disk full and a directory that shrinks included.              *)
TypeOK ==
    /\ DOMAIN fs.disk = Blk /\ fs.bitmap \subseteq Blk
    /\ fs.loaded_blk \in 0 .. RESERVED_BLOCK_CNT - 1
    /\ \A i \in Slot : fs.fd_blk_buf[i] \in FdRec
    /\ \A h \in Handle : LET file == open_file_table[h]
                         IN  /\ file.fd_idx \in FdIdx /\ file.cur_blk \in Blk
                             /\ {file.offset, file.file_len} \subseteq 0 .. MAX_FILE_LEN

(* The descriptors in use, and the blocks of each.                         *)
UsedFds(s)        == {fd_idx \in 2 .. MAX_FD : Fd(s, fd_idx).tag = 1}
BlocksOf(s, fd_idx) == {Fd(s, fd_idx).blk[i] : i \in Pos} \ {0}

(* No block belongs to two descriptors or twice to one, none is one of the *)
(* reserved blocks, and the bitmap knows them all: sf_write, the directory *)
(* and the cached descriptors agree, through stores, loads and restarts.   *)
BlocksDisjoint ==
    LET fds == UsedFds(fs) \cup {1}
        at(fd_idx) == {i \in Pos : Fd(fs, fd_idx).blk[i] # 0}
    IN  /\ \A f \in fds : /\ BlocksOf(fs, f) \subseteq fs.bitmap \ (0 .. RESERVED_BLOCK_CNT - 1)
                          /\ Cardinality(BlocksOf(fs, f)) = Cardinality(at(f))
        /\ \A f, g \in fds : f # g => BlocksOf(fs, f) \cap BlocksOf(fs, g) = {}

DirBlocks(s) == {DirBlk(s, i) : i \in Pos} \ {0}
ItemsOf(s)   == UNION {{item \in Range(DirOf(s.disk[blk])) : item.tag = 1} : blk \in DirBlocks(s)}

(* The descriptors in use that no item names, and a directory that has to  *)
(* grow on a full disk.                                                    *)
Lost(s)    == {fd_idx \in UsedFds(s) : \A item \in ItemsOf(s) : item.fd # fd_idx}
DirFull(s) == FreeBlocks(s) = {} /\ \E i \in Pos : DirBlk(s, i) = 0

(* The directory names descriptors in use only, none twice and no name     *)
(* twice, and its length counts them all; it leaves one out only after a   *)
(* touch found the disk full and no block for the item.                    *)
DirMatchesFds ==
    LET listed(fd_idx) == {e \in Pos \X Item :
                              /\ e[2] \in Used(fs, e[1])
                              /\ DirOf(fs.disk[DirBlk(fs, e[1])])[e[2]].fd = fd_idx}
    IN  /\ \A fd_idx \in FdIdx : Cardinality(listed(fd_idx)) =
                                     IF fd_idx \in UsedFds(fs) \ Lost(fs) THEN 1 ELSE 0
        /\ Cardinality({item.name : item \in ItemsOf(fs)}) = Cardinality(UsedFds(fs) \ Lost(fs))
        /\ Fd(fs, 1).len = Cardinality(UsedFds(fs))
        /\ Lost(fs) # {} => DirFull(fs)

(* The search meets what sf_root_find_file calls impossible, a file still  *)
(* to come and a directory without the block it would be in, only on the   *)
(* full disk where a touch has lost a file; it always finds the others.    *)
ImpossibleMeansLost ==
    /\ \A n \in Name : Find(n) = E_UNKNOWN => Lost(fs) # {} /\ DirFull(fs)
    /\ \A item \in ItemsOf(fs) : Find(item.name) = item.fd

(* What the client has: a file's contents are its blocks, or the buffer of *)
(* the handle that has it open where that holds one of them.               *)
HolderOf(fd_idx, table) == {h \in Handle : table[h].fd_idx = fd_idx}

ByteAt(s, fd_idx, table, p) ==
    LET blk == Fd(s, fd_idx).blk[OFFSET_TO_BLK_IDX(p)]
        o   == OFFSET_TO_BLK_OFFSET(p)
        in  == {h \in HolderOf(fd_idx, table) : table[h].cur_blk = blk}
    IN  IF in = {} THEN DataOf(s.disk[blk])[o] ELSE table[CHOOSE h \in in : TRUE].buf[o]

Contents(s, fd_idx, table) ==
    LET by  == HolderOf(fd_idx, table)
        len == IF by = {} THEN Fd(s, fd_idx).len ELSE table[CHOOSE h \in by : TRUE].file_len
    IN  [p \in 1 .. len |-> ByteAt(s, fd_idx, table, p - 1)]

FilesOf(s, table) ==
    [n \in {item.name : item \in ItemsOf(s)} |->
        Contents(s, (CHOOSE item \in ItemsOf(s) : item.name = n).fd, table)]

NameOf(fd_idx) == (CHOOSE item \in ItemsOf(fs) : item.fd = fd_idx).name

OpenNow ==
    [h \in Handle |->
        IF IsOpen(h) THEN [name   |-> NameOf(open_file_table[h].fd_idx),
                           offset |-> open_file_table[h].offset]
        ELSE [name |-> NoName, offset |-> 0]]

FS == INSTANCE FileSystem
      WITH Data   <- {Bytes(w, n) : w \in 0 .. MaxChanges - 1, n \in Count},
           MaxLen <- MAX_FILE_LEN,
           files  <- FilesOf(fs, open_file_table),
           open   <- OpenNow,
           saved  <- {FilesOf(sf_load(disk), AllClosed) : disk \in image}

(* sf_read returns as many bytes as there are from the offset to the end   *)
(* of the file, at most count, and comes to the offset after them; those   *)
(* of the first two blocks it goes through are the file's, whatever was    *)
(* buffered when.                                                          *)
ReadsWhatIsThere ==
    \A h \in Handle : IsOpen(h) => \A count \in Count :
        LET file  == open_file_table[h]
            r     == sf_read(fs, file, count)
            bytes == FS!BytesAt(h, count)
        IN  /\ Len(r.read) = Len(bytes)
            /\ r.file.offset = file.offset + Len(bytes)
            /\ \A k \in 1 .. Len(bytes) :
                   OFFSET_TO_BLK_OFFSET(file.offset) + k <= 2 * BLOCK_SIZE
                       => r.read[k] = bytes[k]

(* simplefs implements FileSystem: whatever is cached, buffered or full,   *)
(* and whatever is stored, formatted, loaded or lost in between, a file    *)
(* reads as what was written to it.                                        *)
ImplementsFileSystem == FS!Spec

===============================================================================
