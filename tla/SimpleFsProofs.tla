--------------------------- MODULE SimpleFsProofs ---------------------------
(***************************************************************************)
(* The file system of any size: no two files share a block, the directory  *)
(* names the descriptors in use, what is read is what is there, and every  *)
(* command is a step of FileSystem or none.                                *)
(***************************************************************************)
EXTENDS SimpleFs, FiniteSetTheorems, SequenceTheorems, NumberLemmas, TLAPS

-----------------------------------------------------------------------------
(* What the states of a file system have in common.                        *)

Fds     == 1 .. MAX_FD
DataBlk == RESERVED_BLOCK_CNT .. BLOCK_COUNT - 1

ItemRec == [tag : {0, 1}, name : Name \cup {NoName}, fd : FdIdx]
Block   == [kind : {"zero"}] \cup [kind : {"fds"}, fds : [Slot -> FdRec]]
             \cup [kind : {"dir"}, dir : [Item -> ItemRec]]
             \cup [kind : {"data"}, data : [Offset -> Nat]]
             \cup [kind : {"bits"}, bits : SUBSET Blk]
FsState == [disk : [Blk -> Block], bitmap : SUBSET Blk,
            fd_blk_buf : [Slot -> FdRec], loaded_blk : 0 .. RESERVED_BLOCK_CNT - 1]

(* What the operations see of a state, whichever descriptors are cached:   *)
(* the descriptors F, the blocks D after the reserved ones and those of    *)
(* them that are taken, B.                                                 *)
FdView(s)   == [k \in Fds |-> Fd(s, k)]
DataView(s) == [b \in DataBlk |-> s.disk[b]]
BitView(s)  == s.bitmap \cap DataBlk
Views(s, F, D, B) ==
    s \in FsState /\ FdView(s) = F /\ DataView(s) = D /\ BitView(s) = B

InUse(F)  == {k \in 2 .. MAX_FD : F[k].tag = 1}
Owners(F) == InUse(F) \cup {1}

(* The items of the directory and where they are.                          *)
Entry(F, D, e) == DirOf(D[F[1].blk[e[1]]])[e[2]]
Listed(F, D)   == {e \in Pos \X Item : F[1].blk[e[1]] # 0 /\ Entry(F, D, e).tag = 1}

Typed(F, D, B) == F \in [Fds -> FdRec] /\ D \in [DataBlk -> Block] /\ B \subseteq DataBlk

(* The blocks of the descriptors in use are taken, each once; the others   *)
(* are still zero.                                                         *)
BlocksOwned(F, D, B) ==
    /\ \A k \in Owners(F), i \in Pos : F[k].blk[i] \in B \cup {0}
    /\ \A k, l \in Owners(F), i, j \in Pos :
         F[k].blk[i] = F[l].blk[j] /\ F[k].blk[i] # 0 => k = l /\ i = j
    /\ \A b \in DataBlk \ B : D[b] = Zero

(* The directory's blocks come first; its items name descriptors in use,   *)
(* each by one name, and its length counts all of them.                    *)
Directory(F, D) ==
    /\ \A i, j \in Pos : i < j /\ F[1].blk[i] = 0 => F[1].blk[j] = 0
    /\ \A e \in Listed(F, D) : Entry(F, D, e).name \in Name /\ Entry(F, D, e).fd \in InUse(F)
    /\ \A e, g \in Listed(F, D) :
         \/ Entry(F, D, e).name = Entry(F, D, g).name
         \/ Entry(F, D, e).fd = Entry(F, D, g).fd
         => e = g
    /\ F[1].len = Cardinality(InUse(F))

(* A descriptor in use that no item names was made when no block was left  *)
(* and the directory had to grow.                                          *)
HasItem(F, D, k) == \E e \in Listed(F, D) : Entry(F, D, e).fd = k
NoRoom(F, B)     == DataBlk \subseteq B /\ \E i \in Pos : F[1].blk[i] = 0
Complete(F, D, B) == \A k \in InUse(F) : HasItem(F, D, k) \/ NoRoom(F, B)

(* A block for every byte.                                                 *)
Covers(fd, len) == \A i \in Pos : i * BLOCK_SIZE < len => fd.blk[i] # 0

Sound(F, D, B) ==
    /\ Typed(F, D, B) /\ BlocksOwned(F, D, B) /\ Directory(F, D) /\ Complete(F, D, B)
    /\ \A k \in InUse(F) : Covers(F[k], F[k].len)

(* The handles: each has a descriptor of its own, which an item names, and *)
(* a block of it or none in its buffer.                                    *)
HandleRec == [fd_idx : FdIdx, file_len : 0 .. MAX_FILE_LEN, offset : 0 .. MAX_FILE_LEN,
              cur_blk : Blk, buf : [Offset -> Nat]]
Handles(F, T) ==
    /\ T \in [Handle -> HandleRec]
    /\ \A h \in Handle :
         IF T[h].fd_idx = 0 THEN T[h] = Closed
         ELSE /\ T[h].fd_idx \in InUse(F)
              /\ T[h].cur_blk = 0 \/ \E i \in Pos : T[h].cur_blk = F[T[h].fd_idx].blk[i]
              /\ Covers(F[T[h].fd_idx], T[h].file_len)
    /\ \A g, h \in Handle : T[g].fd_idx = T[h].fd_idx /\ T[g].fd_idx # 0 => g = h

OpenListed(F, D, T) == \A h \in Handle : T[h].fd_idx # 0 => HasItem(F, D, T[h].fd_idx)

SoundState(s) == s \in FsState /\ Sound(FdView(s), DataView(s), BitView(s))

IInv == /\ SoundState(fs)
        /\ Handles(FdView(fs), open_file_table)
        /\ OpenListed(FdView(fs), DataView(fs), open_file_table)
        /\ \A disk \in image : disk \in [Blk -> Block] /\ SoundState(sf_load(disk))
        /\ changes \in Nat

-----------------------------------------------------------------------------
(* Numbers and types.                                                      *)

LEMMA Sizes ==
    /\ BLOCK_COUNT \in Nat \ {0} /\ BLOCK_SIZE \in Nat \ {0} /\ FBLK_CNT \in Nat \ {0}
    /\ FD_CNT \in Nat \ {0} /\ DIR_ITEM_CNT_PER_BLOCK \in Nat \ {0}
    /\ MAX_OPEN \in Nat \ {0}
    /\ RESERVED_BLOCK_CNT \in Nat /\ RESERVED_BLOCK_CNT > 1
    /\ FBLK_CNT <= RESERVED_BLOCK_CNT /\ RESERVED_BLOCK_CNT < BLOCK_COUNT
    /\ MAX_FD \in Nat /\ MAX_FD >= 1 /\ MAX_FILE_LEN \in Nat
<1>1. /\ BLOCK_COUNT \in Nat \ {0} /\ BLOCK_SIZE \in Nat \ {0} /\ FBLK_CNT \in Nat \ {0}
      /\ FD_CNT \in Nat \ {0} /\ DIR_ITEM_CNT_PER_BLOCK \in Nat \ {0}
      /\ MAX_OPEN \in Nat \ {0}
  BY FsAssumption
<1>2. /\ RESERVED_BLOCK_CNT \in Nat /\ RESERVED_BLOCK_CNT > 1
      /\ FBLK_CNT <= RESERVED_BLOCK_CNT /\ RESERVED_BLOCK_CNT < BLOCK_COUNT
  BY <1>1, FsAssumption
<1>3. MAX_FD \in Nat /\ MAX_FD >= 1
  <2>1. PICK r \in Nat \ {0} : r = RESERVED_BLOCK_CNT - 1
    BY <1>2
  <2>2. \A m, n \in Nat \ {0} : m * n \in Nat /\ m * n >= 1
    OBVIOUS
  <2> QED
    BY <1>1, <2>1, <2>2 DEF MAX_FD
<1>4. MAX_FILE_LEN \in Nat
  BY <1>1 DEF MAX_FILE_LEN
<1> QED
  BY <1>1, <1>2, <1>3, <1>4

LEMMA Ranges ==
    /\ 0 \in Pos /\ Pos \subseteq Nat /\ Slot \subseteq Nat /\ Item \subseteq Nat
    /\ Blk \subseteq Nat /\ 0 \in Blk /\ DataBlk \subseteq Blk /\ 0 \notin DataBlk
    /\ Pos \cap DataBlk = {}
    /\ FdIdx \subseteq Nat /\ 0 \in FdIdx /\ 1 \in Fds /\ Fds \subseteq FdIdx
    /\ 2 .. MAX_FD \subseteq Fds
BY Sizes DEF Pos, Slot, Item, Blk, DataBlk, FdIdx, Fds

LEMMA FdPlace ==
    ASSUME NEW k \in Fds
    PROVE  /\ FD_IDX_TO_BLK_NUM(k) \in 1 .. RESERVED_BLOCK_CNT - 1
           /\ FD_IDX_TO_SLOT(k) \in Slot
           /\ k = (FD_IDX_TO_BLK_NUM(k) - 1) * FD_CNT + FD_IDX_TO_SLOT(k)
<1>1. PICK m \in Nat \ {0} : m = FD_CNT
  BY Sizes
<1>2. PICK r \in Nat : r = RESERVED_BLOCK_CNT - 1
  BY Sizes
<1>3. k - 1 \in Nat /\ k - 1 < m * r
  BY Sizes, <1>1, <1>2 DEF Fds, MAX_FD
<1>4. PICK x \in Nat : x = k - 1
  BY <1>3
<1>5. x \div m \in Int /\ x = (x \div m) * m + (x % m) /\ x % m \in 0 .. m - 1
  BY <1>1
<1>6. PICK q \in Int, a \in 0 .. m - 1 : q = x \div m /\ a = x % m /\ x = q * m + a
  BY <1>5
<1>7. q >= 0
  <2>1. CASE q <= -1
    <3>1. q * m <= -m
      BY <2>1
    <3> QED
      BY <1>6, <3>1
  <2> QED
    BY <2>1
<1>8. q < r
  <2>1. SUFFICES ASSUME q >= r PROVE FALSE
    OBVIOUS
  <2>2. q * m >= r * m
    BY <1>7, <2>1
  <2>3. r * m = m * r
    OBVIOUS
  <2> QED
    BY <1>3, <1>4, <1>6, <2>2, <2>3
<1>9. FD_IDX_TO_BLK_NUM(k) = q + 1 /\ FD_IDX_TO_SLOT(k) = a + 1
  BY <1>1, <1>4, <1>6 DEF FD_IDX_TO_BLK_NUM, FD_IDX_TO_SLOT
<1>10. k = (q + 1 - 1) * m + (a + 1)
  <2>1. k = x + 1 /\ q + 1 - 1 = q
    BY <1>4, Ranges DEF FdIdx
  <2>2. q * m \in Int
    OBVIOUS
  <2> QED
    BY <1>6, <2>1, <2>2
<1> QED
  BY <1>1, <1>2, <1>6, <1>7, <1>8, <1>9, <1>10 DEF Slot

LEMMA BlockTypes ==
    ASSUME NEW b \in Block
    PROVE  /\ FdsOf(b) \in [Slot -> FdRec] /\ DirOf(b) \in [Item -> ItemRec]
           /\ DataOf(b) \in [Offset -> Nat] /\ BitsOf(b) \in SUBSET Blk
<1>1. FreeFd \in FdRec
  BY Sizes, Ranges DEF FreeFd, FdRec
<1>2. FreeItem \in ItemRec
  BY Ranges DEF FreeItem, ItemRec
<1>3. \/ b \in [kind : {"zero"}] \/ b \in [kind : {"fds"}, fds : [Slot -> FdRec]]
      \/ b \in [kind : {"dir"}, dir : [Item -> ItemRec]]
      \/ b \in [kind : {"data"}, data : [Offset -> Nat]]
      \/ b \in [kind : {"bits"}, bits : SUBSET Blk]
  BY DEF Block
<1>4. FdsOf(b) \in [Slot -> FdRec]
  BY <1>1, <1>3 DEF FdsOf
<1>5. DirOf(b) \in [Item -> ItemRec]
  BY <1>2, <1>3 DEF DirOf
<1>6. DataOf(b) \in [Offset -> Nat]
  BY <1>3 DEF DataOf
<1>7. BitsOf(b) \in SUBSET Blk
  BY <1>3 DEF BitsOf
<1> QED
  BY <1>4, <1>5, <1>6, <1>7

LEMMA ZeroBlock ==
    /\ Zero \in Block
    /\ FdsOf(Zero) = [i \in Slot |-> FreeFd] /\ DirOf(Zero) = [j \in Item |-> FreeItem]
    /\ DataOf(Zero) = [o \in Offset |-> 0] /\ BitsOf(Zero) = {}
BY DEF Zero, Block, FdsOf, DirOf, DataOf, BitsOf

LEMMA NewBlocks ==
    /\ \A x \in [Slot -> FdRec] : /\ [kind |-> "fds", fds |-> x] \in Block
                                  /\ FdsOf([kind |-> "fds", fds |-> x]) = x
    /\ \A x \in [Item -> ItemRec] : /\ [kind |-> "dir", dir |-> x] \in Block
                                    /\ DirOf([kind |-> "dir", dir |-> x]) = x
    /\ \A x \in [Offset -> Nat] : /\ [kind |-> "data", data |-> x] \in Block
                                  /\ DataOf([kind |-> "data", data |-> x]) = x
    /\ \A x \in SUBSET Blk : /\ [kind |-> "bits", bits |-> x] \in Block
                             /\ BitsOf([kind |-> "bits", bits |-> x]) = x
BY DEF Block, FdsOf, DirOf, DataOf, BitsOf

-----------------------------------------------------------------------------
(* The steps the operations are made of, as the views see them.            *)

LEMMA FdTyped ==
    ASSUME NEW s \in FsState, NEW k \in Fds
    PROVE  Fd(s, k) \in FdRec
<1>1. FD_IDX_TO_BLK_NUM(k) \in Blk /\ FD_IDX_TO_SLOT(k) \in Slot
  BY Sizes, FdPlace DEF Blk
<1>2. s.fd_blk_buf \in [Slot -> FdRec] /\ s.disk \in [Blk -> Block]
  BY DEF FsState
<1>3. FdsOf(s.disk[FD_IDX_TO_BLK_NUM(k)]) \in [Slot -> FdRec]
  BY <1>1, <1>2, BlockTypes
<1> QED
  BY <1>1, <1>2, <1>3 DEF Fd

LEMMA ViewsTyped ==
    ASSUME NEW s, NEW F, NEW D, NEW B, Views(s, F, D, B)
    PROVE  Typed(F, D, B)
<1>1. s \in FsState
  BY DEF Views
<1>2. \A k \in Fds : Fd(s, k) \in FdRec
  BY <1>1, FdTyped
<1>3. \A b \in DataBlk : s.disk[b] \in Block
  BY <1>1, Ranges DEF FsState
<1> QED
  BY <1>2, <1>3 DEF Views, FdView, DataView, BitView, Typed

LEMMA ViewsOwn ==
    ASSUME NEW s \in FsState
    PROVE  Views(s, FdView(s), DataView(s), BitView(s))
BY DEF Views

(* The block of descriptors that sf_get_fd writes back is read again as it *)
(* was.                                                                    *)
LEMMA GetViews ==
    ASSUME NEW s, NEW F, NEW D, NEW B, Views(s, F, D, B), NEW k \in Fds
    PROVE  /\ Views(sf_get_fd(s, k), F, D, B)
           /\ sf_get_fd(s, k).loaded_blk = FD_IDX_TO_BLK_NUM(k)
<1> DEFINE blk == FD_IDX_TO_BLK_NUM(k)
           t   == sf_get_fd(s, k)
<1>1. s \in FsState /\ blk \in 1 .. RESERVED_BLOCK_CNT - 1 /\ blk \in Blk
  BY Sizes, FdPlace DEF Views, Blk
<1>2. CASE blk = s.loaded_blk
  BY <1>2 DEF sf_get_fd
<1>3. CASE blk # s.loaded_blk
  <2>1. /\ s.disk \in [Blk -> Block] /\ s.fd_blk_buf \in [Slot -> FdRec]
        /\ s.bitmap \in SUBSET Blk /\ s.loaded_blk \in 0 .. RESERVED_BLOCK_CNT - 1
        /\ s.loaded_blk \in Blk /\ s.loaded_blk \notin DataBlk
    BY <1>1, Sizes DEF FsState, Blk, DataBlk
  <2>2. FdBlock(s) \in Block /\ FdsOf(FdBlock(s)) = s.fd_blk_buf
    BY <2>1, NewBlocks DEF FdBlock
  <2>3. FdsOf(s.disk[blk]) \in [Slot -> FdRec]
    BY <1>1, <2>1, BlockTypes
  <2>4. t = [disk |-> [s.disk EXCEPT ![s.loaded_blk] = FdBlock(s)], bitmap |-> s.bitmap,
             fd_blk_buf |-> FdsOf(s.disk[blk]), loaded_blk |-> blk]
    BY <1>1, <1>3 DEF sf_get_fd, write_block, FsState
  <2> HIDE DEF t, blk
  <2>5. t \in FsState
    BY <1>1, <2>1, <2>2, <2>3, <2>4 DEF FsState
  <2>6. ASSUME NEW j \in Fds
        PROVE  Fd(t, j) = Fd(s, j)
    <3> DEFINE b == FD_IDX_TO_BLK_NUM(j)
    <3>1. b \in 1 .. RESERVED_BLOCK_CNT - 1 /\ b \in Blk
      BY Sizes, FdPlace DEF Blk
    <3> HIDE DEF b
    <3>2. CASE b = blk
      BY <1>3, <2>4, <3>2 DEF Fd, b
    <3>3. CASE b # blk /\ b = s.loaded_blk
      BY <2>1, <2>2, <2>4, <3>3 DEF Fd, b
    <3>4. CASE b # blk /\ b # s.loaded_blk
      BY <2>1, <2>4, <3>1, <3>4 DEF Fd, b
    <3> QED
      BY <3>2, <3>3, <3>4
  <2>7. \A b \in DataBlk : t.disk[b] = s.disk[b]
    BY <2>1, <2>4, Ranges
  <2>8. FdView(t) = FdView(s) /\ DataView(t) = DataView(s) /\ BitView(t) = BitView(s)
    BY <2>4, <2>6, <2>7 DEF FdView, DataView, BitView
  <2> QED
    BY <2>4, <2>5, <2>8 DEF Views, t, blk
<1> QED
  BY <1>2, <1>3

LEMMA SetViews ==
    ASSUME NEW s, NEW F, NEW D, NEW B, Views(s, F, D, B), NEW k \in Fds, NEW fd \in FdRec
    PROVE  Views(SetFd(s, k, fd), [F EXCEPT ![k] = fd], D, B)
<1> DEFINE blk == FD_IDX_TO_BLK_NUM(k)
           slot == FD_IDX_TO_SLOT(k)
           u   == sf_get_fd(s, k)
           t   == SetFd(s, k, fd)
<1>1. u \in FsState /\ FdView(u) = F /\ DataView(u) = D /\ BitView(u) = B /\ u.loaded_blk = blk
  BY GetViews DEF Views
<1>2. blk \in 1 .. RESERVED_BLOCK_CNT - 1 /\ slot \in Slot
  BY FdPlace
<1>3. t = [disk |-> u.disk, bitmap |-> u.bitmap,
           fd_blk_buf |-> [u.fd_blk_buf EXCEPT ![slot] = fd], loaded_blk |-> blk]
  BY <1>1 DEF SetFd, FsState
<1> HIDE DEF u, t, blk, slot
<1>4. t \in FsState
  BY <1>1, <1>2, <1>3 DEF FsState
<1>5. ASSUME NEW j \in Fds
      PROVE  Fd(t, j) = IF j = k THEN fd ELSE Fd(u, j)
  <2>1. CASE j = k
    BY <1>1, <1>2, <1>3, <2>1 DEF Fd, FsState, blk, slot
  <2>2. CASE j # k /\ FD_IDX_TO_BLK_NUM(j) = blk
    <3>1. FD_IDX_TO_SLOT(j) # slot /\ FD_IDX_TO_SLOT(j) \in Slot
      BY <2>2, FdPlace DEF blk, slot
    <3> QED
      BY <1>1, <1>3, <2>2, <3>1 DEF Fd, FsState
  <2>3. CASE FD_IDX_TO_BLK_NUM(j) # blk
    BY <1>1, <1>3, <2>3 DEF Fd, blk
  <2> QED
    BY <2>1, <2>2, <2>3
<1>6. FdView(t) = [F EXCEPT ![k] = fd]
  BY <1>1, <1>5 DEF FdView
<1>7. DataView(t) = D /\ BitView(t) = B
  BY <1>1, <1>3 DEF DataView, BitView
<1> QED
  BY <1>4, <1>6, <1>7 DEF Views, t

LEMMA WriteViews ==
    ASSUME NEW s, NEW F, NEW D, NEW B, Views(s, F, D, B), NEW b \in DataBlk, NEW x \in Block
    PROVE  Views(write_block(s, b, x), F, [D EXCEPT ![b] = x], B)
<1> DEFINE t == write_block(s, b, x)
<1>1. s \in FsState /\ FdView(s) = F /\ DataView(s) = D /\ BitView(s) = B
  BY DEF Views
<1>2. t = [disk |-> [s.disk EXCEPT ![b] = x], bitmap |-> s.bitmap,
           fd_blk_buf |-> s.fd_blk_buf, loaded_blk |-> s.loaded_blk]
  BY <1>1 DEF write_block, FsState
<1> HIDE DEF t
<1>3. t \in FsState
  BY <1>1, <1>2, Ranges DEF FsState
<1>4. ASSUME NEW j \in Fds PROVE Fd(t, j) = Fd(s, j)
  <2>1. FD_IDX_TO_BLK_NUM(j) \in Blk /\ FD_IDX_TO_BLK_NUM(j) # b
    BY Sizes, FdPlace DEF Blk, DataBlk
  <2> QED
    BY <1>1, <1>2, <2>1 DEF Fd, FsState
<1>5. FdView(t) = F
  BY <1>1, <1>4 DEF FdView
<1>6. DataView(t) = [D EXCEPT ![b] = x]
  <2>1. \A c \in DataBlk : t.disk[c] = IF c = b THEN x ELSE s.disk[c]
    BY <1>1, <1>2, Ranges DEF FsState
  <2>2. DataView(t) = [c \in DataBlk |-> t.disk[c]] /\ D = [c \in DataBlk |-> s.disk[c]]
    BY <1>1 DEF DataView
  <2> QED
    BY <2>1, <2>2
<1>7. BitView(t) = B
  BY <1>1, <1>2 DEF BitView
<1> QED
  BY <1>3, <1>5, <1>6, <1>7 DEF Views, t

(* What is written to block 0 is nothing the views see.                    *)
LEMMA LostViews ==
    ASSUME NEW s, NEW F, NEW D, NEW B, Views(s, F, D, B), NEW x \in Block
    PROVE  Views(write_block(s, 0, x), F, D, B)
<1> DEFINE t == write_block(s, 0, x)
<1>1. s \in FsState /\ FdView(s) = F /\ DataView(s) = D /\ BitView(s) = B
  BY DEF Views
<1>2. t = [disk |-> [s.disk EXCEPT ![0] = x], bitmap |-> s.bitmap,
           fd_blk_buf |-> s.fd_blk_buf, loaded_blk |-> s.loaded_blk]
  BY <1>1 DEF write_block, FsState
<1> HIDE DEF t
<1>3. t \in FsState
  BY <1>1, <1>2, Ranges DEF FsState
<1>4. ASSUME NEW j \in Fds PROVE Fd(t, j) = Fd(s, j)
  <2>1. FD_IDX_TO_BLK_NUM(j) \in Blk /\ FD_IDX_TO_BLK_NUM(j) # 0
    BY Sizes, FdPlace DEF Blk
  <2> QED
    BY <1>1, <1>2, <2>1 DEF Fd, FsState
<1>5. FdView(t) = F
  BY <1>1, <1>4 DEF FdView
<1>6. DataView(t) = D
  <2>1. \A c \in DataBlk : t.disk[c] = s.disk[c]
    BY <1>1, <1>2, Ranges DEF FsState
  <2> QED
    BY <1>1, <2>1 DEF DataView
<1>7. BitView(t) = B
  BY <1>1, <1>2 DEF BitView
<1> QED
  BY <1>3, <1>5, <1>6, <1>7 DEF Views, t

LEMMA BitViews ==
    ASSUME NEW s, NEW F, NEW D, NEW B, Views(s, F, D, B), NEW X \in SUBSET Blk
    PROVE  Views([s EXCEPT !.bitmap = X], F, D, X \cap DataBlk)
<1> DEFINE t == [s EXCEPT !.bitmap = X]
<1>1. s \in FsState /\ FdView(s) = F /\ DataView(s) = D
  BY DEF Views
<1>2. t = [disk |-> s.disk, bitmap |-> X,
           fd_blk_buf |-> s.fd_blk_buf, loaded_blk |-> s.loaded_blk]
  BY <1>1 DEF FsState
<1> HIDE DEF t
<1>3. t \in FsState
  BY <1>1, <1>2 DEF FsState
<1>4. \A j \in Fds : Fd(t, j) = Fd(s, j)
  BY <1>2 DEF Fd
<1>5. FdView(t) = F /\ DataView(t) = D /\ BitView(t) = X \cap DataBlk
  BY <1>1, <1>2, <1>4 DEF FdView, DataView, BitView
<1> QED
  BY <1>3, <1>5 DEF Views, t

-----------------------------------------------------------------------------
(* The directory.                                                          *)

LEMMA LeastIs ==
    ASSUME NEW T \in SUBSET Nat, T # {}
    PROVE  Least(T) \in T /\ \A m \in T : Least(T) <= m
BY LeastElement DEF Least

LEMMA LeastOf ==
    ASSUME NEW T \in SUBSET Nat, NEW n \in T, \A m \in T : n <= m
    PROVE  Least(T) = n
<1>1. Least(T) \in T /\ Least(T) <= n
  BY LeastIs
<1>2. n <= Least(T) /\ n \in Nat /\ Least(T) \in Nat
  BY <1>1
<1> QED
  BY <1>1, <1>2

LEMMA PlacesFinite ==
    /\ IsFiniteSet(Pos \X Item)
    /\ Cardinality(Pos \X Item) = FBLK_CNT * DIR_ITEM_CNT_PER_BLOCK
<1>1. IsFiniteSet(Pos) /\ Cardinality(Pos) = FBLK_CNT
  <2>1. FBLK_CNT - 1 \in Int /\ 0 \in Int
    BY Sizes
  <2>2. IsFiniteSet(0 .. FBLK_CNT - 1)
        /\ Cardinality(0 .. FBLK_CNT - 1) = IF 0 > FBLK_CNT - 1 THEN 0 ELSE FBLK_CNT - 1 - 0 + 1
    BY <2>1, FS_Interval
  <2> QED
    BY <2>2, Sizes DEF Pos
<1>2. IsFiniteSet(Item) /\ Cardinality(Item) = DIR_ITEM_CNT_PER_BLOCK
  <2>1. IsFiniteSet(1 .. DIR_ITEM_CNT_PER_BLOCK)
        /\ Cardinality(1 .. DIR_ITEM_CNT_PER_BLOCK)
             = IF 1 > DIR_ITEM_CNT_PER_BLOCK THEN 0 ELSE DIR_ITEM_CNT_PER_BLOCK - 1 + 1
    BY Sizes, FS_Interval
  <2> QED
    BY <2>1, Sizes DEF Item
<1> QED
  BY <1>1, <1>2, FS_Product

LEMMA ListedFinite ==
    ASSUME NEW X \in SUBSET (Pos \X Item)
    PROVE  IsFiniteSet(X) /\ Cardinality(X) \in Nat
<1>1. IsFiniteSet(X)
  BY PlacesFinite, FS_Subset
<1> QED
  BY <1>1, FS_CardinalityType

(* A directory counts fewer descriptors than there are, and can.           *)
LEMMA InUseFinite ==
    ASSUME NEW X \in SUBSET (2 .. MAX_FD)
    PROVE  IsFiniteSet(X) /\ Cardinality(X) \in Nat /\ Cardinality(X) <= MAX_FILE_LEN
<1>1. PICK m \in Nat : m = MAX_FD /\ m >= 1 /\ m <= MAX_FILE_LEN
  BY Sizes, FsAssumption
<1>2. /\ IsFiniteSet(2 .. m)
      /\ Cardinality(2 .. m) = IF 2 > m THEN 0 ELSE m - 2 + 1
  BY FS_Interval
<1>3. IsFiniteSet(X) /\ Cardinality(X) <= Cardinality(2 .. m)
  BY <1>1, <1>2, FS_Subset
<1>4. Cardinality(X) \in Nat
  BY <1>3, FS_CardinalityType
<1>5. Cardinality(2 .. m) <= m /\ Cardinality(2 .. m) \in Nat
  BY <1>1, <1>2
<1> QED
  BY <1>1, <1>3, <1>4, <1>5, Sizes

(* The items are as many as the descriptors they name.                     *)
LEMMA ItemsCounted ==
    ASSUME NEW F, NEW D, Directory(F, D)
    PROVE  /\ IsFiniteSet(Listed(F, D)) /\ Cardinality(Listed(F, D)) \in Nat
           /\ F[1].len \in Nat /\ Cardinality(Listed(F, D)) <= F[1].len
           /\ (\A k \in InUse(F) : HasItem(F, D, k)) => Cardinality(Listed(F, D)) = F[1].len
<1>1. PICK L : L = Listed(F, D)
  OBVIOUS
<1>2. PICK U : U = InUse(F)
  OBVIOUS
<1>3. L \in SUBSET (Pos \X Item) /\ U \in SUBSET (2 .. MAX_FD)
  BY <1>1, <1>2 DEF Listed, InUse
<1>4. IsFiniteSet(L) /\ Cardinality(L) \in Nat
  BY <1>3, ListedFinite
<1>5. IsFiniteSet(U) /\ Cardinality(U) \in Nat /\ F[1].len = Cardinality(U)
  BY <1>2, <1>3, InUseFinite DEF Directory
<1>6. PICK g : g = [e \in L |-> Entry(F, D, e).fd]
  OBVIOUS
<1>7. g \in [L -> U] /\ \A e \in L : g[e] = Entry(F, D, e).fd
  <2>1. \A e \in L : Entry(F, D, e).fd \in U
    BY <1>1, <1>2 DEF Directory
  <2> QED
    BY <1>6, <2>1
<1>8. \A x, y \in L : g[x] = g[y] => x = y
  BY <1>1, <1>7 DEF Directory
<1>9. g \in Injection(L, U)
  BY <1>7, <1>8 DEF Injection, IsInjective
<1>10. Cardinality(L) <= Cardinality(U)
  BY <1>5, <1>9, FS_Injection
<1>11. ASSUME \A k \in InUse(F) : HasItem(F, D, k)
       PROVE  Cardinality(L) = Cardinality(U)
  <2>1. \A k \in U : \E e \in L : g[e] = k
    BY <1>1, <1>2, <1>7, <1>11 DEF HasItem
  <2>2. g \in Surjection(L, U)
    BY <1>7, <2>1 DEF Surjection
  <2>3. Cardinality(U) <= Cardinality(L)
    BY <1>4, <2>2, FS_Surjection
  <2> QED
    BY <1>4, <1>5, <1>10, <2>3
<1> QED
  BY <1>1, <1>4, <1>5, <1>10, <1>11

LEMMA ViewsFd ==
    ASSUME NEW s, NEW F, NEW D, NEW B, Views(s, F, D, B)
    PROVE  /\ \A k \in Fds : Fd(s, k) = F[k]
           /\ \A b \in DataBlk : s.disk[b] = D[b]
           /\ \A i \in Pos : DirBlk(s, i) = F[1].blk[i]
<1>1. /\ \A k \in Fds : Fd(s, k) = F[k]
      /\ \A b \in DataBlk : s.disk[b] = D[b]
  BY DEF Views, FdView, DataView
<1> QED
  BY <1>1, Ranges DEF DirBlk

LEMMA DirSees ==
    ASSUME NEW s, NEW F, NEW D, NEW B, Views(s, F, D, B), BlocksOwned(F, D, B), NEW i \in Pos
    PROVE  /\ DirBlk(s, i) # 0 => DirBlk(s, i) \in B /\ DirBlk(s, i) \in DataBlk
           /\ Used(s, i) \in SUBSET Item
           /\ \A j \in Item : j \in Used(s, i) <=> <<i, j>> \in Listed(F, D)
           /\ \A n : Named(s, i, n) \in SUBSET Item
           /\ \A n : \A j \in Item :
                j \in Named(s, i, n) <=> <<i, j>> \in Listed(F, D) /\ Entry(F, D, <<i, j>>).name = n
           /\ \A j \in Item : DirBlk(s, i) # 0 =>
                DirOf(s.disk[DirBlk(s, i)])[j] = Entry(F, D, <<i, j>>)
<1>1. DirBlk(s, i) = F[1].blk[i] /\ \A b \in DataBlk : s.disk[b] = D[b]
  BY ViewsFd
<1>2. DirBlk(s, i) # 0 => DirBlk(s, i) \in B /\ DirBlk(s, i) \in DataBlk
  <2>1. 1 \in Owners(F) /\ B \subseteq DataBlk
    BY ViewsTyped DEF Owners, Typed
  <2>2. F[1].blk[i] \in B \cup {0}
    BY <2>1 DEF BlocksOwned
  <2> QED
    BY <1>1, <2>1, <2>2
<1>3. \A j \in Item : DirBlk(s, i) # 0 =>
        DirOf(s.disk[DirBlk(s, i)])[j] = Entry(F, D, <<i, j>>)
  BY <1>1, <1>2 DEF Entry
<1>4. \A j \in Item : <<i, j>> \in Listed(F, D) <=>
        DirBlk(s, i) # 0 /\ Entry(F, D, <<i, j>>).tag = 1
  BY <1>1 DEF Listed
<1>5. \A j \in Item : j \in Used(s, i) <=> <<i, j>> \in Listed(F, D)
  BY <1>3, <1>4 DEF Used
<1>6. Used(s, i) \in SUBSET Item
  BY DEF Used
<1>7. \A n : Named(s, i, n) \in SUBSET Item
  BY <1>6 DEF Named
<1>8. \A n : \A j \in Item :
        j \in Named(s, i, n) <=> <<i, j>> \in Listed(F, D) /\ Entry(F, D, <<i, j>>).name = n
  BY <1>3, <1>4, <1>5 DEF Named
<1> QED
  BY <1>2, <1>3, <1>5, <1>6, <1>7, <1>8

(* The search for a name: it ends where the name is, or returns 0, and     *)
(* comes to a block there is not only for want of a file without an item.  *)
FoundAt(s, F, D, n, e) ==
    /\ e \in Listed(F, D) /\ Entry(F, D, e).name = n
    /\ sf_root_find_file(s, n) = Entry(F, D, e).fd
    /\ Least(Stops(s, n)) = e[1] /\ Least(Named(s, e[1], n)) = e[2]

LEMMA Search ==
    ASSUME NEW s, NEW F, NEW D, NEW B, Views(s, F, D, B),
           BlocksOwned(F, D, B), Directory(F, D), NEW n
    PROVE  \/ \E e \in Listed(F, D) : FoundAt(s, F, D, n, e)
           \/ /\ \A e \in Listed(F, D) : Entry(F, D, e).name # n
              /\ \/ sf_root_find_file(s, n) = 0
                 \/ /\ sf_root_find_file(s, n) = E_UNKNOWN
                    /\ \E k \in InUse(F) : ~HasItem(F, D, k)
<1> DEFINE L    == Listed(F, D)
           upto(i) == {e \in (0 .. i) \X Item : e[2] \in Used(s, e[1])}
<1>1. Fd(s, 1) = F[1] /\ \A i \in Pos : DirBlk(s, i) = F[1].blk[i]
  <2>1. \A k \in Fds : Fd(s, k) = F[k]
    BY ViewsFd
  <2>2. \A i \in Pos : DirBlk(s, i) = F[1].blk[i]
    BY ViewsFd
  <2> QED
    BY <2>1, <2>2, Ranges
<1>2. /\ L \in SUBSET (Pos \X Item) /\ IsFiniteSet(L) /\ Cardinality(L) \in Nat
      /\ F[1].len \in Nat /\ Cardinality(L) <= F[1].len
      /\ (\A k \in InUse(F) : HasItem(F, D, k)) => Cardinality(L) = F[1].len
  BY ItemsCounted DEF Listed
<1>3. ASSUME NEW i \in Pos
      PROVE  upto(i) = {e \in L : e[1] <= i}
  <2>1. ASSUME NEW e \in (0 .. i) \X Item
        PROVE  e[2] \in Used(s, e[1]) <=> e \in L
    <3>1. PICK h \in 0 .. i, j \in Item : e = <<h, j>>
      BY <2>1
    <3>2. h \in Pos
      BY <3>1, Sizes DEF Pos
    <3> QED
      BY <3>1, <3>2, DirSees
  <2>2. \A e \in L : e[1] <= i <=> e \in (0 .. i) \X Item
    <3>1. SUFFICES ASSUME NEW e \in L PROVE e[1] <= i <=> e \in (0 .. i) \X Item
      OBVIOUS
    <3>2. PICK h \in Pos, j \in Item : e = <<h, j>>
      BY <1>2, <3>1
    <3>3. h <= i <=> h \in 0 .. i
      BY Sizes DEF Pos
    <3> QED
      BY <3>2, <3>3
  <2> HIDE DEF L
  <2> QED
    BY <2>1, <2>2
<1>4. ASSUME NEW i \in Pos
      PROVE  Cardinality(upto(i)) = F[1].len <=>
               Cardinality(L) = F[1].len /\ \A e \in L : e[1] <= i
  <2>1. upto(i) \in SUBSET L
    BY <1>3
  <2>2. upto(i) = L <=> \A e \in L : e[1] <= i
    BY <1>3
  <2> HIDE DEF upto, L
  <2>3. /\ Cardinality(upto(i)) \in Nat /\ Cardinality(upto(i)) <= Cardinality(L)
        /\ Cardinality(L) = Cardinality(upto(i)) => L = upto(i)
    BY <1>2, <2>1, FS_Subset, FS_CardinalityType
  <2> QED
    BY <1>2, <2>2, <2>3
<1>5. \A i : i \in Stops(s, n) <=>
        i \in Pos /\ \/ F[1].blk[i] = 0 \/ Named(s, i, n) # {}
                     \/ Cardinality(L) = F[1].len /\ \A e \in L : e[1] <= i
  <2>1. \A i \in Pos : i \in Stops(s, n) <=>
          \/ DirBlk(s, i) = 0 \/ Named(s, i, n) # {} \/ Cardinality(upto(i)) = F[1].len
    BY <1>1 DEF Stops
  <2>2. Stops(s, n) \subseteq Pos
    BY DEF Stops
  <2> HIDE DEF upto, L
  <2> QED
    BY <1>1, <1>4, <2>1, <2>2
<1>6. Stops(s, n) \in SUBSET Nat
  BY <1>5, Ranges
<1>7. \A e \in L : e[1] \in Pos /\ e[2] \in Item /\ e = <<e[1], e[2]>> /\ F[1].blk[e[1]] # 0
  BY <1>2 DEF Listed
<1>8. \A i \in Pos : Named(s, i, n) \in SUBSET Item /\
        \A j \in Item : j \in Named(s, i, n) <=> <<i, j>> \in L /\ Entry(F, D, <<i, j>>).name = n
  <2>1. SUFFICES ASSUME NEW i \in Pos
                 PROVE  Named(s, i, n) \in SUBSET Item /\
        \A j \in Item : j \in Named(s, i, n) <=> <<i, j>> \in L /\ Entry(F, D, <<i, j>>).name = n
    OBVIOUS
  <2>2. /\ \A m : Named(s, i, m) \in SUBSET Item
        /\ \A m : \A j \in Item :
             j \in Named(s, i, m) <=> <<i, j>> \in Listed(F, D) /\ Entry(F, D, <<i, j>>).name = m
    BY <2>1, DirSees
  <2> QED
    BY <2>2
<1> HIDE DEF L, upto
<1>9. CASE \E e \in L : Entry(F, D, e).name = n
  <2>1. PICK e \in L : Entry(F, D, e).name = n
    BY <1>9
  <2>2. \A g \in L : Entry(F, D, g).name = n => g = e
    BY <2>1 DEF Directory, L
  <2>3. \A i \in Pos : Named(s, i, n) = IF i = e[1] THEN {e[2]} ELSE {}
    <3>1. SUFFICES ASSUME NEW i \in Pos PROVE Named(s, i, n) = IF i = e[1] THEN {e[2]} ELSE {}
      OBVIOUS
    <3>2. \A j \in Item : j \in Named(s, i, n) <=> <<i, j>> = e
      BY <1>8, <2>1, <2>2, <3>1
    <3>3. \A j \in Item : <<i, j>> = e <=> i = e[1] /\ j = e[2]
      BY <1>7, <2>1
    <3> QED
      BY <1>7, <1>8, <2>1, <3>1, <3>2, <3>3
  <2>4. e[1] \in Stops(s, n)
    BY <1>5, <1>7, <2>1, <2>3
  <2>5. \A i \in Stops(s, n) : e[1] <= i
    <3>1. SUFFICES ASSUME NEW i \in Stops(s, n), ~(e[1] <= i) PROVE FALSE
      OBVIOUS
    <3>2. i \in Pos /\ i < e[1] /\ e[1] \in Pos /\ i \in Nat /\ e[1] \in Nat
      BY <1>5, <1>7, <2>1, <3>1, Ranges
    <3>3. F[1].blk[i] # 0
      BY <1>7, <2>1, <3>2 DEF Directory
    <3> QED
      BY <1>5, <2>1, <2>3, <3>1, <3>2, <3>3
  <2>6. Least(Stops(s, n)) = e[1]
    BY <1>6, <2>4, <2>5, LeastOf
  <2>7. Least(Named(s, e[1], n)) = e[2]
    <3>1. Named(s, e[1], n) = {e[2]} /\ e[2] \in Nat
      BY <1>7, <2>1, <2>3, Ranges
    <3>2. Named(s, e[1], n) \in SUBSET Nat /\ \A m \in Named(s, e[1], n) : e[2] <= m
      BY <3>1
    <3> QED
      BY <3>1, <3>2, LeastOf
  <2>8. Fd(s, 1).len # 0
    <3>1. Cardinality(L) # 0
      BY <1>2, <2>1, FS_EmptySet
    <3> QED
      BY <1>1, <1>2, <3>1
  <2>9. sf_root_find_file(s, n) = Entry(F, D, e).fd
    <3>1. DirBlk(s, e[1]) # 0 /\ Named(s, e[1], n) # {}
      BY <1>1, <1>7, <2>1, <2>3
    <3>2. sf_root_find_file(s, n) = DirOf(s.disk[DirBlk(s, e[1])])[e[2]].fd
      BY <2>4, <2>6, <2>7, <2>8, <3>1 DEF sf_root_find_file
    <3> QED
      BY <1>7, <2>1, <3>1, <3>2, DirSees
  <2> QED
    BY <2>1, <2>6, <2>7, <2>9 DEF FoundAt, L
<1>10. CASE \A e \in L : Entry(F, D, e).name # n
  <2>1. \A i \in Pos : Named(s, i, n) = {}
    BY <1>8, <1>10
  <2>2. SUFFICES ASSUME Fd(s, 1).len # 0, Stops(s, n) # {}, Cardinality(L) = F[1].len
                 PROVE  DirBlk(s, Least(Stops(s, n))) # 0
    <3>1. CASE Fd(s, 1).len = 0 \/ Stops(s, n) = {}
      BY <1>10, <3>1 DEF sf_root_find_file, L
    <3>2. CASE ~(Fd(s, 1).len = 0 \/ Stops(s, n) = {})
      <4>1. Least(Stops(s, n)) \in Pos
        BY <1>5, <1>6, <3>2, LeastIs
      <4>2. Named(s, Least(Stops(s, n)), n) = {}
        BY <2>1, <4>1
      <4>3. CASE DirBlk(s, Least(Stops(s, n))) # 0
        BY <1>10, <3>2, <4>2, <4>3 DEF sf_root_find_file, L
      <4>4. CASE DirBlk(s, Least(Stops(s, n))) = 0
        <5>1. Cardinality(L) # F[1].len
          BY <2>2, <3>2, <4>4
        <5>2. \E k \in InUse(F) : ~HasItem(F, D, k)
          BY <1>2, <5>1
        <5>3. sf_root_find_file(s, n) = E_UNKNOWN
          BY <3>2, <4>2, <4>4 DEF sf_root_find_file
        <5> QED
          BY <1>10, <5>2, <5>3 DEF L
      <4> QED
        BY <4>3, <4>4
    <3> QED
      BY <3>1, <3>2
  <2>3. PICK i \in Pos : /\ i = Least(Stops(s, n)) /\ i \in Stops(s, n)
                         /\ \A h \in Stops(s, n) : i <= h
    BY <1>5, <1>6, <2>2, LeastIs
  <2>4. SUFFICES ASSUME F[1].blk[i] = 0
                 PROVE  FALSE
    BY <1>1, <2>3
  <2>5. \A e \in L : e[1] < i
    <3>1. SUFFICES ASSUME NEW e \in L, ~(e[1] < i) PROVE FALSE
      OBVIOUS
    <3>2. e[1] \in Pos /\ F[1].blk[e[1]] # 0 /\ e[1] \in Nat /\ i \in Nat
      BY <1>7, <3>1, Ranges
    <3>3. e[1] = i \/ i < e[1]
      BY <3>1, <3>2
    <3> QED
      BY <2>3, <2>4, <3>2, <3>3 DEF Directory
  <2>6. L # {}
    BY <1>1, <1>2, <2>2, FS_EmptySet
  <2>7. i \in Nat /\ i - 1 \in Pos /\ \A e \in L : e[1] <= i - 1
    <3>1. PICK e \in L : TRUE
      BY <2>6
    <3>2. \A g \in L : g[1] \in Nat /\ g[1] < i
      BY <1>7, <2>5, Ranges
    <3>3. i \in Nat /\ i >= 1 /\ i <= FBLK_CNT - 1
      BY <2>3, <3>1, <3>2, Sizes DEF Pos
    <3> QED
      BY <3>2, <3>3, Sizes DEF Pos
  <2>8. i - 1 \in Stops(s, n)
    BY <1>5, <2>2, <2>7
  <2> QED
    BY <2>3, <2>7, <2>8
<1> QED
  BY <1>9, <1>10

(* What the search returns: a descriptor if and only if the name is there. *)
LEMMA Found ==
    ASSUME NEW s, NEW F, NEW D, NEW B, Views(s, F, D, B), Sound(F, D, B), NEW n
    PROVE  /\ sf_root_find_file(s, n) \in Int
           /\ ~(sf_root_find_file(s, n) > 0) <=> \A e \in Listed(F, D) : Entry(F, D, e).name # n
           /\ sf_root_find_file(s, n) > 0 =>
                /\ sf_root_find_file(s, n) \in InUse(F)
                /\ \E e \in Listed(F, D) : FoundAt(s, F, D, n, e)
           /\ sf_root_find_file(s, n) = E_UNKNOWN => \E k \in InUse(F) : ~HasItem(F, D, k)
<1>1. BlocksOwned(F, D, B) /\ Directory(F, D)
  BY DEF Sound
<1>2. \A e \in Listed(F, D) : Entry(F, D, e).fd \in InUse(F)
  BY <1>1 DEF Directory
<1>3. \A k \in InUse(F) : k \in Int /\ k > 0
  BY Sizes DEF InUse
<1>4. CASE \E e \in Listed(F, D) : FoundAt(s, F, D, n, e)
  BY <1>2, <1>3, <1>4 DEF FoundAt, E_UNKNOWN
<1>5. CASE /\ \A e \in Listed(F, D) : Entry(F, D, e).name # n
           /\ \/ sf_root_find_file(s, n) = 0
              \/ /\ sf_root_find_file(s, n) = E_UNKNOWN
                 /\ \E k \in InUse(F) : ~HasItem(F, D, k)
  BY <1>5 DEF E_UNKNOWN
<1> QED
  BY <1>1, <1>4, <1>5, Search

-----------------------------------------------------------------------------
(* What keeps the descriptors and the directory in order.                  *)

LEMMA ItemPlace ==
    ASSUME NEW F, NEW D, NEW e \in Listed(F, D)
    PROVE  e[1] \in Pos /\ e[2] \in Item /\ e = <<e[1], e[2]>> /\ F[1].blk[e[1]] # 0
BY DEF Listed

LEMMA EntryAt ==
    ASSUME NEW F, NEW D, NEW i, NEW j
    PROVE  Entry(F, D, <<i, j>>) = DirOf(D[F[1].blk[i]])[j]
BY DEF Entry

LEMMA SameDirectory ==
    ASSUME NEW F, NEW D, NEW F2, NEW D2, F2[1] = F[1], InUse(F2) = InUse(F),
           \A i \in Pos : F[1].blk[i] # 0 => D2[F[1].blk[i]] = D[F[1].blk[i]]
    PROVE  /\ Listed(F2, D2) = Listed(F, D)
           /\ \A e \in Listed(F, D) : Entry(F2, D2, e) = Entry(F, D, e)
           /\ Directory(F, D) => Directory(F2, D2)
           /\ \A B, B2 : B \subseteq B2 /\ Complete(F, D, B) => Complete(F2, D2, B2)
<1>1. \A e \in Pos \X Item : F[1].blk[e[1]] # 0 => Entry(F2, D2, e) = Entry(F, D, e)
  BY DEF Entry
<1>2. Listed(F2, D2) = Listed(F, D)
  BY <1>1 DEF Listed
<1>3. \A e \in Listed(F, D) : Entry(F2, D2, e) = Entry(F, D, e)
  BY <1>1 DEF Listed
<1>4. ASSUME Directory(F, D) PROVE Directory(F2, D2)
  BY <1>2, <1>3, <1>4 DEF Directory
<1>5. ASSUME NEW B, NEW B2, B \subseteq B2, Complete(F, D, B)
      PROVE  Complete(F2, D2, B2)
  <2>1. \A k : HasItem(F, D, k) => HasItem(F2, D2, k)
    BY <1>2, <1>3 DEF HasItem
  <2>2. NoRoom(F, B) => NoRoom(F2, B2)
    BY <1>5 DEF NoRoom
  <2> QED
    BY <1>5, <2>1, <2>2 DEF Complete
<1> QED
  BY <1>2, <1>3, <1>4, <1>5

(* The blocks of the others are not those of descriptor k.                 *)
LEMMA Apart ==
    ASSUME NEW F, NEW D, NEW B, Sound(F, D, B), NEW k \in Owners(F), NEW l \in Owners(F), k # l,
           NEW i \in Pos, NEW j \in Pos, F[k].blk[i] # 0
    PROVE  F[l].blk[j] # F[k].blk[i]
BY DEF Sound, BlocksOwned

LEMMA OwnedBlock ==
    ASSUME NEW F, NEW D, NEW B, Sound(F, D, B), NEW k \in Owners(F), NEW i \in Pos
    PROVE  /\ k \in Fds /\ F[k] \in FdRec /\ F[k].blk \in [Pos -> Blk] /\ F[k].blk[i] \in Blk
           /\ F[k].blk[i] # 0 => F[k].blk[i] \in B /\ F[k].blk[i] \in DataBlk
<1>1. k \in Fds
  BY Ranges DEF Owners, InUse
<1>2. F[k] \in FdRec
  BY <1>1 DEF Sound, Typed
<1>3. F[k].blk[i] \in B \cup {0} /\ B \subseteq DataBlk
  BY DEF Sound, BlocksOwned, Typed
<1> QED
  BY <1>1, <1>2, <1>3 DEF FdRec

(* Data is written to a block of descriptor k.                             *)
LEMMA NewData ==
    ASSUME NEW F, NEW D, NEW B, Sound(F, D, B), NEW k \in InUse(F), NEW i \in Pos,
           F[k].blk[i] # 0, NEW x \in Block
    PROVE  LET D2 == [D EXCEPT ![F[k].blk[i]] = x]
           IN  /\ Sound(F, D2, B) /\ Listed(F, D2) = Listed(F, D)
               /\ \A e \in Listed(F, D) : Entry(F, D2, e) = Entry(F, D, e)
<1> DEFINE b == F[k].blk[i]
           D2 == [D EXCEPT ![b] = x]
<1>1. k \in Owners(F) /\ 1 \in Owners(F) /\ k # 1
  BY DEF InUse, Owners
<1>2. b \in B /\ b \in DataBlk
  BY <1>1, OwnedBlock
<1>3. \A j \in Pos : F[1].blk[j] # b
  BY <1>1, Apart
<1> HIDE DEF b
<1>4. Typed(F, D2, B)
  BY <1>2 DEF Sound, Typed
<1>5. \A c \in DataBlk : c # b => D2[c] = D[c]
  BY DEF Sound, Typed
<1>6. \A j \in Pos : F[1].blk[j] # 0 => D2[F[1].blk[j]] = D[F[1].blk[j]]
  BY <1>1, <1>3, <1>5, OwnedBlock
<1> HIDE DEF D2
<1>7. /\ Directory(F, D2) /\ Complete(F, D2, B) /\ Listed(F, D2) = Listed(F, D)
      /\ \A e \in Listed(F, D) : Entry(F, D2, e) = Entry(F, D, e)
  BY <1>6, SameDirectory DEF Sound
<1>8. BlocksOwned(F, D2, B)
  BY <1>2, <1>5 DEF Sound, BlocksOwned
<1> QED
  BY <1>4, <1>7, <1>8 DEF Sound, D2, b

(* Descriptor k is given a length it has the blocks for.                   *)
LEMMA NewLength ==
    ASSUME NEW F, NEW D, NEW B, Sound(F, D, B), NEW k \in InUse(F),
           NEW len \in 0 .. MAX_FILE_LEN, Covers(F[k], len),
           NEW F2 \in [Fds -> FdRec], \A l \in Fds \ {k} : F2[l] = F[l],
           F2[k].tag = F[k].tag, F2[k].blk = F[k].blk, F2[k].len = len
    PROVE  /\ Sound(F2, D, B) /\ InUse(F2) = InUse(F) /\ Listed(F2, D) = Listed(F, D)
           /\ \A e \in Listed(F, D) : Entry(F2, D, e) = Entry(F, D, e)
<1>1. k \in Fds /\ F[k] \in FdRec /\ k # 1 /\ 1 \in Fds
  <2>1. k \in 2 .. MAX_FD
    BY DEF InUse
  <2> QED
    BY <2>1, Ranges DEF Sound, Typed
<1>3. Typed(F2, D, B)
  BY DEF Sound, Typed
<1>4. /\ F2[1] = F[1]
      /\ \A l \in Fds : F2[l].blk = F[l].blk /\ F2[l].tag = F[l].tag
      /\ \A l \in Fds : l # k => F2[l] = F[l]
  BY <1>1
<1>5. InUse(F2) = InUse(F) /\ Owners(F2) = Owners(F) /\ Owners(F) \subseteq Fds
  BY <1>4, Ranges DEF InUse, Owners
<1>6. /\ Directory(F2, D) /\ Complete(F2, D, B) /\ Listed(F2, D) = Listed(F, D)
      /\ \A e \in Listed(F, D) : Entry(F2, D, e) = Entry(F, D, e)
  BY <1>4, <1>5, SameDirectory DEF Sound
<1>7. BlocksOwned(F2, D, B)
  <2>1. BlocksOwned(F, D, B)
    BY DEF Sound
  <2> QED
    BY <1>4, <1>5, <2>1 DEF BlocksOwned
<1>8. \A l \in InUse(F2) : Covers(F2[l], F2[l].len)
  <2>1. SUFFICES ASSUME NEW l \in InUse(F) PROVE Covers(F2[l], F2[l].len)
    BY <1>5
  <2>2. l \in Fds
    BY Ranges DEF InUse
  <2>3. CASE l = k
    BY <2>2, <2>3 DEF Covers
  <2>4. CASE l # k
    BY <1>4, <2>2, <2>4 DEF Sound
  <2> QED
    BY <2>3, <2>4
<1> QED
  BY <1>3, <1>5, <1>6, <1>7, <1>8 DEF Sound

(* Descriptor k is given blocks that are free.                             *)
OnlyBlocks(F, D, B, F2, B2) ==
    /\ Sound(F2, D, B2) /\ InUse(F2) = InUse(F) /\ Listed(F2, D) = Listed(F, D)
    /\ \A e \in Listed(F, D) : Entry(F2, D, e) = Entry(F, D, e)

LEMMA NewBlocksOf ==
    ASSUME NEW F, NEW D, NEW B, Sound(F, D, B), NEW k \in InUse(F), NEW blk \in [Pos -> Blk],
           \A i \in Pos : \/ blk[i] = F[k].blk[i]
                          \/ F[k].blk[i] = 0 /\ blk[i] \in DataBlk \ B,
           \A i, j \in Pos : blk[i] = blk[j] /\ blk[i] \in DataBlk \ B => i = j
    PROVE  LET F2 == [F EXCEPT ![k] = [F[k] EXCEPT !.blk = blk]]
               B2 == B \cup ({blk[i] : i \in Pos} \ {0})
           IN  OnlyBlocks(F, D, B, F2, B2)
<1> DEFINE F2 == [F EXCEPT ![k] = [F[k] EXCEPT !.blk = blk]]
           B2 == B \cup ({blk[i] : i \in Pos} \ {0})
<1>1. k \in Fds /\ F[k] \in FdRec /\ k # 1 /\ 1 \in Fds /\ k \in Owners(F)
  <2>1. k \in 2 .. MAX_FD
    BY DEF InUse
  <2> QED
    BY <2>1, Ranges DEF Sound, Typed, Owners
<1>2. [F[k] EXCEPT !.blk = blk] \in FdRec
  BY <1>1 DEF FdRec
<1>3. \A i \in Pos : F[k].blk[i] \in B \cup {0}
  BY <1>1 DEF Sound, BlocksOwned
<1>4. B \subseteq DataBlk /\ 0 \notin DataBlk
  BY Ranges DEF Sound, Typed
<1>5. B2 \subseteq DataBlk /\ B \subseteq B2
  BY <1>3, <1>4
<1>6. Typed(F2, D, B2)
  BY <1>1, <1>2, <1>5 DEF Sound, Typed
<1>7. /\ F2[1] = F[1]
      /\ \A l \in Fds : F2[l].tag = F[l].tag /\ F2[l].len = F[l].len
      /\ \A l \in Fds : l # k => F2[l] = F[l]
      /\ F2[k].blk = blk
  BY <1>1 DEF Sound, Typed, FdRec
<1>8. \A i \in Pos : blk[i] # 0 => blk[i] \in B2
  OBVIOUS
<1> HIDE DEF F2, B2
<1>9. InUse(F2) = InUse(F) /\ Owners(F2) = Owners(F) /\ Owners(F) \subseteq Fds
  BY <1>7, Ranges DEF InUse, Owners
<1>10. /\ Directory(F2, D) /\ Complete(F2, D, B2) /\ Listed(F2, D) = Listed(F, D)
       /\ \A e \in Listed(F, D) : Entry(F2, D, e) = Entry(F, D, e)
  BY <1>5, <1>7, <1>9, SameDirectory DEF Sound
<1>11. BlocksOwned(F2, D, B2)
  <2>1. ASSUME NEW l \in Owners(F), NEW i \in Pos
        PROVE  F2[l].blk[i] \in B2 \cup {0}
    <3>1. F[l].blk[i] \in B \cup {0}
      BY DEF Sound, BlocksOwned
    <3> QED
      BY <1>5, <1>7, <1>8, <1>9, <3>1
  <2>2. ASSUME NEW l \in Owners(F), NEW m \in Owners(F), NEW i \in Pos, NEW j \in Pos,
               F2[l].blk[i] = F2[m].blk[j], F2[l].blk[i] # 0
        PROVE  l = m /\ i = j
    <3>1. \A a, c \in Owners(F), p, q \in Pos :
            F[a].blk[p] = F[c].blk[q] /\ F[a].blk[p] # 0 => a = c /\ p = q
      BY DEF Sound, BlocksOwned
    <3>2. \A a \in Owners(F), p \in Pos : F[a].blk[p] \in B \cup {0}
      BY DEF Sound, BlocksOwned
    <3>3. \A a \in Owners(F), p \in Pos :
            \/ F2[a].blk[p] = F[a].blk[p]
            \/ a = k /\ F2[a].blk[p] = blk[p] /\ blk[p] \in DataBlk \ B
      BY <1>7, <1>9
    <3>4. CASE F2[l].blk[i] = F[l].blk[i] /\ F2[m].blk[j] = F[m].blk[j]
      <4>1. F[l].blk[i] = F[m].blk[j] /\ F[l].blk[i] # 0
        BY <2>2, <3>4
      <4> QED
        BY <3>1, <4>1
    <3>5. CASE F2[l].blk[i] # F[l].blk[i]
      <4>1. l = k /\ F2[l].blk[i] = blk[i] /\ blk[i] \in DataBlk \ B
        BY <3>3, <3>5
      <4>2. F2[m].blk[j] # F[m].blk[j]
        BY <1>4, <2>2, <3>2, <4>1
      <4>3. m = k /\ F2[m].blk[j] = blk[j]
        BY <3>3, <4>2
      <4> QED
        BY <2>2, <4>1, <4>3
    <3>6. CASE F2[m].blk[j] # F[m].blk[j]
      <4>1. m = k /\ F2[m].blk[j] = blk[j] /\ blk[j] \in DataBlk \ B
        BY <3>3, <3>6
      <4>2. F2[l].blk[i] # F[l].blk[i]
        BY <1>4, <2>2, <3>2, <4>1
      <4>3. l = k /\ F2[l].blk[i] = blk[i]
        BY <3>3, <4>2
      <4> QED
        BY <2>2, <4>1, <4>3
    <3> QED
      BY <3>4, <3>5, <3>6
  <2>3. \A c \in DataBlk \ B2 : D[c] = Zero
    BY <1>5 DEF Sound, BlocksOwned
  <2> QED
    BY <1>9, <2>1, <2>2, <2>3 DEF BlocksOwned
<1>12. \A l \in InUse(F2) : Covers(F2[l], F2[l].len)
  <2>1. SUFFICES ASSUME NEW l \in InUse(F), NEW i \in Pos, i * BLOCK_SIZE < F2[l].len
                 PROVE  F2[l].blk[i] # 0
    BY <1>9 DEF Covers
  <2>2. l \in Fds
    BY Ranges DEF InUse
  <2>3. F[l].blk[i] # 0
    BY <1>7, <2>1, <2>2 DEF Sound, Covers
  <2> QED
    BY <1>4, <1>7, <2>2, <2>3
<1> QED
  BY <1>6, <1>9, <1>10, <1>11, <1>12 DEF OnlyBlocks, Sound, F2, B2

LEMMA PairOf ==
    ASSUME NEW g \in Pos \X Item
    PROVE  g[1] \in Pos /\ g[2] \in Item /\ g = <<g[1], g[2]>>
OBVIOUS

LEMMA PairsOf ==
    ASSUME NEW F, NEW D, NEW X \in SUBSET (Pos \X Item),
           \A h \in Pos, m \in Item : <<h, m>> \in Listed(F, D) <=> <<h, m>> \in X
    PROVE  Listed(F, D) = X
<1>1. \A g \in Pos \X Item : g \in Listed(F, D) <=> g \in X
  <2>1. SUFFICES ASSUME NEW g \in Pos \X Item PROVE g \in Listed(F, D) <=> g \in X
    OBVIOUS
  <2>2. PICK h \in Pos, m \in Item : g = <<h, m>>
    BY PairOf
  <2> QED
    BY <2>2
<1>2. Listed(F, D) \in SUBSET (Pos \X Item)
  BY DEF Listed
<1> QED
  BY <1>1, <1>2

LEMMA OneMore ==
    ASSUME NEW S, NEW x, IsFiniteSet(S), x \notin S
    PROVE  Cardinality(S \cup {x}) = Cardinality(S) + 1
BY FS_AddElement

LEMMA AnyFd ==
    ASSUME NEW k \in 2 .. MAX_FD
    PROVE  k \in Fds /\ k # 1 /\ k # 0 /\ k \in Nat /\ 1 \in Fds
BY Sizes, Ranges

(* An item is taken out of the directory and its descriptor is freed.      *)
LEMMA DropItem ==
    ASSUME NEW F, NEW D, NEW B, Sound(F, D, B), NEW i \in Pos, NEW j \in Item,
           <<i, j>> \in Listed(F, D), NEW k, k = Entry(F, D, <<i, j>>).fd,
           NEW b, b = F[1].blk[i],
           NEW F2, NEW D2, Typed(F2, D2, B),
           F2[1].blk = F[1].blk, F2[1].len = F[1].len - 1, F2[k].tag = 0,
           \A l \in Fds \ {1, k} : F2[l] = F[l],
           \A c \in DataBlk \ {b} : D2[c] = D[c],
           DirOf(D2[b])[j].tag = 0,
           \A m \in Item \ {j} : DirOf(D2[b])[m] = DirOf(D[b])[m]
    PROVE  /\ Sound(F2, D2, B) /\ InUse(F2) = InUse(F) \ {k}
           /\ Listed(F2, D2) = Listed(F, D) \ {<<i, j>>}
           /\ \A g \in Listed(F2, D2) : Entry(F2, D2, g) = Entry(F, D, g)
<1>1. b # 0 /\ Entry(F, D, <<i, j>>).tag = 1
  BY DEF Listed
<1>2. k \in InUse(F) /\ k \in Fds /\ k # 1 /\ 1 \in Fds
  <2>1. k \in InUse(F)
    BY DEF Sound, Directory
  <2>2. k \in 2 .. MAX_FD
    BY <2>1 DEF InUse
  <2> QED
    BY <2>1, <2>2, AnyFd
<1>3. 1 \in Owners(F) /\ b \in B /\ b \in DataBlk
  <2>1. 1 \in Owners(F)
    BY DEF Owners
  <2> QED
    BY <1>1, <2>1, OwnedBlock
<1>8. InUse(F2) = InUse(F) \ {k} /\ Owners(F2) = Owners(F) \ {k} /\ Owners(F) \subseteq Fds
  <2>1. \A l \in 2 .. MAX_FD : l \in Fds /\ l # 1
    BY AnyFd
  <2>2. Owners(F) \subseteq Fds
    BY <1>2, <2>1 DEF InUse, Owners
  <2>3. InUse(F2) = InUse(F) \ {k}
    BY <1>2, <2>1 DEF InUse
  <2> QED
    BY <1>2, <2>2, <2>3 DEF Owners
<1>9. \A l \in Owners(F2) : F2[l].blk = F[l].blk
  BY <1>8
<1>10. BlocksOwned(F2, D2, B)
  <2>1. BlocksOwned(F, D, B)
    BY DEF Sound
  <2>2. \A l \in Owners(F2), q \in Pos : F2[l].blk[q] \in B \cup {0}
    BY <1>8, <1>9, <2>1 DEF BlocksOwned
  <2>3. ASSUME NEW l \in Owners(F2), NEW m \in Owners(F2), NEW h \in Pos, NEW g \in Pos,
               F2[l].blk[h] = F2[m].blk[g], F2[l].blk[h] # 0
        PROVE  l = m /\ h = g
    <3>1. F[l].blk[h] = F[m].blk[g] /\ F[l].blk[h] # 0 /\ l \in Owners(F) /\ m \in Owners(F)
      BY <1>8, <1>9, <2>3
    <3> QED
      BY <2>1, <3>1 DEF BlocksOwned
  <2>4. \A c \in DataBlk \ B : D2[c] = Zero
    BY <1>3, <2>1 DEF BlocksOwned
  <2> QED
    BY <2>2, <2>3, <2>4 DEF BlocksOwned
<1>11. \A h \in Pos : h # i => F[1].blk[h] # b
  BY <1>1, <1>3 DEF Sound, BlocksOwned
<1>12. ASSUME NEW h \in Pos, NEW m \in Item, F[1].blk[h] # 0
       PROVE  IF h = i /\ m = j THEN Entry(F2, D2, <<h, m>>).tag = 0
                                ELSE Entry(F2, D2, <<h, m>>) = Entry(F, D, <<h, m>>)
  <2>1. CASE h = i
    <3>1. F2[1].blk[h] = b /\ F[1].blk[h] = b
      BY <2>1
    <3>2. /\ Entry(F2, D2, <<h, m>>) = DirOf(D2[b])[m]
          /\ Entry(F, D, <<h, m>>) = DirOf(D[b])[m]
      BY <3>1, EntryAt
    <3> QED
      BY <2>1, <3>2
  <2>2. CASE h # i
    <3>1. F[1].blk[h] # b /\ F[1].blk[h] \in DataBlk
      BY <1>3, <1>11, <1>12, <2>2, OwnedBlock
    <3>2. F2[1].blk[h] = F[1].blk[h] /\ D2[F[1].blk[h]] = D[F[1].blk[h]]
      BY <3>1
    <3>3. Entry(F2, D2, <<h, m>>) = Entry(F, D, <<h, m>>)
      BY <3>2, EntryAt
    <3> QED
      BY <2>2, <3>3
  <2> QED
    BY <2>1, <2>2
<1>13. Listed(F2, D2) = Listed(F, D) \ {<<i, j>>}
  <2> DEFINE X == Listed(F, D) \ {<<i, j>>}
  <2>1. ASSUME NEW h \in Pos, NEW m \in Item
        PROVE  <<h, m>> \in Listed(F2, D2) <=> <<h, m>> \in X
    <3>1. CASE F[1].blk[h] = 0
      BY <3>1 DEF Listed
    <3>2. CASE F[1].blk[h] # 0
      <4>1. <<h, m>> = <<i, j>> <=> h = i /\ m = j
        OBVIOUS
      <4>2. CASE h = i /\ m = j
        BY <1>12, <3>2, <4>1, <4>2 DEF Listed
      <4>3. CASE ~(h = i /\ m = j)
        <5>1. Entry(F2, D2, <<h, m>>) = Entry(F, D, <<h, m>>)
          BY <1>12, <3>2, <4>3
        <5> QED
          BY <3>2, <4>1, <4>3, <5>1 DEF Listed
      <4> QED
        BY <4>2, <4>3
    <3> QED
      BY <3>1, <3>2
  <2>2. X \in SUBSET (Pos \X Item)
    BY DEF Listed
  <2> HIDE DEF X
  <2>3. \A Y \in SUBSET (Pos \X Item) :
          (\A h \in Pos, m \in Item : <<h, m>> \in Listed(F2, D2) <=> <<h, m>> \in Y)
            => Listed(F2, D2) = Y
    BY PairsOf
  <2>4. Listed(F2, D2) = X
    BY <2>1, <2>2, <2>3
  <2> QED
    BY <2>4 DEF X
<1>14. \A g \in Listed(F2, D2) : Entry(F2, D2, g) = Entry(F, D, g)
  <2>1. SUFFICES ASSUME NEW g \in Listed(F2, D2) PROVE Entry(F2, D2, g) = Entry(F, D, g)
    OBVIOUS
  <2>2. PICK h \in Pos, m \in Item : g = <<h, m>>
    BY ItemPlace
  <2>3. F[1].blk[h] # 0 /\ <<h, m>> # <<i, j>>
    BY <1>13, <2>1, <2>2 DEF Listed
  <2> QED
    BY <1>12, <2>2, <2>3
<1>15. Directory(F2, D2)
  <2>1. Directory(F, D)
    BY DEF Sound
  <2>2. \A h, m \in Pos : h < m /\ F2[1].blk[h] = 0 => F2[1].blk[m] = 0
    BY <2>1 DEF Directory
  <2>3. ASSUME NEW g \in Listed(F2, D2)
        PROVE  Entry(F2, D2, g).name \in Name /\ Entry(F2, D2, g).fd \in InUse(F2)
    <3>1. g \in Listed(F, D) /\ g # <<i, j>> /\ Entry(F2, D2, g) = Entry(F, D, g)
      BY <1>13, <1>14
    <3>2. Entry(F, D, g).fd # k
      BY <2>1, <3>1 DEF Directory
    <3> QED
      BY <1>8, <2>1, <3>1, <3>2 DEF Directory
  <2>4. ASSUME NEW g \in Listed(F2, D2), NEW h \in Listed(F2, D2),
               \/ Entry(F2, D2, g).name = Entry(F2, D2, h).name
               \/ Entry(F2, D2, g).fd = Entry(F2, D2, h).fd
        PROVE  g = h
    <3>1. g \in Listed(F, D) /\ h \in Listed(F, D)
      BY <1>13
    <3>2. Entry(F2, D2, g) = Entry(F, D, g) /\ Entry(F2, D2, h) = Entry(F, D, h)
      BY <1>14
    <3> QED
      BY <2>1, <2>4, <3>1, <3>2 DEF Directory
  <2>5. F2[1].len = Cardinality(InUse(F2))
    <3>1. InUse(F) \in SUBSET (2 .. MAX_FD)
      BY DEF InUse
    <3>2. IsFiniteSet(InUse(F))
      BY <3>1, InUseFinite
    <3>3. Cardinality(InUse(F) \ {k}) = Cardinality(InUse(F)) - 1
      BY <1>2, <3>2, FS_RemoveElement
    <3> QED
      BY <1>8, <2>1, <3>3 DEF Directory
  <2> QED
    BY <2>2, <2>3, <2>4, <2>5 DEF Directory
<1>17. Complete(F2, D2, B)
  <2>1. SUFFICES ASSUME NEW l \in InUse(F2) PROVE HasItem(F2, D2, l) \/ NoRoom(F2, B)
    BY DEF Complete
  <2>2. l \in InUse(F) /\ l # k
    BY <1>8
  <2>3. CASE HasItem(F, D, l)
    <3>1. PICK g \in Listed(F, D) : Entry(F, D, g).fd = l
      BY <2>3 DEF HasItem
    <3> QED
      BY <1>13, <1>14, <2>2, <3>1 DEF HasItem
  <2>4. CASE NoRoom(F, B)
    BY <2>4 DEF NoRoom
  <2> QED
    BY <2>2, <2>3, <2>4 DEF Sound, Complete
<1>16. \A l \in InUse(F2) : Covers(F2[l], F2[l].len)
  <2>1. \A l \in InUse(F2) : l \in InUse(F) /\ l \in Fds \ {1, k}
    BY <1>8, AnyFd DEF InUse
  <2> QED
    BY <2>1 DEF Sound
<1> QED
  BY <1>8, <1>10, <1>13, <1>14, <1>15, <1>16, <1>17 DEF Sound

(* An item is put into the directory, in one of its blocks or a new one,   *)
(* and names a descriptor that was free.                                   *)
PutBy(F, D, B, F2, D2, i, j, b, n, k, item) ==
    /\ k \in Fds /\ k # 1 /\ F[k].tag = 0
    /\ \/ F[1].blk[i] = b /\ <<i, j>> \notin Listed(F, D)
       \/ F[1].blk[i] = 0 /\ b \notin B /\ \A h \in 0 .. i - 1 : F[1].blk[h] # 0
    /\ \A g \in Listed(F, D) : Entry(F, D, g).name # n
    /\ Typed(F2, D2, B \cup {b})
    /\ F2[1].blk = [F[1].blk EXCEPT ![i] = b] /\ F2[1].len = F[1].len + 1
    /\ F2[k] = [FreeFd EXCEPT !.tag = 1]
    /\ \A l \in Fds \ {1, k} : F2[l] = F[l]
    /\ \A c \in DataBlk \ {b} : D2[c] = D[c]
    /\ item = [tag |-> 1, name |-> n, fd |-> k] /\ DirOf(D2[b])[j] = item
    /\ \A m \in Item \ {j} : DirOf(D2[b])[m] = DirOf(D[b])[m]

PutGives(F, D, B, F2, D2, i, j, b, k, item) ==
    /\ Sound(F2, D2, B \cup {b}) /\ InUse(F2) = InUse(F) \cup {k}
    /\ Listed(F2, D2) = Listed(F, D) \cup {<<i, j>>} /\ <<i, j>> \notin Listed(F, D)
    /\ Entry(F2, D2, <<i, j>>) = item
    /\ \A g \in Listed(F, D) : Entry(F2, D2, g) = Entry(F, D, g)

LEMMA PutItem ==
    ASSUME NEW F, NEW D, NEW B, Sound(F, D, B), NEW F2, NEW D2, NEW i \in Pos, NEW j \in Item,
           NEW b \in DataBlk, NEW n \in Name, NEW k, NEW item,
           PutBy(F, D, B, F2, D2, i, j, b, n, k, item)
    PROVE  PutGives(F, D, B, F2, D2, i, j, b, k, item)
<1> DEFINE B2 == B \cup {b}
<1>0. /\ k \in Fds /\ k # 1 /\ F[k].tag = 0
      /\ \/ F[1].blk[i] = b /\ <<i, j>> \notin Listed(F, D)
         \/ F[1].blk[i] = 0 /\ b \notin B /\ \A h \in 0 .. i - 1 : F[1].blk[h] # 0
      /\ \A g \in Listed(F, D) : Entry(F, D, g).name # n
      /\ Typed(F2, D2, B \cup {b})
      /\ F2[1].blk = [F[1].blk EXCEPT ![i] = b] /\ F2[1].len = F[1].len + 1
      /\ F2[k] = [FreeFd EXCEPT !.tag = 1]
      /\ \A l \in Fds \ {1, k} : F2[l] = F[l]
      /\ \A c \in DataBlk \ {b} : D2[c] = D[c]
      /\ item = [tag |-> 1, name |-> n, fd |-> k] /\ DirOf(D2[b])[j] = item
      /\ \A m \in Item \ {j} : DirOf(D2[b])[m] = DirOf(D[b])[m]
  BY DEF PutBy
<1> USE <1>0
<1>1. 1 \in Owners(F) /\ k \notin Owners(F) /\ k \in 2 .. MAX_FD /\ 1 \in Fds
  <2>1. k \in 2 .. MAX_FD
    BY Sizes DEF Fds
  <2> QED
    BY <2>1, Ranges DEF Owners, InUse
<1>2. item.tag = 1 /\ item.name = n /\ item.fd = k
  OBVIOUS
<1>7. InUse(F2) = InUse(F) \cup {k} /\ Owners(F2) = Owners(F) \cup {k} /\ Owners(F) \subseteq Fds
  <2>1. \A l \in 2 .. MAX_FD : l \in Fds /\ l # 1
    BY AnyFd
  <2>2. F2[k].tag = 1
    BY DEF FreeFd
  <2>3. Owners(F) \subseteq Fds
    BY <1>1, <2>1 DEF InUse, Owners
  <2>4. InUse(F2) = InUse(F) \cup {k}
    <3>1. \A l \in 2 .. MAX_FD : F2[l].tag = 1 <=> F[l].tag = 1 \/ l = k
      BY <2>1, <2>2
    <3> QED
      BY <1>1, <3>1 DEF InUse
  <2> QED
    BY <2>3, <2>4 DEF Owners
<1>8. /\ F[1].blk \in [Pos -> Blk] /\ F2[1].blk[i] = b
      /\ \A h \in Pos : h # i => F2[1].blk[h] = F[1].blk[h]
      /\ \A h \in Pos : F2[k].blk[h] = 0
      /\ \A l \in Owners(F) : l # 1 => F2[l] = F[l]
  <2>1. F[1].blk \in [Pos -> Blk]
    BY <1>1, OwnedBlock
  <2>2. \A h \in Pos : F2[k].blk[h] = 0
    BY DEF FreeFd
  <2> QED
    BY <1>1, <1>7, <2>1, <2>2
<1>9. b # 0
  BY Ranges
<1>10. \A l \in Owners(F), h \in Pos : F[l].blk[h] = b => l = 1 /\ h = i
  BY <1>1, <1>9 DEF Sound, BlocksOwned
<1>11. \A l \in Owners(F), h \in Pos :
         F2[l].blk[h] = IF l = 1 /\ h = i THEN b ELSE F[l].blk[h]
  BY <1>1, <1>8
<1>12. BlocksOwned(F2, D2, B2)
  <2>1. BlocksOwned(F, D, B)
    BY DEF Sound
  <2>2. ASSUME NEW l \in Owners(F2), NEW h \in Pos
        PROVE  F2[l].blk[h] \in B2 \cup {0}
    <3>1. CASE l \in Owners(F)
      <4>1. F[l].blk[h] \in B \cup {0}
        BY <2>1, <3>1 DEF BlocksOwned
      <4> QED
        BY <1>11, <3>1, <4>1
    <3>2. CASE l = k
      BY <1>8, <3>2
    <3> QED
      BY <1>7, <3>1, <3>2
  <2>3. ASSUME NEW l \in Owners(F2), NEW m \in Owners(F2), NEW h \in Pos, NEW g \in Pos,
               F2[l].blk[h] = F2[m].blk[g], F2[l].blk[h] # 0
        PROVE  l = m /\ h = g
    <3>1. l \in Owners(F) /\ m \in Owners(F)
      <4>1. F2[l].blk[h] # 0 /\ F2[m].blk[g] # 0
        BY <2>3
      <4>2. l # k
        <5>1. F2[k].blk[h] = 0
          BY <1>8
        <5> QED
          BY <4>1, <5>1
      <4>3. m # k
        <5>1. F2[k].blk[g] = 0
          BY <1>8
        <5> QED
          BY <4>1, <5>1
      <4> QED
        BY <1>7, <4>2, <4>3
    <3>2. CASE F2[l].blk[h] = b
      <4>1. F2[m].blk[g] = b
        BY <2>3, <3>2
      <4>2. l = 1 /\ h = i
        BY <1>10, <1>11, <3>1, <3>2
      <4>3. m = 1 /\ g = i
        BY <1>10, <1>11, <3>1, <4>1
      <4> QED
        BY <4>2, <4>3
    <3>3. CASE F2[l].blk[h] # b
      <4>1. F[l].blk[h] = F[m].blk[g] /\ F[l].blk[h] # 0
        BY <1>11, <2>3, <3>1, <3>3
      <4> QED
        BY <2>1, <3>1, <4>1 DEF BlocksOwned
    <3> QED
      BY <3>2, <3>3
  <2>4. \A c \in DataBlk \ B2 : D2[c] = Zero
    BY <2>1 DEF BlocksOwned
  <2> QED
    BY <2>2, <2>3, <2>4 DEF BlocksOwned
<1>13. F[1].blk[i] = 0 => DirOf(D[b]) = [m \in Item |-> FreeItem]
  <2>1. F[1].blk[i] = 0 => b \notin B
    BY <1>9
  <2> QED
    BY <2>1, ZeroBlock DEF Sound, BlocksOwned
<1>14. <<i, j>> \notin Listed(F, D)
  BY <1>9 DEF Listed
<1>15. ASSUME NEW h \in Pos, NEW m \in Item
       PROVE  /\ <<h, m>> \in Listed(F2, D2) <=> <<h, m>> \in Listed(F, D) \/ <<h, m>> = <<i, j>>
              /\ <<h, m>> \in Listed(F, D) => Entry(F2, D2, <<h, m>>) = Entry(F, D, <<h, m>>)
  <2>1. CASE h # i
    <3>1. F2[1].blk[h] = F[1].blk[h] /\ F[1].blk[h] # b
      BY <1>1, <1>8, <1>10, <2>1
    <3>2. F[1].blk[h] # 0 => F[1].blk[h] \in DataBlk
      BY <1>1, OwnedBlock
    <3>3. F[1].blk[h] # 0 => D2[F[1].blk[h]] = D[F[1].blk[h]]
      BY <1>8, <3>1, <3>2
    <3>4. /\ Entry(F2, D2, <<h, m>>) = DirOf(D2[F2[1].blk[h]])[m]
          /\ Entry(F, D, <<h, m>>) = DirOf(D[F[1].blk[h]])[m]
      BY DEF Entry
    <3>5. F[1].blk[h] # 0 => Entry(F2, D2, <<h, m>>) = Entry(F, D, <<h, m>>)
      BY <3>1, <3>3, <3>4
    <3> QED
      BY <2>1, <3>1, <3>5 DEF Listed
  <2>2. CASE h = i /\ m = j
    <3>1. Entry(F2, D2, <<h, m>>) = item
      BY <1>8, <2>2 DEF Entry
    <3> QED
      BY <1>2, <1>8, <1>9, <1>14, <2>2, <3>1 DEF Listed
  <2>3. CASE h = i /\ m # j
    <3>1. Entry(F2, D2, <<h, m>>) = DirOf(D[b])[m]
      BY <1>8, <2>3 DEF Entry
    <3>2. CASE F[1].blk[i] = b
      <4>1. Entry(F, D, <<h, m>>) = DirOf(D[b])[m]
        BY <2>3, <3>2 DEF Entry
      <4> QED
        BY <1>8, <1>9, <2>3, <3>1, <3>2, <4>1 DEF Listed
    <3>3. CASE F[1].blk[i] = 0
      <4>1. Entry(F2, D2, <<h, m>>).tag = 0
        BY <1>13, <3>1, <3>3 DEF FreeItem
      <4> QED
        BY <2>3, <3>3, <4>1 DEF Listed
    <3> QED
      BY <3>2, <3>3
  <2> QED
    BY <2>1, <2>2, <2>3
<1>16. Listed(F2, D2) = Listed(F, D) \cup {<<i, j>>}
  <2> DEFINE X == Listed(F, D) \cup {<<i, j>>}
  <2>1. \A h \in Pos, m \in Item : <<h, m>> \in Listed(F2, D2) <=> <<h, m>> \in X
    BY <1>15
  <2>2. X \in SUBSET (Pos \X Item)
    BY DEF Listed
  <2> HIDE DEF X
  <2>3. \A Y \in SUBSET (Pos \X Item) :
          (\A h \in Pos, m \in Item : <<h, m>> \in Listed(F2, D2) <=> <<h, m>> \in Y)
            => Listed(F2, D2) = Y
    BY PairsOf
  <2>4. Listed(F2, D2) = X
    BY <2>1, <2>2, <2>3
  <2> QED
    BY <2>4 DEF X
<1>17. \A g \in Listed(F, D) : Entry(F2, D2, g) = Entry(F, D, g)
  <2>1. SUFFICES ASSUME NEW g \in Listed(F, D) PROVE Entry(F2, D2, g) = Entry(F, D, g)
    OBVIOUS
  <2>2. PICK h \in Pos, m \in Item : g = <<h, m>>
    BY ItemPlace
  <2> QED
    BY <1>15, <2>1, <2>2
<1>18. Entry(F2, D2, <<i, j>>) = item
  BY <1>8 DEF Entry
<1>19. Directory(F2, D2)
  <2>1. Directory(F, D)
    BY DEF Sound
  <2>2. ASSUME NEW h \in Pos, NEW m \in Pos, h < m, F2[1].blk[h] = 0
        PROVE  F2[1].blk[m] = 0
    <3>1. h # i /\ F[1].blk[h] = 0
      BY <1>8, <1>9, <2>2
    <3>2. F[1].blk[m] = 0
      BY <2>1, <2>2, <3>1 DEF Directory
    <3>3. m # i
      <4>1. SUFFICES ASSUME m = i PROVE FALSE
        OBVIOUS
      <4>2. h \in 0 .. i - 1
        BY <2>2, <4>1, Ranges DEF Pos
      <4> QED
        BY <1>9, <3>1, <3>2, <4>1, <4>2
    <3> QED
      BY <1>8, <3>2, <3>3
  <2>3. ASSUME NEW g \in Listed(F2, D2)
        PROVE  Entry(F2, D2, g).name \in Name /\ Entry(F2, D2, g).fd \in InUse(F2)
    <3>1. CASE g \in Listed(F, D)
      <4>1. Entry(F, D, g).name \in Name /\ Entry(F, D, g).fd \in InUse(F)
        BY <2>1, <3>1 DEF Directory
      <4> QED
        BY <1>7, <1>17, <3>1, <4>1
    <3>2. CASE g = <<i, j>>
      BY <1>2, <1>7, <1>18, <3>2
    <3> QED
      BY <1>16, <3>1, <3>2
  <2>4. ASSUME NEW g \in Listed(F2, D2), NEW h \in Listed(F2, D2),
               \/ Entry(F2, D2, g).name = Entry(F2, D2, h).name
               \/ Entry(F2, D2, g).fd = Entry(F2, D2, h).fd
        PROVE  g = h
    <3>1. \A x \in Listed(F, D) : Entry(F, D, x).name # n /\ Entry(F, D, x).fd # k
      BY <1>1, <2>1 DEF Directory, Owners
    <3>2. \A x \in Listed(F, D) : Entry(F2, D2, x).name # n /\ Entry(F2, D2, x).fd # k
      BY <1>17, <3>1
    <3>3. CASE g \in Listed(F, D) /\ h \in Listed(F, D)
      BY <1>17, <2>1, <2>4, <3>3 DEF Directory
    <3>4. CASE g \in Listed(F, D) /\ h = <<i, j>>
      BY <1>2, <1>18, <2>4, <3>2, <3>4
    <3>5. CASE g = <<i, j>> /\ h \in Listed(F, D)
      BY <1>2, <1>18, <2>4, <3>2, <3>5
    <3>6. CASE g = <<i, j>> /\ h = <<i, j>>
      BY <3>6
    <3> QED
      BY <1>16, <3>3, <3>4, <3>5, <3>6
  <2>5. F2[1].len = Cardinality(InUse(F2))
    <3>1. InUse(F) \in SUBSET (2 .. MAX_FD) /\ k \notin InUse(F)
      BY DEF InUse
    <3>2. IsFiniteSet(InUse(F))
      BY <3>1, InUseFinite
    <3>3. Cardinality(InUse(F) \cup {k}) = Cardinality(InUse(F)) + 1
      BY <3>1, <3>2, OneMore
    <3> QED
      BY <1>7, <2>1, <3>3 DEF Directory
  <2> QED
    BY <2>2, <2>3, <2>4, <2>5 DEF Directory
<1>21. Complete(F2, D2, B2)
  <2>1. SUFFICES ASSUME NEW l \in InUse(F2) PROVE HasItem(F2, D2, l) \/ NoRoom(F2, B2)
    BY DEF Complete
  <2>2. CASE l = k
    BY <1>2, <1>16, <1>18, <2>2 DEF HasItem
  <2>3. CASE l \in InUse(F) /\ HasItem(F, D, l)
    <3>1. PICK g \in Listed(F, D) : Entry(F, D, g).fd = l
      BY <2>3 DEF HasItem
    <3> QED
      BY <1>16, <1>17, <3>1 DEF HasItem
  <2>4. CASE NoRoom(F, B)
    <3>1. F[1].blk[i] # 0
      BY <1>9, <2>4 DEF NoRoom
    <3>2. PICK h \in Pos : F[1].blk[h] = 0
      BY <2>4 DEF NoRoom
    <3>3. F2[1].blk[h] = 0
      BY <1>8, <3>1, <3>2
    <3> QED
      BY <2>4, <3>3 DEF NoRoom
  <2> QED
    BY <1>7, <2>2, <2>3, <2>4 DEF Sound, Complete
<1>20. \A l \in InUse(F2) : Covers(F2[l], F2[l].len)
  <2>1. SUFFICES ASSUME NEW l \in InUse(F2) PROVE Covers(F2[l], F2[l].len)
    OBVIOUS
  <2>2. CASE l = k
    <3>1. F2[k].len = 0
      BY DEF FreeFd
    <3>2. ASSUME NEW h \in Pos PROVE ~(h * BLOCK_SIZE < 0)
      <4>1. h \in Nat /\ BLOCK_SIZE \in Nat
        BY Sizes, Ranges
      <4>2. \A x, y \in Nat : ~(x * y < 0)
        OBVIOUS
      <4> QED
        BY <4>1, <4>2
    <3> QED
      BY <2>2, <3>1, <3>2 DEF Covers
  <2>3. CASE l \in InUse(F)
    <3>1. l \in Fds \ {1, k}
      BY <1>1, <2>3, Ranges DEF InUse, Owners
    <3> QED
      BY <2>3, <3>1 DEF Sound
  <2> QED
    BY <1>7, <2>2, <2>3
<1> QED
  BY <1>7, <1>12, <1>14, <1>16, <1>17, <1>18, <1>19, <1>20, <1>21 DEF Sound, PutGives

-----------------------------------------------------------------------------
(* What the operations do to the views.                                    *)

(* The files of the descriptors in use other than k are not touched.       *)
Kept(F, D, F2, D2, k) ==
    \A l \in InUse(F) \ {k} :
        /\ F2[l] = F[l]
        /\ \A h \in Pos : F[l].blk[h] # 0 => D2[F[l].blk[h]] = D[F[l].blk[h]]

Dropped(F, D, B, F2, D2, e) ==
    /\ Sound(F2, D2, B) /\ InUse(F2) = InUse(F) \ {Entry(F, D, e).fd}
    /\ Listed(F2, D2) = Listed(F, D) \ {e}
    /\ \A g \in Listed(F2, D2) : Entry(F2, D2, g) = Entry(F, D, g)
    /\ Kept(F, D, F2, D2, Entry(F, D, e).fd)

LEMMA DestroyViews ==
    ASSUME NEW s, NEW F, NEW D, NEW B, Views(s, F, D, B), Sound(F, D, B), NEW n,
           NEW e \in Listed(F, D), FoundAt(s, F, D, n, e)
    PROVE  \E F2, D2 : Views(sf_destroy(s, n), F2, D2, B) /\ Dropped(F, D, B, F2, D2, e)
<1>1. PICK i \in Pos, j \in Item : e = <<i, j>> /\ e[1] = i /\ e[2] = j /\ F[1].blk[i] # 0
  BY ItemPlace
<1>2. PICK k : k = Entry(F, D, <<i, j>>).fd
  OBVIOUS
<1>3. PICK b : b = F[1].blk[i]
  OBVIOUS
<1>4. k \in InUse(F) /\ k \in Fds /\ k # 1 /\ 1 \in Fds /\ F[k] \in FdRec /\ F[1] \in FdRec
  <2>1. k \in InUse(F)
    BY <1>1, <1>2 DEF Sound, Directory
  <2>2. k \in 2 .. MAX_FD
    BY <2>1 DEF InUse
  <2> QED
    BY <2>1, <2>2, AnyFd DEF Sound, Typed
<1>5. 1 \in Owners(F) /\ b \in B /\ b \in DataBlk
  <2>1. 1 \in Owners(F)
    BY DEF Owners
  <2> QED
    BY <1>1, <1>3, <2>1, OwnedBlock
<1>6. D[b] \in Block /\ DirOf(D[b]) \in [Item -> ItemRec]
  BY <1>5, BlockTypes DEF Sound, Typed
<1>7. PICK dir : dir = [DirOf(D[b]) EXCEPT ![j].tag = 0]
  OBVIOUS
<1>8. dir \in [Item -> ItemRec] /\ dir[j].tag = 0 /\ \A m \in Item \ {j} : dir[m] = DirOf(D[b])[m]
  BY <1>6, <1>7 DEF ItemRec
<1>9. PICK x \in Block : x = [kind |-> "dir", dir |-> dir] /\ DirOf(x) = dir
  BY <1>8, NewBlocks
<1> DEFINE s1 == write_block(s, b, x)
           D2 == [D EXCEPT ![b] = x]
<1>10. Views(s1, F, D2, B)
  BY <1>5, WriteViews
<1>11. F[1].len - 1 \in 0 .. MAX_FILE_LEN
  <2>1. InUse(F) \in SUBSET (2 .. MAX_FD) /\ InUse(F) \ {k} \in SUBSET (2 .. MAX_FD)
    BY DEF InUse
  <2>2. /\ IsFiniteSet(InUse(F)) /\ Cardinality(InUse(F)) \in Nat
        /\ Cardinality(InUse(F)) <= MAX_FILE_LEN /\ Cardinality(InUse(F) \ {k}) \in Nat
    BY <2>1, InUseFinite
  <2>3. Cardinality(InUse(F) \ {k}) = Cardinality(InUse(F)) - 1
    BY <1>4, <2>2, FS_RemoveElement
  <2>4. F[1].len = Cardinality(InUse(F))
    BY DEF Sound, Directory
  <2> QED
    BY <2>2, <2>3, <2>4, Sizes
<1>12. PICK fd \in FdRec : fd = [F[1] EXCEPT !.len = F[1].len - 1]
  BY <1>4, <1>11 DEF FdRec
<1> DEFINE s2 == sf_fd_set_len(s1, 1, F[1].len - 1)
           F1 == [F EXCEPT ![1] = fd]
<1>13. Views(s2, F1, D2, B)
  <2>1. Fd(s1, 1) = F[1]
    BY <1>4, <1>10, ViewsFd
  <2>2. s2 = SetFd(s1, 1, fd)
    BY <1>12, <2>1 DEF sf_fd_set_len
  <2> HIDE DEF s1, D2, s2
  <2> QED
    BY <1>4, <1>10, <2>2, SetViews
<1>14. s2 = sf_root_delete_dir_item(s, n)
  <2>1. Least(Stops(s, n)) = i /\ Least(Named(s, i, n)) = j
    BY <1>1 DEF FoundAt
  <2>2. DirBlk(s, i) = b /\ s.disk[b] = D[b] /\ Fd(s, 1) = F[1]
    BY <1>3, <1>4, <1>5, ViewsFd
  <2> QED
    BY <1>7, <1>9, <2>1, <2>2 DEF sf_root_delete_dir_item
<1>15. PICK fk \in FdRec : fk = [F[k] EXCEPT !.tag = 0] /\ fk.tag = 0
  <2>1. \A r \in FdRec : [r EXCEPT !.tag = 0] \in FdRec /\ [r EXCEPT !.tag = 0].tag = 0
    BY DEF FdRec
  <2> QED
    BY <1>4, <2>1
<1> DEFINE s3 == sf_fd_set_free(s2, k)
           F2 == [F1 EXCEPT ![k] = fk]
<1>16. Views(s3, F2, D2, B)
  <2>1. F1[k] = F[k]
    BY <1>4 DEF Sound, Typed
  <2> HIDE DEF s2, F1, D2
  <2>2. Fd(s2, k) = F1[k]
    BY <1>4, <1>13, ViewsFd
  <2>3. s3 = SetFd(s2, k, fk)
    BY <1>15, <2>1, <2>2 DEF sf_fd_set_free
  <2> HIDE DEF s3
  <2> QED
    BY <1>4, <1>13, <2>3, SetViews
<1>17. Views(sf_destroy(s, n), F2, D2, B)
  <2> DEFINE held == {h \in Pos : Fd(s, k).blk[h] # 0}
  <2>1. sf_root_find_file(s, n) = k
    BY <1>1, <1>2 DEF FoundAt
  <2>2. sf_destroy(s, n) = [s3 EXCEPT !.bitmap = s3.bitmap \ held]
    BY <1>14, <2>1 DEF sf_destroy
  <2> HIDE DEF s3, F2, D2
  <2>3. s3.bitmap \in SUBSET Blk /\ B = s3.bitmap \cap DataBlk
    BY <1>16 DEF Views, FsState, BitView
  <2>4. (s3.bitmap \ held) \cap DataBlk = B
    BY <2>3, Ranges
  <2>5. s3.bitmap \ held \in SUBSET Blk
    BY <2>3
  <2> HIDE DEF held
  <2>6. Views([s3 EXCEPT !.bitmap = s3.bitmap \ held], F2, D2, (s3.bitmap \ held) \cap DataBlk)
    BY <1>16, <2>5, BitViews
  <2> QED
    BY <2>2, <2>4, <2>6
<1>18. /\ F2[1] = fd /\ F2[k] = fk
       /\ \A l \in Fds \ {1, k} : F2[l] = F[l]
       /\ D2[b] = x /\ \A c \in DataBlk \ {b} : D2[c] = D[c]
  BY <1>4, <1>5 DEF Sound, Typed
<1>19. Typed(F2, D2, B)
  <2> HIDE DEF F2, D2
  <2> QED
    BY <1>17, ViewsTyped
<1> HIDE DEF F2, D2
<1>20. fd.blk = F[1].blk /\ fd.len = F[1].len - 1
  BY <1>4, <1>12 DEF FdRec
<1>21. /\ Sound(F2, D2, B) /\ InUse(F2) = InUse(F) \ {k}
       /\ Listed(F2, D2) = Listed(F, D) \ {<<i, j>>}
       /\ \A g \in Listed(F2, D2) : Entry(F2, D2, g) = Entry(F, D, g)
  <2>1. <<i, j>> \in Listed(F, D)
    BY <1>1
  <2> QED
    <3>1. F2[1].blk = F[1].blk /\ F2[1].len = F[1].len - 1 /\ F2[k].tag = 0
      BY <1>15, <1>18, <1>20
    <3>2. /\ DirOf(D2[b])[j].tag = 0
          /\ \A m \in Item \ {j} : DirOf(D2[b])[m] = DirOf(D[b])[m]
      BY <1>8, <1>9, <1>18
    <3> QED
      BY <1>2, <1>3, <1>18, <1>19, <2>1, <3>1, <3>2, DropItem
<1>22. Kept(F, D, F2, D2, k)
  <2>1. ASSUME NEW l \in InUse(F) \ {k}, NEW h \in Pos, F[l].blk[h] # 0
        PROVE  D2[F[l].blk[h]] = D[F[l].blk[h]]
    <3>1. l \in Owners(F) /\ l # 1
      <4>1. l \in 2 .. MAX_FD
        BY DEF InUse
      <4> QED
        BY <4>1, AnyFd DEF Owners
    <3>2. F[l].blk[h] # b
      BY <1>1, <1>3, <1>5, <3>1, Apart
    <3>3. F[l].blk[h] \in DataBlk
      BY <2>1, <3>1, OwnedBlock
    <3> QED
      BY <1>18, <3>2, <3>3
  <2>2. \A l \in InUse(F) \ {k} : F2[l] = F[l]
    <3>1. \A l \in InUse(F) : l \in Fds \ {1}
      BY AnyFd DEF InUse
    <3> QED
      BY <1>18, <3>1
  <2> QED
    BY <2>1, <2>2 DEF Kept
<1>23. Entry(F, D, e).fd = k
  BY <1>1, <1>2
<1> QED
  BY <1>1, <1>17, <1>21, <1>22, <1>23 DEF Dropped

LEMMA FreeBlocksAre ==
    ASSUME NEW s, NEW F, NEW D, NEW B, Views(s, F, D, B)
    PROVE  FreeBlocks(s) = DataBlk \ B
BY DEF FreeBlocks, Views, BitView, DataBlk

LEMMA FreeFdIs ==
    ASSUME NEW s, NEW F, NEW D, NEW B, Views(s, F, D, B)
    PROVE  \/ sf_find_free_fd(s) = 0
           \/ /\ sf_find_free_fd(s) \in 2 .. MAX_FD
              /\ F[sf_find_free_fd(s)].tag = 0
<1> DEFINE free == {k \in 2 .. MAX_FD : Fd(s, k).tag = 0}
<1>1. CASE free = {}
  BY <1>1 DEF sf_find_free_fd
<1>2. CASE free # {}
  <2>1. free \in SUBSET Nat
    BY Ranges, AnyFd
  <2>2. Least(free) \in free
    BY <1>2, <2>1, LeastIs
  <2>3. sf_find_free_fd(s) = Least(free)
    BY <1>2 DEF sf_find_free_fd
  <2>4. Fd(s, Least(free)) = F[Least(free)]
    BY <2>2, AnyFd, ViewsFd
  <2> QED
    BY <2>2, <2>3, <2>4
<1> QED
  BY <1>1, <1>2

(* The place sf_root_add_dir_item takes.                                   *)
RoomIn(s, F, D, B, i, j, b) ==
    /\ i = Least(Rooms(s)) /\ b = IF DirBlk(s, i) = 0 THEN sf_find_free_block(s)
                                                      ELSE DirBlk(s, i)
    /\ j = IF DirBlk(s, i) = 0 THEN 1 ELSE Least(Item \ Used(s, i))
    /\ \/ F[1].blk[i] = b /\ F[1].blk[i] # 0 /\ b \in B /\ <<i, j>> \notin Listed(F, D)
       \/ F[1].blk[i] = 0 /\ b \notin B /\ \A h \in 0 .. i - 1 : F[1].blk[h] # 0

LEMMA RoomAt ==
    ASSUME NEW s, NEW F, NEW D, NEW B, Views(s, F, D, B), Sound(F, D, B), Rooms(s) # {},
           DirBlk(s, Least(Rooms(s))) = 0 => FreeBlocks(s) # {}
    PROVE  \E i \in Pos, j \in Item, b \in DataBlk : RoomIn(s, F, D, B, i, j, b)
<1>1. Rooms(s) \in SUBSET Nat /\ Rooms(s) \subseteq Pos
  BY Ranges DEF Rooms
<1>2. PICK i \in Pos : i = Least(Rooms(s)) /\ i \in Rooms(s) /\ \A h \in Rooms(s) : i <= h
  BY <1>1, LeastIs
<1>3. \A h \in Pos : DirBlk(s, h) = F[1].blk[h]
  BY ViewsFd
<1>4. CASE F[1].blk[i] = 0
  <2>1. FreeBlocks(s) # {} /\ FreeBlocks(s) = DataBlk \ B
    BY <1>2, <1>3, <1>4, FreeBlocksAre
  <2>2. FreeBlocks(s) \in SUBSET Nat
    BY <2>1, Ranges
  <2>3. sf_find_free_block(s) \in DataBlk \ B
    BY <2>1, <2>2, LeastIs DEF sf_find_free_block
  <2>4. \A h \in 0 .. i - 1 : F[1].blk[h] # 0
    <3>1. SUFFICES ASSUME NEW h \in 0 .. i - 1, F[1].blk[h] = 0 PROVE FALSE
      OBVIOUS
    <3>2. h \in Pos /\ h < i
      BY Sizes DEF Pos
    <3>3. h \in Rooms(s)
      BY <1>3, <3>1, <3>2 DEF Rooms
    <3> QED
      BY <1>2, <3>2, <3>3, Ranges
  <2>5. 1 \in Item
    BY Sizes DEF Item
  <2> QED
    BY <1>2, <1>3, <1>4, <2>3, <2>4, <2>5 DEF RoomIn
<1>5. CASE F[1].blk[i] # 0
  <2>1. DirBlk(s, i) # 0 /\ Used(s, i) # Item
    BY <1>2, <1>3, <1>5 DEF Rooms
  <2>2. /\ BlocksOwned(F, D, B)
        /\ DirBlk(s, i) \in B /\ DirBlk(s, i) \in DataBlk
        /\ Used(s, i) \in SUBSET Item
        /\ \A j \in Item : j \in Used(s, i) <=> <<i, j>> \in Listed(F, D)
    <3>1. BlocksOwned(F, D, B)
      BY DEF Sound
    <3> QED
      BY <2>1, <3>1, DirSees
  <2>3. Item \ Used(s, i) # {} /\ Item \ Used(s, i) \in SUBSET Nat
    BY <2>1, <2>2, Ranges
  <2>4. Least(Item \ Used(s, i)) \in Item \ Used(s, i)
    BY <2>3, LeastIs
  <2>5. PICK j \in Item : j = Least(Item \ Used(s, i)) /\ <<i, j>> \notin Listed(F, D)
    BY <2>2, <2>4
  <2> QED
    BY <1>2, <1>3, <1>5, <2>1, <2>2, <2>5 DEF RoomIn
<1> QED
  BY <1>4, <1>5

Added(F, D, B, F2, D2, B2, n, k) ==
    /\ Sound(F2, D2, B2) /\ k \in 2 .. MAX_FD /\ k \notin InUse(F)
    /\ InUse(F2) = InUse(F) \cup {k} /\ F2[k] = [FreeFd EXCEPT !.tag = 1]
    /\ \E e \in Pos \X Item :
         /\ e \notin Listed(F, D) /\ Listed(F2, D2) = Listed(F, D) \cup {e}
         /\ Entry(F2, D2, e) = [tag |-> 1, name |-> n, fd |-> k]
         /\ \A g \in Listed(F, D) : Entry(F2, D2, g) = Entry(F, D, g)
    /\ Kept(F, D, F2, D2, k)

LEMMA CountsOneMore ==
    ASSUME NEW F, NEW D, NEW B, Sound(F, D, B), NEW k \in 2 .. MAX_FD, k \notin InUse(F)
    PROVE  /\ F[1].len \in Nat /\ F[1].len + 1 \in 0 .. MAX_FILE_LEN
           /\ F[1].len + 1 = Cardinality(InUse(F) \cup {k})
<1>1. InUse(F) \in SUBSET (2 .. MAX_FD) /\ InUse(F) \cup {k} \in SUBSET (2 .. MAX_FD)
  BY DEF InUse
<1>2. /\ IsFiniteSet(InUse(F)) /\ Cardinality(InUse(F)) \in Nat
      /\ Cardinality(InUse(F) \cup {k}) \in Nat
      /\ Cardinality(InUse(F) \cup {k}) <= MAX_FILE_LEN
  BY <1>1, InUseFinite
<1>3. Cardinality(InUse(F) \cup {k}) = Cardinality(InUse(F)) + 1
  BY <1>2, OneMore
<1>4. F[1].len = Cardinality(InUse(F))
  BY DEF Sound, Directory
<1> QED
  BY <1>2, <1>3, <1>4, Sizes

LEMMA CreateViews ==
    ASSUME NEW s, NEW F, NEW D, NEW B, Views(s, F, D, B), Sound(F, D, B), NEW n \in Name,
           Rooms(s) # {}, DirBlk(s, Least(Rooms(s))) = 0 => FreeBlocks(s) # {},
           sf_find_free_fd(s) # 0, ~(sf_root_find_file(s, n) > 0)
    PROVE  \E F2, D2, B2, k : /\ Views(sf_create(s, n), F2, D2, B2)
                              /\ Added(F, D, B, F2, D2, B2, n, k)
<1>0. PICK i \in Pos, j \in Item, b \in DataBlk : RoomIn(s, F, D, B, i, j, b)
  BY RoomAt
<1>1. /\ i = Least(Rooms(s)) /\ b = IF DirBlk(s, i) = 0 THEN sf_find_free_block(s)
                                                        ELSE DirBlk(s, i)
      /\ j = IF DirBlk(s, i) = 0 THEN 1 ELSE Least(Item \ Used(s, i))
      /\ \/ F[1].blk[i] = b /\ F[1].blk[i] # 0 /\ b \in B /\ <<i, j>> \notin Listed(F, D)
         \/ F[1].blk[i] = 0 /\ b \notin B /\ \A h \in 0 .. i - 1 : F[1].blk[h] # 0
  BY <1>0 DEF RoomIn
<1>2. PICK k \in 2 .. MAX_FD : k = sf_find_free_fd(s) /\ F[k].tag = 0
  BY FreeFdIs
<1>3. /\ k \in Fds /\ k # 1 /\ k \notin InUse(F) /\ 1 \in Fds /\ F[1] \in FdRec /\ 1 \in Owners(F)
      /\ B \subseteq DataBlk /\ D \in [DataBlk -> Block] /\ F \in [Fds -> FdRec]
  BY <1>2, AnyFd DEF Sound, Typed, InUse, Owners
<1>4. /\ DirBlk(s, i) = F[1].blk[i] /\ s.disk[b] = D[b] /\ Fd(s, 1) = F[1]
  BY <1>3, ViewsFd
<1>5. DirOf(D[b]) \in [Item -> ItemRec]
  BY <1>3, BlockTypes
<1>6. PICK item \in ItemRec : item = [tag |-> 1, name |-> n, fd |-> k]
  BY <1>3, Ranges DEF ItemRec
<1>7. PICK dir \in [Item -> ItemRec] : dir = [DirOf(D[b]) EXCEPT ![j] = item]
  BY <1>5
<1>8. dir[j] = item /\ \A m \in Item \ {j} : dir[m] = DirOf(D[b])[m]
  BY <1>5, <1>7
<1>9. PICK x \in Block : x = [kind |-> "dir", dir |-> dir] /\ DirOf(x) = dir
  BY NewBlocks
<1>10. PICK blk \in [Pos -> Blk] : blk = [F[1].blk EXCEPT ![i] = b]
  <2>1. F[1].blk \in [Pos -> Blk] /\ b \in Blk
    BY <1>3, Ranges DEF FdRec
  <2> QED
    BY <2>1
<1>11. PICK fd1 \in FdRec : fd1 = [F[1] EXCEPT !.blk = blk]
  <2>1. [F[1] EXCEPT !.blk = blk] \in FdRec
    BY <1>3 DEF FdRec
  <2> QED
    BY <2>1
<1> DEFINE fresh == DirBlk(s, i) = 0
           grown == IF fresh THEN [sf_fd_set_blk(s, 1, i, b) EXCEPT !.bitmap = @ \cup {b}] ELSE s
           F1 == [F EXCEPT ![1] = fd1]
           B2 == B \cup {b}
<1>12. Views(grown, F1, D, B2)
  <2>1. CASE fresh
    <3> DEFINE s0 == sf_fd_set_blk(s, 1, i, b)
    <3>1. [Fd(s, 1) EXCEPT !.blk[i] = b] = fd1
      BY <1>3, <1>4, <1>10, <1>11 DEF FdRec
    <3>2. s0 = SetFd(s, 1, fd1)
      BY <3>1 DEF sf_fd_set_blk
    <3> HIDE DEF s0
    <3>3. Views(s0, F1, D, B)
      BY <1>3, <3>2, SetViews
    <3>4. s0.bitmap \in SUBSET Blk /\ B = s0.bitmap \cap DataBlk
      BY <3>3 DEF Views, FsState, BitView
    <3>5. s0.bitmap \cup {b} \in SUBSET Blk /\ (s0.bitmap \cup {b}) \cap DataBlk = B2
      BY <3>4, Ranges
    <3>6. grown = [s0 EXCEPT !.bitmap = s0.bitmap \cup {b}]
      BY <2>1 DEF s0
    <3> HIDE DEF F1, B2, grown
    <3>7. Views([s0 EXCEPT !.bitmap = s0.bitmap \cup {b}], F1, D, (s0.bitmap \cup {b}) \cap DataBlk)
      BY <3>3, <3>5, BitViews
    <3> QED
      BY <3>5, <3>6, <3>7
  <2>2. CASE ~fresh
    <3>1. F[1].blk[i] = b /\ b \in B
      BY <1>1, <1>4, <2>2
    <3>2. blk = F[1].blk
      <4>1. F[1].blk \in [Pos -> Blk]
        BY <1>3 DEF FdRec
      <4> QED
        BY <1>10, <3>1, <4>1
    <3>3. fd1 = F[1]
      BY <1>3, <1>11, <3>2 DEF FdRec
    <3>4. F1 = F /\ B2 = B
      BY <1>3, <3>1, <3>3
    <3> QED
      BY <2>2, <3>4
  <2> QED
    BY <2>1, <2>2
<1> DEFINE s2 == write_block(grown, b, x)
           D2 == [D EXCEPT ![b] = x]
<1>13. Views(s2, F1, D2, B2)
  <2> HIDE DEF grown, F1, B2
  <2> QED
    BY <1>12, WriteViews
<1>14. F[1].len \in Nat /\ F[1].len + 1 \in 0 .. MAX_FILE_LEN
  BY <1>2, <1>3, CountsOneMore
<1>15. PICK fd2 \in FdRec : fd2 = [fd1 EXCEPT !.len = F[1].len + 1]
  <2>1. [fd1 EXCEPT !.len = F[1].len + 1] \in FdRec
    BY <1>14 DEF FdRec
  <2> QED
    BY <2>1
<1> DEFINE s3 == sf_fd_set_len(s2, 1, F[1].len + 1)
           F3 == [F1 EXCEPT ![1] = fd2]
<1>16. Views(s3, F3, D2, B2)
  <2>1. F1[1] = fd1
    BY <1>3
  <2> HIDE DEF s2, F1, D2, B2
  <2>2. Fd(s2, 1) = F1[1]
    BY <1>3, <1>13, ViewsFd
  <2>3. s3 = SetFd(s2, 1, fd2)
    BY <1>15, <2>1, <2>2 DEF sf_fd_set_len
  <2> HIDE DEF s3
  <2> QED
    BY <1>3, <1>13, <2>3, SetViews
<1>17. s3 = sf_root_add_dir_item(s, n, k)
  BY <1>1, <1>4, <1>6, <1>7, <1>9 DEF sf_root_add_dir_item
<1>18. PICK fk \in FdRec : fk = [FreeFd EXCEPT !.tag = 1]
  <2>1. [FreeFd EXCEPT !.tag = 1] \in FdRec
    BY Ranges, Sizes DEF FreeFd, FdRec
  <2> QED
    BY <2>1
<1> DEFINE s4 == SetFd(s3, k, fk)
           F4 == [F3 EXCEPT ![k] = fk]
<1>19. Views(s4, F4, D2, B2)
  <2> HIDE DEF s3, F3, D2, B2
  <2> QED
    BY <1>3, <1>16, SetViews
<1>20. s4 = sf_create(s, n)
  BY <1>2, <1>17, <1>18 DEF sf_create
<1>21. /\ F4[1] = fd2 /\ F4[k] = fk
       /\ \A l \in Fds \ {1, k} : F4[l] = F[l]
       /\ D2[b] = x /\ \A c \in DataBlk \ {b} : D2[c] = D[c]
  BY <1>3
<1> HIDE DEF s3, s4, F4, D2, B2
<1>22. Typed(F4, D2, B2)
  BY <1>19, ViewsTyped
<1>23. fd2.blk = blk /\ fd2.len = F[1].len + 1
  BY <1>11, <1>15 DEF FdRec
<1>24. /\ Sound(F4, D2, B2) /\ InUse(F4) = InUse(F) \cup {k}
       /\ Listed(F4, D2) = Listed(F, D) \cup {<<i, j>>} /\ <<i, j>> \notin Listed(F, D)
       /\ Entry(F4, D2, <<i, j>>) = item
       /\ \A g \in Listed(F, D) : Entry(F4, D2, g) = Entry(F, D, g)
  <2>1. \/ F[1].blk[i] = b /\ <<i, j>> \notin Listed(F, D)
        \/ F[1].blk[i] = 0 /\ b \notin B /\ \A h \in 0 .. i - 1 : F[1].blk[h] # 0
    BY <1>1
  <2>2. \A g \in Listed(F, D) : Entry(F, D, g).name # n
    BY Found
  <2>3. /\ F4[1].blk = [F[1].blk EXCEPT ![i] = b] /\ F4[1].len = F[1].len + 1
        /\ F4[k] = [FreeFd EXCEPT !.tag = 1]
    BY <1>10, <1>18, <1>21, <1>23
  <2>4. /\ DirOf(D2[b])[j] = item
        /\ \A m \in Item \ {j} : DirOf(D2[b])[m] = DirOf(D[b])[m]
    BY <1>8, <1>9, <1>21
  <2>5. Typed(F4, D2, B \cup {b})
    BY <1>22 DEF B2
  <2> HIDE DEF F1, F3
  <2>6. /\ Sound(F4, D2, B \cup {b}) /\ InUse(F4) = InUse(F) \cup {k}
        /\ Listed(F4, D2) = Listed(F, D) \cup {<<i, j>>} /\ <<i, j>> \notin Listed(F, D)
        /\ Entry(F4, D2, <<i, j>>) = item
        /\ \A g \in Listed(F, D) : Entry(F4, D2, g) = Entry(F, D, g)
    <3>1. PutBy(F, D, B, F4, D2, i, j, b, n, k, item)
      BY <1>2, <1>3, <1>6, <1>21, <2>1, <2>2, <2>3, <2>4, <2>5 DEF PutBy
    <3>2. PutGives(F, D, B, F4, D2, i, j, b, k, item)
      BY <3>1, PutItem
    <3> QED
      BY <3>2 DEF PutGives
  <2> QED
    BY <2>6 DEF B2
<1>25. Kept(F, D, F4, D2, k)
  <2>1. ASSUME NEW l \in InUse(F) \ {k}, NEW h \in Pos, F[l].blk[h] # 0
        PROVE  D2[F[l].blk[h]] = D[F[l].blk[h]]
    <3>1. l \in Owners(F) /\ l # 1
      <4>1. l \in 2 .. MAX_FD
        BY DEF InUse
      <4> QED
        BY <4>1, AnyFd DEF Owners
    <3>2. F[l].blk[h] \in DataBlk /\ F[l].blk[h] \in B
      BY <2>1, <3>1, OwnedBlock
    <3>3. F[l].blk[h] # b
      <4>1. CASE F[1].blk[i] = b /\ F[1].blk[i] # 0
        BY <1>3, <3>1, <4>1, Apart
      <4>2. CASE b \notin B
        BY <3>2, <4>2
      <4> QED
        BY <1>1, <4>1, <4>2
    <3> QED
      BY <1>21, <3>2, <3>3
  <2>2. \A l \in InUse(F) \ {k} : F4[l] = F[l]
    <3>1. \A l \in InUse(F) : l \in Fds \ {1}
      BY AnyFd DEF InUse
    <3> QED
      BY <1>21, <3>1
  <2> QED
    BY <2>1, <2>2 DEF Kept
<1>26. Added(F, D, B, F4, D2, B2, n, k)
  <2>1. <<i, j>> \in Pos \X Item
    OBVIOUS
  <2>2. F4[k] = [FreeFd EXCEPT !.tag = 1]
    BY <1>18, <1>21
  <2> HIDE DEF F1, F3
  <2> QED
    BY <1>2, <1>3, <1>6, <1>24, <1>25, <2>1, <2>2 DEF Added
<1> QED
  BY <1>19, <1>20, <1>26

(* On a full disk a directory that has to grow gets no item: the file has  *)
(* a descriptor, and the directory counts it.                              *)
LostFile(F, D, B, F2, k) ==
    /\ k \in 2 .. MAX_FD /\ k \notin InUse(F) /\ NoRoom(F, B)
    /\ F2[1].blk = F[1].blk /\ F2[1].len = F[1].len + 1
    /\ F2[k] = [FreeFd EXCEPT !.tag = 1]
    /\ \A l \in Fds \ {1, k} : F2[l] = F[l]

Unlisted(F, D, B, F2, k) ==
    /\ Sound(F2, D, B) /\ InUse(F2) = InUse(F) \cup {k} /\ k \notin InUse(F)
    /\ Listed(F2, D) = Listed(F, D)
    /\ \A e \in Listed(F, D) : Entry(F2, D, e) = Entry(F, D, e)
    /\ Kept(F, D, F2, D, k)

LEMMA LostKeeps ==
    ASSUME NEW F, NEW D, NEW B, Sound(F, D, B), NEW F2, NEW k, Typed(F2, D, B),
           LostFile(F, D, B, F2, k)
    PROVE  Unlisted(F, D, B, F2, k)
<1>0. /\ k \in 2 .. MAX_FD /\ k \notin InUse(F) /\ NoRoom(F, B)
      /\ F2[1].blk = F[1].blk /\ F2[1].len = F[1].len + 1
      /\ F2[k] = [FreeFd EXCEPT !.tag = 1]
      /\ \A l \in Fds \ {1, k} : F2[l] = F[l]
  BY DEF LostFile
<1>1. /\ k \in Fds /\ k # 1 /\ 1 \in Fds /\ \A l \in 2 .. MAX_FD : l \in Fds /\ l # 1
      /\ F2[k].tag = 1 /\ F2[k].len = 0 /\ \A i \in Pos : F2[k].blk[i] = 0
  BY <1>0, AnyFd DEF FreeFd
<1>2. InUse(F2) = InUse(F) \cup {k}
  <2>1. \A l \in 2 .. MAX_FD : F2[l].tag = 1 <=> F[l].tag = 1 \/ l = k
    BY <1>0, <1>1
  <2> QED
    BY <1>0, <2>1 DEF InUse
<1>3. Owners(F2) = Owners(F) \cup {k} /\ Owners(F) \subseteq Fds /\ k \notin Owners(F)
  BY <1>0, <1>1, <1>2 DEF Owners, InUse
<1>4. \A l \in Owners(F) : F2[l].blk = F[l].blk
  BY <1>0, <1>3
<1>5. /\ Listed(F2, D) = Listed(F, D)
      /\ \A e \in Listed(F, D) : Entry(F2, D, e) = Entry(F, D, e)
  BY <1>0 DEF Listed, Entry
<1>6. BlocksOwned(F2, D, B)
  <2>1. BlocksOwned(F, D, B)
    BY DEF Sound
  <2>2. ASSUME NEW l \in Owners(F2), NEW i \in Pos, F2[l].blk[i] # 0
        PROVE  l \in Owners(F)
    BY <1>1, <1>3, <2>2
  <2>3. \A l \in Owners(F2), i \in Pos : F2[l].blk[i] \in B \cup {0}
    BY <1>4, <2>1, <2>2 DEF BlocksOwned
  <2>4. ASSUME NEW l \in Owners(F2), NEW m \in Owners(F2), NEW i \in Pos, NEW j \in Pos,
               F2[l].blk[i] = F2[m].blk[j], F2[l].blk[i] # 0
        PROVE  l = m /\ i = j
    <3>1. l \in Owners(F) /\ m \in Owners(F)
      BY <2>2, <2>4
    <3>2. F[l].blk[i] = F[m].blk[j] /\ F[l].blk[i] # 0
      BY <1>4, <2>4, <3>1
    <3> QED
      BY <2>1, <3>1, <3>2 DEF BlocksOwned
  <2>5. \A b \in DataBlk \ B : D[b] = Zero
    BY <2>1 DEF BlocksOwned
  <2> QED
    BY <2>3, <2>4, <2>5 DEF BlocksOwned
<1>7. Directory(F2, D)
  <2>1. Directory(F, D)
    BY DEF Sound
  <2>2. F2[1].len = Cardinality(InUse(F2))
    BY <1>0, <1>2, CountsOneMore
  <2>3. \A i, j \in Pos : i < j /\ F2[1].blk[i] = 0 => F2[1].blk[j] = 0
    BY <1>0, <2>1 DEF Directory
  <2> QED
    BY <1>2, <1>5, <2>1, <2>2, <2>3 DEF Directory
<1>8. Complete(F2, D, B)
  BY <1>0 DEF NoRoom, Complete
<1>9. \A l \in InUse(F2) : Covers(F2[l], F2[l].len)
  <2>1. SUFFICES ASSUME NEW l \in InUse(F2) PROVE Covers(F2[l], F2[l].len)
    OBVIOUS
  <2>2. CASE l = k
    <3>1. ASSUME NEW h \in Pos PROVE ~(h * BLOCK_SIZE < 0)
      <4>1. h \in Nat /\ BLOCK_SIZE \in Nat
        BY Sizes, Ranges
      <4>2. \A x, y \in Nat : ~(x * y < 0)
        OBVIOUS
      <4> QED
        BY <4>1, <4>2
    <3> QED
      BY <1>1, <2>2, <3>1 DEF Covers
  <2>3. CASE l \in InUse(F) /\ l # k
    <3>1. l \in Fds \ {1, k}
      BY <1>1, <2>3 DEF InUse
    <3> QED
      BY <1>0, <2>3, <3>1 DEF Sound
  <2> QED
    BY <1>2, <2>2, <2>3
<1>10. Kept(F, D, F2, D, k)
  <2>1. \A l \in InUse(F) \ {k} : l \in Fds \ {1, k}
    BY <1>1 DEF InUse
  <2> QED
    BY <1>0, <2>1 DEF Kept
<1>11. Sound(F2, D, B)
  BY <1>6, <1>7, <1>8, <1>9 DEF Sound
<1> QED
  BY <1>0, <1>2, <1>5, <1>10, <1>11 DEF Unlisted

LEMMA CreateLoses ==
    ASSUME NEW s, NEW F, NEW D, NEW B, Views(s, F, D, B), Sound(F, D, B), NEW n \in Name,
           Rooms(s) # {}, DirBlk(s, Least(Rooms(s))) = 0, FreeBlocks(s) = {},
           sf_find_free_fd(s) # 0
    PROVE  \E F2, k : Views(sf_create(s, n), F2, D, B) /\ Unlisted(F, D, B, F2, k)
<1>1. PICK i \in Pos : i = Least(Rooms(s)) /\ DirBlk(s, i) = 0
  <2>1. Rooms(s) \in SUBSET Nat /\ Rooms(s) \subseteq Pos
    BY Ranges DEF Rooms
  <2> QED
    BY <2>1, LeastIs
<1>2. PICK k \in 2 .. MAX_FD : k = sf_find_free_fd(s) /\ F[k].tag = 0
  BY FreeFdIs
<1>3. /\ k \in Fds /\ k # 1 /\ k \notin InUse(F) /\ 1 \in Fds /\ F[1] \in FdRec
      /\ B \subseteq DataBlk /\ F \in [Fds -> FdRec]
  BY <1>2, AnyFd DEF Sound, Typed, InUse
<1>4. F[1].blk[i] = 0 /\ Fd(s, 1) = F[1]
  BY <1>1, <1>3, ViewsFd
<1>5. NoRoom(F, B)
  BY <1>4, FreeBlocksAre DEF NoRoom
<1>6. sf_find_free_block(s) = 0
  BY DEF sf_find_free_block
<1>7. DirOf(s.disk[0]) \in [Item -> ItemRec]
  <2>1. s.disk[0] \in Block
    BY Ranges DEF Views, FsState
  <2> QED
    BY <2>1, BlockTypes
<1>8. PICK item \in ItemRec : item = [tag |-> 1, name |-> n, fd |-> k]
  BY <1>3, Ranges DEF ItemRec
<1>9. PICK dir \in [Item -> ItemRec] : dir = [DirOf(s.disk[0]) EXCEPT ![1] = item]
  BY <1>7
<1>10. PICK x \in Block : x = [kind |-> "dir", dir |-> dir]
  BY NewBlocks
<1> DEFINE s0 == sf_fd_set_blk(s, 1, i, 0)
           s1 == [s0 EXCEPT !.bitmap = @ \cup {0}]
<1>11. Views(s0, F, D, B)
  <2>1. [Fd(s, 1) EXCEPT !.blk[i] = 0] = F[1]
    BY <1>3, <1>4 DEF FdRec
  <2>2. s0 = SetFd(s, 1, F[1])
    BY <2>1 DEF sf_fd_set_blk
  <2>3. [F EXCEPT ![1] = F[1]] = F
    BY <1>3
  <2> HIDE DEF s0
  <2>4. Views(s0, [F EXCEPT ![1] = F[1]], D, B)
    BY <1>3, <2>2, SetViews
  <2> QED
    BY <2>3, <2>4
<1>12. Views(s1, F, D, B)
  <2> HIDE DEF s0
  <2>1. s0.bitmap \in SUBSET Blk /\ B = s0.bitmap \cap DataBlk
    BY <1>11 DEF Views, FsState, BitView
  <2>2. s0.bitmap \cup {0} \in SUBSET Blk /\ (s0.bitmap \cup {0}) \cap DataBlk = B
    BY <2>1, Ranges
  <2>3. Views([s0 EXCEPT !.bitmap = s0.bitmap \cup {0}], F, D, (s0.bitmap \cup {0}) \cap DataBlk)
    BY <1>11, <2>2, BitViews
  <2> QED
    BY <2>2, <2>3
<1> DEFINE s2 == write_block(s1, 0, x)
<1>13. Views(s2, F, D, B)
  <2> HIDE DEF s1
  <2> QED
    BY <1>12, LostViews
<1>14. PICK fd \in FdRec : fd = [F[1] EXCEPT !.len = F[1].len + 1]
  <2>1. F[1].len + 1 \in 0 .. MAX_FILE_LEN
    BY <1>3, CountsOneMore
  <2>2. [F[1] EXCEPT !.len = F[1].len + 1] \in FdRec
    BY <1>3, <2>1 DEF FdRec
  <2> QED
    BY <2>2
<1> DEFINE s3 == sf_fd_set_len(s2, 1, F[1].len + 1)
           F3 == [F EXCEPT ![1] = fd]
<1>15. Views(s3, F3, D, B)
  <2> HIDE DEF s2
  <2>1. Fd(s2, 1) = F[1]
    BY <1>3, <1>13, ViewsFd
  <2>2. s3 = SetFd(s2, 1, fd)
    BY <1>14, <2>1 DEF sf_fd_set_len
  <2> HIDE DEF s3
  <2> QED
    BY <1>3, <1>13, <2>2, SetViews
<1>16. s3 = sf_root_add_dir_item(s, n, k)
  BY <1>1, <1>4, <1>6, <1>8, <1>9, <1>10 DEF sf_root_add_dir_item
<1>17. PICK fk \in FdRec : fk = [FreeFd EXCEPT !.tag = 1]
  <2>1. [FreeFd EXCEPT !.tag = 1] \in FdRec
    BY Ranges, Sizes DEF FreeFd, FdRec
  <2> QED
    BY <2>1
<1> DEFINE s4 == SetFd(s3, k, fk)
           F4 == [F3 EXCEPT ![k] = fk]
<1>18. Views(s4, F4, D, B)
  <2> HIDE DEF s3, F3
  <2> QED
    BY <1>3, <1>15, SetViews
<1>19. s4 = sf_create(s, n)
  BY <1>2, <1>16, <1>17 DEF sf_create
<1>20. /\ F4[1] = fd /\ F4[k] = fk
       /\ \A l \in Fds \ {1, k} : F4[l] = F[l]
  BY <1>3
<1>21. fd.blk = F[1].blk /\ fd.len = F[1].len + 1
  BY <1>3, <1>14 DEF FdRec
<1> HIDE DEF s3, s4, F3, F4
<1>22. LostFile(F, D, B, F4, k)
  BY <1>2, <1>3, <1>5, <1>17, <1>20, <1>21 DEF LostFile
<1>23. Unlisted(F, D, B, F4, k)
  BY <1>18, <1>22, ViewsTyped, LostKeeps
<1> QED
  BY <1>18, <1>19, <1>23

-----------------------------------------------------------------------------
(* Positions in a file.                                                    *)

LEMMA Place ==
    ASSUME NEW p \in Nat, p < MAX_FILE_LEN
    PROVE  /\ OFFSET_TO_BLK_IDX(p) \in Pos /\ OFFSET_TO_BLK_OFFSET(p) \in Offset
           /\ OFFSET_TO_BLK_IDX(p) * BLOCK_SIZE \in Nat
           /\ p = OFFSET_TO_BLK_IDX(p) * BLOCK_SIZE + OFFSET_TO_BLK_OFFSET(p)
<1>1. PICK m \in Nat \ {0} : m = BLOCK_SIZE
  BY Sizes
<1>2. PICK r \in Nat \ {0} : r = FBLK_CNT
  BY Sizes
<1>3. p < m * r
  BY <1>1, <1>2 DEF MAX_FILE_LEN
<1>4. p \div m \in Int /\ p = (p \div m) * m + (p % m) /\ p % m \in 0 .. m - 1
  OBVIOUS
<1>5. PICK q \in Int, a \in 0 .. m - 1 : q = p \div m /\ a = p % m /\ p = q * m + a
  BY <1>4
<1>6. q >= 0
  <2>1. CASE q <= -1
    <3>1. q * m <= -m
      BY <2>1
    <3> QED
      BY <1>5, <3>1
  <2> QED
    BY <2>1
<1>7. q < r
  <2>1. SUFFICES ASSUME q >= r PROVE FALSE
    OBVIOUS
  <2>2. q * m >= r * m
    BY <1>6, <2>1
  <2>3. r * m = m * r
    OBVIOUS
  <2> QED
    BY <1>3, <1>5, <2>2, <2>3
<1>8. OFFSET_TO_BLK_IDX(p) = q /\ OFFSET_TO_BLK_OFFSET(p) = a
  BY <1>1, <1>5 DEF OFFSET_TO_BLK_IDX, OFFSET_TO_BLK_OFFSET
<1>9. q * m \in Nat
  BY <1>6
<1>10. q \in Pos /\ a \in Offset
  BY <1>1, <1>2, <1>6, <1>7 DEF Pos, Offset
<1>11. p = q * BLOCK_SIZE + a /\ q * BLOCK_SIZE \in Nat
  BY <1>1, <1>5, <1>9
<1> QED
  BY <1>8, <1>10, <1>11

LEMMA PlaceOf ==
    ASSUME NEW i \in Nat, NEW o \in Offset, NEW p, p = i * BLOCK_SIZE + o
    PROVE  OFFSET_TO_BLK_IDX(p) = i /\ OFFSET_TO_BLK_OFFSET(p) = o
<1>1. BLOCK_SIZE \in Nat \ {0} /\ o \in 0 .. BLOCK_SIZE - 1
  BY Sizes DEF Offset
<1> QED
  BY <1>1, ModUnique, DivUnique DEF OFFSET_TO_BLK_IDX, OFFSET_TO_BLK_OFFSET

LEMMA CoveredAt ==
    ASSUME NEW fd, NEW len \in 0 .. MAX_FILE_LEN, Covers(fd, len), NEW p \in Nat, p < len
    PROVE  fd.blk[OFFSET_TO_BLK_IDX(p)] # 0 /\ p < MAX_FILE_LEN
<1>1. p < MAX_FILE_LEN
  BY Sizes
<1>2. /\ OFFSET_TO_BLK_IDX(p) \in Pos /\ OFFSET_TO_BLK_OFFSET(p) \in Nat
      /\ OFFSET_TO_BLK_IDX(p) * BLOCK_SIZE \in Nat
      /\ p = OFFSET_TO_BLK_IDX(p) * BLOCK_SIZE + OFFSET_TO_BLK_OFFSET(p)
  BY <1>1, Place, Sizes DEF Offset
<1>3. OFFSET_TO_BLK_IDX(p) * BLOCK_SIZE < len
  BY <1>2
<1> QED
  BY <1>1, <1>2, <1>3 DEF Covers

-----------------------------------------------------------------------------
(* The handles.                                                            *)

HandleOk(F, f) ==
    /\ f \in HandleRec /\ f.fd_idx \in InUse(F)
    /\ f.cur_blk = 0 \/ \E i \in Pos : f.cur_blk = F[f.fd_idx].blk[i]
    /\ Covers(F[f.fd_idx], f.file_len)

(* What handle f, which reads and writes through its buffer, makes of      *)
(* block b, and the bytes of the file with blocks blk.                     *)
Through(D, f, b)    == IF b = f.cur_blk THEN f.buf ELSE DataOf(D[b])
FileOf(blk, D, f)   ==
    [p \in 1 .. f.file_len |->
        Through(D, f, blk[OFFSET_TO_BLK_IDX(p - 1)])[OFFSET_TO_BLK_OFFSET(p - 1)]]

LEMMA ClosedTyped == Closed \in HandleRec /\ Closed.fd_idx = 0
<1>1. DataOf(Zero) \in [Offset -> Nat]
  BY ZeroBlock
<1> QED
  BY <1>1, Ranges, Sizes DEF Closed, HandleRec

LEMMA HandleIs ==
    ASSUME NEW F, NEW T, Handles(F, T), NEW h \in Handle, T[h].fd_idx # 0
    PROVE  HandleOk(F, T[h])
BY DEF Handles, HandleOk

(* Handle h becomes f, and the descriptors of the others stay.             *)
LEMMA HandlesAfter ==
    ASSUME NEW F, NEW T, Handles(F, T), NEW h \in Handle, NEW f, NEW F2,
           f = Closed \/ HandleOk(F2, f),
           \A g \in Handle \ {h} : T[g].fd_idx # 0 =>
               /\ T[g].fd_idx \in InUse(F2) /\ F2[T[g].fd_idx].blk = F[T[g].fd_idx].blk
               /\ T[g].fd_idx # f.fd_idx
    PROVE  Handles(F2, [T EXCEPT ![h] = f])
<1> DEFINE U == [T EXCEPT ![h] = f]
<1>1. f \in HandleRec /\ \A k \in InUse(F2) : k # 0
  BY ClosedTyped, AnyFd DEF HandleOk, InUse
<1>2. /\ T \in [Handle -> HandleRec] /\ U \in [Handle -> HandleRec]
      /\ U[h] = f /\ \A g \in Handle \ {h} : U[g] = T[g]
  BY <1>1 DEF Handles
<1> HIDE DEF U
<1>3. ASSUME NEW g \in Handle
      PROVE  IF U[g].fd_idx = 0 THEN U[g] = Closed
             ELSE /\ U[g].fd_idx \in InUse(F2)
                  /\ U[g].cur_blk = 0 \/ \E i \in Pos : U[g].cur_blk = F2[U[g].fd_idx].blk[i]
                  /\ Covers(F2[U[g].fd_idx], U[g].file_len)
  <2>1. CASE g = h
    BY <1>1, <1>2, <2>1, ClosedTyped DEF HandleOk
  <2>2. CASE g # h /\ T[g].fd_idx = 0
    BY <1>2, <2>2 DEF Handles
  <2>3. CASE g # h /\ T[g].fd_idx # 0
    <3>1. /\ T[g].cur_blk = 0 \/ \E i \in Pos : T[g].cur_blk = F[T[g].fd_idx].blk[i]
          /\ Covers(F[T[g].fd_idx], T[g].file_len)
      BY <2>3 DEF Handles
    <3>2. T[g].fd_idx \in InUse(F2) /\ F2[T[g].fd_idx].blk = F[T[g].fd_idx].blk
      BY <2>3
    <3> QED
      BY <1>2, <2>3, <3>1, <3>2 DEF Covers
  <2> QED
    BY <2>1, <2>2, <2>3
<1>4. ASSUME NEW a \in Handle, NEW c \in Handle, U[a].fd_idx = U[c].fd_idx, U[a].fd_idx # 0
      PROVE  a = c
  <2>1. CASE a # h /\ c # h
    BY <1>2, <1>4, <2>1 DEF Handles
  <2>2. CASE a = h /\ c # h
    BY <1>2, <1>4, <2>2
  <2>3. CASE a # h /\ c = h
    BY <1>2, <1>4, <2>3
  <2> QED
    BY <2>1, <2>2, <2>3
<1> QED
  BY <1>2, <1>3, <1>4 DEF Handles, U

(* The descriptors of the handles stay.                                    *)
LEMMA HandlesSame ==
    ASSUME NEW F, NEW T, Handles(F, T), NEW F2,
           \A g \in Handle : T[g].fd_idx # 0 =>
               T[g].fd_idx \in InUse(F2) /\ F2[T[g].fd_idx].blk = F[T[g].fd_idx].blk
    PROVE  Handles(F2, T)
<1>1. ASSUME NEW g \in Handle, T[g].fd_idx # 0
      PROVE  /\ T[g].fd_idx \in InUse(F2)
             /\ T[g].cur_blk = 0 \/ \E i \in Pos : T[g].cur_blk = F2[T[g].fd_idx].blk[i]
             /\ Covers(F2[T[g].fd_idx], T[g].file_len)
  <2>1. /\ T[g].cur_blk = 0 \/ \E i \in Pos : T[g].cur_blk = F[T[g].fd_idx].blk[i]
        /\ Covers(F[T[g].fd_idx], T[g].file_len)
    BY <1>1 DEF Handles
  <2>2. T[g].fd_idx \in InUse(F2) /\ F2[T[g].fd_idx].blk = F[T[g].fd_idx].blk
    BY <1>1
  <2> QED
    BY <2>1, <2>2 DEF Covers
<1> QED
  BY <1>1 DEF Handles

LEMMA AllClosedIs == \A F : Handles(F, AllClosed)
BY ClosedTyped DEF Handles, AllClosed

LEMMA NoneListed == \A F, D : OpenListed(F, D, AllClosed)
BY ClosedTyped DEF OpenListed, AllClosed

-----------------------------------------------------------------------------
(* Reading, closing and moving a handle.                                   *)

(* No file but that of descriptor k changes, and not the directory.        *)
OnlyFile(F, D, F2, D2, B2, k) ==
    /\ Sound(F2, D2, B2) /\ InUse(F2) = InUse(F) /\ Listed(F2, D2) = Listed(F, D)
    /\ \A e \in Listed(F, D) : Entry(F2, D2, e) = Entry(F, D, e)
    /\ Kept(F, D, F2, D2, k)

LEMMA OnlyFileSame ==
    ASSUME NEW F, NEW D, NEW B, Sound(F, D, B), NEW k
    PROVE  OnlyFile(F, D, F, D, B, k)
BY DEF OnlyFile, Kept

LEMMA OnlyFileTwice ==
    ASSUME NEW F, NEW D, NEW F1, NEW D1, NEW B1, NEW F2, NEW D2, NEW B2, NEW k,
           OnlyFile(F, D, F1, D1, B1, k), OnlyFile(F1, D1, F2, D2, B2, k)
    PROVE  OnlyFile(F, D, F2, D2, B2, k)
<1>1. /\ Sound(F2, D2, B2) /\ InUse(F2) = InUse(F) /\ Listed(F2, D2) = Listed(F, D)
      /\ \A e \in Listed(F, D) : Entry(F2, D2, e) = Entry(F, D, e)
  BY DEF OnlyFile
<1>2. ASSUME NEW l \in InUse(F) \ {k}
      PROVE  /\ F2[l] = F[l]
             /\ \A h \in Pos : F[l].blk[h] # 0 => D2[F[l].blk[h]] = D[F[l].blk[h]]
  <2>1. /\ F1[l] = F[l]
        /\ \A h \in Pos : F[l].blk[h] # 0 => D1[F[l].blk[h]] = D[F[l].blk[h]]
    BY DEF OnlyFile, Kept
  <2>2. /\ F2[l] = F1[l]
        /\ \A h \in Pos : F1[l].blk[h] # 0 => D2[F1[l].blk[h]] = D1[F1[l].blk[h]]
    BY DEF OnlyFile, Kept
  <2> QED
    BY <2>1, <2>2
<1> QED
  BY <1>1, <1>2 DEF OnlyFile, Kept

LEMMA OthersKept ==
    ASSUME NEW F, NEW D, NEW B, Sound(F, D, B), NEW k \in InUse(F), NEW i \in Pos,
           F[k].blk[i] # 0, NEW F2, \A l \in Fds \ {k} : F2[l] = F[l],
           NEW D2, \A c \in DataBlk \ {F[k].blk[i]} : D2[c] = D[c]
    PROVE  Kept(F, D, F2, D2, k)
<1>1. ASSUME NEW l \in InUse(F) \ {k}, NEW h \in Pos, F[l].blk[h] # 0
      PROVE  D2[F[l].blk[h]] = D[F[l].blk[h]]
  <2>1. l \in Owners(F) /\ k \in Owners(F)
    BY DEF Owners
  <2>2. F[l].blk[h] # F[k].blk[i]
    BY <2>1, Apart
  <2>3. F[l].blk[h] \in DataBlk
    BY <1>1, <2>1, OwnedBlock
  <2> QED
    BY <2>2, <2>3
<1>2. \A l \in InUse(F) \ {k} : F2[l] = F[l]
  BY AnyFd DEF InUse
<1> QED
  BY <1>1, <1>2 DEF Kept

(* A write marks its blocks last: until then the bitmap C lags behind.     *)
FlushedD(D, f) == IF f.cur_blk = 0 THEN D
                  ELSE [D EXCEPT ![f.cur_blk] = [kind |-> "data", data |-> f.buf]]

LEMMA FlushedViews ==
    ASSUME NEW s, NEW F, NEW D, NEW B, NEW C, Views(s, F, D, C), Sound(F, D, B),
           NEW f, HandleOk(F, f)
    PROVE  /\ Views(Flushed(s, f), F, FlushedD(D, f), C)
           /\ OnlyFile(F, D, F, FlushedD(D, f), B, f.fd_idx)
           /\ \A c \in DataBlk : DataOf(FlushedD(D, f)[c]) = Through(D, f, c)
<1>1. CASE f.cur_blk = 0
  <2>1. \A c \in DataBlk : c # f.cur_blk
    BY <1>1, Ranges
  <2> QED
    BY <1>1, <2>1, OnlyFileSame DEF Flushed, FlushedD, Through
<1>2. CASE f.cur_blk # 0
  <2>1. PICK k \in InUse(F), i \in Pos : k = f.fd_idx /\ f.cur_blk = F[k].blk[i] /\ F[k].blk[i] # 0
    BY <1>2 DEF HandleOk
  <2>2. f.buf \in [Offset -> Nat]
    BY DEF HandleOk, HandleRec
  <2>3. PICK x \in Block : x = [kind |-> "data", data |-> f.buf] /\ DataOf(x) = f.buf
    BY <2>2, NewBlocks
  <2>4. PICK b \in DataBlk : b = f.cur_blk
    BY <2>1, OwnedBlock DEF Owners
  <2> DEFINE D2 == [D EXCEPT ![b] = x]
  <2>5. D2 = FlushedD(D, f) /\ write_block(s, b, x) = Flushed(s, f)
    BY <1>2, <2>3, <2>4 DEF FlushedD, Flushed
  <2>6. Views(write_block(s, b, x), F, D2, C)
    BY WriteViews
  <2>7. /\ Sound(F, D2, B) /\ Listed(F, D2) = Listed(F, D)
        /\ \A e \in Listed(F, D) : Entry(F, D2, e) = Entry(F, D, e)
    <3>1. b = F[k].blk[i]
      BY <2>1, <2>4
    <3> DEFINE E2 == [D EXCEPT ![F[k].blk[i]] = x]
    <3>2. /\ Sound(F, E2, B) /\ Listed(F, E2) = Listed(F, D)
          /\ \A e \in Listed(F, D) : Entry(F, E2, e) = Entry(F, D, e)
      BY <2>1, NewData
    <3>3. E2 = D2
      BY <3>1
    <3> QED
      BY <3>2, <3>3
  <2>8. D2[b] = x /\ \A c \in DataBlk \ {b} : D2[c] = D[c]
    BY DEF Sound, Typed
  <2> HIDE DEF D2
  <2>9. Kept(F, D, F, D2, k)
    BY <2>1, <2>4, <2>8, OthersKept
  <2>10. \A c \in DataBlk : DataOf(D2[c]) = Through(D, f, c)
    BY <2>3, <2>4, <2>8 DEF Through
  <2> QED
    BY <2>1, <2>5, <2>6, <2>7, <2>9, <2>10 DEF OnlyFile
<1> QED
  BY <1>1, <1>2

(* Handle g has the file and position of f and makes the same of it.       *)
Alike(D, f, D2, g) ==
    /\ g.fd_idx = f.fd_idx /\ g.file_len = f.file_len /\ g.offset = f.offset
    /\ \A c \in DataBlk : Through(D2, g, c) = Through(D, f, c)

LEMMA MovedViews ==
    ASSUME NEW s, NEW F, NEW D, NEW B, NEW C, Views(s, F, D, C), Sound(F, D, B),
           NEW f, HandleOk(F, f),
           NEW b, b = 0 \/ \E i \in Pos : b = F[f.fd_idx].blk[i]
    PROVE  \E D2 : /\ Views(Moved(s, f, b).fs, F, D2, C)
                   /\ OnlyFile(F, D, F, D2, B, f.fd_idx)
                   /\ HandleOk(F, Moved(s, f, b).file) /\ Alike(D, f, D2, Moved(s, f, b).file)
                   /\ Moved(s, f, b).file.cur_blk = b
<1>1. CASE f.cur_blk = b
  BY <1>1, OnlyFileSame DEF Moved, Alike
<1>2. CASE f.cur_blk # b
  <2> DEFINE t  == Flushed(s, f)
             D2 == FlushedD(D, f)
             g  == [f EXCEPT !.cur_blk = b, !.buf = DataOf(t.disk[b])]
  <2>1. Moved(s, f, b).fs = t /\ Moved(s, f, b).file = g
    BY <1>2 DEF Moved
  <2>2. /\ Views(t, F, D2, C) /\ OnlyFile(F, D, F, D2, B, f.fd_idx)
        /\ \A c \in DataBlk : DataOf(D2[c]) = Through(D, f, c)
    BY FlushedViews
  <2>3. b \in Blk /\ (b # 0 => b \in DataBlk)
    <3>1. f.fd_idx \in Owners(F)
      BY DEF HandleOk, Owners
    <3> QED
      BY <3>1, OwnedBlock, Ranges
  <2> HIDE DEF t, D2
  <2>4. DataOf(t.disk[b]) \in [Offset -> Nat]
    <3>1. t.disk[b] \in Block
      BY <2>2, <2>3 DEF Views, FsState
    <3> QED
      BY <3>1, BlockTypes
  <2>5. /\ f \in HandleRec /\ g \in HandleRec
        /\ g.fd_idx = f.fd_idx /\ g.file_len = f.file_len /\ g.offset = f.offset
        /\ g.cur_blk = b /\ g.buf = DataOf(t.disk[b])
    <3>1. f \in HandleRec
      BY DEF HandleOk
    <3>2. \A x \in [Offset -> Nat] : [f EXCEPT !.cur_blk = b, !.buf = x] \in HandleRec
      BY <2>3, <3>1 DEF HandleRec
    <3>3. \A x : LET r == [f EXCEPT !.cur_blk = b, !.buf = x]
                 IN  /\ r.fd_idx = f.fd_idx /\ r.file_len = f.file_len /\ r.offset = f.offset
                     /\ r.cur_blk = b /\ r.buf = x
      BY <3>1 DEF HandleRec
    <3> QED
      BY <2>4, <3>1, <3>2, <3>3
  <2> HIDE DEF g
  <2>6. HandleOk(F, g)
    BY <2>5 DEF HandleOk
  <2>7. ASSUME NEW c \in DataBlk
        PROVE  Through(D2, g, c) = Through(D, f, c)
    <3>1. CASE c = b
      <4>1. t.disk[b] = D2[b]
        BY <2>2, <3>1, ViewsFd
      <4> QED
        BY <2>2, <2>5, <3>1, <4>1 DEF Through
    <3>2. CASE c # b
      BY <2>2, <2>5, <3>2 DEF Through
    <3> QED
      BY <3>1, <3>2
  <2> QED
    BY <2>1, <2>2, <2>5, <2>6, <2>7 DEF Alike
<1> QED
  BY <1>1, <1>2

LEMMA ByteBlock ==
    ASSUME NEW F, NEW D, NEW B, Sound(F, D, B), NEW f, HandleOk(F, f),
           NEW p \in Nat, p < f.file_len
    PROVE  /\ OFFSET_TO_BLK_IDX(p) \in Pos /\ OFFSET_TO_BLK_OFFSET(p) \in Offset
           /\ F[f.fd_idx].blk[OFFSET_TO_BLK_IDX(p)] # 0
           /\ F[f.fd_idx].blk[OFFSET_TO_BLK_IDX(p)] \in DataBlk
<1>1. f.file_len \in 0 .. MAX_FILE_LEN /\ Covers(F[f.fd_idx], f.file_len) /\ f.fd_idx \in Owners(F)
  BY DEF HandleOk, HandleRec, Owners
<1>2. p < MAX_FILE_LEN /\ F[f.fd_idx].blk[OFFSET_TO_BLK_IDX(p)] # 0
  BY <1>1, CoveredAt
<1>3. OFFSET_TO_BLK_IDX(p) \in Pos /\ OFFSET_TO_BLK_OFFSET(p) \in Offset
  BY <1>2, Place
<1> QED
  BY <1>1, <1>2, <1>3, OwnedBlock

LEMMA ThroughTyped ==
    ASSUME NEW F, NEW D, NEW B, Sound(F, D, B), NEW f, f \in HandleRec, NEW b \in DataBlk
    PROVE  Through(D, f, b) \in [Offset -> Nat]
<1>1. D[b] \in Block /\ f.buf \in [Offset -> Nat]
  BY DEF Sound, Typed, HandleRec
<1>2. DataOf(D[b]) \in [Offset -> Nat]
  BY <1>1, BlockTypes
<1> QED
  BY <1>1, <1>2 DEF Through

LEMMA FileTyped ==
    ASSUME NEW F, NEW D, NEW B, Sound(F, D, B), NEW f, HandleOk(F, f)
    PROVE  /\ f.file_len \in Nat
           /\ FileOf(F[f.fd_idx].blk, D, f) \in [1 .. f.file_len -> Nat]
           /\ FileOf(F[f.fd_idx].blk, D, f) \in Seq(Nat)
           /\ Len(FileOf(F[f.fd_idx].blk, D, f)) = f.file_len
<1>1. f \in HandleRec /\ f.file_len \in Nat
  BY Sizes DEF HandleOk, HandleRec
<1>2. ASSUME NEW p \in 1 .. f.file_len
      PROVE  Through(D, f, F[f.fd_idx].blk[OFFSET_TO_BLK_IDX(p - 1)])[OFFSET_TO_BLK_OFFSET(p - 1)] \in Nat
  <2>1. p - 1 \in Nat /\ p - 1 < f.file_len
    BY <1>1
  <2>2. /\ OFFSET_TO_BLK_OFFSET(p - 1) \in Offset
        /\ F[f.fd_idx].blk[OFFSET_TO_BLK_IDX(p - 1)] \in DataBlk
    BY <2>1, ByteBlock
  <2>3. Through(D, f, F[f.fd_idx].blk[OFFSET_TO_BLK_IDX(p - 1)]) \in [Offset -> Nat]
    BY <1>1, <2>2, ThroughTyped
  <2> QED
    BY <2>2, <2>3
<1>3. FileOf(F[f.fd_idx].blk, D, f) \in [1 .. f.file_len -> Nat]
  BY <1>2 DEF FileOf
<1> QED
  BY <1>1, <1>3

LEMMA AlikeFile ==
    ASSUME NEW F, NEW D, NEW B, Sound(F, D, B), NEW f, HandleOk(F, f), NEW D2, NEW g,
           Alike(D, f, D2, g)
    PROVE  FileOf(F[f.fd_idx].blk, D2, g) = FileOf(F[f.fd_idx].blk, D, f)
<1>1. g.file_len = f.file_len /\ \A c \in DataBlk : Through(D2, g, c) = Through(D, f, c)
  BY DEF Alike
<1>2. f.file_len \in Nat
  BY FileTyped
<1>3. ASSUME NEW p \in 1 .. f.file_len
      PROVE  F[f.fd_idx].blk[OFFSET_TO_BLK_IDX(p - 1)] \in DataBlk
  <2>1. p - 1 \in Nat /\ p - 1 < f.file_len
    BY <1>2
  <2> QED
    BY <2>1, ByteBlock
<1> QED
  BY <1>1, <1>3 DEF FileOf

LEMMA OffsetSet ==
    ASSUME NEW F, NEW f, HandleOk(F, f), NEW o \in 0 .. MAX_FILE_LEN
    PROVE  LET g == [f EXCEPT !.offset = o]
           IN  /\ HandleOk(F, g) /\ g.offset = o /\ g.fd_idx = f.fd_idx
               /\ g.file_len = f.file_len /\ g.cur_blk = f.cur_blk /\ g.buf = f.buf
               /\ \A D, b : Through(D, g, b) = Through(D, f, b)
               /\ \A blk, D : FileOf(blk, D, g) = FileOf(blk, D, f)
<1> DEFINE g == [f EXCEPT !.offset = o]
<1>1. f \in HandleRec
  BY DEF HandleOk
<1>2. /\ g \in HandleRec /\ g.offset = o /\ g.fd_idx = f.fd_idx
      /\ g.file_len = f.file_len /\ g.cur_blk = f.cur_blk /\ g.buf = f.buf
  BY <1>1 DEF HandleRec
<1> HIDE DEF g
<1>3. HandleOk(F, g)
  BY <1>2 DEF HandleOk
<1>4. \A D, b : Through(D, g, b) = Through(D, f, b)
  BY <1>2 DEF Through
<1>5. \A blk, D : FileOf(blk, D, g) = FileOf(blk, D, f)
  BY <1>2, <1>4 DEF FileOf
<1> QED
  BY <1>2, <1>3, <1>4, <1>5 DEF g

(* What a read returns and does.                                           *)
ReadEnd(file, offset, count) == IF offset + count < Len(file) THEN offset + count ELSE Len(file)

(* As many bytes as there are, and those of two blocks what they should be.*)
ReadOf(f, bytes, want) ==
    /\ Len(bytes) = Len(want)
    /\ \A m \in 1 .. Len(want) :
         OFFSET_TO_BLK_OFFSET(f.offset) + m <= 2 * BLOCK_SIZE => bytes[m] = want[m]

ReadDone(F, D, B, f, count, r, D2) ==
    LET file == FileOf(F[f.fd_idx].blk, D, f)
    IN  /\ Views(r.fs, F, D2, B) /\ OnlyFile(F, D, F, D2, B, f.fd_idx)
        /\ HandleOk(F, r.file) /\ r.file.fd_idx = f.fd_idx /\ r.file.file_len = f.file_len
        /\ FileOf(F[f.fd_idx].blk, D2, r.file) = file
        /\ ReadOf(f, r.read, SubSeq(file, f.offset + 1, ReadEnd(file, f.offset, count)))
        /\ Len(r.read) \in Nat /\ r.file.offset = f.offset + Len(r.read)
        /\ r.file.offset \in 0 .. MAX_FILE_LEN

LEMMA CountIs == ASSUME NEW count \in Count PROVE count \in Nat /\ 1 <= count
BY FsAssumption

LEMMA ReadViews ==
    ASSUME NEW s, NEW F, NEW D, NEW B, Views(s, F, D, B), Sound(F, D, B),
           NEW f, HandleOk(F, f), NEW count \in Count
    PROVE  \E D2 : ReadDone(F, D, B, f, count, sf_read(s, f, count), D2)
<1> DEFINE k    == f.fd_idx
           file == FileOf(F[k].blk, D, f)
<1>1. /\ k \in InUse(F) /\ k \in Fds /\ f \in HandleRec /\ f.file_len \in 0 .. MAX_FILE_LEN
      /\ f.offset \in 0 .. MAX_FILE_LEN /\ MAX_FILE_LEN \in Nat /\ Fd(s, k) = F[k]
  <2>1. k \in InUse(F) /\ k \in Fds
    BY AnyFd DEF HandleOk, InUse
  <2> QED
    BY <2>1, ViewsFd, Sizes DEF HandleOk, HandleRec
<1>2. count \in Nat /\ 1 <= count /\ BLOCK_SIZE \in Nat /\ BLOCK_SIZE >= 1
  BY CountIs, Sizes
<1>3. file \in Seq(Nat) /\ Len(file) = f.file_len /\ file \in [1 .. f.file_len -> Nat]
  BY FileTyped
<1>4. CASE f.offset >= f.file_len
  <2>1. sf_read(s, f, count) = [fs |-> s, file |-> f, read |-> <<>>]
    BY <1>4 DEF sf_read
  <2> HIDE DEF file
  <2>2. ReadEnd(file, f.offset, count) < f.offset + 1 /\ ReadEnd(file, f.offset, count) \in Int
    BY <1>1, <1>2, <1>3, <1>4 DEF ReadEnd
  <2>3. SubSeq(file, f.offset + 1, ReadEnd(file, f.offset, count)) = <<>>
    <3>1. f.offset + 1 \in Int
      BY <1>1
    <3> QED
      BY <2>2, <3>1, SubSeqEmpty
  <2>4. Len(<<>>) = 0 /\ f.offset = f.offset + 0
    BY <1>1
  <2> QED
    <3> DEFINE r == sf_read(s, f, count)
    <3>1. r.fs = s /\ r.file = f /\ r.read = <<>>
      BY <2>1
    <3>2. OnlyFile(F, D, F, D, B, k)
      BY OnlyFileSame
    <3> HIDE DEF r
    <3>3. ReadDone(F, D, B, f, count, r, D)
      BY <1>1, <2>3, <2>4, <3>1, <3>2 DEF ReadDone, ReadOf, file
    <3> QED
      BY <3>3 DEF r
<1>5. CASE f.offset < f.file_len
  <2> DEFINE i    == OFFSET_TO_BLK_IDX(f.offset)
             from == OFFSET_TO_BLK_OFFSET(f.offset)
             n    == IF f.offset + count > f.file_len THEN f.file_len - f.offset ELSE count
             here == Moved(s, f, F[k].blk[i])
             last == IF from + n > BLOCK_SIZE THEN Moved(here.fs, here.file, F[k].blk[i + 1])
                                              ELSE here
             byte == [m \in 1 .. n |-> IF from + m <= BLOCK_SIZE THEN here.file.buf[from + m - 1]
                                       ELSE last.file.buf[(from + m - 1) % BLOCK_SIZE]]
             g    == [last.file EXCEPT !.offset = last.file.offset + n]
  <2>1. ~(f.offset >= f.file_len)
    BY <1>1, <1>5
  <2>2. sf_read(s, f, count) = [fs |-> last.fs, file |-> g, read |-> byte]
    <3>1. Fd(s, f.fd_idx) = F[k]
      BY <1>1
    <3> QED
      BY <2>1, <3>1, Zenon DEF sf_read
  <2>3. /\ i \in Pos /\ from \in Offset /\ F[k].blk[i] # 0 /\ F[k].blk[i] \in DataBlk
        /\ i \in Nat /\ from \in Nat /\ from < BLOCK_SIZE
    <3>1. /\ i \in Pos /\ from \in Offset /\ F[k].blk[i] # 0 /\ F[k].blk[i] \in DataBlk
      BY <1>1, <1>5, ByteBlock
    <3> QED
      BY <3>1, <1>2 DEF Pos, Offset
  <2>4. f.offset = i * BLOCK_SIZE + from /\ i * BLOCK_SIZE \in Nat
    <3>1. f.offset \in Nat /\ f.offset < MAX_FILE_LEN
      BY <1>1, <1>5
    <3> QED
      BY <3>1, Place
  <2>5. n \in Nat /\ 1 <= n /\ n <= count /\ f.offset + n <= f.file_len
    BY <1>1, <1>2, <1>5
  <2>6. ReadEnd(file, f.offset, count) = f.offset + n
    <3> HIDE DEF file
    <3>1. PICK x \in Nat, y \in Nat : x = f.offset /\ y = f.file_len /\ x < y /\ y = Len(file)
      BY <1>1, <1>3, <1>5
    <3>2. CASE x + count > y
      BY <1>2, <3>1, <3>2 DEF ReadEnd
    <3>3. CASE x + count = y
      BY <1>2, <3>1, <3>3 DEF ReadEnd
    <3>4. CASE x + count < y
      BY <1>2, <3>1, <3>4 DEF ReadEnd
    <3> QED
      BY <1>2, <3>1, <3>2, <3>3, <3>4
  <2> HIDE DEF i, from, n, file, here
  <2>7. PICK D1 : /\ Views(here.fs, F, D1, B)
                  /\ OnlyFile(F, D, F, D1, B, k)
                  /\ HandleOk(F, here.file) /\ Alike(D, f, D1, here.file)
                  /\ here.file.cur_blk = F[k].blk[i]
    BY <2>3, MovedViews DEF here
  <2>8. Sound(F, D1, B)
    BY <2>7 DEF OnlyFile
  <2>9. ASSUME NEW m \in 1 .. n, from + m > BLOCK_SIZE, from + m <= 2 * BLOCK_SIZE
        PROVE  /\ OFFSET_TO_BLK_IDX(f.offset + m - 1) = i + 1
               /\ OFFSET_TO_BLK_OFFSET(f.offset + m - 1) = (from + m - 1) % BLOCK_SIZE
    <3>1. PICK o \in Offset : o = from + m - 1 - BLOCK_SIZE
      BY <1>2, <2>3, <2>5, <2>9 DEF Offset
    <3>2. (i + 1) * BLOCK_SIZE = i * BLOCK_SIZE + BLOCK_SIZE
      BY <1>2, <2>3
    <3>3. f.offset + m - 1 = (i + 1) * BLOCK_SIZE + o
      <4>1. PICK q \in Nat : q = i * BLOCK_SIZE
        BY <2>4
      <4> QED
        BY <1>2, <2>3, <2>4, <2>5, <3>1, <3>2, <4>1
    <3>4. from + m - 1 = 1 * BLOCK_SIZE + o
      BY <1>2, <2>3, <2>5, <3>1
    <3>5. i + 1 \in Nat /\ 1 \in Nat
      BY <2>3
    <3>6. OFFSET_TO_BLK_OFFSET(from + m - 1) = o
      BY <3>4, <3>5, PlaceOf
    <3>7. (from + m - 1) % BLOCK_SIZE = o
      BY <3>6 DEF OFFSET_TO_BLK_OFFSET
    <3> QED
      BY <3>3, <3>5, <3>7, PlaceOf
  <2>9a. ASSUME from + n > BLOCK_SIZE
         PROVE  i + 1 \in Pos /\ F[k].blk[i + 1] \in DataBlk
    <3>1. PICK m \in 1 .. n : from + m = BLOCK_SIZE + 1
      <4>1. PICK m \in Int : m = BLOCK_SIZE - from + 1
        BY <1>2, <2>3
      <4>2. m \in 1 .. n /\ from + m = BLOCK_SIZE + 1
        BY <1>2, <2>3, <2>5, <2>9a, <4>1
      <4> QED
        BY <4>2
    <3>2. OFFSET_TO_BLK_IDX(f.offset + m - 1) = i + 1
      BY <1>2, <2>9, <3>1
    <3>3. f.offset + m - 1 \in Nat /\ f.offset + m - 1 < f.file_len
      BY <1>1, <2>5
    <3> QED
      BY <3>2, <3>3, ByteBlock
  <2>10. \A m \in 1 .. n : from + m <= BLOCK_SIZE =>
           /\ OFFSET_TO_BLK_IDX(f.offset + m - 1) = i
           /\ OFFSET_TO_BLK_OFFSET(f.offset + m - 1) = from + m - 1
    <3>1. SUFFICES ASSUME NEW m \in 1 .. n, from + m <= BLOCK_SIZE
                   PROVE  /\ OFFSET_TO_BLK_IDX(f.offset + m - 1) = i
                          /\ OFFSET_TO_BLK_OFFSET(f.offset + m - 1) = from + m - 1
      OBVIOUS
    <3>2. from + m - 1 \in Offset
      BY <1>2, <2>3, <2>5, <3>1 DEF Offset
    <3>3. f.offset + m - 1 = i * BLOCK_SIZE + (from + m - 1)
      <4>1. PICK q \in Nat : q = i * BLOCK_SIZE
        BY <2>4
      <4> QED
        BY <2>3, <2>4, <2>5, <3>1, <4>1
    <3> QED
      BY <2>3, <3>2, <3>3, PlaceOf
  <2> HIDE DEF last
  <2>11. PICK D2 : /\ Views(last.fs, F, D2, B)
                   /\ OnlyFile(F, D, F, D2, B, k)
                   /\ HandleOk(F, last.file) /\ Alike(D, f, D2, last.file)
                   /\ from + n > BLOCK_SIZE => last.file.cur_blk = F[k].blk[i + 1]
    <3>1. CASE ~(from + n > BLOCK_SIZE)
      <4>1. last = here
        BY <3>1 DEF last
      <4> QED
        BY <2>7, <3>1, <4>1
    <3>2. CASE from + n > BLOCK_SIZE
      <4>1. here.file.fd_idx = k
        BY <2>7 DEF Alike
      <4>2. PICK E : /\ Views(Moved(here.fs, here.file, F[k].blk[i + 1]).fs, F, E, B)
                     /\ OnlyFile(F, D1, F, E, B, here.file.fd_idx)
                     /\ HandleOk(F, Moved(here.fs, here.file, F[k].blk[i + 1]).file)
                     /\ Alike(D1, here.file, E, Moved(here.fs, here.file, F[k].blk[i + 1]).file)
                     /\ Moved(here.fs, here.file, F[k].blk[i + 1]).file.cur_blk = F[k].blk[i + 1]
        BY <2>7, <2>8, <2>9a, <3>2, <4>1, MovedViews
      <4>3. last = Moved(here.fs, here.file, F[k].blk[i + 1])
        BY <3>2 DEF last
      <4>4. OnlyFile(F, D, F, E, B, k)
        BY <2>7, <4>1, <4>2, OnlyFileTwice
      <4>5. Alike(D, f, E, last.file)
        BY <2>7, <4>2, <4>3 DEF Alike
      <4> QED
        BY <4>2, <4>3, <4>4, <4>5
    <3> QED
      BY <3>1, <3>2
  <2>12. ASSUME NEW m \in 1 .. n, from + m <= 2 * BLOCK_SIZE
         PROVE  byte[m] = file[f.offset + m]
    <3>1. f.offset + m \in 1 .. f.file_len /\ f.offset + m - 1 \in Nat
      BY <1>1, <2>5
    <3>2. file[f.offset + m] =
            Through(D, f, F[k].blk[OFFSET_TO_BLK_IDX(f.offset + m - 1)])
                   [OFFSET_TO_BLK_OFFSET(f.offset + m - 1)]
      <4>1. \A p \in 1 .. f.file_len :
              file[p] = Through(D, f, F[k].blk[OFFSET_TO_BLK_IDX(p - 1)])
                               [OFFSET_TO_BLK_OFFSET(p - 1)]
        BY DEF file, FileOf
      <4>2. PICK p \in 1 .. f.file_len : p = f.offset + m
        BY <3>1
      <4>3. p - 1 = f.offset + m - 1
        BY <1>1, <2>5, <4>2
      <4> HIDE DEF file
      <4>4. file[p] = Through(D, f, F[k].blk[OFFSET_TO_BLK_IDX(p - 1)])[OFFSET_TO_BLK_OFFSET(p - 1)]
        BY <4>1
      <4> QED
        BY <4>2, <4>3, <4>4
    <3>3. CASE from + m <= BLOCK_SIZE
      <4>1. here.file.buf = Through(D, f, F[k].blk[i])
        <5>1. Through(D1, here.file, F[k].blk[i]) = Through(D, f, F[k].blk[i])
          BY <2>3, <2>7 DEF Alike
        <5> QED
          BY <2>7, <5>1 DEF Through
      <4>2. byte[m] = here.file.buf[from + m - 1]
        BY <3>3
      <4> QED
        BY <2>10, <3>2, <3>3, <4>1, <4>2
    <3>4. CASE ~(from + m <= BLOCK_SIZE)
      <4>1. from + m > BLOCK_SIZE /\ from + n > BLOCK_SIZE
        BY <1>2, <2>3, <2>5, <3>4
      <4>2. last.file.buf = Through(D, f, F[k].blk[i + 1])
        <5>1. Through(D2, last.file, F[k].blk[i + 1]) = Through(D, f, F[k].blk[i + 1])
          BY <2>11, <2>9a, <4>1 DEF Alike
        <5> QED
          BY <2>11, <4>1, <5>1 DEF Through
      <4>3. byte[m] = last.file.buf[(from + m - 1) % BLOCK_SIZE]
        BY <3>4
      <4>4. /\ OFFSET_TO_BLK_IDX(f.offset + m - 1) = i + 1
            /\ OFFSET_TO_BLK_OFFSET(f.offset + m - 1) = (from + m - 1) % BLOCK_SIZE
        BY <2>9, <2>12, <4>1
      <4> QED
        BY <3>2, <4>2, <4>3, <4>4
    <3> QED
      BY <3>3, <3>4
  <2>13. Len(byte) = n /\ ReadOf(f, byte, SubSeq(file, f.offset + 1, f.offset + n))
    <3> DEFINE a == f.offset + 1
               e == f.offset + n
               t == SubSeq(file, a, e)
    <3>1. a \in Int /\ e \in Int /\ a <= e /\ e - a + 1 = n /\ a .. e \subseteq 1 .. f.file_len
      BY <1>1, <2>5
    <3>2. \A p \in a .. e : file[p] \in Nat
      BY <1>3, <3>1
    <3> HIDE DEF a, e
    <3>3. /\ t \in Seq(Nat) /\ Len(t) = IF a <= e THEN e - a + 1 ELSE 0
          /\ \A m \in 1 .. e - a + 1 : t[m] = file[a + m - 1]
      BY <3>1, <3>2, SubSeqProperties
    <3>4. Len(t) = n
      BY <3>1, <3>3
    <3>5. Len(byte) = n
      BY <2>5
    <3> HIDE DEF t, byte
    <3>6. ASSUME NEW m \in 1 .. n, from + m <= 2 * BLOCK_SIZE PROVE byte[m] = t[m]
      <4>1. a + m - 1 = f.offset + m
        BY <1>1, <2>5 DEF a
      <4>2. t[m] = file[a + m - 1]
        BY <3>1, <3>3
      <4>3. byte[m] = file[f.offset + m]
        BY <2>12, <3>6
      <4> QED
        BY <4>1, <4>2, <4>3
    <3>7. ReadOf(f, byte, t)
      BY <3>4, <3>5, <3>6 DEF ReadOf, from
    <3> QED
      BY <3>5, <3>7 DEF t, a, e
  <2>14. last.file.offset = f.offset /\ last.file.fd_idx = k /\ last.file.file_len = f.file_len
    BY <2>11 DEF Alike
  <2>15. f.offset + n \in 0 .. MAX_FILE_LEN
    BY <1>1, <2>5
  <2>16. /\ HandleOk(F, g) /\ g.offset = f.offset + n /\ g.fd_idx = k /\ g.file_len = f.file_len
         /\ FileOf(F[k].blk, D2, g) = FileOf(F[k].blk, D2, last.file)
    BY <2>11, <2>14, <2>15, OffsetSet
  <2>17. FileOf(F[k].blk, D2, last.file) = file
    BY <2>11, AlikeFile DEF file
  <2> HIDE DEF byte, g
  <2> DEFINE r == sf_read(s, f, count)
  <2>18. r.fs = last.fs /\ r.file = g /\ r.read = byte
    BY <2>2
  <2> HIDE DEF r
  <2>19. ReadDone(F, D, B, f, count, r, D2)
    BY <2>5, <2>6, <2>11, <2>13, <2>15, <2>16, <2>17, <2>18 DEF ReadDone, file
  <2> QED
    BY <2>19 DEF r
<1> QED
  BY <1>1, <1>4, <1>5

(* A file that no handle has, as one that has nothing in its buffer.       *)
Idle(F, k) == [fd_idx |-> k, file_len |-> F[k].len, offset |-> 0, cur_blk |-> 0,
               buf |-> DataOf(Zero)]

LEMMA IdleIs ==
    ASSUME NEW F, NEW D, NEW B, Sound(F, D, B), NEW k \in InUse(F)
    PROVE  /\ HandleOk(F, Idle(F, k))
           /\ \A E : \A c \in DataBlk : Through(E, Idle(F, k), c) = DataOf(E[c])
<1>1. k \in Fds /\ F[k] \in FdRec /\ Covers(F[k], F[k].len)
  <2>1. k \in Fds
    BY AnyFd DEF InUse
  <2> QED
    BY <2>1 DEF Sound, Typed
<1>2. DataOf(Zero) \in [Offset -> Nat] /\ 0 \in Blk /\ 0 \in 0 .. MAX_FILE_LEN /\ k \in FdIdx
  BY <1>1, ZeroBlock, Ranges, Sizes
<1>3. Idle(F, k) \in HandleRec
  BY <1>1, <1>2 DEF Idle, HandleRec, FdRec
<1>4. HandleOk(F, Idle(F, k))
  BY <1>1, <1>3 DEF HandleOk, Idle
<1>5. \A E : \A c \in DataBlk : Through(E, Idle(F, k), c) = DataOf(E[c])
  BY Ranges DEF Through, Idle
<1> QED
  BY <1>4, <1>5

(* Closing writes back the buffer and the length.                          *)
ClosedAs(F, D, f, F2, D2, B) ==
    /\ OnlyFile(F, D, F2, D2, B, f.fd_idx)
    /\ F2[f.fd_idx].blk = F[f.fd_idx].blk /\ F2[f.fd_idx].len = f.file_len
    /\ \A c \in DataBlk : DataOf(D2[c]) = Through(D, f, c)
    /\ \A l \in Fds \ {f.fd_idx} : F2[l] = F[l]

LEMMA CloseViews ==
    ASSUME NEW s, NEW F, NEW D, NEW B, Views(s, F, D, B), Sound(F, D, B),
           NEW f, HandleOk(F, f)
    PROVE  \E F2, D2 : Views(sf_close(s, f), F2, D2, B) /\ ClosedAs(F, D, f, F2, D2, B)
<1> DEFINE k  == f.fd_idx
           t  == Flushed(s, f)
           D2 == FlushedD(D, f)
           F2 == [F EXCEPT ![k] = [F[k] EXCEPT !.len = f.file_len]]
<1>1. /\ Views(t, F, D2, B) /\ OnlyFile(F, D, F, D2, B, k)
      /\ \A c \in DataBlk : DataOf(D2[c]) = Through(D, f, c)
  BY FlushedViews
<1>2. /\ k \in InUse(F) /\ k \in Fds /\ f.file_len \in 0 .. MAX_FILE_LEN
      /\ Covers(F[k], f.file_len) /\ F[k] \in FdRec
  <2>1. k \in InUse(F) /\ k \in Fds
    BY AnyFd DEF HandleOk, InUse
  <2> QED
    BY <2>1 DEF HandleOk, HandleRec, Sound, Typed
<1>3. [F[k] EXCEPT !.len = f.file_len] \in FdRec
  BY <1>2 DEF FdRec
<1> HIDE DEF t, D2, k
<1>4. Views(sf_close(s, f), F2, D2, B)
  <2>1. Fd(t, k) = F[k]
    BY <1>1, <1>2, ViewsFd
  <2>2. sf_close(s, f) = SetFd(t, k, [F[k] EXCEPT !.len = f.file_len])
    BY <2>1 DEF sf_close, sf_fd_set_len, t, k
  <2> QED
    BY <1>1, <1>2, <1>3, <2>2, SetViews
<1>5. Sound(F, D2, B)
  BY <1>1 DEF OnlyFile
<1>6. /\ \A l \in Fds \ {k} : F2[l] = F[l]
      /\ F2[k].blk = F[k].blk /\ F2[k].len = f.file_len
  BY <1>2 DEF Sound, Typed, FdRec
<1>7. /\ Sound(F2, D2, B) /\ InUse(F2) = InUse(F) /\ Listed(F2, D2) = Listed(F, D2)
      /\ \A e \in Listed(F, D2) : Entry(F2, D2, e) = Entry(F, D2, e)
  <2>1. F2 \in [Fds -> FdRec]
    BY <1>2, <1>3 DEF Sound, Typed
  <2>2. F2[k].tag = F[k].tag
    BY <1>2 DEF Sound, Typed, FdRec
  <2> HIDE DEF F2
  <2> QED
    BY <1>2, <1>5, <1>6, <2>1, <2>2, NewLength
<1> HIDE DEF F2
<1>8. Kept(F, D2, F2, D2, k)
  <2>1. \A l \in InUse(F) \ {k} : F2[l] = F[l]
    BY <1>6, AnyFd DEF InUse
  <2> QED
    BY <2>1 DEF Kept
<1>9. OnlyFile(F, D2, F2, D2, B, k)
  BY <1>7, <1>8 DEF OnlyFile
<1>10. OnlyFile(F, D, F2, D2, B, k)
  BY <1>1, <1>9, OnlyFileTwice
<1>11. ClosedAs(F, D, f, F2, D2, B)
  BY <1>1, <1>6, <1>10 DEF ClosedAs, k
<1> QED
  BY <1>4, <1>11

LEMMA OpenIs ==
    ASSUME NEW s, NEW F, NEW D, NEW B, Views(s, F, D, B), Sound(F, D, B), NEW n,
           NEW k \in InUse(F), sf_root_find_file(s, n) = k
    PROVE  HandleOk(F, sf_open(s, n)) /\ Alike(D, Idle(F, k), D, sf_open(s, n))
<1> DEFINE b == F[k].blk[0]
           g == [fd_idx |-> k, file_len |-> F[k].len, offset |-> 0, cur_blk |-> b,
                 buf |-> IF b = 0 THEN DataOf(Zero) ELSE DataOf(D[b])]
<1>1. /\ k \in Fds /\ k \in Owners(F) /\ F[k] \in FdRec /\ Fd(s, k) = F[k]
      /\ k \in FdIdx /\ 0 \in Pos
  <2>1. k \in Fds /\ k \in Owners(F)
    BY AnyFd DEF InUse, Owners
  <2> QED
    BY <2>1, ViewsFd, Ranges DEF Sound, Typed
<1>2. b \in Blk /\ (b # 0 => b \in DataBlk /\ s.disk[b] = D[b] /\ D[b] \in Block)
  <2>1. b \in Blk /\ (b # 0 => b \in DataBlk)
    BY <1>1, OwnedBlock
  <2> QED
    BY <2>1, ViewsFd DEF Sound, Typed
<1>3. g = sf_open(s, n)
  BY <1>1, <1>2 DEF sf_open
<1>4. (IF b = 0 THEN DataOf(Zero) ELSE DataOf(D[b])) \in [Offset -> Nat]
  BY <1>2, ZeroBlock, BlockTypes
<1>5. g \in HandleRec
  <2>1. F[k].len \in 0 .. MAX_FILE_LEN /\ 0 \in 0 .. MAX_FILE_LEN
    BY <1>1, Sizes DEF FdRec
  <2> HIDE DEF b
  <2> QED
    BY <1>1, <1>2, <1>4, <2>1 DEF HandleRec
<1>6. HandleOk(F, g)
  <2>1. Covers(F[k], F[k].len)
    BY DEF Sound
  <2>2. g.fd_idx = k /\ g.cur_blk = b /\ g.file_len = F[k].len
    OBVIOUS
  <2> HIDE DEF g
  <2> QED
    BY <1>1, <1>5, <2>1, <2>2 DEF HandleOk
<1>7. ASSUME NEW c \in DataBlk
      PROVE  Through(D, g, c) = Through(D, Idle(F, k), c)
  <2>1. Through(D, Idle(F, k), c) = DataOf(D[c])
    BY IdleIs
  <2>2. c # 0
    BY Ranges
  <2>3. g.cur_blk = b /\ (b # 0 => g.buf = DataOf(D[b]))
    OBVIOUS
  <2> HIDE DEF g, b
  <2> QED
    BY <2>1, <2>2, <2>3 DEF Through
<1>8. Alike(D, Idle(F, k), D, g)
  <2>1. g.fd_idx = Idle(F, k).fd_idx /\ g.file_len = Idle(F, k).file_len /\ g.offset = Idle(F, k).offset
    BY DEF Idle
  <2> HIDE DEF g
  <2> QED
    BY <1>7, <2>1 DEF Alike
<1> QED
  BY <1>3, <1>6, <1>8

(* A seek moves the offset only.                                           *)
AtOffset(f, o) == [f EXCEPT !.offset = o]

LEMMA SeekIs ==
    ASSUME NEW F, NEW f, HandleOk(F, f), NEW len \in Int, NEW whence \in {"CUR", "SET", "END"}
    PROVE  \E o \in 0 .. MAX_FILE_LEN : sf_lseek(f, len, whence) = AtOffset(f, o)
<1>1. f.offset \in Int /\ f.file_len \in Int
  BY Sizes DEF HandleOk, HandleRec
<1>2. Base(f, whence) \in Int
  BY <1>1 DEF Base
<1>3. PICK to \in Int : to = Base(f, whence) + len
  BY <1>2
<1>4. (IF to < 0 THEN 0 ELSE IF to > MAX_FILE_LEN THEN MAX_FILE_LEN ELSE to) \in 0 .. MAX_FILE_LEN
  BY <1>3, Sizes
<1> QED
  BY <1>3, <1>4 DEF sf_lseek, AtOffset

-----------------------------------------------------------------------------
(* Storing, loading and formatting.                                        *)

LEMMA StoreViews ==
    ASSUME NEW s, NEW F, NEW D, NEW B, Views(s, F, D, B)
    PROVE  /\ Views(sf_store(s), F, D, B) /\ Views(sf_load(sf_store(s).disk), F, D, B)
           /\ sf_store(s).disk \in [Blk -> Block]
<1> DEFINE bits == [kind |-> "bits", bits |-> s.bitmap]
           disk == IF s.loaded_blk = 0 THEN [s.disk EXCEPT ![0] = bits]
                   ELSE [[s.disk EXCEPT ![0] = bits] EXCEPT ![s.loaded_blk] = FdBlock(s)]
           t    == sf_store(s)
           u    == sf_load(disk)
<1>1. /\ s \in FsState /\ FdView(s) = F /\ DataView(s) = D /\ BitView(s) = B
      /\ s.disk \in [Blk -> Block] /\ s.bitmap \in SUBSET Blk /\ s.fd_blk_buf \in [Slot -> FdRec]
      /\ s.loaded_blk \in 0 .. RESERVED_BLOCK_CNT - 1
  BY DEF Views, FsState
<1>2. 0 \in Blk /\ s.loaded_blk \in Blk /\ \A b \in DataBlk : b # 0 /\ b # s.loaded_blk /\ b \in Blk
  BY <1>1, Sizes DEF Blk, DataBlk
<1>3. bits \in Block /\ BitsOf(bits) = s.bitmap
  BY <1>1, NewBlocks
<1>4. FdBlock(s) \in Block /\ FdsOf(FdBlock(s)) = s.fd_blk_buf
  BY <1>1, NewBlocks DEF FdBlock
<1> HIDE DEF bits
<1>5. /\ disk \in [Blk -> Block]
      /\ disk[0] = bits
      /\ \A b \in Blk \ {0} : disk[b] = IF b = s.loaded_blk THEN FdBlock(s) ELSE s.disk[b]
  BY <1>1, <1>2, <1>3, <1>4
<1>6. t = [disk |-> disk, bitmap |-> s.bitmap, fd_blk_buf |-> s.fd_blk_buf,
           loaded_blk |-> s.loaded_blk]
  BY <1>1 DEF sf_store, write_block, FsState, bits
<1>7. /\ u.disk = disk /\ u.bitmap = BitsOf(disk[0]) /\ u.fd_blk_buf = FdsOf(Zero)
      /\ u.loaded_blk = 0
      /\ u = [disk |-> disk, bitmap |-> s.bitmap, fd_blk_buf |-> FdsOf(Zero), loaded_blk |-> 0]
  <2> HIDE DEF disk
  <2> QED
    BY <1>3, <1>5 DEF sf_load
<1> HIDE DEF disk, t, u
<1>8. t \in FsState
  BY <1>1, <1>5, <1>6 DEF FsState
<1>9. u \in FsState
  <2>1. FdsOf(Zero) \in [Slot -> FdRec]
    BY ZeroBlock, BlockTypes
  <2>2. 0 \in 0 .. RESERVED_BLOCK_CNT - 1
    BY Sizes
  <2> QED
    BY <1>1, <1>5, <1>7, <2>1, <2>2 DEF FsState
<1>10. ASSUME NEW j \in Fds
       PROVE  Fd(t, j) = Fd(s, j) /\ Fd(u, j) = Fd(s, j)
  <2>1. FD_IDX_TO_BLK_NUM(j) \in 1 .. RESERVED_BLOCK_CNT - 1
    BY FdPlace
  <2>2. FD_IDX_TO_BLK_NUM(j) # 0 /\ FD_IDX_TO_BLK_NUM(j) \in Blk
    BY <2>1, Sizes DEF Blk
  <2>3. t.disk = disk /\ t.fd_blk_buf = s.fd_blk_buf /\ t.loaded_blk = s.loaded_blk
    BY <1>6
  <2>4. CASE FD_IDX_TO_BLK_NUM(j) = s.loaded_blk
    BY <1>4, <1>5, <1>7, <2>2, <2>3, <2>4 DEF Fd
  <2>5. CASE FD_IDX_TO_BLK_NUM(j) # s.loaded_blk
    BY <1>5, <1>7, <2>2, <2>3, <2>5 DEF Fd
  <2> QED
    BY <2>4, <2>5
<1>11. FdView(t) = F /\ FdView(u) = F
  BY <1>1, <1>10 DEF FdView
<1>12. DataView(t) = D /\ DataView(u) = D
  <2>1. \A b \in DataBlk : t.disk[b] = s.disk[b] /\ u.disk[b] = s.disk[b]
    BY <1>2, <1>5, <1>6, <1>7
  <2> QED
    BY <1>1, <2>1 DEF DataView
<1>13. BitView(t) = B /\ BitView(u) = B
  BY <1>1, <1>6, <1>7 DEF BitView
<1>14. t.disk = disk
  BY <1>6
<1> QED
  BY <1>5, <1>8, <1>9, <1>11, <1>12, <1>13, <1>14 DEF Views, t, u

ZeroF == [k \in Fds |-> FreeFd]
ZeroD == [b \in DataBlk |-> Zero]

LEMMA ZeroViews ==
    /\ Views(Zeroed, ZeroF, ZeroD, {}) /\ Sound(ZeroF, ZeroD, {}) /\ sf_mkfs \in [Blk -> Block]
    /\ Listed(ZeroF, ZeroD) = {} /\ InUse(ZeroF) = {}
<1>1. /\ sf_mkfs \in [Blk -> Block] /\ \A b \in Blk : sf_mkfs[b] = Zero
  BY ZeroBlock DEF sf_mkfs, Blk
<1>2. Zeroed = [disk |-> sf_mkfs, bitmap |-> {}, fd_blk_buf |-> FdsOf(Zero), loaded_blk |-> 0]
  <2>1. BitsOf(sf_mkfs[0]) = {}
    BY <1>1, ZeroBlock, Ranges
  <2> QED
    BY <2>1 DEF Zeroed, sf_load
<1>3. Zeroed \in FsState
  <2>1. FdsOf(Zero) \in [Slot -> FdRec]
    BY ZeroBlock, BlockTypes
  <2>2. 0 \in 0 .. RESERVED_BLOCK_CNT - 1
    BY Sizes
  <2> QED
    BY <1>1, <1>2, <2>1, <2>2 DEF FsState
<1>4. \A k \in Fds : Fd(Zeroed, k) = FreeFd
  <2>1. SUFFICES ASSUME NEW k \in Fds PROVE Fd(Zeroed, k) = FreeFd
    OBVIOUS
  <2>2. FD_IDX_TO_BLK_NUM(k) \in Blk /\ FD_IDX_TO_SLOT(k) \in Slot
    BY FdPlace, Sizes DEF Blk
  <2>3. FdsOf(sf_mkfs[FD_IDX_TO_BLK_NUM(k)]) = FdsOf(Zero)
    BY <1>1, <2>2
  <2> QED
    BY <1>2, <2>2, <2>3, ZeroBlock DEF Fd
<1>5. Views(Zeroed, ZeroF, ZeroD, {})
  <2>1. FdView(Zeroed) = ZeroF
    BY <1>4 DEF FdView, ZeroF
  <2>2. DataView(Zeroed) = ZeroD
    BY <1>1, <1>2, Ranges DEF DataView, ZeroD
  <2>3. BitView(Zeroed) = {}
    BY <1>2 DEF BitView
  <2> QED
    BY <1>3, <2>1, <2>2, <2>3 DEF Views
<1>6. /\ \A k \in Fds : ZeroF[k].tag = 0 /\ ZeroF[k].len = 0 /\ \A i \in Pos : ZeroF[k].blk[i] = 0
  BY DEF ZeroF, FreeFd
<1>7. InUse(ZeroF) = {}
  BY <1>6, AnyFd DEF InUse
<1>8. Listed(ZeroF, ZeroD) = {}
  <2>1. \A g \in Pos \X Item : g[1] \in Pos
    BY PairOf
  <2> QED
    BY <1>6, <2>1, Ranges DEF Listed
<1>9. BlocksOwned(ZeroF, ZeroD, {})
  <2>1. Owners(ZeroF) = {1} /\ 1 \in Fds
    BY <1>7, Ranges DEF Owners
  <2>2. \A b \in DataBlk : ZeroD[b] = Zero
    BY DEF ZeroD
  <2> QED
    BY <1>6, <2>1, <2>2 DEF BlocksOwned
<1>10. Directory(ZeroF, ZeroD)
  <2>1. ZeroF[1].len = 0 /\ \A i \in Pos : ZeroF[1].blk[i] = 0
    BY <1>6, Ranges
  <2>2. Cardinality({}) = 0
    BY FS_EmptySet
  <2> QED
    BY <1>7, <1>8, <2>1, <2>2 DEF Directory
<1>12. Complete(ZeroF, ZeroD, {})
  BY <1>7 DEF Complete
<1>11. Typed(ZeroF, ZeroD, {})
  BY <1>5, ViewsTyped
<1> QED
  BY <1>1, <1>5, <1>7, <1>8, <1>9, <1>10, <1>11, <1>12 DEF Sound

-----------------------------------------------------------------------------
(* Writing.                                                                *)

LEMMA RanksDiffer ==
    ASSUME NEW S \in SUBSET Nat, IsFiniteSet(S), NEW i \in S, NEW j \in S, i < j
    PROVE  Before(S, i) # Before(S, j)
<1> DEFINE I == {y \in S : y < i}
           J == {y \in S : y < j}
<1>1. I \subseteq J /\ i \in J /\ i \notin I
  <2>1. i \in Nat /\ j \in Nat
    OBVIOUS
  <2>2. ASSUME NEW y \in I PROVE y \in J
    <3>1. y \in S /\ y < i /\ y \in Nat
      OBVIOUS
    <3> QED
      BY <2>1, <3>1
  <2>3. I \subseteq J
    BY <2>2
  <2>4. i \in J
    BY <2>1
  <2>5. i \notin I
    BY <2>1
  <2> QED
    BY <2>3, <2>4, <2>5
<1>2. IsFiniteSet(J)
  BY FS_Subset
<1> HIDE DEF I, J
<1>3. Cardinality(I) # Cardinality(J)
  BY <1>1, <1>2, FS_Subset
<1> QED
  BY <1>3 DEF Before, I, J

(* The blocks a write of c bytes finds, and how many bytes it writes.      *)
WritePlan(F, B, f, c, blk, n) ==
    LET old  == F[f.fd_idx].blk
        here == OFFSET_TO_BLK_IDX(f.offset)
    IN  /\ blk \in [Pos -> Blk]
        /\ \A i \in Pos : blk[i] = old[i] \/ (old[i] = 0 /\ blk[i] \in DataBlk \ B)
        /\ \A i, j \in Pos : blk[i] = blk[j] /\ blk[i] \in DataBlk \ B => i = j
        /\ n = 0 \/ (n = c /\ blk[here] # 0)
        /\ \A i \in Pos : n = c /\ i * BLOCK_SIZE < f.offset + c => blk[i] # 0

Stored(s, f, data, blk, n) ==
    LET from == OFFSET_TO_BLK_OFFSET(f.offset)
        here == Moved(SetFd(s, f.fd_idx, [Fd(s, f.fd_idx) EXCEPT !.blk = blk]), f,
                      blk[OFFSET_TO_BLK_IDX(f.offset)])
        buf  == [o \in Offset |-> IF o \in from .. from + n - 1 THEN data[o - from + 1]
                                                                ELSE here.file.buf[o]]
        end  == f.offset + n
    IN  [fs   |-> here.fs,
         file |-> [here.file EXCEPT !.buf = buf, !.offset = end,
                                    !.file_len = IF @ < end THEN end ELSE @]]

Writable(f, c) ==
    /\ c \in Nat /\ 1 <= c /\ f.offset <= f.file_len
    /\ OFFSET_TO_BLK_OFFSET(f.offset) + c <= BLOCK_SIZE /\ f.offset + c < MAX_FILE_LEN

LEMMA PlanOf ==
    ASSUME NEW s, NEW F, NEW D, NEW B, Views(s, F, D, B), Sound(F, D, B),
           NEW f, HandleOk(F, f), NEW data, NEW c, c = Len(data), Writable(f, c)
    PROVE  \E blk, n : /\ WritePlan(F, B, f, c, blk, n)
                       /\ sf_write_Unmarked(s, f, data) = Stored(s, f, data, blk, n)
<1> DEFINE fd     == Fd(s, f.fd_idx)
           here   == OFFSET_TO_BLK_IDX(f.offset)
           from   == OFFSET_TO_BLK_OFFSET(f.offset)
           last   == OFFSET_TO_BLK_IDX(f.offset + Len(data))
           needed == {i \in Pos : i <= last /\ fd.blk[i] = 0}
           found  == [i \in needed |-> Nth(FreeBlocks(s), Before(needed, i))]
           given  == {i \in needed : found[i] # {}}
           blk    == [i \in Pos |-> IF i \in given THEN Least(found[i]) ELSE fd.blk[i]]
           n      == IF given = needed THEN Len(data)
                     ELSE Least(needed \ given) * BLOCK_SIZE - f.offset
<1>1. sf_write_Unmarked(s, f, data) = Stored(s, f, data, blk, n)
  BY DEF sf_write_Unmarked, Stored
<1>2. /\ f.fd_idx \in Owners(F) /\ Fd(s, f.fd_idx) = F[f.fd_idx] /\ fd.blk \in [Pos -> Blk]
      /\ f.offset \in Nat /\ f.file_len \in Nat /\ Covers(fd, f.file_len)
  <2>1. f.fd_idx \in Owners(F) /\ f.fd_idx \in Fds
    BY AnyFd DEF HandleOk, Owners, InUse
  <2>2. Fd(s, f.fd_idx) = F[f.fd_idx]
    BY <2>1, ViewsFd
  <2>3. 0 \in Pos
    BY Ranges
  <2> QED
    BY <2>1, <2>2, <2>3, OwnedBlock, Sizes DEF HandleOk, HandleRec
<1>3. PICK z \in Nat \ {0} : z = BLOCK_SIZE
  BY Sizes
<1>4. c \in Nat /\ 1 <= c /\ f.offset <= f.file_len /\ from + c <= z /\ f.offset + c < MAX_FILE_LEN
  BY <1>3 DEF Writable
<1>5. /\ here \in Pos /\ here \in Nat /\ from \in 0 .. z - 1
      /\ here * z \in Nat /\ f.offset = here * z + from
  <2>1. f.offset < MAX_FILE_LEN
    BY <1>2, <1>4, Sizes
  <2> QED
    BY <1>2, <1>3, <2>1, Place, Ranges DEF Offset
<1>6. /\ last \in Pos /\ last \in Nat /\ last * z \in Nat
      /\ f.offset + c >= last * z /\ f.offset + c < last * z + z
  <2>1. f.offset + c \in Nat
    BY <1>2, <1>4
  <2>2. PICK a \in 0 .. z - 1 : a = OFFSET_TO_BLK_OFFSET(f.offset + c)
    BY <1>3, <1>4, <2>1, Place DEF Offset
  <2>3. /\ last \in Pos /\ last \in Nat /\ last * z \in Nat
        /\ f.offset + c = last * z + a
    BY <1>3, <1>4, <2>1, <2>2, Place, Ranges
  <2> QED
    BY <2>1, <2>2, <2>3
<1>7. \A i, j \in Nat : i < j => i * z \in Nat /\ j * z \in Nat /\ i * z + z <= j * z
  <2>1. SUFFICES ASSUME NEW i \in Nat, NEW j \in Nat, i < j
                 PROVE  i * z \in Nat /\ j * z \in Nat /\ i * z + z <= j * z
    OBVIOUS
  <2>2. (i + 1) * z = i * z + z /\ (i + 1) * z <= j * z
    BY <2>1
  <2> QED
    BY <2>2
<1>8. \A i \in needed : here <= i /\ i \in Nat /\ i \in Pos /\ i <= last /\ fd.blk[i] = 0
                          /\ (i = here => from = 0)
  <2>1. SUFFICES ASSUME NEW i \in needed
                 PROVE  here <= i /\ i \in Nat /\ i \in Pos /\ i <= last /\ fd.blk[i] = 0
                          /\ (i = here => from = 0)
    OBVIOUS
  <2>2. i \in Pos /\ i \in Nat /\ i <= last /\ fd.blk[i] = 0
    BY Ranges
  <2>3. ~(i * z < f.file_len)
    BY <1>2, <1>3, <2>2 DEF Covers
  <2> HIDE DEF needed, last, fd, here, from
  <2>4. here <= i
    <3>1. SUFFICES ASSUME i < here PROVE FALSE
      BY <1>5, <2>2
    <3>2. i * z \in Nat /\ i * z + z <= here * z
      BY <1>5, <1>7, <2>2, <3>1
    <3> QED
      BY <1>2, <1>4, <1>5, <2>3, <3>2
  <2>5. i = here => from = 0
    BY <1>2, <1>4, <1>5, <2>3
  <2> QED
    BY <2>2, <2>4, <2>5
<1>9. last = here \/ (last = here + 1 /\ from + c = z)
  <2> HIDE DEF last, here, from
  <2>1. here <= last
    <3>1. SUFFICES ASSUME last < here PROVE FALSE
      BY <1>5, <1>6
    <3>2. last * z + z <= here * z
      BY <1>5, <1>6, <1>7, <3>1
    <3> QED
      BY <1>4, <1>5, <1>6, <3>2
  <2>2. CASE here < last
    <3>1. here * z + z <= last * z
      BY <1>5, <1>6, <1>7, <2>2
    <3>2. from + c = z
      BY <1>4, <1>5, <1>6, <3>1
    <3>3. ~(here + 1 < last)
      <4>1. SUFFICES ASSUME here + 1 < last PROVE FALSE
        OBVIOUS
      <4>2. (here + 1) * z + z <= last * z /\ here * z + z <= (here + 1) * z
        <5>1. here + 1 \in Nat /\ here < here + 1
          BY <1>5
        <5> QED
          BY <1>5, <1>6, <1>7, <4>1, <5>1
      <4>3. (here + 1) * z \in Nat
        BY <1>5
      <4> QED
        BY <1>4, <1>5, <1>6, <4>2, <4>3
    <3> QED
      BY <1>5, <1>6, <2>2, <3>2, <3>3
  <2>3. ~(here < last) => here = last
    BY <1>5, <1>6, <2>1
  <2> QED
    BY <2>2, <2>3
<1>10. FreeBlocks(s) = DataBlk \ B /\ FreeBlocks(s) \in SUBSET Nat
  <2>1. FreeBlocks(s) = DataBlk \ B
    BY FreeBlocksAre
  <2> QED
    BY <2>1, Ranges
<1>11. \A i \in given : /\ i \in needed /\ Least(found[i]) \in FreeBlocks(s)
                        /\ Before(FreeBlocks(s), Least(found[i])) = Before(needed, i)
  <2>1. SUFFICES ASSUME NEW i \in given
                 PROVE  /\ i \in needed /\ Least(found[i]) \in FreeBlocks(s)
                        /\ Before(FreeBlocks(s), Least(found[i])) = Before(needed, i)
    OBVIOUS
  <2>2. i \in needed /\ found[i] # {}
    OBVIOUS
  <2>3. found[i] = Nth(FreeBlocks(s), Before(needed, i))
    BY <2>2
  <2> HIDE DEF given, found, needed
  <2>4. \A x : x \in found[i] <=> x \in FreeBlocks(s) /\ Before(FreeBlocks(s), x) = Before(needed, i)
    BY <2>3 DEF Nth
  <2>5. found[i] \in SUBSET Nat
    BY <1>10, <2>4
  <2>6. Least(found[i]) \in found[i]
    BY <2>2, <2>5, LeastIs
  <2> QED
    BY <2>2, <2>4, <2>6
<1>12. IsFiniteSet(needed) /\ needed \in SUBSET Nat
  <2>1. IsFiniteSet(Pos)
    <3>1. FBLK_CNT - 1 \in Int /\ 0 \in Int
      BY Sizes
    <3> QED
      BY <3>1, FS_Interval DEF Pos
  <2>2. needed \subseteq Pos
    OBVIOUS
  <2> HIDE DEF needed
  <2> QED
    BY <2>1, <2>2, FS_Subset, Ranges
<1>13. \A i \in Pos : blk[i] = IF i \in given THEN Least(found[i]) ELSE fd.blk[i]
  OBVIOUS
<1>14. given \subseteq needed /\ needed \subseteq Pos
  OBVIOUS
<1>15. DOMAIN blk = Pos /\ blk = [i \in Pos |-> blk[i]]
  OBVIOUS
<1>16. n = IF given = needed THEN c ELSE Least(needed \ given) * z - f.offset
  BY <1>3
<1> HIDE DEF blk, found, given, fd, n
<1>17. \A i \in Pos : blk[i] = fd.blk[i] \/ (i \in given /\ fd.blk[i] = 0 /\ blk[i] \in DataBlk \ B)
  <2>1. SUFFICES ASSUME NEW i \in Pos
                 PROVE  blk[i] = fd.blk[i] \/ (i \in given /\ fd.blk[i] = 0 /\ blk[i] \in DataBlk \ B)
    OBVIOUS
  <2>2. CASE i \in given
    <3>1. i \in needed /\ blk[i] \in DataBlk \ B
      BY <1>10, <1>11, <1>13, <2>2
    <3>2. fd.blk[i] = 0
      BY <3>1
    <3> QED
      BY <2>2, <3>1, <3>2
  <2>3. CASE i \notin given
    BY <1>13, <2>3
  <2> QED
    BY <2>2, <2>3
<1>18. blk \in [Pos -> Blk]
  <2>1. \A i \in Pos : blk[i] \in Blk
    BY <1>2, <1>17, Ranges DEF fd
  <2> QED
    BY <1>15, <2>1
<1>19. ASSUME NEW i \in Pos, NEW j \in Pos, blk[i] = blk[j], blk[i] \in DataBlk \ B
       PROVE  i = j
  <2>1. fd.blk[i] \in B \cup {0} /\ fd.blk[j] \in B \cup {0} /\ 0 \notin DataBlk
    BY <1>2, OwnedBlock, Ranges DEF fd
  <2>2. i \in given /\ j \in given
    BY <1>17, <1>19, <2>1
  <2>3. Before(needed, i) = Before(needed, j)
    BY <1>11, <1>13, <1>19, <2>2
  <2>4. i \in needed /\ j \in needed /\ i \in Nat /\ j \in Nat
    BY <1>12, <1>14, <2>2
  <2> HIDE DEF needed
  <2>5. ~(i < j) /\ ~(j < i)
    BY <1>12, <2>3, <2>4, RanksDiffer
  <2> QED
    BY <2>4, <2>5
<1>20. CASE given = needed
  <2>1. n = c
    BY <1>16, <1>20
  <2>2. \A i \in Pos : i <= last => blk[i] # 0
    <3>1. SUFFICES ASSUME NEW i \in Pos, i <= last, blk[i] = 0 PROVE FALSE
      OBVIOUS
    <3>2. fd.blk[i] = 0
      BY <1>10, <1>17, <3>1, Ranges
    <3>3. i \in given
      BY <1>20, <3>1, <3>2
    <3> QED
      BY <1>10, <1>11, <1>13, <3>1, <3>3, Ranges
  <2> HIDE DEF needed, last, here
  <2>3. here <= last
    BY <1>5, <1>6, <1>9
  <2>4. ASSUME NEW i \in Pos, i * BLOCK_SIZE < f.offset + c PROVE blk[i] # 0
    <3>1. i <= last
      <4>1. SUFFICES ASSUME last < i PROVE FALSE
        BY <1>6, Ranges
      <4>2. i \in Nat
        BY Ranges
      <4>3. i * z \in Nat /\ last * z + z <= i * z
        BY <1>6, <1>7, <4>1, <4>2
      <4>4. f.offset + c \in Nat
        BY <1>2, <1>4
      <4>5. i * z < f.offset + c
        BY <1>3, <2>4
      <4> QED
        BY <1>6, <4>3, <4>4, <4>5
    <3> QED
      BY <2>2, <3>1
  <2>5. WritePlan(F, B, f, c, blk, n)
    BY <1>2, <1>5, <1>17, <1>18, <1>19, <2>1, <2>2, <2>3, <2>4 DEF WritePlan, here, fd
  <2> QED
    BY <1>1, <2>5
<1>21. CASE given # needed
  <2>1. needed \ given # {} /\ needed \ given \in SUBSET Nat
    BY <1>12, <1>14, <1>21
  <2>2. PICK m \in needed \ given : m = Least(needed \ given) /\ \A j \in needed \ given : m <= j
    BY <2>1, LeastIs
  <2>3. n = m * z - f.offset
    BY <1>16, <1>21, <2>2
  <2>4. here <= m /\ m \in Nat /\ m <= last /\ (m = here => from = 0)
    BY <1>8, <2>2
  <2>5. CASE m = here
    <3>1. n = 0
      BY <1>2, <1>5, <2>3, <2>4, <2>5
    <3>2. n # c
      BY <1>4, <3>1
    <3>3. WritePlan(F, B, f, c, blk, n)
      BY <1>2, <1>17, <1>18, <1>19, <3>1, <3>2 DEF WritePlan, fd
    <3> QED
      BY <1>1, <3>3
  <2>6. CASE m # here
    <3>1. m = here + 1 /\ from + c = z
      <4> HIDE DEF here, from, last, needed
      <4>1. m \in Nat /\ here \in Nat /\ here < m /\ m <= last
        BY <1>5, <2>4, <2>6
      <4> QED
        BY <1>6, <1>9, <4>1
    <3>2. m * z = here * z + z
      BY <1>5, <3>1
    <3>3. n = c /\ f.offset + c = m * z
      <4> HIDE DEF here, from, last, needed
      <4>1. m * z = f.offset + c
        BY <1>2, <1>4, <1>5, <3>1, <3>2
      <4> QED
        BY <1>2, <1>4, <2>3, <4>1
    <3>4. \A i \in Pos : i < m => blk[i] # 0
      <4>1. SUFFICES ASSUME NEW i \in Pos, i < m, blk[i] = 0 PROVE FALSE
        OBVIOUS
      <4>2. fd.blk[i] = 0
        BY <1>10, <1>17, <4>1, Ranges
      <4>3. i <= last /\ i \in Nat
        BY <1>6, <2>4, <4>1, Ranges
      <4>4. i \in needed
        BY <4>2, <4>3
      <4>5. i \in given
        BY <2>2, <2>4, <4>1, <4>3, <4>4
      <4> QED
        BY <1>10, <1>11, <1>13, <4>1, <4>5, Ranges
    <3>5. ASSUME NEW i \in Pos, i * BLOCK_SIZE < f.offset + c PROVE blk[i] # 0
      <4>1. i < m
        <5>1. SUFFICES ASSUME m <= i PROVE FALSE
          BY <2>4, Ranges
        <5>2. i \in Nat /\ m * z <= i * z
          BY <1>7, <2>4, <5>1, Ranges
        <5>3. i * z < m * z
          BY <1>3, <3>3, <3>5
        <5>4. i * z \in Nat /\ m * z \in Nat
          BY <2>4, <5>2
        <5> QED
          BY <5>2, <5>3, <5>4
      <4> QED
        BY <3>4, <4>1
    <3>6. blk[here] # 0
      <4> HIDE DEF here, needed
      <4>1. here < m
        BY <1>5, <3>1
      <4> QED
        BY <1>5, <3>4, <4>1
    <3>7. WritePlan(F, B, f, c, blk, n)
      BY <1>2, <1>17, <1>18, <1>19, <3>3, <3>5, <3>6 DEF WritePlan, fd
    <3> QED
      BY <1>1, <3>7
  <2> QED
    BY <2>5, <2>6
<1> QED
  BY <1>20, <1>21

(* What a file is when bytes of it are overwritten.                        *)
Laid(old, o, new, len, g) ==
    /\ len = IF Len(old) < o + Len(new) THEN o + Len(new) ELSE Len(old)
    /\ g \in [1 .. len -> Nat]
    /\ \A p \in 1 .. len : g[p] = IF o < p /\ p <= o + Len(new) THEN new[p - o] ELSE old[p]

LEMMA OverwrittenIs ==
    ASSUME NEW old \in Seq(Nat), NEW o \in 0 .. Len(old), NEW new \in Seq(Nat),
           NEW len, NEW g, Laid(old, o, new, len, g)
    PROVE  g = FS!Overwritten(old, o, new)
<1>1. PICK m \in Nat, n \in Nat : m = Len(old) /\ n = Len(new)
  OBVIOUS
<1>2. /\ o \in Nat /\ o <= m /\ len \in Nat
      /\ (m < o + n => len = o + n) /\ (~(m < o + n) => len = m)
  BY <1>1 DEF Laid
<1>3. PICK a : a = SubSeq(old, 1, o)
  OBVIOUS
<1>4. PICK z : z = SubSeq(old, o + n + 1, m)
  OBVIOUS
<1>5. a \in Seq(Nat) /\ Len(a) = o /\ \A i \in 1 .. o : a[i] = old[i]
  <2>1. \A i \in 1 .. o : old[i] \in Nat
    BY <1>1, <1>2
  <2>2. /\ a \in Seq(Nat) /\ Len(a) = (IF 1 <= o THEN o - 1 + 1 ELSE 0)
        /\ \A i \in 1 .. o - 1 + 1 : a[i] = old[1 + i - 1]
    BY <1>2, <1>3, <2>1, SubSeqProperties
  <2> QED
    BY <1>2, <2>2
<1>6. /\ z \in Seq(Nat)
      /\ (o + n < m => Len(z) = m - (o + n)) /\ (~(o + n < m) => Len(z) = 0)
      /\ \A i \in 1 .. m - (o + n) : z[i] = old[o + n + i]
  <2>1. \A i \in o + n + 1 .. m : old[i] \in Nat
    BY <1>1, <1>2
  <2>2. o + n + 1 \in Int /\ m \in Int
    BY <1>2
  <2>5. PICK w \in Int : w = o + n + 1
    BY <2>2
  <2>6. \A i \in w .. m : old[i] \in Nat
    BY <2>1, <2>5
  <2>3. /\ z \in Seq(Nat) /\ Len(z) = (IF w <= m THEN m - w + 1 ELSE 0)
        /\ \A i \in 1 .. m - w + 1 : z[i] = old[w + i - 1]
    <3>1. z = SubSeq(old, w, m)
      BY <1>4, <2>5
    <3>2. /\ SubSeq(old, w, m) \in Seq(Nat)
          /\ Len(SubSeq(old, w, m)) = (IF w <= m THEN m - w + 1 ELSE 0)
          /\ \A i \in 1 .. m - w + 1 : SubSeq(old, w, m)[i] = old[w + i - 1]
      BY <2>2, <2>6, SubSeqProperties
    <3> QED
      BY <3>1, <3>2
  <2>4. ASSUME NEW i \in 1 .. m - (o + n) PROVE z[i] = old[o + n + i]
    <3>1. i \in 1 .. m - w + 1 /\ w + i - 1 = o + n + i
      BY <1>2, <2>5
    <3> QED
      BY <2>3, <3>1
  <2>7. o + n < m <=> w <= m
    BY <1>2, <2>5
  <2>8. o + n < m => Len(z) = m - (o + n)
    <3>1. SUFFICES ASSUME o + n < m PROVE Len(z) = m - (o + n)
      OBVIOUS
    <3>2. Len(z) = m - w + 1
      BY <2>3, <2>7, <3>1
    <3> QED
      BY <1>2, <2>5, <3>2
  <2> QED
    BY <2>3, <2>4, <2>7, <2>8
<1>7. PICK x : x = a \o new
  OBVIOUS
<1>8. /\ x \in Seq(Nat) /\ Len(x) = o + n
      /\ \A i \in 1 .. o + n : x[i] = IF i <= o THEN a[i] ELSE new[i - o]
  BY <1>1, <1>5, <1>7, ConcatProperties
<1>9. PICK y : y = x \o z
  OBVIOUS
<1>10. PICK l \in Nat : /\ l = Len(z) /\ (o + n < m => l = m - (o + n))
                       /\ (~(o + n < m) => l = 0)
  BY <1>1, <1>2, <1>6
<1>11. /\ y \in Seq(Nat) /\ Len(y) = o + n + l
       /\ \A i \in 1 .. o + n + l : y[i] = IF i <= o + n THEN x[i] ELSE z[i - (o + n)]
  <2>1. PICK k \in Nat : k = o + n
    BY <1>2
  <2>2. /\ y \in Seq(Nat) /\ Len(y) = k + l
        /\ \A i \in 1 .. k + l : y[i] = IF i <= k THEN x[i] ELSE z[i - k]
    <3>1. x \in Seq(Nat) /\ z \in Seq(Nat) /\ Len(x) = k /\ Len(z) = l
      BY <1>6, <1>8, <1>10, <2>1
    <3>2. /\ x \o z \in Seq(Nat) /\ Len(x \o z) = Len(x) + Len(z)
          /\ \A i \in 1 .. Len(x) + Len(z) :
               (x \o z)[i] = IF i <= Len(x) THEN x[i] ELSE z[i - Len(x)]
      BY <3>1, ConcatProperties, Zenon
    <3> QED
      BY <1>9, <3>1, <3>2, Zenon
  <2> QED
    BY <2>1, <2>2
<1>12. len = o + n + l
  <2>1. CASE o + n < m
    <3>1. l = m - (o + n) /\ len = m
      BY <1>2, <1>10, <2>1
    <3> QED
      BY <1>2, <3>1
  <2>2. CASE ~(o + n < m)
    <3>1. l = 0 /\ (o + n = m \/ m < o + n)
      BY <1>2, <1>10, <2>2
    <3>2. o + n \in Nat /\ o + n + l = o + n
      BY <1>2, <3>1
    <3>3. len = o + n
      BY <1>2, <3>1, <3>2
    <3> QED
      BY <3>2, <3>3
  <2> QED
    BY <2>1, <2>2
<1>13. ASSUME NEW p \in 1 .. len PROVE y[p] = g[p]
  <2>1. g[p] = IF o < p /\ p <= o + n THEN new[p - o] ELSE old[p]
    BY <1>1 DEF Laid
  <2>2. y[p] = IF p <= o + n THEN x[p] ELSE z[p - (o + n)]
    BY <1>11, <1>12
  <2>3. p \in Nat /\ 1 <= p /\ p <= len
    BY <1>2
  <2>4. CASE p <= o
    <3>1. p \in 1 .. o + n /\ p \in 1 .. o /\ p <= o + n /\ ~(o < p)
      BY <1>2, <2>3, <2>4
    <3>2. x[p] = old[p]
      BY <1>5, <1>8, <2>4, <3>1
    <3> QED
      BY <2>1, <2>2, <3>1, <3>2
  <2>5. CASE o < p /\ p <= o + n
    <3>1. p \in 1 .. o + n /\ ~(p <= o)
      BY <1>2, <2>3, <2>5
    <3>2. x[p] = new[p - o]
      BY <1>8, <3>1
    <3> QED
      BY <2>1, <2>2, <2>5, <3>2
  <2>6. CASE o + n < p
    <3>1. p - (o + n) \in 1 .. m - (o + n) /\ ~(p <= o + n) /\ o + n + (p - (o + n)) = p
      BY <1>2, <2>3, <2>6
    <3>2. PICK i \in 1 .. m - (o + n) : i = p - (o + n)
      BY <3>1
    <3>3. z[i] = old[o + n + i]
      BY <1>6
    <3> QED
      BY <2>1, <2>2, <3>1, <3>2, <3>3
  <2> QED
    BY <1>2, <2>3, <2>4, <2>5, <2>6
<1>14. y = g
  <2>1. y = [p \in 1 .. len |-> y[p]]
    BY <1>11, <1>12
  <2> QED
    BY <1>13, <2>1 DEF Laid
<1> QED
  BY <1>1, <1>3, <1>4, <1>7, <1>9, <1>14 DEF FS!Overwritten

(* The handle once the bytes are in its buffer.                            *)
Filled(g, data, n, from, end) ==
    [g EXCEPT !.buf = [o \in Offset |-> IF o \in from .. from + n - 1 THEN data[o - from + 1]
                                                                      ELSE g.buf[o]],
              !.offset = end, !.file_len = IF @ < end THEN end ELSE @]

FilledAs(F, g, data, n, from, end, f) ==
    /\ HandleOk(F, f) /\ f.fd_idx = g.fd_idx /\ f.cur_blk = g.cur_blk
    /\ f.offset = end /\ f.file_len = (IF g.file_len < end THEN end ELSE g.file_len)
    /\ \A o \in Offset : f.buf[o] = IF from <= o /\ o < from + n THEN data[o - from + 1]
                                                                 ELSE g.buf[o]

LEMMA FilledIs ==
    ASSUME NEW F, NEW g, HandleOk(F, g), NEW data \in Seq(Nat), NEW n \in 0 .. Len(data),
           NEW from \in Nat, NEW end \in 0 .. MAX_FILE_LEN, Covers(F[g.fd_idx], end)
    PROVE  FilledAs(F, g, data, n, from, end, Filled(g, data, n, from, end))
<1>1. g \in HandleRec /\ g.buf \in [Offset -> Nat] /\ g.file_len \in 0 .. MAX_FILE_LEN
  BY DEF HandleOk, HandleRec
<1>2. \A o \in Offset : o \in Nat
  BY Sizes DEF Offset
<1>3. n \in Nat /\ n <= Len(data)
  OBVIOUS
<1> DEFINE buf == [o \in Offset |-> IF o \in from .. from + n - 1 THEN data[o - from + 1]
                                                                  ELSE g.buf[o]]
           len == IF g.file_len < end THEN end ELSE g.file_len
           f   == Filled(g, data, n, from, end)
<1>4. \A o \in Offset : buf[o] = IF from <= o /\ o < from + n THEN data[o - from + 1] ELSE g.buf[o]
  BY <1>2, <1>3
<1>5. buf \in [Offset -> Nat]
  <2>1. ASSUME NEW o \in Offset PROVE buf[o] \in Nat
    <3>1. CASE from <= o /\ o < from + n
      <4>1. o - from + 1 \in 1 .. Len(data)
        BY <1>2, <1>3, <3>1
      <4> QED
        BY <1>4, <3>1, <4>1
    <3>2. CASE ~(from <= o /\ o < from + n)
      <4>1. buf[o] = g.buf[o]
        BY <1>4, <3>2
      <4> QED
        BY <1>1, <4>1
    <3> QED
      BY <3>1, <3>2
  <2> QED
    BY <2>1
<1>6. len \in 0 .. MAX_FILE_LEN
  BY <1>1
<1>7. f = [g EXCEPT !.buf = buf, !.offset = end, !.file_len = len]
  BY DEF Filled
<1> HIDE DEF buf, len, f
<1>8. /\ f \in HandleRec /\ f.fd_idx = g.fd_idx /\ f.cur_blk = g.cur_blk
      /\ f.offset = end /\ f.file_len = len /\ f.buf = buf
  <2>1. \A x \in [Offset -> Nat], y \in 0 .. MAX_FILE_LEN :
          LET r == [g EXCEPT !.buf = x, !.offset = end, !.file_len = y]
          IN  /\ r \in HandleRec /\ r.fd_idx = g.fd_idx /\ r.cur_blk = g.cur_blk
              /\ r.offset = end /\ r.file_len = y /\ r.buf = x
    BY <1>1 DEF HandleRec
  <2>2. LET r == [g EXCEPT !.buf = buf, !.offset = end, !.file_len = len]
        IN  /\ r \in HandleRec /\ r.fd_idx = g.fd_idx /\ r.cur_blk = g.cur_blk
            /\ r.offset = end /\ r.file_len = len /\ r.buf = buf
    BY <1>5, <1>6, <2>1
  <2> QED
    BY <1>7, <2>2
<1>9. HandleOk(F, f)
  <2>1. len = g.file_len \/ len = end
    BY DEF len
  <2>2. Covers(F[g.fd_idx], len)
    BY <2>1 DEF HandleOk
  <2> QED
    BY <1>8, <2>2 DEF HandleOk
<1> QED
  BY <1>4, <1>8, <1>9 DEF FilledAs, len, f

(* A write, of what is written and of where.                               *)
WriteDone(F, D, f, data, w, F2, D2, B2, n) ==
    /\ Views(w.fs, F2, D2, B2) /\ OnlyFile(F, D, F2, D2, B2, f.fd_idx)
    /\ HandleOk(F2, w.file) /\ w.file.fd_idx = f.fd_idx
    /\ n \in 0 .. Len(data) /\ w.file.offset = f.offset + n
    /\ w.file.file_len = (IF f.file_len < f.offset + n THEN f.offset + n ELSE f.file_len)
    /\ \A p \in 1 .. w.file.file_len :
         FileOf(F2[f.fd_idx].blk, D2, w.file)[p] =
             IF f.offset < p /\ p <= f.offset + n THEN data[p - f.offset]
             ELSE FileOf(F[f.fd_idx].blk, D, f)[p]

(* The descriptor with the blocks a write has found.                       *)
LEMMA PlannedViews ==
    ASSUME NEW s, NEW F, NEW D, NEW B, Views(s, F, D, B), Sound(F, D, B),
           NEW f, HandleOk(F, f), NEW c, Writable(f, c), NEW blk, NEW n,
           WritePlan(F, B, f, c, blk, n)
    PROVE  \E F2 :
               /\ Views(SetFd(s, f.fd_idx, [Fd(s, f.fd_idx) EXCEPT !.blk = blk]), F2, D, B)
               /\ OnlyFile(F, D, F2, D, B \cup ({blk[i] : i \in Pos} \ {0}), f.fd_idx)
               /\ F2[f.fd_idx].blk = blk /\ HandleOk(F2, f)
<1>1. PICK k \in InUse(F) : k = f.fd_idx
  BY DEF HandleOk
<1>2. k \in Fds /\ k \in Owners(F) /\ F[k] \in FdRec
  BY OwnedBlock, Ranges DEF Owners
<1> DEFINE fd == [F[k] EXCEPT !.blk = blk]
           F2 == [F EXCEPT ![k] = fd]
           B2 == B \cup ({blk[i] : i \in Pos} \ {0})
<1>3. blk \in [Pos -> Blk]
  BY DEF WritePlan
<1>4. \A i \in Pos : \/ blk[i] = F[k].blk[i]
                     \/ F[k].blk[i] = 0 /\ blk[i] \in DataBlk \ B
  BY <1>1 DEF WritePlan
<1>5. \A i, j \in Pos : blk[i] = blk[j] /\ blk[i] \in DataBlk \ B => i = j
  BY DEF WritePlan
<1>6. /\ Sound(F2, D, B2) /\ InUse(F2) = InUse(F) /\ Listed(F2, D) = Listed(F, D)
      /\ \A e \in Listed(F, D) : Entry(F2, D, e) = Entry(F, D, e)
  <2>1. OnlyBlocks(F, D, B, F2, B2)
    BY <1>3, <1>4, <1>5, NewBlocksOf
  <2> QED
    BY <2>1 DEF OnlyBlocks
<1>7. fd \in FdRec /\ fd.blk = blk
  BY <1>2, <1>3 DEF FdRec
<1>8. Fd(s, k) = F[k]
  BY <1>2, ViewsFd
<1> HIDE DEF fd
<1>9. Views(SetFd(s, k, fd), F2, D, B)
  BY <1>2, <1>7, SetViews
<1>10. SetFd(s, k, fd) = SetFd(s, k, [Fd(s, k) EXCEPT !.blk = blk])
  BY <1>8 DEF fd
<1>11. F2[k] = fd /\ \A l \in Fds \ {k} : F2[l] = F[l]
  BY <1>2 DEF Sound, Typed
<1> HIDE DEF F2, B2
<1>12. OnlyFile(F, D, F2, D, B2, k)
  <2>1. \A l \in InUse(F) \ {k} : l \in Fds
    BY AnyFd DEF InUse
  <2>2. Kept(F, D, F2, D, k)
    BY <1>11, <2>1 DEF Kept
  <2> QED
    BY <1>6, <2>2 DEF OnlyFile
<1>13. \A i \in Pos : F[k].blk[i] # 0 => F2[k].blk[i] = F[k].blk[i]
  BY <1>4, <1>7, <1>11
<1>14. HandleOk(F2, f)
  <2>1. f.cur_blk = 0 \/ \E i \in Pos : f.cur_blk = F2[k].blk[i]
    BY <1>1, <1>13 DEF HandleOk
  <2>2. Covers(F2[k], f.file_len)
    BY <1>1, <1>13 DEF HandleOk, Covers
  <2> QED
    BY <1>1, <1>6, <2>1, <2>2 DEF HandleOk
<1> QED
  BY <1>1, <1>7, <1>9, <1>10, <1>11, <1>12, <1>14 DEF B2

(* Its bytes are marked as taken at the end.                               *)
Marked(s, X) == [s EXCEPT !.bitmap = @ \cup X]

LEMMA MarkedViews ==
    ASSUME NEW s, NEW F, NEW D, NEW B, Views(s, F, D, B), NEW k \in Fds, NEW X,
           X = {Fd(s, k).blk[i] : i \in Pos} \ {0}, X \subseteq DataBlk
    PROVE  Views(Marked(s, X), F, D, B \cup ({F[k].blk[i] : i \in Pos} \ {0}))
<1>1. X = {F[k].blk[i] : i \in Pos} \ {0}
  BY ViewsFd
<1>2. s \in FsState /\ s.bitmap \in SUBSET Blk /\ s.bitmap \cap DataBlk = B
  BY DEF Views, FsState, BitView
<1>3. s.bitmap \cup X \in SUBSET Blk
  BY <1>2, Ranges
<1>4. Views([s EXCEPT !.bitmap = s.bitmap \cup X], F, D, (s.bitmap \cup X) \cap DataBlk)
  BY <1>3, BitViews
<1>5. (s.bitmap \cup X) \cap DataBlk = B \cup X
  BY <1>2
<1> QED
  BY <1>1, <1>4, <1>5 DEF Marked

LEMMA WriteFile ==
    ASSUME NEW s, NEW F, NEW D, NEW B, Views(s, F, D, B), Sound(F, D, B),
           NEW f, HandleOk(F, f), NEW data \in Seq(Nat), Writable(f, Len(data))
    PROVE  \E F2, D2, B2, n : WriteDone(F, D, f, data, sf_write(s, f, data), F2, D2, B2, n)
<1>1. PICK c \in Nat : c = Len(data)
  OBVIOUS
<1>2. PICK blk, n : /\ WritePlan(F, B, f, c, blk, n)
                    /\ sf_write_Unmarked(s, f, data) = Stored(s, f, data, blk, n)
  BY <1>1, PlanOf
<1>3. PICK k \in InUse(F) : k = f.fd_idx
  BY DEF HandleOk
<1>4. PICK z \in Nat \ {0} : z = BLOCK_SIZE
  BY Sizes
<1>5. PICK at, here, from : /\ at = f.offset /\ here = OFFSET_TO_BLK_IDX(at)
                            /\ from = OFFSET_TO_BLK_OFFSET(at)
  OBVIOUS
<1>6. /\ at \in Nat /\ 1 <= c /\ at <= f.file_len /\ at + c < MAX_FILE_LEN /\ from + c <= z
      /\ f.file_len \in 0 .. MAX_FILE_LEN
  <2>1. f.offset \in Nat /\ f.file_len \in 0 .. MAX_FILE_LEN
    BY DEF HandleOk, HandleRec
  <2> QED
    BY <1>1, <1>4, <1>5, <2>1 DEF Writable
<1>7. here \in Pos /\ here \in Nat /\ from \in 0 .. z - 1 /\ here * z \in Nat /\ at = here * z + from
  <2>1. at < MAX_FILE_LEN
    BY <1>1, <1>6, Sizes
  <2> QED
    BY <1>4, <1>5, <1>6, <2>1, Place, Ranges DEF Offset
<1>8. n = 0 \/ (n = c /\ blk[here] # 0)
  BY <1>5, <1>2 DEF WritePlan
<1>9. n \in 0 .. c /\ n \in Nat
  BY <1>1, <1>8
<1>10. PICK B2 : B2 = B \cup ({blk[i] : i \in Pos} \ {0})
  OBVIOUS
<1>11. PICK t : t = SetFd(s, k, [Fd(s, k) EXCEPT !.blk = blk])
  OBVIOUS
<1>12. PICK F2 : /\ Views(t, F2, D, B) /\ OnlyFile(F, D, F2, D, B2, k) /\ F2[k].blk = blk
                 /\ HandleOk(F2, f)
  <2>1. Writable(f, c)
    BY <1>1
  <2> QED
    BY <1>2, <1>3, <1>10, <1>11, <2>1, PlannedViews
<1>13. Sound(F2, D, B2) /\ k \in InUse(F2)
  BY <1>12 DEF OnlyFile
<1>14. PICK b : b = blk[here]
  OBVIOUS
<1>15. PICK m : m = Moved(t, f, b)
  OBVIOUS
<1>16. PICK D2 : /\ Views(m.fs, F2, D2, B) /\ OnlyFile(F2, D, F2, D2, B2, k)
                 /\ HandleOk(F2, m.file) /\ Alike(D, f, D2, m.file) /\ m.file.cur_blk = b
  <2>1. b = 0 \/ \E i \in Pos : b = F2[f.fd_idx].blk[i]
    BY <1>3, <1>7, <1>12, <1>14
  <2> QED
    BY <1>3, <1>12, <1>13, <1>15, <2>1, MovedViews
<1>17. PICK g : g = m.file
  OBVIOUS
<1>18. /\ HandleOk(F2, g) /\ g.cur_blk = b /\ g.fd_idx = k
       /\ g.file_len = f.file_len /\ \A x \in DataBlk : Through(D2, g, x) = Through(D, f, x)
  BY <1>3, <1>16, <1>17 DEF Alike
<1>19. at + n \in 0 .. MAX_FILE_LEN /\ Covers(F2[k], at + n)
  <2>1. CASE n = 0
    <3>1. at + n = at
      BY <1>6, <2>1
    <3>2. ASSUME NEW i \in Pos, i * BLOCK_SIZE < at PROVE i * BLOCK_SIZE < f.file_len
      <4>1. i * z \in Nat
        BY Ranges
      <4> QED
        BY <1>4, <1>6, <3>2, <4>1
    <3>3. Covers(F2[k], f.file_len)
      BY <1>3, <1>12 DEF HandleOk
    <3> QED
      BY <1>6, <3>1, <3>2, <3>3, Sizes DEF Covers
  <2>2. CASE n = c
    <3>1. \A i \in Pos : i * BLOCK_SIZE < at + c => blk[i] # 0
      BY <1>2, <1>5, <2>2 DEF WritePlan
    <3> QED
      BY <1>6, <1>12, <2>2, <3>1, Sizes DEF Covers
  <2> QED
    BY <1>8, <2>1, <2>2
<1>20. PICK h : h = Filled(g, data, n, from, at + n)
  OBVIOUS
<1>21. /\ HandleOk(F2, h) /\ h.fd_idx = k /\ h.cur_blk = b /\ h.offset = at + n
       /\ h.file_len = (IF g.file_len < at + n THEN at + n ELSE g.file_len)
       /\ \A o \in Offset : h.buf[o] = IF from <= o /\ o < from + n THEN data[o - from + 1]
                                                                    ELSE g.buf[o]
  <2>1. FilledAs(F2, g, data, n, from, at + n, h)
    BY <1>1, <1>7, <1>9, <1>18, <1>19, <1>20, FilledIs
  <2> QED
    BY <1>18, <2>1 DEF FilledAs
<1>22. PICK len \in Nat : /\ len = h.file_len
                          /\ (f.file_len < at + n => len = at + n)
                          /\ (~(f.file_len < at + n) => len = f.file_len)
  <2>1. h.file_len = IF g.file_len < at + n THEN at + n ELSE g.file_len
    BY <1>21
  <2>2. at + n \in Nat /\ f.file_len \in Nat
    BY <1>6, <1>9
  <2> QED
    BY <1>18, <2>1, <2>2
<1>23. Stored(s, f, data, blk, n) = [fs |-> m.fs, file |-> h]
  <2>1. m = Moved(SetFd(s, f.fd_idx, [Fd(s, f.fd_idx) EXCEPT !.blk = blk]), f,
                  blk[OFFSET_TO_BLK_IDX(f.offset)])
    BY <1>3, <1>5, <1>11, <1>14, <1>15
  <2> QED
    BY <1>5, <1>17, <1>20, <2>1 DEF Stored, Filled
<1>24. PICK X : X = {Fd(m.fs, k).blk[i] : i \in Pos} \ {0}
  OBVIOUS
<1>25. PICK w : w = sf_write(s, f, data)
  OBVIOUS
<1>26. w.file = h /\ w.fs = Marked(m.fs, X)
  <2>1. sf_write_Unmarked(s, f, data) = [fs |-> m.fs, file |-> h]
    BY <1>2, <1>23
  <2> QED
    BY <1>3, <1>24, <1>25, <2>1 DEF sf_write, Marked
<1>27. Views(w.fs, F2, D2, B2)
  <2>1. k \in Fds /\ k \in Owners(F2)
    BY <1>13, AnyFd DEF InUse, Owners
  <2>2. Fd(m.fs, k).blk = blk
    BY <1>12, <1>16, <2>1, ViewsFd
  <2>3. \A i \in Pos : blk[i] # 0 => blk[i] \in DataBlk
    BY <1>12, <1>13, <2>1, OwnedBlock
  <2>4. X \subseteq DataBlk
    BY <1>24, <2>2, <2>3
  <2>5. Views(w.fs, F2, D2, B \cup ({F2[k].blk[i] : i \in Pos} \ {0}))
    BY <1>16, <1>24, <1>26, <2>1, <2>4, MarkedViews
  <2> QED
    BY <1>10, <1>12, <2>5
<1>28. OnlyFile(F, D, F2, D2, B2, k)
  BY <1>12, <1>16, OnlyFileTwice
<1>29. ASSUME NEW p \in 1 .. len
       PROVE  FileOf(blk, D2, h)[p] = IF at < p /\ p <= at + n THEN data[p - at]
                                      ELSE FileOf(F[k].blk, D, f)[p]
  <2>1. PICK q \in Nat : q = p - 1 /\ q < len /\ p = q + 1
    BY <1>22
  <2>2. q < MAX_FILE_LEN
    <3>1. h.file_len \in 0 .. MAX_FILE_LEN
      BY <1>21 DEF HandleOk, HandleRec
    <3> QED
      BY <1>22, <2>1, <3>1, Sizes
  <2>3. PICK i, o : i = OFFSET_TO_BLK_IDX(q) /\ o = OFFSET_TO_BLK_OFFSET(q)
    OBVIOUS
  <2>4. /\ i \in Pos /\ i \in Nat /\ o \in Offset /\ o \in 0 .. z - 1 /\ i * z \in Nat
        /\ q = i * z + o
    BY <1>4, <2>1, <2>2, <2>3, Place, Ranges DEF Offset
  <2>5. FileOf(blk, D2, h)[p] = Through(D2, h, blk[i])[o]
    BY <1>22, <2>1, <2>3 DEF FileOf
  <2>6. Sound(F2, D2, B2)
    BY <1>28 DEF OnlyFile
  <2>7. blk[i] # 0 /\ blk[i] \in DataBlk
    BY <1>12, <1>21, <1>22, <2>1, <2>3, <2>6, ByteBlock
  <2>8. CASE at <= q /\ q < at + n
    <3>1. n = c /\ from + n <= z
      BY <1>6, <1>8, <2>1, <2>8
    <3>2. PICK r \in 0 .. z - 1 : r = from + (q - at) /\ q = here * z + r
      BY <1>6, <1>7, <1>9, <2>1, <2>8, <3>1
    <3>3. i = here /\ o = r
      <4>1. r \in Offset /\ q = here * BLOCK_SIZE + r
        BY <1>4, <3>2 DEF Offset
      <4> QED
        BY <1>7, <2>3, <4>1, PlaceOf
    <3>4. Through(D2, h, blk[i]) = h.buf
      BY <1>14, <1>21, <3>3 DEF Through
    <3>5. h.buf[o] = data[o - from + 1]
      <4>1. from <= o /\ o < from + n
        BY <1>6, <1>7, <1>9, <2>1, <2>8, <3>2, <3>3
      <4> QED
        BY <1>21, <2>4, <4>1
    <3>6. o - from + 1 = p - at /\ at < p /\ p <= at + n
      BY <1>6, <1>7, <1>9, <2>1, <2>8, <3>2, <3>3
    <3> QED
      BY <2>5, <3>4, <3>5, <3>6
  <2>9. CASE ~(at <= q /\ q < at + n)
    <3>1. q < f.file_len /\ ~(at < p /\ p <= at + n)
      BY <1>6, <1>9, <1>22, <2>1, <2>9
    <3>2. F[k].blk[i] # 0 /\ p \in 1 .. f.file_len
      <4>1. F[k].blk[i] # 0
        BY <1>3, <2>1, <2>3, <3>1, ByteBlock
      <4>2. p \in 1 .. f.file_len
        BY <1>6, <2>1, <3>1
      <4> QED
        BY <4>1, <4>2
    <3>3. blk[i] = F[k].blk[i]
      BY <1>2, <1>3, <2>4, <3>2 DEF WritePlan
    <3>4. FileOf(F[k].blk, D, f)[p] = Through(D2, g, blk[i])[o]
      <4>1. FileOf(F[k].blk, D, f)[p] = Through(D, f, F[k].blk[i])[o]
        BY <2>1, <2>3, <3>2 DEF FileOf
      <4> QED
        BY <1>18, <2>7, <3>3, <4>1
    <3>5. CASE blk[i] = b
      <4>1. i = here
        <5>1. k \in Owners(F2) /\ F2[k].blk[i] = F2[k].blk[here] /\ F2[k].blk[i] # 0
          BY <1>12, <1>13, <1>14, <2>7, <3>5 DEF Owners
        <5> QED
          BY <1>7, <2>4, <2>6, <5>1 DEF Sound, BlocksOwned
      <4>2. ~(from <= o /\ o < from + n)
        <5>1. q = here * z + o
          BY <2>4, <4>1
        <5> QED
          BY <1>6, <1>7, <1>9, <2>1, <2>4, <2>9, <5>1
      <4>3. h.buf[o] = g.buf[o]
        BY <1>21, <2>4, <4>2
      <4> QED
        BY <1>18, <1>21, <2>5, <3>1, <3>4, <3>5, <4>3 DEF Through
    <3>6. CASE blk[i] # b
      BY <1>18, <1>21, <2>5, <3>1, <3>4, <3>6 DEF Through
    <3> QED
      BY <3>5, <3>6
  <2> QED
    BY <2>8, <2>9
<1>30. /\ w.file = h /\ h.fd_idx = f.fd_idx /\ n \in 0 .. Len(data) /\ h.offset = f.offset + n
       /\ h.file_len = (IF f.file_len < f.offset + n THEN f.offset + n ELSE f.file_len)
  BY <1>1, <1>3, <1>5, <1>9, <1>18, <1>21, <1>26
<1>31. \A p \in 1 .. h.file_len :
         FileOf(F2[f.fd_idx].blk, D2, h)[p] =
             IF f.offset < p /\ p <= f.offset + n THEN data[p - f.offset]
             ELSE FileOf(F[f.fd_idx].blk, D, f)[p]
  BY <1>3, <1>5, <1>12, <1>22, <1>29
<1>32. WriteDone(F, D, f, data, w, F2, D2, B2, n)
  BY <1>3, <1>21, <1>27, <1>28, <1>30, <1>31 DEF WriteDone
<1> QED
  BY <1>25, <1>32

LEMMA WrittenFile ==
    ASSUME NEW F, NEW D, NEW B, Sound(F, D, B), NEW f, HandleOk(F, f), f.offset <= f.file_len,
           NEW data \in Seq(Nat), NEW w, NEW F2, NEW D2, NEW B2, NEW n,
           WriteDone(F, D, f, data, w, F2, D2, B2, n)
    PROVE  FileOf(F2[f.fd_idx].blk, D2, w.file)
             = FS!Overwritten(FileOf(F[f.fd_idx].blk, D, f), f.offset, SubSeq(data, 1, n))
<1>1. PICK old, g, at : /\ old = FileOf(F[f.fd_idx].blk, D, f) /\ at = f.offset
                        /\ g = FileOf(F2[f.fd_idx].blk, D2, w.file)
  OBVIOUS
<1>2. old \in Seq(Nat) /\ Len(old) = f.file_len /\ f.file_len \in Nat
  BY <1>1, FileTyped
<1>3. at \in 0 .. Len(old)
  <2>1. at \in Nat
    BY <1>1 DEF HandleOk, HandleRec
  <2> QED
    BY <1>1, <1>2, <2>1
<1>4. Sound(F2, D2, B2) /\ HandleOk(F2, w.file) /\ w.file.fd_idx = f.fd_idx
  BY DEF WriteDone, OnlyFile
<1>5. g \in [1 .. w.file.file_len -> Nat]
  BY <1>1, <1>4, FileTyped
<1>6. PICK m \in Nat : m = n /\ m \in 0 .. Len(data)
  BY DEF WriteDone
<1>7. PICK new : new = SubSeq(data, 1, m)
  OBVIOUS
<1>8. new \in Seq(Nat) /\ Len(new) = m /\ \A i \in 1 .. m : new[i] = data[i]
  <2>1. \A i \in 1 .. m : data[i] \in Nat
    BY <1>6
  <2>2. /\ new \in Seq(Nat) /\ Len(new) = (IF 1 <= m THEN m - 1 + 1 ELSE 0)
        /\ \A i \in 1 .. m - 1 + 1 : new[i] = data[1 + i - 1]
    BY <1>6, <1>7, <2>1, SubSeqProperties
  <2> QED
    BY <1>6, <2>2
<1>9. PICK len : len = w.file.file_len
  OBVIOUS
<1>10. len = IF Len(old) < at + Len(new) THEN at + Len(new) ELSE Len(old)
  BY <1>1, <1>2, <1>6, <1>8, <1>9 DEF WriteDone
<1>11. ASSUME NEW p \in 1 .. len
       PROVE  g[p] = IF at < p /\ p <= at + Len(new) THEN new[p - at] ELSE old[p]
  <2>1. g[p] = IF at < p /\ p <= at + m THEN data[p - at] ELSE old[p]
    BY <1>1, <1>6, <1>9 DEF WriteDone
  <2>2. CASE at < p /\ p <= at + m
    <3>1. p \in Nat /\ at \in Nat
      BY <1>2, <1>3, <1>8, <1>10
    <3>2. p - at \in 1 .. m
      BY <1>6, <2>2, <3>1
    <3> QED
      BY <1>8, <2>1, <2>2, <3>2
  <2>3. CASE ~(at < p /\ p <= at + m)
    BY <1>8, <2>1, <2>3
  <2> QED
    BY <2>2, <2>3
<1>12. g \in [1 .. len -> Nat]
  BY <1>5, <1>9
<1>13. g = FS!Overwritten(old, at, new)
  <2>1. Laid(old, at, new, len, g)
    BY <1>10, <1>11, <1>12 DEF Laid
  <2> QED
    BY <1>2, <1>3, <1>8, <2>1, OverwrittenIs
<1> QED
  BY <1>1, <1>6, <1>7, <1>13

-----------------------------------------------------------------------------
(* What the commands do, to the views and to the handles.                  *)

LEMMA TouchDoes ==
    ASSUME NEW F, NEW D, NEW B, Views(fs, F, D, B), Sound(F, D, B), NEW n \in Name, touch(n)
    PROVE  /\ open_file_table' = open_file_table /\ image' = image
           /\ \A e \in Listed(F, D) : Entry(F, D, e).name # n
           /\ \/ Views(fs', F, D, B)
              \/ \E F2, D2, B2, k : Views(fs', F2, D2, B2) /\ Added(F, D, B, F2, D2, B2, n, k)
              \/ \E F2, k : Views(fs', F2, D, B) /\ Unlisted(F, D, B, F2, k)
<1>1. ~(sf_root_find_file(fs, n) > 0)
  BY DEF touch, Find
<1>2. \A e \in Listed(F, D) : Entry(F, D, e).name # n
  BY <1>1, Found
<1>3. sf_root_has_room(fs) => Rooms(fs) # {}
  BY DEF sf_root_has_room
<1>4. fs' = IF sf_find_free_fd(fs) = 0 THEN sf_get_fd(fs, MAX_FD)
            ELSE IF sf_root_has_room(fs) THEN sf_create(fs, n) ELSE sf_get_fd(fs, 1)
  BY DEF touch
<1>5. MAX_FD \in Fds /\ 1 \in Fds
  BY Sizes DEF Fds
<1>6. Views(sf_get_fd(fs, MAX_FD), F, D, B) /\ Views(sf_get_fd(fs, 1), F, D, B)
  BY <1>5, GetViews
<1>7. ASSUME sf_find_free_fd(fs) # 0, Rooms(fs) # {},
             DirBlk(fs, Least(Rooms(fs))) = 0 => FreeBlocks(fs) # {}
      PROVE  \E F2, D2, B2, k : /\ Views(sf_create(fs, n), F2, D2, B2)
                                /\ Added(F, D, B, F2, D2, B2, n, k)
  BY <1>1, <1>7, CreateViews
<1>8. ASSUME sf_find_free_fd(fs) # 0, Rooms(fs) # {},
             DirBlk(fs, Least(Rooms(fs))) = 0, FreeBlocks(fs) = {}
      PROVE  \E F2, k : Views(sf_create(fs, n), F2, D, B) /\ Unlisted(F, D, B, F2, k)
  BY <1>8, CreateLoses
<1>9. open_file_table' = open_file_table /\ image' = image
  BY DEF touch
<1>10. CASE sf_find_free_fd(fs) = 0
  BY <1>2, <1>4, <1>6, <1>9, <1>10
<1>11. CASE sf_find_free_fd(fs) # 0 /\ ~sf_root_has_room(fs)
  BY <1>2, <1>4, <1>6, <1>9, <1>11
<1>12. CASE sf_find_free_fd(fs) # 0 /\ sf_root_has_room(fs)
  <2>1. fs' = sf_create(fs, n)
    BY <1>4, <1>12
  <2>2. CASE DirBlk(fs, Least(Rooms(fs))) = 0 /\ FreeBlocks(fs) = {}
    BY <1>2, <1>3, <1>8, <1>9, <1>12, <2>1, <2>2
  <2>3. CASE ~(DirBlk(fs, Least(Rooms(fs))) = 0 /\ FreeBlocks(fs) = {})
    BY <1>2, <1>3, <1>7, <1>9, <1>12, <2>1, <2>3
  <2> QED
    BY <2>2, <2>3
<1> QED
  BY <1>10, <1>11, <1>12

LEMMA RmDoes ==
    ASSUME NEW F, NEW D, NEW B, Views(fs, F, D, B), Sound(F, D, B), NEW n \in Name, rm(n)
    PROVE  /\ open_file_table' = open_file_table /\ image' = image
           /\ \E e \in Listed(F, D) :
                /\ Entry(F, D, e).name = n
                /\ \A h \in Handle : open_file_table[h].fd_idx # Entry(F, D, e).fd
                /\ \/ Views(fs', F, D, B)
                   \/ \E F2, D2 : Views(fs', F2, D2, B) /\ Dropped(F, D, B, F2, D2, e)
<1>1. /\ sf_root_find_file(fs, n) > 0
      /\ \A h \in Handle : open_file_table[h].fd_idx # sf_root_find_file(fs, n)
  BY DEF rm, Find, OpenFds
<1>2. PICK e \in Listed(F, D) : FoundAt(fs, F, D, n, e)
  BY <1>1, Found
<1>3. Entry(F, D, e).name = n /\ Entry(F, D, e).fd = sf_root_find_file(fs, n)
  BY <1>2 DEF FoundAt
<1>4. fs' = IF sf_root_can_delete(fs, n) THEN sf_destroy(fs, n) ELSE sf_get_fd(fs, 1)
  BY DEF rm
<1>5. 1 \in Fds
  BY Ranges
<1>6. Views(sf_get_fd(fs, 1), F, D, B)
  BY <1>5, GetViews
<1>7. \E F2, D2 : Views(sf_destroy(fs, n), F2, D2, B) /\ Dropped(F, D, B, F2, D2, e)
  BY <1>2, DestroyViews
<1>8. open_file_table' = open_file_table /\ image' = image
  BY DEF rm
<1>9. \A h \in Handle : open_file_table[h].fd_idx # Entry(F, D, e).fd
  BY <1>1, <1>3
<1>10. CASE sf_root_can_delete(fs, n)
  BY <1>3, <1>4, <1>7, <1>8, <1>9, <1>10
<1>11. CASE ~sf_root_can_delete(fs, n)
  BY <1>3, <1>4, <1>6, <1>8, <1>9, <1>11
<1> QED
  BY <1>10, <1>11

LEMMA RefuseDoes ==
    ASSUME NEW F, NEW D, NEW B, Views(fs, F, D, B), NEW n \in Name, refuse(n)
    PROVE  /\ open_file_table' = open_file_table /\ image' = image /\ changes' = changes
           /\ Views(fs', F, D, B)
<1>1. Views(sf_get_fd(fs, 1), F, D, B)
  BY GetViews, Ranges
<1> QED
  BY <1>1 DEF refuse

OpensAs(F, D, T, T2, n, e, h, f) ==
    /\ Entry(F, D, e).name = n /\ \A g \in Handle : T[g].fd_idx # Entry(F, D, e).fd
    /\ T[h].fd_idx = 0 /\ T2 = [T EXCEPT ![h] = f]
    /\ HandleOk(F, f) /\ f.fd_idx = Entry(F, D, e).fd /\ Alike(D, Idle(F, Entry(F, D, e).fd), D, f)

LEMMA OpenDoes ==
    ASSUME NEW F, NEW D, NEW B, Views(fs, F, D, B), Sound(F, D, B), NEW n \in Name,
           sf_open_file(n)
    PROVE  /\ image' = image /\ changes' = changes /\ Views(fs', F, D, B)
           /\ \E f : \E e \in Listed(F, D), h \in Handle :
                OpensAs(F, D, open_file_table, open_file_table', n, e, h, f)
<1>1. /\ sf_root_find_file(fs, n) > 0
      /\ \A h \in Handle : open_file_table[h].fd_idx # sf_root_find_file(fs, n)
  BY DEF sf_open_file, Find, OpenFds
<1>3. PICK e \in Listed(F, D) : FoundAt(fs, F, D, n, e)
  BY <1>1, Found
<1>4. PICK k \in InUse(F) : k = sf_root_find_file(fs, n)
  BY <1>1, Found
<1>5. Entry(F, D, e).name = n /\ Entry(F, D, e).fd = k
  BY <1>3, <1>4 DEF FoundAt
<1>6. PICK f : f = sf_open(fs, n)
  OBVIOUS
<1>7. HandleOk(F, f) /\ Alike(D, Idle(F, k), D, f)
  BY <1>4, <1>6, OpenIs
<1>8. f.fd_idx = k
  BY <1>7 DEF Alike, Idle
<1>9. PICK h \in Handle : /\ open_file_table[h].fd_idx = 0
                          /\ open_file_table' = [open_file_table EXCEPT ![h] = f]
  BY <1>6 DEF sf_open_file, IsOpen
<1>10. Views(fs', F, D, B)
  <2>1. k \in Fds
    BY AnyFd DEF InUse
  <2>2. fs' = sf_get_fd(fs, k)
    BY <1>4 DEF sf_open_file, Find
  <2> QED
    BY <2>1, <2>2, GetViews
<1>11. image' = image /\ changes' = changes
  BY DEF sf_open_file
<1>12. \A g \in Handle : open_file_table[g].fd_idx # k
  BY <1>1, <1>4
<1>13. OpensAs(F, D, open_file_table, open_file_table', n, e, h, f)
  BY <1>5, <1>7, <1>8, <1>9, <1>12 DEF OpensAs
<1> QED
  BY <1>10, <1>11, <1>13

LEMMA CloseDoes ==
    ASSUME NEW F, NEW D, NEW B, Views(fs, F, D, B), Sound(F, D, B),
           Handles(F, open_file_table), NEW h \in Handle, close(h)
    PROVE  /\ image' = image /\ changes' = changes /\ HandleOk(F, open_file_table[h])
           /\ open_file_table' = [open_file_table EXCEPT ![h] = Closed]
           /\ \E F2, D2 : Views(fs', F2, D2, B) /\ ClosedAs(F, D, open_file_table[h], F2, D2, B)
<1>1. HandleOk(F, open_file_table[h])
  BY HandleIs DEF close, IsOpen
<1>2. \E F2, D2 : /\ Views(sf_close(fs, open_file_table[h]), F2, D2, B)
                  /\ ClosedAs(F, D, open_file_table[h], F2, D2, B)
  BY <1>1, CloseViews
<1> QED
  BY <1>1, <1>2 DEF close

LEMMA ReadDoes ==
    ASSUME NEW F, NEW D, NEW B, Views(fs, F, D, B), Sound(F, D, B),
           Handles(F, open_file_table), NEW h \in Handle, NEW count \in Count, read(h, count)
    PROVE  /\ image' = image /\ changes' = changes /\ HandleOk(F, open_file_table[h])
           /\ \E r, D2 : /\ ReadDone(F, D, B, open_file_table[h], count, r, D2)
                         /\ Views(fs', F, D2, B)
                         /\ open_file_table' = [open_file_table EXCEPT ![h] = r.file]
<1>1. HandleOk(F, open_file_table[h])
  BY HandleIs DEF read, IsOpen
<1>2. PICK r : r = sf_read(fs, open_file_table[h], count)
  OBVIOUS
<1>3. PICK D2 : ReadDone(F, D, B, open_file_table[h], count, r, D2)
  BY <1>1, <1>2, ReadViews
<1>4. /\ fs' = sf_get_fd(r.fs, open_file_table[h].fd_idx) /\ image' = image /\ changes' = changes
      /\ open_file_table' = [open_file_table EXCEPT ![h] = r.file]
  BY <1>2 DEF read
<1>5. Views(fs', F, D2, B)
  <2>1. open_file_table[h].fd_idx \in Fds
    BY <1>1, AnyFd DEF HandleOk, InUse
  <2>2. Views(r.fs, F, D2, B)
    BY <1>3 DEF ReadDone
  <2> QED
    BY <1>4, <2>1, <2>2, GetViews
<1> QED
  BY <1>1, <1>3, <1>4, <1>5

LEMMA BytesTyped ==
    ASSUME NEW w \in Nat, NEW n \in Nat
    PROVE  Bytes(w, n) \in Seq(Nat) /\ Len(Bytes(w, n)) = n
<1>1. PICK z \in Nat : z = BLOCK_SIZE
  BY Sizes
<1>2. \A k \in 1 .. n : (z + 1) * w + k \in Nat
  <2>1. (z + 1) * w \in Nat
    OBVIOUS
  <2> QED
    BY <2>1
<1>3. Bytes(w, n) = [k \in 1 .. n |-> (z + 1) * w + k]
  BY <1>1 DEF Bytes
<1>4. Bytes(w, n) \in [1 .. n -> Nat]
  BY <1>2, <1>3
<1> QED
  BY <1>4

LEMMA WriteDoes ==
    ASSUME NEW F, NEW D, NEW B, Views(fs, F, D, B), Sound(F, D, B), changes \in Nat,
           Handles(F, open_file_table), NEW h \in Handle, NEW count \in Count, write(h, count)
    PROVE  /\ image' = image /\ HandleOk(F, open_file_table[h]) /\ changes < MaxChanges
           /\ open_file_table[h].offset <= open_file_table[h].file_len
           /\ Bytes(changes, count) \in Seq(Nat) /\ Len(Bytes(changes, count)) = count
           /\ \E w, F2, D2, B2, n :
                /\ WriteDone(F, D, open_file_table[h], Bytes(changes, count), w, F2, D2, B2, n)
                /\ fs' = w.fs /\ open_file_table' = [open_file_table EXCEPT ![h] = w.file]
<1>1. HandleOk(F, open_file_table[h])
  BY HandleIs DEF write, IsOpen
<1>2. PICK data : data = Bytes(changes, count)
  OBVIOUS
<1>3. data \in Seq(Nat) /\ Len(data) = count /\ count \in Nat /\ 1 <= count
  BY <1>2, BytesTyped, CountIs
<1>4. Writable(open_file_table[h], count)
  BY <1>3 DEF write, Writable
<1>5. PICK w : w = sf_write(fs, open_file_table[h], data)
  OBVIOUS
<1>6. \E F2, D2, B2, n : WriteDone(F, D, open_file_table[h], data, w, F2, D2, B2, n)
  BY <1>1, <1>3, <1>4, <1>5, WriteFile
<1>7. /\ fs' = w.fs /\ open_file_table' = [open_file_table EXCEPT ![h] = w.file]
      /\ image' = image /\ open_file_table[h].offset <= open_file_table[h].file_len
      /\ changes < MaxChanges
  BY <1>2, <1>5 DEF write, Change
<1> QED
  BY <1>1, <1>2, <1>3, <1>6, <1>7

LEMMA SeekDoes ==
    ASSUME NEW F, Handles(F, open_file_table), NEW h \in Handle,
           NEW len \in SeekLen \cup {-l : l \in SeekLen}, NEW whence \in {"CUR", "SET", "END"},
           lseek(h, len, whence)
    PROVE  /\ image' = image /\ changes' = changes /\ fs' = fs /\ HandleOk(F, open_file_table[h])
           /\ \E o \in 0 .. MAX_FILE_LEN :
                open_file_table' = [open_file_table EXCEPT ![h] = AtOffset(open_file_table[h], o)]
<1>1. HandleOk(F, open_file_table[h])
  BY HandleIs DEF lseek, IsOpen
<1>2. len \in Int
  <2>1. \A l \in SeekLen : l \in Int /\ -l \in Int
    BY FsAssumption
  <2> QED
    BY <2>1
<1>3. PICK o \in 0 .. MAX_FILE_LEN :
        sf_lseek(open_file_table[h], len, whence) = AtOffset(open_file_table[h], o)
  BY <1>1, <1>2, SeekIs
<1>4. /\ image' = image /\ changes' = changes /\ fs' = fs
      /\ open_file_table' = [open_file_table EXCEPT ![h] = sf_lseek(@, len, whence)]
  BY DEF lseek
<1> QED
  BY <1>1, <1>3, <1>4

LEMMA StoreDoes ==
    ASSUME NEW F, NEW D, NEW B, Views(fs, F, D, B), storefs
    PROVE  /\ open_file_table = AllClosed /\ open_file_table' = open_file_table
           /\ Views(fs', F, D, B)
           /\ \E disk \in [Blk -> Block] : image' = {disk} /\ Views(sf_load(disk), F, D, B)
<1>1. /\ fs' = sf_store(fs) /\ image' = {fs'.disk}
      /\ open_file_table = AllClosed /\ open_file_table' = open_file_table
  BY DEF storefs
<1>2. /\ Views(sf_store(fs), F, D, B) /\ Views(sf_load(sf_store(fs).disk), F, D, B)
      /\ sf_store(fs).disk \in [Blk -> Block]
  BY StoreViews
<1> QED
  BY <1>1, <1>2

-----------------------------------------------------------------------------
(* The invariant.                                                          *)

Held(s, T) == SoundState(s) /\ Handles(FdView(s), T) /\ OpenListed(FdView(s), DataView(s), T)

LEMMA HeldFrom ==
    ASSUME NEW s, NEW F, NEW D, NEW B, Views(s, F, D, B), Sound(F, D, B),
           NEW T, Handles(F, T), OpenListed(F, D, T)
    PROVE  Held(s, T)
BY DEF Views, Held, SoundState

LEMMA HeldHas ==
    ASSUME NEW s, NEW T, Held(s, T)
    PROVE  /\ Views(s, FdView(s), DataView(s), BitView(s))
           /\ Sound(FdView(s), DataView(s), BitView(s)) /\ Handles(FdView(s), T)
           /\ OpenListed(FdView(s), DataView(s), T)
BY DEF Views, Held, SoundState

(* A handle in use keeps its item when the items stay, and when only items *)
(* of other descriptors go.                                                *)
LEMMA ItemsStay ==
    ASSUME NEW F, NEW D, NEW F2, NEW D2, NEW T, OpenListed(F, D, T), NEW T2,
           \A h \in Handle : T2[h].fd_idx = 0 \/ T2[h].fd_idx = T[h].fd_idx,
           \A e \in Listed(F, D) :
               \/ \A h \in Handle : T[h].fd_idx # Entry(F, D, e).fd
               \/ e \in Listed(F2, D2) /\ Entry(F2, D2, e) = Entry(F, D, e)
    PROVE  OpenListed(F2, D2, T2)
<1>1. ASSUME NEW h \in Handle, T2[h].fd_idx # 0
      PROVE  HasItem(F2, D2, T2[h].fd_idx)
  <2>1. T2[h].fd_idx = T[h].fd_idx
    BY <1>1
  <2>2. PICK e \in Listed(F, D) : Entry(F, D, e).fd = T[h].fd_idx
    BY <1>1, <2>1 DEF OpenListed, HasItem
  <2>3. e \in Listed(F2, D2) /\ Entry(F2, D2, e) = Entry(F, D, e)
    BY <2>2
  <2> QED
    BY <2>1, <2>2, <2>3 DEF HasItem
<1> QED
  BY <1>1 DEF OpenListed

LEMMA OneStays ==
    ASSUME NEW F, NEW D, NEW F2, NEW D2, NEW B2, NEW k, NEW T, OpenListed(F, D, T),
           OnlyFile(F, D, F2, D2, B2, k), NEW H, T \in [Handle -> H], NEW h \in Handle, NEW f,
           f.fd_idx = 0 \/ f.fd_idx = T[h].fd_idx
    PROVE  OpenListed(F2, D2, [T EXCEPT ![h] = f])
<1>1. PICK T2 : T2 = [T EXCEPT ![h] = f]
  OBVIOUS
<1>2. \A g \in Handle : T2[g].fd_idx = 0 \/ T2[g].fd_idx = T[g].fd_idx
  BY <1>1
<1>3. \A e \in Listed(F, D) : e \in Listed(F2, D2) /\ Entry(F2, D2, e) = Entry(F, D, e)
  BY DEF OnlyFile
<1>4. OpenListed(F2, D2, T2)
  BY <1>2, <1>3, ItemsStay
<1> QED
  BY <1>1, <1>4

LEMMA InvHas ==
    ASSUME IInv
    PROVE  /\ Held(fs, open_file_table) /\ changes \in Nat
           /\ \A disk \in image : disk \in [Blk -> Block] /\ SoundState(sf_load(disk))
BY DEF IInv, Held

(* The handles but one are where they were.                                *)
LEMMA OtherHandles ==
    ASSUME NEW F, NEW D, NEW F2, NEW D2, NEW B2, NEW T, Handles(F, T),
           NEW h \in Handle, T[h].fd_idx # 0, OnlyFile(F, D, F2, D2, B2, T[h].fd_idx),
           NEW f, f = Closed \/ (HandleOk(F2, f) /\ f.fd_idx = T[h].fd_idx)
    PROVE  Handles(F2, [T EXCEPT ![h] = f])
<1>1. ASSUME NEW g \in Handle \ {h}, T[g].fd_idx # 0
      PROVE  /\ T[g].fd_idx \in InUse(F2) /\ F2[T[g].fd_idx].blk = F[T[g].fd_idx].blk
             /\ T[g].fd_idx # T[h].fd_idx
  <2>1. T[g].fd_idx \in InUse(F) /\ T[g].fd_idx # T[h].fd_idx
    BY <1>1 DEF Handles
  <2> QED
    BY <2>1 DEF OnlyFile, Kept
<1>2. \A g \in Handle \ {h} : T[g].fd_idx # 0 =>
          /\ T[g].fd_idx \in InUse(F2) /\ F2[T[g].fd_idx].blk = F[T[g].fd_idx].blk
          /\ T[g].fd_idx # f.fd_idx
  BY <1>1, ClosedTyped
<1> QED
  BY <1>2, HandlesAfter

LEMMA TouchHolds ==
    ASSUME IInv, NEW n \in Name, touch(n)
    PROVE  Held(fs', open_file_table')
<1>1. PICK F, D, B : /\ Views(fs, F, D, B) /\ Sound(F, D, B) /\ Handles(F, open_file_table)
                    /\ OpenListed(F, D, open_file_table)
  BY InvHas, HeldHas
<1>2. open_file_table' = open_file_table
  BY <1>1, TouchDoes
<1>3. CASE Views(fs', F, D, B)
  BY <1>1, <1>2, <1>3, HeldFrom
<1>4. CASE \E F2, D2, B2, k : Views(fs', F2, D2, B2) /\ Added(F, D, B, F2, D2, B2, n, k)
  <2>1. PICK F2, D2, B2, k : Views(fs', F2, D2, B2) /\ Added(F, D, B, F2, D2, B2, n, k)
    BY <1>4
  <2>2. ASSUME NEW g \in Handle, open_file_table[g].fd_idx # 0
        PROVE  /\ open_file_table[g].fd_idx \in InUse(F2)
               /\ F2[open_file_table[g].fd_idx].blk = F[open_file_table[g].fd_idx].blk
    <3>1. open_file_table[g].fd_idx \in InUse(F)
      BY <1>1, <2>2 DEF Handles
    <3> QED
      BY <2>1, <3>1 DEF Added, Kept
  <2>3. Handles(F2, open_file_table)
    BY <1>1, <2>2, HandlesSame
  <2>4. Sound(F2, D2, B2)
    BY <2>1 DEF Added
  <2>5. \A e \in Listed(F, D) : e \in Listed(F2, D2) /\ Entry(F2, D2, e) = Entry(F, D, e)
    BY <2>1 DEF Added
  <2>6. OpenListed(F2, D2, open_file_table)
    BY <1>1, <2>5, ItemsStay
  <2> QED
    BY <1>2, <2>1, <2>3, <2>4, <2>6, HeldFrom
<1>5. CASE \E F2, k : Views(fs', F2, D, B) /\ Unlisted(F, D, B, F2, k)
  <2>1. PICK F2, k : Views(fs', F2, D, B) /\ Unlisted(F, D, B, F2, k)
    BY <1>5
  <2>2. ASSUME NEW g \in Handle, open_file_table[g].fd_idx # 0
        PROVE  /\ open_file_table[g].fd_idx \in InUse(F2)
               /\ F2[open_file_table[g].fd_idx].blk = F[open_file_table[g].fd_idx].blk
    <3>1. open_file_table[g].fd_idx \in InUse(F)
      BY <1>1, <2>2 DEF Handles
    <3> QED
      BY <2>1, <3>1 DEF Unlisted, Kept
  <2>3. Handles(F2, open_file_table)
    BY <1>1, <2>2, HandlesSame
  <2>4. Sound(F2, D, B)
    BY <2>1 DEF Unlisted
  <2>5. \A e \in Listed(F, D) : e \in Listed(F2, D) /\ Entry(F2, D, e) = Entry(F, D, e)
    BY <2>1 DEF Unlisted
  <2>6. OpenListed(F2, D, open_file_table)
    BY <1>1, <2>5, ItemsStay
  <2> QED
    BY <1>2, <2>1, <2>3, <2>4, <2>6, HeldFrom
<1> QED
  BY <1>1, <1>3, <1>4, <1>5, TouchDoes

LEMMA RmHolds ==
    ASSUME IInv, NEW n \in Name, rm(n)
    PROVE  Held(fs', open_file_table')
<1>1. PICK F, D, B : /\ Views(fs, F, D, B) /\ Sound(F, D, B) /\ Handles(F, open_file_table)
                    /\ OpenListed(F, D, open_file_table)
  BY InvHas, HeldHas
<1>2. open_file_table' = open_file_table
  BY <1>1, RmDoes
<1>3. PICK e \in Listed(F, D) :
        /\ \A h \in Handle : open_file_table[h].fd_idx # Entry(F, D, e).fd
        /\ \/ Views(fs', F, D, B)
           \/ \E F2, D2 : Views(fs', F2, D2, B) /\ Dropped(F, D, B, F2, D2, e)
  BY <1>1, RmDoes
<1>4. CASE Views(fs', F, D, B)
  BY <1>1, <1>2, <1>4, HeldFrom
<1>5. CASE \E F2, D2 : Views(fs', F2, D2, B) /\ Dropped(F, D, B, F2, D2, e)
  <2>1. PICK F2, D2 : Views(fs', F2, D2, B) /\ Dropped(F, D, B, F2, D2, e)
    BY <1>5
  <2>2. ASSUME NEW g \in Handle, open_file_table[g].fd_idx # 0
        PROVE  /\ open_file_table[g].fd_idx \in InUse(F2)
               /\ F2[open_file_table[g].fd_idx].blk = F[open_file_table[g].fd_idx].blk
    <3>1. open_file_table[g].fd_idx \in InUse(F) \ {Entry(F, D, e).fd}
      BY <1>1, <1>3, <2>2 DEF Handles
    <3> QED
      BY <2>1, <3>1 DEF Dropped, Kept
  <2>3. Handles(F2, open_file_table)
    BY <1>1, <2>2, HandlesSame
  <2>4. Sound(F2, D2, B)
    BY <2>1 DEF Dropped
  <2>5. \A g \in Listed(F, D) :
          g = e \/ (g \in Listed(F2, D2) /\ Entry(F2, D2, g) = Entry(F, D, g))
    BY <2>1 DEF Dropped
  <2>6. OpenListed(F2, D2, open_file_table)
    BY <1>1, <1>3, <2>5, ItemsStay
  <2> QED
    BY <1>2, <2>1, <2>3, <2>4, <2>6, HeldFrom
<1> QED
  BY <1>3, <1>4, <1>5

LEMMA RefuseHolds ==
    ASSUME IInv, NEW n \in Name, refuse(n)
    PROVE  Held(fs', open_file_table')
<1>1. PICK F, D, B : /\ Views(fs, F, D, B) /\ Sound(F, D, B) /\ Handles(F, open_file_table)
                    /\ OpenListed(F, D, open_file_table)
  BY InvHas, HeldHas
<1> QED
  BY <1>1, RefuseDoes, HeldFrom

LEMMA OpenHolds ==
    ASSUME IInv, NEW n \in Name, sf_open_file(n)
    PROVE  Held(fs', open_file_table')
<1>1. PICK F, D, B : /\ Views(fs, F, D, B) /\ Sound(F, D, B) /\ Handles(F, open_file_table)
                    /\ OpenListed(F, D, open_file_table)
  BY InvHas, HeldHas
<1>f. PICK f : \E e \in Listed(F, D), h \in Handle :
                 OpensAs(F, D, open_file_table, open_file_table', n, e, h, f)
  BY <1>1, OpenDoes
<1>2. PICK e \in Listed(F, D), h \in Handle :
        OpensAs(F, D, open_file_table, open_file_table', n, e, h, f)
  BY <1>f
<1>3. Views(fs', F, D, B)
  BY <1>1, OpenDoes
<1>4. /\ open_file_table' = [open_file_table EXCEPT ![h] = f] /\ HandleOk(F, f)
      /\ \A g \in Handle : open_file_table[g].fd_idx # f.fd_idx
  BY <1>2 DEF OpensAs
<1>5. \A g \in Handle : open_file_table[g].fd_idx # 0 => open_file_table[g].fd_idx \in InUse(F)
  BY <1>1 DEF Handles
<1>6. Handles(F, [open_file_table EXCEPT ![h] = f])
  BY <1>1, <1>4, <1>5, HandlesAfter
<1>7. OpenListed(F, D, [open_file_table EXCEPT ![h] = f])
  <2>1. HasItem(F, D, f.fd_idx)
    BY <1>2 DEF OpensAs, HasItem
  <2>2. open_file_table \in [Handle -> HandleRec]
    BY <1>1 DEF Handles
  <2>3. \A g \in Handle : [open_file_table EXCEPT ![h] = f][g] =
                            IF g = h THEN f ELSE open_file_table[g]
    BY <2>2
  <2> QED
    BY <1>1, <2>1, <2>3 DEF OpenListed
<1> QED
  BY <1>1, <1>3, <1>4, <1>6, <1>7, HeldFrom

LEMMA CloseHolds ==
    ASSUME IInv, NEW h \in Handle, close(h)
    PROVE  Held(fs', open_file_table')
<1>1. PICK F, D, B : /\ Views(fs, F, D, B) /\ Sound(F, D, B) /\ Handles(F, open_file_table)
                    /\ OpenListed(F, D, open_file_table)
  BY InvHas, HeldHas
<1>2. PICK T : T = open_file_table
  OBVIOUS
<1>3. PICK F2, D2 : Views(fs', F2, D2, B) /\ ClosedAs(F, D, T[h], F2, D2, B)
  BY <1>1, <1>2, CloseDoes
<1>4. HandleOk(F, T[h]) /\ open_file_table' = [T EXCEPT ![h] = Closed]
  BY <1>1, <1>2, CloseDoes
<1>5. T[h].fd_idx # 0
  BY <1>4, AnyFd DEF HandleOk, InUse
<1>6. OnlyFile(F, D, F2, D2, B, T[h].fd_idx)
  BY <1>3 DEF ClosedAs
<1>7. Handles(F2, [T EXCEPT ![h] = Closed])
  BY <1>1, <1>2, <1>5, <1>6, OtherHandles
<1>8. Sound(F2, D2, B)
  BY <1>6 DEF OnlyFile
<1>9. OpenListed(F2, D2, [T EXCEPT ![h] = Closed])
  BY <1>1, <1>2, <1>6, ClosedTyped, OneStays DEF Handles
<1> QED
  BY <1>3, <1>4, <1>7, <1>8, <1>9, HeldFrom

LEMMA ReadHolds ==
    ASSUME IInv, NEW h \in Handle, NEW count \in Count, read(h, count)
    PROVE  Held(fs', open_file_table')
<1>1. PICK F, D, B : /\ Views(fs, F, D, B) /\ Sound(F, D, B) /\ Handles(F, open_file_table)
                    /\ OpenListed(F, D, open_file_table)
  BY InvHas, HeldHas
<1>2. PICK T : T = open_file_table
  OBVIOUS
<1>3. PICK r, D2 : /\ ReadDone(F, D, B, T[h], count, r, D2) /\ Views(fs', F, D2, B)
                   /\ open_file_table' = [T EXCEPT ![h] = r.file]
  BY <1>1, <1>2, ReadDoes
<1>4. HandleOk(F, T[h])
  BY <1>1, <1>2, ReadDoes
<1>5. T[h].fd_idx # 0
  BY <1>4, AnyFd DEF HandleOk, InUse
<1>6. /\ OnlyFile(F, D, F, D2, B, T[h].fd_idx)
      /\ HandleOk(F, r.file) /\ r.file.fd_idx = T[h].fd_idx
  BY <1>3 DEF ReadDone
<1>7. Handles(F, [T EXCEPT ![h] = r.file])
  BY <1>1, <1>2, <1>5, <1>6, OtherHandles
<1>8. Sound(F, D2, B)
  BY <1>6 DEF OnlyFile
<1>9. OpenListed(F, D2, [T EXCEPT ![h] = r.file])
  BY <1>1, <1>2, <1>6, OneStays DEF Handles
<1> QED
  BY <1>3, <1>7, <1>8, <1>9, HeldFrom

LEMMA WriteHolds ==
    ASSUME IInv, NEW h \in Handle, NEW count \in Count, write(h, count)
    PROVE  Held(fs', open_file_table')
<1>1. PICK F, D, B : /\ Views(fs, F, D, B) /\ Sound(F, D, B) /\ Handles(F, open_file_table)
                    /\ OpenListed(F, D, open_file_table)
  BY InvHas, HeldHas
<1>2. changes \in Nat
  BY InvHas
<1>3. PICK T : T = open_file_table
  OBVIOUS
<1>4. PICK w, F2, D2, B2, n :
        /\ WriteDone(F, D, T[h], Bytes(changes, count), w, F2, D2, B2, n)
        /\ fs' = w.fs /\ open_file_table' = [T EXCEPT ![h] = w.file]
  BY <1>1, <1>2, <1>3, WriteDoes
<1>5. HandleOk(F, T[h])
  BY <1>1, <1>2, <1>3, WriteDoes
<1>6. T[h].fd_idx # 0
  BY <1>5, AnyFd DEF HandleOk, InUse
<1>7. /\ Views(w.fs, F2, D2, B2) /\ OnlyFile(F, D, F2, D2, B2, T[h].fd_idx)
      /\ HandleOk(F2, w.file) /\ w.file.fd_idx = T[h].fd_idx
  BY <1>4 DEF WriteDone
<1>8. Handles(F2, [T EXCEPT ![h] = w.file])
  BY <1>1, <1>3, <1>6, <1>7, OtherHandles
<1>9. Sound(F2, D2, B2)
  BY <1>7 DEF OnlyFile
<1>10. OpenListed(F2, D2, [T EXCEPT ![h] = w.file])
  BY <1>1, <1>3, <1>7, OneStays DEF Handles
<1> QED
  BY <1>4, <1>7, <1>8, <1>9, <1>10, HeldFrom

LEMMA SeekHolds ==
    ASSUME IInv, NEW h \in Handle, NEW len \in SeekLen \cup {-l : l \in SeekLen},
           NEW whence \in {"CUR", "SET", "END"}, lseek(h, len, whence)
    PROVE  Held(fs', open_file_table')
<1>1. PICK F, D, B : /\ Views(fs, F, D, B) /\ Sound(F, D, B) /\ Handles(F, open_file_table)
                    /\ OpenListed(F, D, open_file_table)
  BY InvHas, HeldHas
<1>2. PICK T : T = open_file_table
  OBVIOUS
<1>3. PICK o \in 0 .. MAX_FILE_LEN : open_file_table' = [T EXCEPT ![h] = AtOffset(T[h], o)]
  BY <1>1, <1>2, SeekDoes
<1>4. HandleOk(F, T[h]) /\ fs' = fs
  BY <1>1, <1>2, SeekDoes
<1>5. T[h].fd_idx # 0
  BY <1>4, AnyFd DEF HandleOk, InUse
<1>6. HandleOk(F, AtOffset(T[h], o)) /\ AtOffset(T[h], o).fd_idx = T[h].fd_idx
  BY <1>4, OffsetSet DEF AtOffset
<1>7. OnlyFile(F, D, F, D, B, T[h].fd_idx)
  BY <1>1, OnlyFileSame
<1>8. Handles(F, [T EXCEPT ![h] = AtOffset(T[h], o)])
  BY <1>1, <1>2, <1>5, <1>6, <1>7, OtherHandles
<1>9. OpenListed(F, D, [T EXCEPT ![h] = AtOffset(T[h], o)])
  BY <1>1, <1>2, <1>6, <1>7, OneStays DEF Handles
<1> QED
  BY <1>1, <1>3, <1>4, <1>8, <1>9, HeldFrom

LEMMA SystemHolds ==
    ASSUME IInv, storefs \/ loadfs \/ mkfs_loadfs \/ restart
    PROVE  Held(fs', open_file_table')
<1>1. PICK F, D, B : /\ Views(fs, F, D, B) /\ Sound(F, D, B) /\ Handles(F, open_file_table)
                    /\ OpenListed(F, D, open_file_table)
  BY InvHas, HeldHas
<1>2. CASE storefs
  <2>1. Views(fs', F, D, B) /\ open_file_table' = open_file_table
    BY <1>1, <1>2, StoreDoes
  <2> QED
    BY <1>1, <2>1, HeldFrom
<1>3. \A disk : SoundState(sf_load(disk)) => Held(sf_load(disk), AllClosed)
  BY AllClosedIs, NoneListed DEF Held
<1>4. CASE loadfs
  <2>1. PICK disk \in image : fs' = sf_load(disk)
    BY <1>4 DEF loadfs
  <2>2. SoundState(sf_load(disk)) /\ open_file_table' = AllClosed
    BY <1>4, InvHas DEF loadfs
  <2> QED
    BY <1>3, <2>1, <2>2
<1>5. CASE mkfs_loadfs \/ restart
  <2>1. fs' = Zeroed /\ open_file_table' = AllClosed
    BY <1>5 DEF mkfs_loadfs, restart, Zeroed
  <2> QED
    BY <2>1, ZeroViews, AllClosedIs, NoneListed, HeldFrom
<1> QED
  BY <1>2, <1>4, <1>5

Images(im) == \A disk \in im : disk \in [Blk -> Block] /\ SoundState(sf_load(disk))

(* Only store and mkfs make images.                                        *)
LEMMA ImagesHold ==
    ASSUME IInv, Next
    PROVE  Images(image')
<1>1. Images(image)
  BY InvHas DEF Images
<1>2. CASE storefs
  <2>1. PICK F, D, B : Views(fs, F, D, B) /\ Sound(F, D, B) /\ Handles(F, open_file_table)
    BY InvHas, HeldHas
  <2>2. PICK disk \in [Blk -> Block] : image' = {disk} /\ Views(sf_load(disk), F, D, B)
    BY <1>2, <2>1, StoreDoes
  <2>3. SoundState(sf_load(disk))
    BY <2>1, <2>2 DEF Views, SoundState
  <2> QED
    BY <2>2, <2>3 DEF Images
<1>3. CASE mkfs_loadfs
  <2>1. image' = {sf_mkfs}
    BY <1>3 DEF mkfs_loadfs
  <2>2. SoundState(sf_load(sf_mkfs))
    BY ZeroViews DEF Views, SoundState, Zeroed
  <2> QED
    BY <2>1, <2>2, ZeroViews DEF Images
<1>4. CASE ~storefs /\ ~mkfs_loadfs
  <2>1. image' = image
    BY <1>4 DEF Next, touch, rm, refuse, sf_open_file, close, read, write, lseek, loadfs, restart
  <2> QED
    BY <1>1, <2>1
<1> QED
  BY <1>2, <1>3, <1>4

LEMMA ChangesHold ==
    ASSUME IInv, Next
    PROVE  changes' \in Nat
<1>1. changes \in Nat
  BY InvHas
<1>2. changes' = changes \/ changes' = changes + 1
  BY DEF Next, touch, rm, refuse, sf_open_file, close, read, write, lseek, storefs, loadfs,
         mkfs_loadfs, restart, Change
<1> QED
  BY <1>1, <1>2

LEMMA InvFrom ==
    ASSUME Held(fs', open_file_table'), Images(image'), changes' \in Nat
    PROVE  IInv'
BY DEF Held, Images, IInv

LEMMA StepHolds ==
    ASSUME IInv, Next
    PROVE  IInv'
<1>1. Held(fs', open_file_table')
  <2>1. ASSUME NEW n \in Name, touch(n) \/ rm(n) \/ refuse(n) \/ sf_open_file(n)
        PROVE  Held(fs', open_file_table')
    BY <2>1, TouchHolds, RmHolds, RefuseHolds, OpenHolds
  <2>2. ASSUME NEW h \in Handle, close(h)
        PROVE  Held(fs', open_file_table')
    BY <2>2, CloseHolds
  <2>3. ASSUME NEW h \in Handle, NEW count \in Count, read(h, count) \/ write(h, count)
        PROVE  Held(fs', open_file_table')
    BY <2>3, ReadHolds, WriteHolds
  <2>4. ASSUME NEW h \in Handle, NEW len \in SeekLen \cup {-l : l \in SeekLen},
               NEW whence \in {"CUR", "SET", "END"}, lseek(h, len, whence)
        PROVE  Held(fs', open_file_table')
    BY <2>4, SeekHolds
  <2>5. CASE storefs \/ loadfs \/ mkfs_loadfs \/ restart
    BY <2>5, SystemHolds
  <2> QED
    BY <2>1, <2>2, <2>3, <2>4, <2>5 DEF Next
<1>2. Images(image') /\ changes' \in Nat
  BY ImagesHold, ChangesHold
<1> QED
  BY <1>1, <1>2, InvFrom

LEMMA InitHolds == Init => IInv
<1> SUFFICES ASSUME Init PROVE IInv
  OBVIOUS
<1>1. fs = Zeroed /\ open_file_table = AllClosed /\ image = {} /\ changes = 0
  BY DEF Init
<1>2. Held(fs, open_file_table)
  BY <1>1, ZeroViews, AllClosedIs, NoneListed, HeldFrom
<1> QED
  BY <1>1, <1>2 DEF Held, IInv

(* The invariant holds of every state of the file system: the blocks of    *)
(* the descriptors, the directory and the handles agree, in memory and in  *)
(* the image that can be loaded.                                           *)
THEOREM Soundness == Spec => []IInv
<1>1. IInv /\ UNCHANGED vars => IInv'
  <2> SUFFICES ASSUME IInv, UNCHANGED vars PROVE IInv'
    OBVIOUS
  <2>1. fs' = fs /\ open_file_table' = open_file_table /\ image' = image /\ changes' = changes
    BY DEF vars
  <2>2. Held(fs, open_file_table) /\ Images(image) /\ changes \in Nat
    BY DEF IInv, Held, Images
  <2> QED
    BY <2>1, <2>2, InvFrom
<1>2. IInv /\ [Next]_vars => IInv'
  BY <1>1, StepHolds
<1> QED
  BY <1>2, InitHolds, PTL DEF Spec

(* Positions, lengths and block numbers stay in their ranges, a write that *)
(* finds the disk full and a directory that shrinks included.              *)
THEOREM Typing == Spec => []TypeOK
<1>1. IInv => TypeOK
  <2> SUFFICES ASSUME IInv PROVE TypeOK
    OBVIOUS
  <2>1. fs \in FsState /\ open_file_table \in [Handle -> HandleRec]
    BY InvHas DEF Held, SoundState, Handles
  <2>2. /\ DOMAIN fs.disk = Blk /\ fs.bitmap \subseteq Blk
        /\ fs.loaded_blk \in 0 .. RESERVED_BLOCK_CNT - 1
        /\ \A i \in Slot : fs.fd_blk_buf[i] \in FdRec
    BY <2>1 DEF FsState
  <2>3. ASSUME NEW h \in Handle
        PROVE  LET file == open_file_table[h]
               IN  /\ file.fd_idx \in FdIdx /\ file.cur_blk \in Blk
                   /\ {file.offset, file.file_len} \subseteq 0 .. MAX_FILE_LEN
    <3>1. open_file_table[h] \in HandleRec
      BY <2>1
    <3> QED
      BY <3>1 DEF HandleRec
  <2> QED
    BY <2>2, <2>3 DEF TypeOK
<1> QED
  BY <1>1, Soundness, PTL

-----------------------------------------------------------------------------
(* What the invariant says of the blocks and of the directory.             *)

LEMMA SameSize ==
    ASSUME NEW S, IsFiniteSet(S), NEW T, NEW g \in [S -> T],
           \A x, y \in S : g[x] = g[y] => x = y, \A y \in T : \E x \in S : g[x] = y
    PROVE  IsFiniteSet(T) /\ Cardinality(T) = Cardinality(S)
<1>1. g \in Injection(S, T) /\ g \in Surjection(S, T)
  BY DEF Injection, Surjection, IsInjective
<1>2. ExistsBijection(S, T)
  BY <1>1 DEF ExistsBijection, Bijection
<1> QED
  BY <1>2, FS_Bijection

LEMMA UsedFdsAre ==
    ASSUME NEW s, NEW F, NEW D, NEW B, Views(s, F, D, B)
    PROVE  UsedFds(s) = InUse(F)
BY ViewsFd, AnyFd DEF UsedFds, InUse

LEMMA BlocksAre ==
    ASSUME NEW s, NEW F, NEW D, NEW B, Views(s, F, D, B), NEW k \in Fds
    PROVE  BlocksOf(s, k) = {F[k].blk[i] : i \in Pos} \ {0}
BY ViewsFd DEF BlocksOf

(* No block belongs to two descriptors or twice to one, none is one of the *)
(* reserved blocks, and the bitmap knows them all.                         *)
THEOREM BlocksAreDisjoint == Spec => []BlocksDisjoint
<1>1. IInv => BlocksDisjoint
  <2> SUFFICES ASSUME IInv PROVE BlocksDisjoint
    OBVIOUS
  <2>1. PICK F, D, B : Views(fs, F, D, B) /\ Sound(F, D, B)
    BY InvHas, HeldHas
  <2>2. UsedFds(fs) \cup {1} = Owners(F)
    BY <2>1, UsedFdsAre DEF Owners
  <2>3. \A k \in Owners(F) : /\ k \in Fds /\ Fd(fs, k) = F[k]
                             /\ BlocksOf(fs, k) = {F[k].blk[i] : i \in Pos} \ {0}
    <3>1. \A k \in Owners(F) : k \in Fds
      BY Ranges DEF Owners, InUse
    <3> QED
      BY <2>1, <3>1, ViewsFd, BlocksAre
  <2>4. \A k \in Owners(F), i \in Pos : F[k].blk[i] # 0 => F[k].blk[i] \in B
    BY <2>1 DEF Sound, BlocksOwned
  <2>5. B \subseteq fs.bitmap \ (0 .. RESERVED_BLOCK_CNT - 1)
    <3>1. B = fs.bitmap \cap DataBlk
      BY <2>1 DEF Views, BitView
    <3>2. \A b \in DataBlk : b \notin 0 .. RESERVED_BLOCK_CNT - 1
      BY Sizes DEF DataBlk
    <3> QED
      BY <3>1, <3>2
  <2>6. ASSUME NEW k \in Owners(F)
        PROVE  /\ BlocksOf(fs, k) \subseteq fs.bitmap \ (0 .. RESERVED_BLOCK_CNT - 1)
               /\ Cardinality(BlocksOf(fs, k)) = Cardinality({i \in Pos : Fd(fs, k).blk[i] # 0})
    <3>1. BlocksOf(fs, k) \subseteq B
      BY <2>3, <2>4
    <3> DEFINE at == {i \in Pos : F[k].blk[i] # 0}
               g  == [i \in at |-> F[k].blk[i]]
    <3>2. at \subseteq Pos /\ \A i \in at : F[k].blk[i] # 0 /\ g[i] = F[k].blk[i]
      OBVIOUS
    <3>3. IsFiniteSet(at)
      <4>1. FBLK_CNT - 1 \in Int /\ 0 \in Int
        BY Sizes
      <4>2. IsFiniteSet(Pos)
        BY <4>1, FS_Interval DEF Pos
      <4> QED
        BY <3>2, <4>2, FS_Subset
    <3>4. g \in [at -> BlocksOf(fs, k)]
      BY <2>3
    <3>5. \A i, j \in at : g[i] = g[j] => i = j
      BY <2>1, <3>2 DEF Sound, BlocksOwned
    <3>6. \A b \in BlocksOf(fs, k) : \E i \in at : g[i] = b
      BY <2>3
    <3>7. at = {i \in Pos : Fd(fs, k).blk[i] # 0}
      BY <2>3
    <3> HIDE DEF at, g
    <3>8. Cardinality(BlocksOf(fs, k)) = Cardinality(at)
      BY <3>3, <3>4, <3>5, <3>6, SameSize
    <3> QED
      BY <2>5, <3>1, <3>7, <3>8
  <2>7. ASSUME NEW k \in Owners(F), NEW l \in Owners(F), k # l
        PROVE  BlocksOf(fs, k) \cap BlocksOf(fs, l) = {}
    <3>1. ASSUME NEW b \in BlocksOf(fs, k), b \in BlocksOf(fs, l) PROVE FALSE
      <4>1. PICK i \in Pos, j \in Pos : b = F[k].blk[i] /\ b = F[l].blk[j] /\ b # 0
        BY <2>3, <3>1
      <4>2. \A x, y \in Owners(F), p, q \in Pos :
               F[x].blk[p] = F[y].blk[q] /\ F[x].blk[p] # 0 => x = y /\ p = q
        BY <2>1 DEF Sound, BlocksOwned
      <4> QED
        <5>1. F[k].blk[i] = F[l].blk[j] /\ F[k].blk[i] # 0
          BY <4>1
        <5>2. k = l
          BY <4>2, <5>1
        <5> QED
          BY <2>7, <5>2
    <3> QED
      BY <3>1
  <2> QED
    BY <2>2, <2>6, <2>7 DEF BlocksDisjoint
<1> QED
  BY <1>1, Soundness, PTL

LEMMA ItemsAre ==
    ASSUME NEW s, NEW F, NEW D, NEW B, Views(s, F, D, B), Sound(F, D, B)
    PROVE  ItemsOf(s) = {Entry(F, D, e) : e \in Listed(F, D)}
<1>1. BlocksOwned(F, D, B) /\ \A i \in Pos : DirBlk(s, i) = F[1].blk[i]
  BY ViewsFd DEF Sound
<1>2. ASSUME NEW i \in Pos, DirBlk(s, i) # 0
      PROVE  /\ DOMAIN DirOf(s.disk[DirBlk(s, i)]) = Item
             /\ \A j \in Item : DirOf(s.disk[DirBlk(s, i)])[j] = Entry(F, D, <<i, j>>)
  <2>1. DirBlk(s, i) \in DataBlk
    BY <1>1, <1>2, DirSees
  <2>2. s.disk[DirBlk(s, i)] \in Block
    BY <2>1, Ranges DEF Views, FsState
  <2>3. DOMAIN DirOf(s.disk[DirBlk(s, i)]) = Item
    BY <2>2, BlockTypes
  <2> QED
    BY <1>1, <1>2, <2>3, DirSees
<1>3. ASSUME NEW x \in ItemsOf(s) PROVE \E e \in Listed(F, D) : x = Entry(F, D, e)
  <2>1. PICK i \in Pos : /\ DirBlk(s, i) # 0 /\ x.tag = 1
                         /\ x \in Range(DirOf(s.disk[DirBlk(s, i)]))
    BY DEF ItemsOf, DirBlocks
  <2>2. PICK j \in Item : x = Entry(F, D, <<i, j>>)
    BY <1>2, <2>1 DEF Range
  <2>3. <<i, j>> \in Listed(F, D)
    BY <1>1, <2>1, <2>2 DEF Listed
  <2> QED
    BY <2>2, <2>3
<1>4. ASSUME NEW e \in Listed(F, D) PROVE Entry(F, D, e) \in ItemsOf(s)
  <2>1. PICK i \in Pos, j \in Item : e = <<i, j>> /\ F[1].blk[i] # 0
    BY ItemPlace
  <2>2. Entry(F, D, e).tag = 1
    BY DEF Listed
  <2>3. Entry(F, D, e) \in Range(DirOf(s.disk[DirBlk(s, i)]))
    BY <1>1, <1>2, <2>1 DEF Range
  <2>4. DirBlk(s, i) \in DirBlocks(s)
    BY <1>1, <2>1 DEF DirBlocks
  <2> QED
    BY <2>2, <2>3, <2>4 DEF ItemsOf
<1> QED
  BY <1>3, <1>4

(* The descriptors that the directory names.                               *)
InDir(F, D) == {k \in InUse(F) : HasItem(F, D, k)}

LEMMA LostAre ==
    ASSUME NEW s, NEW F, NEW D, NEW B, Views(s, F, D, B), Sound(F, D, B)
    PROVE  /\ Lost(s) = {k \in InUse(F) : ~HasItem(F, D, k)}
           /\ UsedFds(s) \ Lost(s) = InDir(F, D)
           /\ Lost(s) # {} => DirFull(s)
<1>1. UsedFds(s) = InUse(F)
  BY UsedFdsAre
<1>2. ItemsOf(s) = {Entry(F, D, e) : e \in Listed(F, D)}
  BY ItemsAre
<1>3. ASSUME NEW k PROVE (\A item \in ItemsOf(s) : item.fd # k) <=> ~HasItem(F, D, k)
  BY <1>2 DEF HasItem
<1>4. Lost(s) = {k \in InUse(F) : ~HasItem(F, D, k)}
  BY <1>1, <1>3 DEF Lost
<1>5. NoRoom(F, B) => DirFull(s)
  BY FreeBlocksAre, ViewsFd DEF NoRoom, DirFull, DirBlk
<1> QED
  BY <1>1, <1>4, <1>5 DEF InDir, Sound, Complete

(* The names in the directory and the descriptors it names.                *)
LEMMA ItemsOfFds ==
    ASSUME NEW F, NEW D, Directory(F, D)
    PROVE  Cardinality({Entry(F, D, e).name : e \in Listed(F, D)}) = Cardinality(InDir(F, D))
<1> DEFINE L == Listed(F, D)
           N == {Entry(F, D, e).name : e \in L}
           g == [e \in L |-> Entry(F, D, e).fd]
           m == [e \in L |-> Entry(F, D, e).name]
<1>1. IsFiniteSet(L)
  <2>1. L \in SUBSET (Pos \X Item)
    BY DEF Listed
  <2> QED
    BY <2>1, ListedFinite
<1>2. /\ \A e \in L : Entry(F, D, e).fd \in InDir(F, D)
      /\ \A e, h \in L : Entry(F, D, e).fd = Entry(F, D, h).fd => e = h
      /\ \A e, h \in L : Entry(F, D, e).name = Entry(F, D, h).name => e = h
      /\ \A k \in InDir(F, D) : \E e \in L : Entry(F, D, e).fd = k
  BY DEF Directory, InDir, HasItem
<1>3. /\ g \in [L -> InDir(F, D)] /\ \A e, h \in L : g[e] = g[h] => e = h
      /\ \A k \in InDir(F, D) : \E e \in L : g[e] = k
  BY <1>2
<1>4. /\ m \in [L -> N] /\ \A e, h \in L : m[e] = m[h] => e = h
      /\ \A n \in N : \E e \in L : m[e] = n
  BY <1>2
<1> HIDE DEF L, N, g, m
<1>5. Cardinality(InDir(F, D)) = Cardinality(L) /\ Cardinality(N) = Cardinality(L)
  BY <1>1, <1>3, <1>4, SameSize
<1> QED
  BY <1>5 DEF L, N

(* The directory names descriptors in use only, none twice and no name     *)
(* twice, its length counts them all, and one that it does not name was    *)
(* made when the disk was full.                                            *)
THEOREM DirectoryMatches == Spec => []DirMatchesFds
<1>1. IInv => DirMatchesFds
  <2> SUFFICES ASSUME IInv PROVE DirMatchesFds
    OBVIOUS
  <2>1. PICK F, D, B : Views(fs, F, D, B) /\ Sound(F, D, B)
    BY InvHas, HeldHas
  <2>2. UsedFds(fs) = InUse(F) /\ Fd(fs, 1) = F[1]
    BY <2>1, UsedFdsAre, ViewsFd, Ranges
  <2>3. BlocksOwned(F, D, B) /\ Directory(F, D)
    BY <2>1 DEF Sound
  <2>4. Fd(fs, 1).len = Cardinality(UsedFds(fs))
    BY <2>2, <2>3 DEF Directory
  <2>5. {item.name : item \in ItemsOf(fs)} = {Entry(F, D, e).name : e \in Listed(F, D)}
    BY <2>1, ItemsAre
  <2>6. UsedFds(fs) \ Lost(fs) = InDir(F, D) /\ (Lost(fs) # {} => DirFull(fs))
    BY <2>1, LostAre
  <2>7. ASSUME NEW k \in FdIdx
        PROVE  Cardinality({e \in Pos \X Item :
                              /\ e[2] \in Used(fs, e[1])
                              /\ DirOf(fs.disk[DirBlk(fs, e[1])])[e[2]].fd = k})
                 = IF k \in UsedFds(fs) \ Lost(fs) THEN 1 ELSE 0
    <3> DEFINE at == {e \in Pos \X Item :
                        /\ e[2] \in Used(fs, e[1])
                        /\ DirOf(fs.disk[DirBlk(fs, e[1])])[e[2]].fd = k}
    <3>1. at = {e \in Listed(F, D) : Entry(F, D, e).fd = k}
      <4>1. ASSUME NEW e \in Pos \X Item
            PROVE  e \in at <=> (e \in Listed(F, D) /\ Entry(F, D, e).fd = k)
        <5>1. PICK i \in Pos, j \in Item : e = <<i, j>> /\ e[1] = i /\ e[2] = j
          OBVIOUS
        <5>2. j \in Used(fs, i) <=> <<i, j>> \in Listed(F, D)
          BY <2>1, <2>3, DirSees
        <5>3. j \in Used(fs, i) => DirOf(fs.disk[DirBlk(fs, i)])[j] = Entry(F, D, <<i, j>>)
          <6>1. j \in Used(fs, i) => DirBlk(fs, i) # 0
            BY DEF Used
          <6> QED
            BY <2>1, <2>3, <6>1, DirSees
        <5> QED
          BY <5>1, <5>2, <5>3
      <4>2. Listed(F, D) \subseteq Pos \X Item
        BY DEF Listed
      <4> QED
        BY <4>1, <4>2
    <3> HIDE DEF at
    <3>2. CASE k \in InDir(F, D)
      <4>1. PICK e \in Listed(F, D) : Entry(F, D, e).fd = k
        BY <3>2 DEF InDir, HasItem
      <4>2. at = {e}
        BY <2>3, <3>1, <4>1 DEF Directory
      <4> QED
        BY <2>6, <3>2, <4>2, FS_Singleton DEF at
    <3>3. CASE k \notin InDir(F, D)
      <4>1. at = {}
        BY <2>3, <3>1, <3>3 DEF Directory, InDir, HasItem
      <4> QED
        BY <2>6, <3>3, <4>1, FS_EmptySet DEF at
    <3> QED
      BY <3>2, <3>3
  <2>8. Cardinality({item.name : item \in ItemsOf(fs)}) = Cardinality(UsedFds(fs) \ Lost(fs))
    <3>1. Cardinality({Entry(F, D, e).name : e \in Listed(F, D)}) = Cardinality(InDir(F, D))
      BY <2>3, ItemsOfFds
    <3> QED
      BY <2>5, <2>6, <3>1
  <2> QED
    BY <2>4, <2>6, <2>7, <2>8 DEF DirMatchesFds
<1> QED
  BY <1>1, Soundness, PTL

(* The state that sf_root_find_file calls impossible is met only when a    *)
(* touch has lost a file on the full disk; the files that were not lost    *)
(* are found.                                                              *)
THEOREM SearchFinds == Spec => []ImpossibleMeansLost
<1>1. IInv => ImpossibleMeansLost
  <2> SUFFICES ASSUME IInv PROVE ImpossibleMeansLost
    OBVIOUS
  <2>1. PICK F, D, B : Views(fs, F, D, B) /\ Sound(F, D, B)
    BY InvHas, HeldHas
  <2>2. ASSUME NEW n \in Name, Find(n) = E_UNKNOWN
        PROVE  Lost(fs) # {} /\ DirFull(fs)
    <3>1. PICK k \in InUse(F) : ~HasItem(F, D, k)
      BY <2>1, <2>2, Found DEF Find
    <3>2. k \in Lost(fs)
      BY <2>1, <3>1, LostAre
    <3> QED
      BY <2>1, <3>2, LostAre
  <2>3. ASSUME NEW item \in ItemsOf(fs)
        PROVE  Find(item.name) = item.fd
    <3>1. PICK e \in Listed(F, D) : item = Entry(F, D, e)
      BY <2>1, ItemsAre
    <3>2. Find(item.name) > 0
      BY <2>1, <3>1, Found DEF Find
    <3>3. PICK g \in Listed(F, D) : FoundAt(fs, F, D, item.name, g)
      BY <2>1, <3>2, Found DEF Find
    <3>4. Entry(F, D, g).name = Entry(F, D, e).name /\ Find(item.name) = Entry(F, D, g).fd
      BY <3>1, <3>3 DEF FoundAt, Find
    <3>5. g = e
      BY <2>1, <3>4 DEF Sound, Directory
    <3> QED
      BY <3>1, <3>4, <3>5
  <2> QED
    BY <2>2, <2>3 DEF ImpossibleMeansLost
<1> QED
  BY <1>1, Soundness, PTL

-----------------------------------------------------------------------------
(* The files that are there: what a descriptor in use has, through the     *)
(* handle that has it open or one that would be idle.                      *)

HandleOf(F, T, k) ==
    IF \E h \in Handle : T[h].fd_idx = k THEN T[CHOOSE h \in Handle : T[h].fd_idx = k]
    ELSE Idle(F, k)

File(F, D, T, k) == FileOf(F[k].blk, D, HandleOf(F, T, k))

LEMMA HandleOfIs ==
    ASSUME NEW F, NEW D, NEW B, Sound(F, D, B), NEW T, Handles(F, T), NEW k \in InUse(F)
    PROVE  /\ HandleOk(F, HandleOf(F, T, k)) /\ HandleOf(F, T, k).fd_idx = k
           /\ \A h \in Handle : T[h].fd_idx = k => HandleOf(F, T, k) = T[h]
           /\ (\A h \in Handle : T[h].fd_idx # k) => HandleOf(F, T, k) = Idle(F, k)
<1>1. k # 0
  BY AnyFd DEF InUse
<1>2. CASE \E h \in Handle : T[h].fd_idx = k
  <2>1. PICK g : g = CHOOSE h \in Handle : T[h].fd_idx = k
    OBVIOUS
  <2>2. g \in Handle /\ T[g].fd_idx = k
    BY <1>2, <2>1
  <2>3. HandleOf(F, T, k) = T[g]
    BY <1>2, <2>1 DEF HandleOf
  <2>4. HandleOk(F, T[g])
    BY <1>1, <2>2, HandleIs
  <2>5. \A h \in Handle : T[h].fd_idx = k => h = g
    BY <1>1, <2>2 DEF Handles
  <2> QED
    BY <2>2, <2>3, <2>4, <2>5
<1>3. CASE ~\E h \in Handle : T[h].fd_idx = k
  <2>1. HandleOf(F, T, k) = Idle(F, k)
    BY <1>3 DEF HandleOf
  <2>2. HandleOk(F, Idle(F, k)) /\ Idle(F, k).fd_idx = k
    BY IdleIs DEF Idle
  <2> QED
    BY <1>3, <2>1, <2>2
<1> QED
  BY <1>2, <1>3

LEMMA ContentsIs ==
    ASSUME NEW s, NEW F, NEW D, NEW B, Views(s, F, D, B), Sound(F, D, B),
           NEW T, Handles(F, T), NEW k \in InUse(F)
    PROVE  Contents(s, k, T) = File(F, D, T, k)
<1>1. PICK f : f = HandleOf(F, T, k)
  OBVIOUS
<1>2. /\ HandleOk(F, f) /\ f.fd_idx = k
      /\ \A h \in Handle : T[h].fd_idx = k => f = T[h]
      /\ (\A h \in Handle : T[h].fd_idx # k) => f = Idle(F, k)
  BY <1>1, HandleOfIs
<1>3. f.file_len \in Nat
  BY <1>2, FileTyped
<1>4. Fd(s, k) = F[k]
  BY ViewsFd, AnyFd DEF InUse
<1>5. PICK by : by = HolderOf(k, T)
  OBVIOUS
<1>6. by = {h \in Handle : T[h].fd_idx = k}
  BY <1>5 DEF HolderOf
<1>7. f.file_len = IF by = {} THEN F[k].len ELSE T[CHOOSE h \in by : TRUE].file_len
  <2>1. CASE by = {}
    <3>1. f = Idle(F, k)
      BY <1>2, <1>6, <2>1
    <3> QED
      BY <2>1, <3>1 DEF Idle
  <2>2. CASE by # {}
    <3>1. (CHOOSE h \in by : TRUE) \in by
      BY <2>2
    <3>2. f = T[CHOOSE h \in by : TRUE]
      BY <1>2, <1>6, <3>1
    <3> QED
      BY <2>2, <3>2
  <2> QED
    BY <2>1, <2>2
<1>8. ASSUME NEW p \in 1 .. f.file_len
      PROVE  ByteAt(s, k, T, p - 1)
               = Through(D, f, F[k].blk[OFFSET_TO_BLK_IDX(p - 1)])[OFFSET_TO_BLK_OFFSET(p - 1)]
  <2>1. p - 1 \in Nat /\ p - 1 < f.file_len
    BY <1>3
  <2>2. PICK b : b = F[k].blk[OFFSET_TO_BLK_IDX(p - 1)]
    OBVIOUS
  <2>3. PICK o : o = OFFSET_TO_BLK_OFFSET(p - 1)
    OBVIOUS
  <2>4. b # 0 /\ b \in DataBlk
    BY <1>2, <2>1, <2>2, ByteBlock
  <2>5. s.disk[b] = D[b]
    BY <2>4, ViewsFd
  <2>6. PICK in : in = {h \in by : T[h].cur_blk = b}
    OBVIOUS
  <2>7. ByteAt(s, k, T, p - 1) = IF in = {} THEN DataOf(D[b])[o]
                                 ELSE T[CHOOSE h \in in : TRUE].buf[o]
    BY <1>4, <1>5, <2>2, <2>3, <2>5, <2>6 DEF ByteAt
  <2>8. CASE in = {}
    <3>1. f.cur_blk # b
      <4>1. CASE by = {}
        <5>1. f = Idle(F, k)
          BY <1>2, <1>6, <4>1
        <5> QED
          BY <2>4, <5>1 DEF Idle
      <4>2. CASE by # {}
        <5>1. PICK h \in by : TRUE
          BY <4>2
        <5>2. f = T[h] /\ T[h].cur_blk # b
          BY <1>2, <1>6, <2>6, <2>8, <5>1
        <5> QED
          BY <5>2
      <4> QED
        BY <4>1, <4>2
    <3> QED
      BY <2>2, <2>3, <2>7, <2>8, <3>1 DEF Through
  <2>9. CASE in # {}
    <3>1. (CHOOSE h \in in : TRUE) \in in
      BY <2>9
    <3>2. PICK h \in in : h = CHOOSE x \in in : TRUE
      BY <3>1
    <3>3. h \in Handle /\ T[h].fd_idx = k /\ T[h].cur_blk = b
      BY <1>6, <2>6
    <3>4. f = T[h]
      BY <1>2, <3>3
    <3> QED
      BY <2>2, <2>3, <2>7, <2>9, <3>2, <3>3, <3>4 DEF Through
  <2> QED
    BY <2>8, <2>9
<1>9. Contents(s, k, T) = [p \in 1 .. f.file_len |-> ByteAt(s, k, T, p - 1)]
  BY <1>4, <1>5, <1>7 DEF Contents
<1> QED
  BY <1>1, <1>8, <1>9 DEF File, FileOf

(* The abstract files, by the items of the directory.                      *)
FilesAre(F, D, T, files) ==
    /\ files = [n \in {Entry(F, D, e).name : e \in Listed(F, D)} |-> files[n]]
    /\ \A e \in Listed(F, D) : files[Entry(F, D, e).name] = File(F, D, T, Entry(F, D, e).fd)

LEMMA FilesEqual ==
    ASSUME NEW F, NEW D, NEW T, NEW a, FilesAre(F, D, T, a), NEW b, FilesAre(F, D, T, b)
    PROVE  a = b
<1>1. PICK N : N = {Entry(F, D, e).name : e \in Listed(F, D)}
  OBVIOUS
<1>2. a = [n \in N |-> a[n]] /\ b = [n \in N |-> b[n]]
  BY <1>1 DEF FilesAre
<1>3. \A n \in N : a[n] = b[n]
  <2>1. SUFFICES ASSUME NEW n \in N PROVE a[n] = b[n]
    OBVIOUS
  <2>2. PICK e \in Listed(F, D) : n = Entry(F, D, e).name
    BY <1>1
  <2> QED
    BY <2>2 DEF FilesAre
<1> QED
  BY <1>2, <1>3

LEMMA FilesOfIs ==
    ASSUME NEW s, NEW F, NEW D, NEW B, Views(s, F, D, B), Sound(F, D, B),
           NEW T, Handles(F, T)
    PROVE  FilesAre(F, D, T, FilesOf(s, T))
<1>1. PICK I : I = ItemsOf(s)
  OBVIOUS
<1>2. I = {Entry(F, D, e) : e \in Listed(F, D)}
  BY <1>1, ItemsAre
<1>3. /\ \A e \in Listed(F, D) : Entry(F, D, e).fd \in InUse(F)
      /\ \A e, g \in Listed(F, D) : Entry(F, D, e).name = Entry(F, D, g).name => e = g
  BY DEF Sound, Directory
<1>4. PICK N : N = {x.name : x \in I}
  OBVIOUS
<1>5. FilesOf(s, T) = [n \in N |-> Contents(s, (CHOOSE x \in I : x.name = n).fd, T)]
  BY <1>1, <1>4 DEF FilesOf
<1>6. ASSUME NEW e \in Listed(F, D)
      PROVE  FilesOf(s, T)[Entry(F, D, e).name] = File(F, D, T, Entry(F, D, e).fd)
  <2>1. PICK x \in I : x = Entry(F, D, e)
    BY <1>2
  <2>2. \A y \in I : y.name = x.name => y = x
    BY <1>2, <1>3, <2>1
  <2>3. (CHOOSE y \in I : y.name = x.name) = x
    BY <2>2
  <2>4. x.name \in N
    BY <1>4
  <2>5. FilesOf(s, T)[x.name] = Contents(s, x.fd, T)
    BY <1>5, <2>3, <2>4
  <2> QED
    BY <1>3, <2>1, <2>5, ContentsIs
<1>7. N = {Entry(F, D, e).name : e \in Listed(F, D)}
  BY <1>2, <1>4
<1> QED
  BY <1>5, <1>6, <1>7 DEF FilesAre

(* The abstract handles.                                                   *)
NameIn(s, k) == (CHOOSE item \in ItemsOf(s) : item.fd = k).name

NotOpen == [name |-> NoName, offset |-> 0]

OpenIn(s, T) ==
    [h \in Handle |-> IF T[h].fd_idx # 0 THEN [name |-> NameIn(s, T[h].fd_idx), offset |-> T[h].offset]
                      ELSE NotOpen]

OpensAre(F, D, T, open) ==
    /\ open = [h \in Handle |-> open[h]]
    /\ \A h \in Handle : T[h].fd_idx = 0 => open[h] = NotOpen
    /\ \A h \in Handle, e \in Listed(F, D) : Entry(F, D, e).fd = T[h].fd_idx =>
         open[h] = [name |-> Entry(F, D, e).name, offset |-> T[h].offset]
    /\ OpenListed(F, D, T)

LEMMA NowAre ==
    /\ OpenNow = OpenIn(fs, open_file_table) /\ OpenNow' = OpenIn(fs', open_file_table')
    /\ FilesOf(fs, open_file_table)' = FilesOf(fs', open_file_table')
BY DEF OpenNow, OpenIn, IsOpen, NameOf, NameIn, NotOpen, FilesOf, ItemsOf, DirBlocks, DirBlk, Fd

LEMMA OpenInIs ==
    ASSUME NEW s, NEW F, NEW D, NEW B, Views(s, F, D, B), Sound(F, D, B),
           NEW T, Handles(F, T), OpenListed(F, D, T)
    PROVE  OpensAre(F, D, T, OpenIn(s, T))
<1>1. PICK I : I = ItemsOf(s)
  OBVIOUS
<1>2. I = {Entry(F, D, e) : e \in Listed(F, D)}
  BY <1>1, ItemsAre
<1>3. /\ \A e \in Listed(F, D) : Entry(F, D, e).fd \in InUse(F)
      /\ \A e, g \in Listed(F, D) : Entry(F, D, e).fd = Entry(F, D, g).fd => e = g
  BY DEF Sound, Directory
<1>4. ASSUME NEW e \in Listed(F, D)
      PROVE  NameIn(s, Entry(F, D, e).fd) = Entry(F, D, e).name
  <2>1. PICK x \in I : x = Entry(F, D, e)
    BY <1>2
  <2>2. \A y \in I : y.fd = x.fd => y = x
    BY <1>2, <1>3, <2>1
  <2>3. (CHOOSE y \in I : y.fd = x.fd) = x
    BY <2>2
  <2> QED
    BY <1>1, <2>1, <2>3 DEF NameIn
<1>5. \A h \in Handle : T[h].fd_idx = 0 => OpenIn(s, T)[h] = NotOpen
  BY DEF OpenIn
<1>6. ASSUME NEW h \in Handle, NEW e \in Listed(F, D), Entry(F, D, e).fd = T[h].fd_idx
      PROVE  OpenIn(s, T)[h] = [name |-> Entry(F, D, e).name, offset |-> T[h].offset]
  <2>1. T[h].fd_idx # 0
    BY <1>3, <1>6, AnyFd DEF InUse
  <2>2. NameIn(s, T[h].fd_idx) = Entry(F, D, e).name
    BY <1>4, <1>6
  <2> QED
    BY <2>1, <2>2 DEF OpenIn
<1>7. OpenIn(s, T) = [h \in Handle |-> OpenIn(s, T)[h]]
  BY DEF OpenIn
<1> QED
  BY <1>5, <1>6, <1>7 DEF OpensAre

(* A handle that is open has the file of one item of the directory.        *)
LEMMA HandleHas ==
    ASSUME NEW F, NEW D, NEW B, Sound(F, D, B), NEW T, Handles(F, T),
           NEW h \in Handle, T[h].fd_idx # 0, NEW open, OpensAre(F, D, T, open),
           NEW files, FilesAre(F, D, T, files)
    PROVE  \E e \in Listed(F, D) :
             /\ Entry(F, D, e).fd = T[h].fd_idx /\ Entry(F, D, e).name \in Name
             /\ open[h] = [name |-> Entry(F, D, e).name, offset |-> T[h].offset]
             /\ files[open[h].name] = FileOf(F[T[h].fd_idx].blk, D, T[h])
<1>1. T[h].fd_idx \in InUse(F)
  BY DEF Handles
<1>2. PICK e \in Listed(F, D) : Entry(F, D, e).fd = T[h].fd_idx /\ Entry(F, D, e).name \in Name
  BY DEF OpensAre, OpenListed, HasItem, Sound, Directory
<1>3. open[h] = [name |-> Entry(F, D, e).name, offset |-> T[h].offset]
  BY <1>2 DEF OpensAre
<1>4. files[open[h].name] = File(F, D, T, T[h].fd_idx)
  BY <1>2, <1>3 DEF FilesAre
<1>5. HandleOf(F, T, T[h].fd_idx) = T[h]
  BY <1>1, HandleOfIs
<1> QED
  BY <1>2, <1>3, <1>4, <1>5 DEF File

(* sf_read returns as many bytes as there are up to the end of the file,   *)
(* and comes to the offset after them; those of the first two blocks are   *)
(* the file's, out of the buffer or of the disk, whatever was buffered.    *)
THEOREM ReadsAreRight == Spec => []ReadsWhatIsThere
<1>1. IInv => ReadsWhatIsThere
  <2> SUFFICES ASSUME IInv, NEW h \in Handle, IsOpen(h), NEW count \in Count
               PROVE  LET file  == open_file_table[h]
                          r     == sf_read(fs, file, count)
                          bytes == FS!BytesAt(h, count)
                      IN  /\ Len(r.read) = Len(bytes)
                          /\ r.file.offset = file.offset + Len(bytes)
                          /\ \A k \in 1 .. Len(bytes) :
                                 OFFSET_TO_BLK_OFFSET(file.offset) + k <= 2 * BLOCK_SIZE
                                     => r.read[k] = bytes[k]
    BY DEF ReadsWhatIsThere
  <2>1. PICK F, D, B : /\ Views(fs, F, D, B) /\ Sound(F, D, B) /\ Handles(F, open_file_table)
                      /\ OpenListed(F, D, open_file_table)
    BY InvHas, HeldHas
  <2>2. PICK T : T = open_file_table /\ T[h].fd_idx # 0
    BY DEF IsOpen
  <2>3. HandleOk(F, T[h])
    BY <2>1, <2>2, HandleIs
  <2>4. PICK r : r = sf_read(fs, T[h], count)
    OBVIOUS
  <2>5. PICK D2 : ReadDone(F, D, B, T[h], count, r, D2)
    BY <2>1, <2>3, <2>4, ReadViews
  <2>6. PICK file, bytes : /\ file = FileOf(F[T[h].fd_idx].blk, D, T[h])
                           /\ bytes = SubSeq(file, T[h].offset + 1, ReadEnd(file, T[h].offset, count))
    OBVIOUS
  <2>7. ReadOf(T[h], r.read, bytes) /\ r.file.offset = T[h].offset + Len(r.read)
    BY <2>5, <2>6 DEF ReadDone
  <2>8. PICK open, files : open = OpenNow /\ files = FilesOf(fs, T)
    OBVIOUS
  <2>9. OpensAre(F, D, T, open) /\ FilesAre(F, D, T, files)
    BY <2>1, <2>2, <2>8, NowAre, OpenInIs, FilesOfIs
  <2>10. open[h].offset = T[h].offset /\ files[open[h].name] = file
    <3>1. Handles(F, T)
      BY <2>1, <2>2
    <3>2. PICK e \in Listed(F, D) :
            /\ open[h] = [name |-> Entry(F, D, e).name, offset |-> T[h].offset]
            /\ files[open[h].name] = FileOf(F[T[h].fd_idx].blk, D, T[h])
      BY <2>1, <2>2, <2>9, <3>1, HandleHas
    <3> QED
      BY <2>6, <3>2
  <2>11. FS!BytesAt(h, count) = bytes
    BY <2>2, <2>6, <2>8, <2>10 DEF FS!BytesAt, ReadEnd
  <2> QED
    BY <2>2, <2>4, <2>7, <2>11 DEF ReadOf
<1> QED
  BY <1>1, Soundness, PTL

-----------------------------------------------------------------------------
(* The refinement.  What one file is, from step to step.                   *)

LEMMA OpensEqual ==
    ASSUME NEW F, NEW D, NEW B, Sound(F, D, B), NEW T, Handles(F, T),
           NEW a, OpensAre(F, D, T, a), NEW b, OpensAre(F, D, T, b)
    PROVE  a = b
<1>1. a = [h \in Handle |-> a[h]] /\ b = [h \in Handle |-> b[h]]
  BY DEF OpensAre
<1>2. ASSUME NEW h \in Handle
      PROVE  a[h] = b[h]
  <2>1. CASE T[h].fd_idx = 0
    BY <2>1 DEF OpensAre
  <2>2. CASE T[h].fd_idx # 0
    <3>1. PICK e \in Listed(F, D) : Entry(F, D, e).fd = T[h].fd_idx
      BY <2>2 DEF OpensAre, OpenListed, HasItem
    <3> QED
      BY <3>1 DEF OpensAre
  <2> QED
    BY <2>1, <2>2
<1> QED
  BY <1>1, <1>2

(* A file that neither the blocks nor the handles of have changed.         *)
LEMMA FileKept ==
    ASSUME NEW F, NEW D, NEW B, Sound(F, D, B), NEW T, Handles(F, T),
           NEW F2, NEW D2, NEW B2, Sound(F2, D2, B2), NEW T2, Handles(F2, T2),
           NEW k, Kept(F, D, F2, D2, k), NEW l \in InUse(F), l # k, l \in InUse(F2),
           \A g \in Handle : T[g].fd_idx = l \/ T2[g].fd_idx = l => T2[g] = T[g]
    PROVE  File(F2, D2, T2, l) = File(F, D, T, l)
<1>1. /\ F2[l] = F[l]
      /\ \A i \in Pos : F[l].blk[i] # 0 => D2[F[l].blk[i]] = D[F[l].blk[i]]
  BY DEF Kept
<1>2. PICK f : f = HandleOf(F, T, l)
  OBVIOUS
<1>3. HandleOk(F, f) /\ f.fd_idx = l
  BY <1>2, HandleOfIs
<1>4. HandleOf(F2, T2, l) = f
  <2>1. CASE \E g \in Handle : T[g].fd_idx = l
    <3>1. PICK g \in Handle : T[g].fd_idx = l
      BY <2>1
    <3>2. T2[g] = T[g]
      BY <3>1
    <3> QED
      BY <1>2, <3>1, <3>2, HandleOfIs
  <2>2. CASE \A g \in Handle : T[g].fd_idx # l
    <3>1. \A g \in Handle : T2[g].fd_idx # l
      BY <2>2
    <3>2. f = Idle(F, l) /\ HandleOf(F2, T2, l) = Idle(F2, l)
      BY <1>2, <2>2, <3>1, HandleOfIs
    <3> QED
      BY <1>1, <3>2 DEF Idle
  <2> QED
    BY <2>1, <2>2
<1>5. f.file_len \in Nat
  BY <1>3, FileTyped
<1>6. ASSUME NEW p \in 1 .. f.file_len
      PROVE  Through(D2, f, F[l].blk[OFFSET_TO_BLK_IDX(p - 1)])
               = Through(D, f, F[l].blk[OFFSET_TO_BLK_IDX(p - 1)])
  <2>1. p - 1 \in Nat /\ p - 1 < f.file_len
    BY <1>5
  <2>2. PICK i \in Pos : i = OFFSET_TO_BLK_IDX(p - 1) /\ F[l].blk[i] # 0
    BY <1>3, <2>1, ByteBlock
  <2> QED
    BY <1>1, <2>2 DEF Through
<1> QED
  BY <1>1, <1>2, <1>4, <1>6 DEF File, FileOf

(* The handles other than h stay, and h is closed or keeps its file.       *)
OneHandle(T, T2, h) ==
    /\ T[h].fd_idx # 0 /\ \A g \in Handle \ {h} : T2[g] = T[g]
    /\ T2[h].fd_idx = 0 \/ T2[h].fd_idx = T[h].fd_idx

Altered(a, m, c)   == [a EXCEPT ![m] = c]
AlteredAt(a, h, o) == [a EXCEPT ![h].offset = o]

(* A step of h and its file.                                               *)
OneFile(F, D, B, T, h, F2, D2, B2, T2) ==
    /\ Sound(F, D, B) /\ Handles(F, T) /\ Handles(F2, T2) /\ OneHandle(T, T2, h)
    /\ OnlyFile(F, D, F2, D2, B2, T[h].fd_idx) /\ OpenListed(F, D, T)

LEMMA FilesChange ==
    ASSUME NEW F, NEW D, NEW B, NEW T, NEW h \in Handle, NEW F2, NEW D2, NEW B2, NEW T2,
           OneFile(F, D, B, T, h, F2, D2, B2, T2),
           NEW a, FilesAre(F, D, T, a), NEW b, FilesAre(F2, D2, T2, b),
           NEW e \in Listed(F, D), Entry(F, D, e).fd = T[h].fd_idx
    PROVE  b = Altered(a, Entry(F, D, e).name, File(F2, D2, T2, T[h].fd_idx))
<1>0. /\ Sound(F, D, B) /\ Handles(F, T) /\ Handles(F2, T2) /\ OneHandle(T, T2, h)
      /\ OnlyFile(F, D, F2, D2, B2, T[h].fd_idx)
  BY DEF OneFile
<1>1. PICK N : N = {Entry(F, D, g).name : g \in Listed(F, D)}
  OBVIOUS
<1>2. PICK k : k = T[h].fd_idx
  OBVIOUS
<1>3. /\ Sound(F2, D2, B2) /\ InUse(F2) = InUse(F) /\ Listed(F2, D2) = Listed(F, D)
      /\ \A g \in Listed(F, D) : Entry(F2, D2, g) = Entry(F, D, g)
      /\ Kept(F, D, F2, D2, k)
  BY <1>0, <1>2 DEF OnlyFile
<1>4. a = [n \in N |-> a[n]] /\ b = [n \in N |-> b[n]]
  <2>1. N = {Entry(F2, D2, g).name : g \in Listed(F2, D2)}
    BY <1>1, <1>3
  <2> QED
    BY <1>1, <2>1 DEF FilesAre
<1>5. ASSUME NEW g \in Listed(F, D), g # e
      PROVE  b[Entry(F, D, g).name] = a[Entry(F, D, g).name] /\ Entry(F, D, g).name # Entry(F, D, e).name
  <2>1. PICK l : l = Entry(F, D, g).fd
    OBVIOUS
  <2>2. l \in InUse(F) /\ l # k /\ Entry(F, D, g).name # Entry(F, D, e).name
    BY <1>0, <1>2, <1>5, <2>1 DEF Sound, Directory
  <2>3. l # 0
    BY <2>2, AnyFd DEF InUse
  <2>4. \A x \in Handle : T[x].fd_idx = l \/ T2[x].fd_idx = l => T2[x] = T[x]
    BY <1>0, <1>2, <2>2, <2>3 DEF OneHandle
  <2>5. File(F2, D2, T2, l) = File(F, D, T, l)
    BY <1>0, <1>3, <2>2, <2>4, FileKept
  <2> QED
    BY <1>3, <2>1, <2>2, <2>5 DEF FilesAre
<1>6. b[Entry(F, D, e).name] = File(F2, D2, T2, k)
  BY <1>2, <1>3 DEF FilesAre
<1>7. PICK m, c : m = Entry(F, D, e).name /\ c = File(F2, D2, T2, k)
  OBVIOUS
<1>8. m \in N /\ b[m] = c /\ \A n \in N \ {m} : b[n] = a[n]
  <2>1. SUFFICES ASSUME NEW n \in N \ {m} PROVE b[n] = a[n]
    BY <1>1, <1>6, <1>7
  <2>2. PICK g \in Listed(F, D) : n = Entry(F, D, g).name
    BY <1>1
  <2>3. g # e
    BY <1>7, <2>2
  <2> QED
    BY <1>5, <2>2, <2>3
<1>9. b = [a EXCEPT ![m] = c]
  BY <1>4, <1>8
<1> QED
  BY <1>2, <1>7, <1>9 DEF Altered

LEMMA FilesStay ==
    ASSUME NEW F, NEW D, NEW B, NEW T, NEW h \in Handle, NEW F2, NEW D2, NEW B2, NEW T2,
           OneFile(F, D, B, T, h, F2, D2, B2, T2),
           NEW a, FilesAre(F, D, T, a), NEW b, FilesAre(F2, D2, T2, b),
           File(F2, D2, T2, T[h].fd_idx) = File(F, D, T, T[h].fd_idx)
    PROVE  b = a
<1>0. /\ Sound(F, D, B) /\ Handles(F, T) /\ Handles(F2, T2) /\ OneHandle(T, T2, h)
      /\ OnlyFile(F, D, F2, D2, B2, T[h].fd_idx)
  BY DEF OneFile
<1>1. PICK e \in Listed(F, D) : Entry(F, D, e).fd = T[h].fd_idx
  BY DEF OneFile, OneHandle, OpenListed, HasItem
<1>2. PICK m, c : m = Entry(F, D, e).name /\ c = File(F, D, T, T[h].fd_idx)
  OBVIOUS
<1>3. b = Altered(a, m, c)
  <2>1. b = Altered(a, Entry(F, D, e).name, File(F2, D2, T2, T[h].fd_idx))
    BY <1>1, FilesChange
  <2> QED
    BY <1>2, <2>1
<1>4. a[m] = c /\ a = [n \in DOMAIN a |-> a[n]]
  <2>1. a[m] = c
    BY <1>1, <1>2 DEF FilesAre
  <2>2. PICK N : a = [n \in N |-> a[n]]
    BY DEF FilesAre
  <2> QED
    BY <2>1, <2>2
<1> QED
  BY <1>3, <1>4 DEF Altered

LEMMA OpensChange ==
    ASSUME NEW F, NEW D, NEW B, NEW T, NEW h \in Handle, NEW F2, NEW D2, NEW B2, NEW T2,
           OneFile(F, D, B, T, h, F2, D2, B2, T2),
           NEW a, OpensAre(F, D, T, a), NEW b, OpensAre(F2, D2, T2, b)
    PROVE  /\ T2[h].fd_idx = 0 => b = Altered(a, h, NotOpen)
           /\ T2[h].fd_idx # 0 => b = AlteredAt(a, h, T2[h].offset)
<1>0. /\ Sound(F, D, B) /\ Handles(F, T) /\ Handles(F2, T2) /\ OneHandle(T, T2, h)
      /\ OnlyFile(F, D, F2, D2, B2, T[h].fd_idx)
  BY DEF OneFile
<1>1. /\ Listed(F2, D2) = Listed(F, D) /\ \A g \in Listed(F, D) : Entry(F2, D2, g) = Entry(F, D, g)
  BY <1>0 DEF OnlyFile
<1>2. a = [g \in Handle |-> a[g]] /\ b = [g \in Handle |-> b[g]]
  BY DEF OpensAre
<1>3. ASSUME NEW g \in Handle, T2[g].fd_idx = T[g].fd_idx, T[g].fd_idx # 0
      PROVE  \E n : /\ a[g] = [name |-> n, offset |-> T[g].offset]
                    /\ b[g] = [name |-> n, offset |-> T2[g].offset]
  <2>1. PICK e \in Listed(F, D) : Entry(F, D, e).fd = T[g].fd_idx
    BY <1>3 DEF OpensAre, OpenListed, HasItem
  <2>2. a[g] = [name |-> Entry(F, D, e).name, offset |-> T[g].offset]
    BY <2>1 DEF OpensAre
  <2>3. b[g] = [name |-> Entry(F, D, e).name, offset |-> T2[g].offset]
    BY <1>1, <1>3, <2>1 DEF OpensAre
  <2> QED
    BY <2>2, <2>3
<1>4. ASSUME NEW g \in Handle \ {h}
      PROVE  b[g] = a[g]
  <2>1. T2[g] = T[g]
    BY <1>0 DEF OneHandle
  <2>2. CASE T[g].fd_idx = 0
    BY <2>1, <2>2 DEF OpensAre
  <2>3. CASE T[g].fd_idx # 0
    BY <1>3, <2>1, <2>3
  <2> QED
    BY <2>2, <2>3
<1>5. CASE T2[h].fd_idx = 0
  <2>1. b[h] = NotOpen
    BY <1>5 DEF OpensAre
  <2> QED
    BY <1>2, <1>4, <1>5, <2>1 DEF Altered
<1>6. CASE T2[h].fd_idx # 0
  <2>1. PICK n : /\ a[h] = [name |-> n, offset |-> T[h].offset]
                 /\ b[h] = [name |-> n, offset |-> T2[h].offset]
    BY <1>0, <1>3, <1>6 DEF OneHandle
  <2>2. PICK o : o = T2[h].offset
    OBVIOUS
  <2>3. b[h] = [a[h] EXCEPT !.offset = o]
    BY <2>1, <2>2
  <2>4. b = [a EXCEPT ![h] = b[h]]
    BY <1>2, <1>4
  <2>5. b = [a EXCEPT ![h].offset = o]
    BY <2>3, <2>4
  <2> QED
    BY <1>6, <2>2, <2>5 DEF AlteredAt
<1> QED
  BY <1>5, <1>6

(* What touch and rm do to the files.                                      *)
LEMMA OpensKept ==
    ASSUME NEW F, NEW D, NEW T, NEW F2, NEW D2,
           \A h \in Handle : T[h].fd_idx # 0 =>
               \E e \in Listed(F, D) : /\ Entry(F, D, e).fd = T[h].fd_idx
                                       /\ e \in Listed(F2, D2) /\ Entry(F2, D2, e) = Entry(F, D, e),
           NEW a, OpensAre(F, D, T, a), NEW b, OpensAre(F2, D2, T, b)
    PROVE  b = a
<1>1. a = [h \in Handle |-> a[h]] /\ b = [h \in Handle |-> b[h]]
  BY DEF OpensAre
<1>2. ASSUME NEW h \in Handle
      PROVE  a[h] = b[h]
  <2>1. CASE T[h].fd_idx = 0
    BY <2>1 DEF OpensAre
  <2>2. CASE T[h].fd_idx # 0
    <3>1. PICK e \in Listed(F, D) : /\ Entry(F, D, e).fd = T[h].fd_idx
                                    /\ e \in Listed(F2, D2) /\ Entry(F2, D2, e) = Entry(F, D, e)
      BY <2>2
    <3> QED
      BY <3>1 DEF OpensAre
  <2> QED
    BY <2>1, <2>2
<1> QED
  BY <1>1, <1>2

LEMMA AddedOpens ==
    ASSUME NEW F, NEW D, NEW B, Sound(F, D, B), NEW T, Handles(F, T),
           NEW F2, NEW D2, NEW B2, NEW n, NEW k, Added(F, D, B, F2, D2, B2, n, k),
           NEW a, OpensAre(F, D, T, a), NEW b, OpensAre(F2, D2, T, b)
    PROVE  b = a
<1>1. \A e \in Listed(F, D) : e \in Listed(F2, D2) /\ Entry(F2, D2, e) = Entry(F, D, e)
  BY DEF Added
<1>2. \A h \in Handle : T[h].fd_idx # 0 => \E e \in Listed(F, D) : Entry(F, D, e).fd = T[h].fd_idx
  BY DEF OpensAre, OpenListed, HasItem
<1> QED
  BY <1>1, <1>2, OpensKept

OneMoreFile(a, b, n) ==
    n \notin DOMAIN a /\ b = [m \in DOMAIN a \cup {n} |-> IF m = n THEN <<>> ELSE a[m]]

LEMMA AddedFiles ==
    ASSUME NEW F, NEW D, NEW B, Sound(F, D, B), NEW T, Handles(F, T),
           NEW F2, NEW D2, NEW B2, NEW n, NEW k, Added(F, D, B, F2, D2, B2, n, k),
           Handles(F2, T), \A e \in Listed(F, D) : Entry(F, D, e).name # n,
           NEW a, FilesAre(F, D, T, a), NEW b, FilesAre(F2, D2, T, b)
    PROVE  OneMoreFile(a, b, n)
<1>1. PICK N : N = {Entry(F, D, g).name : g \in Listed(F, D)}
  OBVIOUS
<1>2. PICK e : /\ Listed(F2, D2) = Listed(F, D) \cup {e}
               /\ Entry(F2, D2, e) = [tag |-> 1, name |-> n, fd |-> k]
               /\ \A g \in Listed(F, D) : Entry(F2, D2, g) = Entry(F, D, g)
  BY DEF Added
<1>3. /\ Sound(F2, D2, B2) /\ k \in 2 .. MAX_FD /\ k \notin InUse(F)
      /\ InUse(F2) = InUse(F) \cup {k} /\ F2[k] = [FreeFd EXCEPT !.tag = 1]
      /\ Kept(F, D, F2, D2, k)
  BY DEF Added
<1>4. N \cup {n} = {Entry(F2, D2, g).name : g \in Listed(F2, D2)}
  <2>1. \A m : m \in N \cup {n} => \E g \in Listed(F2, D2) : m = Entry(F2, D2, g).name
    BY <1>1, <1>2
  <2>2. \A g \in Listed(F2, D2) : Entry(F2, D2, g).name \in N \cup {n}
    BY <1>1, <1>2
  <2> QED
    BY <2>1, <2>2
<1>5. a = [m \in N |-> a[m]] /\ b = [m \in N \cup {n} |-> b[m]] /\ n \notin N
  BY <1>1, <1>4 DEF FilesAre
<1>6. ASSUME NEW m \in N
      PROVE  b[m] = a[m]
  <2>1. PICK g \in Listed(F, D) : m = Entry(F, D, g).name
    BY <1>1
  <2>2. PICK l \in InUse(F) : l = Entry(F, D, g).fd
    BY DEF Sound, Directory
  <2>3. File(F2, D2, T, l) = File(F, D, T, l)
    BY <1>3, FileKept
  <2> QED
    BY <1>2, <2>1, <2>2, <2>3 DEF FilesAre
<1>7. b[n] = <<>>
  <2>1. \A h \in Handle : T[h].fd_idx # k
    BY <1>3, AnyFd DEF Handles
  <2>2. HandleOf(F2, T, k) = Idle(F2, k)
    BY <1>3, <2>1, HandleOfIs
  <2>3. Idle(F2, k).file_len = 0
    BY <1>3 DEF Idle, FreeFd
  <2>4. HandleOk(F2, Idle(F2, k)) /\ Idle(F2, k).fd_idx = k
    BY <1>3, IdleIs DEF Idle
  <2>5. PICK f, file : f = Idle(F2, k) /\ file = FileOf(F2[k].blk, D2, f)
    OBVIOUS
  <2>6. file \in Seq(Nat) /\ Len(file) = 0
    <3>1. HandleOk(F2, f) /\ f.fd_idx = k /\ f.file_len = 0
      BY <2>3, <2>4, <2>5
    <3>2. /\ FileOf(F2[f.fd_idx].blk, D2, f) \in Seq(Nat)
          /\ Len(FileOf(F2[f.fd_idx].blk, D2, f)) = f.file_len
      BY <1>3, <3>1, FileTyped
    <3> QED
      BY <2>5, <3>1, <3>2
  <2>7. file = <<>>
    BY <2>6
  <2>8. b[n] = File(F2, D2, T, k)
    BY <1>2 DEF FilesAre
  <2> QED
    BY <2>2, <2>5, <2>7, <2>8 DEF File
<1>8. DOMAIN a = N
  BY <1>5
<1> QED
  BY <1>5, <1>6, <1>7, <1>8 DEF OneMoreFile

LEMMA DroppedOpens ==
    ASSUME NEW F, NEW D, NEW B, Sound(F, D, B), NEW T, Handles(F, T),
           NEW e \in Listed(F, D), \A h \in Handle : T[h].fd_idx # Entry(F, D, e).fd,
           NEW F2, NEW D2, Dropped(F, D, B, F2, D2, e),
           NEW a, OpensAre(F, D, T, a), NEW b, OpensAre(F2, D2, T, b)
    PROVE  b = a
<1>1. \A g \in Listed(F, D) \ {e} : g \in Listed(F2, D2) /\ Entry(F2, D2, g) = Entry(F, D, g)
  BY DEF Dropped
<1>2. \A h \in Handle : T[h].fd_idx # 0 =>
        \E g \in Listed(F, D) \ {e} : Entry(F, D, g).fd = T[h].fd_idx
  BY DEF OpensAre, OpenListed, HasItem
<1> QED
  BY <1>1, <1>2, OpensKept

(* A file that is lost is one that nobody sees.                            *)
LEMMA LostSeen ==
    ASSUME NEW F, NEW D, NEW B, Sound(F, D, B), NEW T, Handles(F, T),
           NEW F2, NEW k, Unlisted(F, D, B, F2, k), Handles(F2, T),
           NEW o, OpensAre(F, D, T, o), NEW o2, OpensAre(F2, D, T, o2),
           NEW a, FilesAre(F, D, T, a), NEW b, FilesAre(F2, D, T, b)
    PROVE  o2 = o /\ b = a
<1>1. /\ Sound(F2, D, B) /\ InUse(F2) = InUse(F) \cup {k} /\ k \notin InUse(F)
      /\ Listed(F2, D) = Listed(F, D) /\ Kept(F, D, F2, D, k)
      /\ \A e \in Listed(F, D) : Entry(F2, D, e) = Entry(F, D, e)
  BY DEF Unlisted
<1>2. o2 = o
  <2>1. \A e \in Listed(F, D) : e \in Listed(F2, D) /\ Entry(F2, D, e) = Entry(F, D, e)
    BY <1>1
  <2>2. \A h \in Handle : T[h].fd_idx # 0 => \E e \in Listed(F, D) : Entry(F, D, e).fd = T[h].fd_idx
    BY DEF OpensAre, OpenListed, HasItem
  <2> QED
    BY <2>1, <2>2, OpensKept
<1>3. ASSUME NEW e \in Listed(F, D)
      PROVE  File(F2, D, T, Entry(F, D, e).fd) = File(F, D, T, Entry(F, D, e).fd)
  <2>1. PICK l \in InUse(F) : l = Entry(F, D, e).fd
    BY DEF Sound, Directory
  <2>2. l # k /\ l \in InUse(F2)
    BY <1>1
  <2>3. File(F2, D, T, l) = File(F, D, T, l)
    BY <1>1, <2>2, FileKept
  <2> QED
    BY <2>1, <2>3
<1>4. {Entry(F2, D, e).name : e \in Listed(F2, D)} = {Entry(F, D, e).name : e \in Listed(F, D)}
  BY <1>1
<1>5. FilesAre(F, D, T, b)
  BY <1>1, <1>3, <1>4 DEF FilesAre
<1> QED
  BY <1>2, <1>5, FilesEqual

OneFileLess(a, b, n) == n \in DOMAIN a /\ b = [m \in DOMAIN a \ {n} |-> a[m]]

LEMMA DroppedFiles ==
    ASSUME NEW F, NEW D, NEW B, Sound(F, D, B), NEW T, Handles(F, T),
           NEW e \in Listed(F, D), \A h \in Handle : T[h].fd_idx # Entry(F, D, e).fd,
           NEW F2, NEW D2, Dropped(F, D, B, F2, D2, e), Handles(F2, T),
           NEW a, FilesAre(F, D, T, a), NEW b, FilesAre(F2, D2, T, b)
    PROVE  OneFileLess(a, b, Entry(F, D, e).name)
<1>1. PICK N : N = {Entry(F, D, g).name : g \in Listed(F, D)}
  OBVIOUS
<1>2. PICK n : n = Entry(F, D, e).name
  OBVIOUS
<1>3. /\ Sound(F2, D2, B) /\ InUse(F2) = InUse(F) \ {Entry(F, D, e).fd}
      /\ Listed(F2, D2) = Listed(F, D) \ {e} /\ Kept(F, D, F2, D2, Entry(F, D, e).fd)
      /\ \A g \in Listed(F2, D2) : Entry(F2, D2, g) = Entry(F, D, g)
  BY DEF Dropped
<1>4. \A g \in Listed(F, D) \ {e} : /\ Entry(F, D, g).name # n
                                    /\ Entry(F, D, g).fd # Entry(F, D, e).fd
                                    /\ Entry(F, D, g).fd \in InUse(F)
  BY <1>2 DEF Sound, Directory
<1>5. N \ {n} = {Entry(F2, D2, g).name : g \in Listed(F2, D2)}
  <2>1. \A m : m \in N \ {n} => \E g \in Listed(F2, D2) : m = Entry(F2, D2, g).name
    BY <1>1, <1>2, <1>3
  <2>2. \A g \in Listed(F2, D2) : Entry(F2, D2, g).name \in N \ {n}
    BY <1>1, <1>3, <1>4
  <2> QED
    BY <2>1, <2>2
<1>6. a = [m \in N |-> a[m]] /\ b = [m \in N \ {n} |-> b[m]] /\ n \in N
  BY <1>1, <1>2, <1>5 DEF FilesAre
<1>7. ASSUME NEW m \in N \ {n}
      PROVE  b[m] = a[m]
  <2>1. PICK g \in Listed(F, D) : m = Entry(F, D, g).name
    BY <1>1
  <2>2. g # e
    BY <1>2, <2>1
  <2>3. PICK l \in InUse(F) : l = Entry(F, D, g).fd /\ l # Entry(F, D, e).fd
    BY <1>4, <2>2
  <2>4. l \in InUse(F2)
    BY <1>3, <2>3
  <2>5. File(F2, D2, T, l) = File(F, D, T, l)
    BY <1>3, <2>3, <2>4, FileKept
  <2>6. Entry(F2, D2, g).name = m /\ Entry(F2, D2, g).fd = l /\ g \in Listed(F2, D2)
    BY <1>3, <2>1, <2>2, <2>3
  <2> QED
    BY <2>1, <2>3, <2>5, <2>6 DEF FilesAre
<1>8. DOMAIN a = N
  BY <1>6
<1> QED
  BY <1>2, <1>6, <1>7, <1>8 DEF OneFileLess

(* Each command as a step of FileSystem.  The state it sees:               *)
AbsFiles  == FilesOf(fs, open_file_table)
AbsSaved  == {FilesOf(sf_load(disk), AllClosed) : disk \in image}
SameSaved == AbsSaved' = AbsSaved

LEMMA SeenNow ==
    ASSUME NEW F, NEW D, NEW B, Views(fs, F, D, B), Sound(F, D, B), Handles(F, open_file_table),
           OpenListed(F, D, open_file_table)
    PROVE  OpensAre(F, D, open_file_table, OpenNow) /\ FilesAre(F, D, open_file_table, AbsFiles)
BY NowAre, OpenInIs, FilesOfIs DEF AbsFiles

LEMMA SeenNext ==
    ASSUME NEW F, NEW D, NEW B, Views(fs', F, D, B), Sound(F, D, B), Handles(F, open_file_table'),
           OpenListed(F, D, open_file_table')
    PROVE  OpensAre(F, D, open_file_table', OpenNow') /\ FilesAre(F, D, open_file_table', AbsFiles')
BY NowAre, OpenInIs, FilesOfIs DEF AbsFiles

LEMMA SavedKept == image' = image => SameSaved
<1>1. AbsSaved' = {FilesOf(sf_load(disk), AllClosed) : disk \in image'}
  BY DEF AbsSaved, FilesOf, ItemsOf, DirBlocks, DirBlk, Fd
<1> QED
  BY <1>1 DEF AbsSaved, SameSaved

LEMMA Stutters == OpenNow' = OpenNow /\ AbsFiles' = AbsFiles /\ SameSaved => UNCHANGED FS!vars
BY DEF AbsFiles, AbsSaved, SameSaved, FS!vars

(* The views of the next state and its handles.                            *)
LEMMA HeldNext ==
    ASSUME Held(fs', open_file_table'), NEW F, NEW D, NEW B, Views(fs', F, D, B)
    PROVE  /\ Sound(F, D, B) /\ Handles(F, open_file_table')
           /\ OpenListed(F, D, open_file_table')
BY DEF Held, SoundState, Views

LEMMA NothingSeen ==
    ASSUME NEW F, NEW D, NEW B, Views(fs, F, D, B), Sound(F, D, B), Handles(F, open_file_table),
           OpenListed(F, D, open_file_table), Views(fs', F, D, B),
           open_file_table' = open_file_table, image' = image
    PROVE  UNCHANGED FS!vars
<1>1. OpenNow' = OpenNow /\ AbsFiles' = AbsFiles
  BY SeenNow, SeenNext, OpensEqual, FilesEqual
<1> QED
  BY <1>1, SavedKept, Stutters

LEMMA TouchMaps ==
    ASSUME IInv, NEW n \in Name, touch(n)
    PROVE  FS!Create(n) \/ UNCHANGED FS!vars
<1>1. PICK F, D, B : /\ Views(fs, F, D, B) /\ Sound(F, D, B) /\ Handles(F, open_file_table)
                    /\ OpenListed(F, D, open_file_table)
  BY InvHas, HeldHas
<1>2. PICK T : T = open_file_table
  OBVIOUS
<1>3. open_file_table' = T /\ image' = image /\ \A e \in Listed(F, D) : Entry(F, D, e).name # n
  BY <1>1, <1>2, TouchDoes
<1>4. CASE Views(fs', F, D, B)
  BY <1>1, <1>2, <1>3, <1>4, NothingSeen
<1>5. CASE \E F2, D2, B2, k : Views(fs', F2, D2, B2) /\ Added(F, D, B, F2, D2, B2, n, k)
  <2>1. PICK F2, D2, B2, k : Views(fs', F2, D2, B2) /\ Added(F, D, B, F2, D2, B2, n, k)
    BY <1>5
  <2>2. Sound(F2, D2, B2) /\ Handles(F2, T) /\ OpenListed(F2, D2, T)
    BY <1>3, <2>1, TouchHolds, HeldNext
  <2>3. /\ OpensAre(F, D, T, OpenNow) /\ FilesAre(F, D, T, AbsFiles)
        /\ OpensAre(F2, D2, T, OpenNow') /\ FilesAre(F2, D2, T, AbsFiles')
    BY <1>1, <1>2, <1>3, <2>1, <2>2, SeenNow, SeenNext
  <2>4. OpenNow' = OpenNow
    BY <1>1, <1>2, <2>1, <2>3, AddedOpens
  <2>5. OneMoreFile(AbsFiles, AbsFiles', n)
    BY <1>1, <1>2, <1>3, <2>1, <2>2, <2>3, AddedFiles
  <2>6. SameSaved
    BY <1>3, SavedKept
  <2> QED
    BY <2>4, <2>5, <2>6 DEF OneMoreFile, FS!Create, AbsFiles, AbsSaved, SameSaved
<1>6. CASE \E F2, k : Views(fs', F2, D, B) /\ Unlisted(F, D, B, F2, k)
  <2>1. PICK F2, k : Views(fs', F2, D, B) /\ Unlisted(F, D, B, F2, k)
    BY <1>6
  <2>2. Sound(F2, D, B) /\ Handles(F2, T) /\ OpenListed(F2, D, T)
    BY <1>3, <2>1, TouchHolds, HeldNext
  <2>3. /\ OpensAre(F, D, T, OpenNow) /\ FilesAre(F, D, T, AbsFiles)
        /\ OpensAre(F2, D, T, OpenNow') /\ FilesAre(F2, D, T, AbsFiles')
    BY <1>1, <1>2, <1>3, <2>1, <2>2, SeenNow, SeenNext
  <2>4. OpenNow' = OpenNow /\ AbsFiles' = AbsFiles
    BY <1>1, <1>2, <2>1, <2>2, <2>3, LostSeen
  <2> QED
    BY <1>3, <2>4, SavedKept, Stutters
<1> QED
  BY <1>1, <1>4, <1>5, <1>6, TouchDoes

LEMMA RmMaps ==
    ASSUME IInv, NEW n \in Name, rm(n)
    PROVE  FS!Destroy(n) \/ UNCHANGED FS!vars
<1>1. PICK F, D, B : /\ Views(fs, F, D, B) /\ Sound(F, D, B) /\ Handles(F, open_file_table)
                    /\ OpenListed(F, D, open_file_table)
  BY InvHas, HeldHas
<1>2. PICK T : T = open_file_table
  OBVIOUS
<1>3. open_file_table' = T /\ image' = image
  BY <1>1, <1>2, RmDoes
<1>4. PICK e \in Listed(F, D) :
        /\ Entry(F, D, e).name = n /\ \A h \in Handle : T[h].fd_idx # Entry(F, D, e).fd
        /\ \/ Views(fs', F, D, B)
           \/ \E F2, D2 : Views(fs', F2, D2, B) /\ Dropped(F, D, B, F2, D2, e)
  BY <1>1, <1>2, RmDoes
<1>5. CASE Views(fs', F, D, B)
  BY <1>1, <1>2, <1>3, <1>5, NothingSeen
<1>6. CASE \E F2, D2 : Views(fs', F2, D2, B) /\ Dropped(F, D, B, F2, D2, e)
  <2>1. PICK F2, D2 : Views(fs', F2, D2, B) /\ Dropped(F, D, B, F2, D2, e)
    BY <1>6
  <2>2. Sound(F2, D2, B) /\ Handles(F2, T) /\ OpenListed(F2, D2, T)
    BY <1>3, <2>1, RmHolds, HeldNext
  <2>3. /\ OpensAre(F, D, T, OpenNow) /\ FilesAre(F, D, T, AbsFiles)
        /\ OpensAre(F2, D2, T, OpenNow') /\ FilesAre(F2, D2, T, AbsFiles')
    BY <1>1, <1>2, <1>3, <2>1, <2>2, SeenNow, SeenNext
  <2>4. OpenNow' = OpenNow
    BY <1>1, <1>2, <1>4, <2>1, <2>3, DroppedOpens
  <2>5. OneFileLess(AbsFiles, AbsFiles', n)
    BY <1>1, <1>2, <1>4, <2>1, <2>2, <2>3, DroppedFiles
  <2>6. ASSUME NEW h \in Handle
        PROVE  OpenNow[h].name # n
    <3>1. n \in Name /\ NoName \notin Name
      BY FsAssumption
    <3>2. CASE T[h].fd_idx = 0
      BY <2>3, <3>1, <3>2 DEF OpensAre, NotOpen
    <3>3. CASE T[h].fd_idx # 0
      <4>1. PICK g \in Listed(F, D) : Entry(F, D, g).fd = T[h].fd_idx
        BY <2>3, <3>3 DEF OpensAre, OpenListed, HasItem
      <4>2. OpenNow[h].name = Entry(F, D, g).name
        BY <2>3, <4>1 DEF OpensAre
      <4>3. Entry(F, D, g).name # n
        BY <1>1, <1>4, <4>1 DEF Sound, Directory
      <4> QED
        BY <4>2, <4>3
    <3> QED
      BY <3>2, <3>3
  <2>7. SameSaved
    BY <1>3, SavedKept
  <2> QED
    BY <2>4, <2>5, <2>6, <2>7 DEF OneFileLess, FS!Destroy, FS!Restrict, AbsFiles, AbsSaved, SameSaved
<1> QED
  BY <1>4, <1>5, <1>6

LEMMA RefuseMaps ==
    ASSUME IInv, NEW n \in Name, refuse(n)
    PROVE  UNCHANGED FS!vars
<1>1. PICK F, D, B : /\ Views(fs, F, D, B) /\ Sound(F, D, B) /\ Handles(F, open_file_table)
                    /\ OpenListed(F, D, open_file_table)
  BY InvHas, HeldHas
<1> QED
  BY <1>1, RefuseDoes, NothingSeen

LEMMA OpenedFiles ==
    ASSUME NEW F, NEW D, NEW B, Sound(F, D, B), NEW T, Handles(F, T), NEW T2, Handles(F, T2),
           NEW n, NEW e \in Listed(F, D), NEW h \in Handle, NEW f, OpensAs(F, D, T, T2, n, e, h, f),
           NEW a, FilesAre(F, D, T, a), NEW b, FilesAre(F, D, T2, b)
    PROVE  b = a /\ n \in DOMAIN a
<1>1. PICK k : k = Entry(F, D, e).fd
  OBVIOUS
<1>2. k \in InUse(F)
  BY <1>1 DEF Sound, Directory
<1>3. /\ Entry(F, D, e).name = n /\ \A g \in Handle : T[g].fd_idx # k
      /\ T[h].fd_idx = 0 /\ T2 = [T EXCEPT ![h] = f]
      /\ HandleOk(F, f) /\ f.fd_idx = k /\ Alike(D, Idle(F, k), D, f)
  BY <1>1 DEF OpensAs
<1>4. T2[h] = f /\ \A g \in Handle \ {h} : T2[g] = T[g]
  <2>1. T \in [Handle -> HandleRec]
    BY DEF Handles
  <2> QED
    BY <1>3, <2>1
<1>5. File(F, D, T2, k) = File(F, D, T, k)
  <2>1. HandleOf(F, T, k) = Idle(F, k) /\ HandleOf(F, T2, k) = f
    <3>1. /\ T2[h] = f /\ f.fd_idx = k /\ \A g \in Handle : T[g].fd_idx # k
      BY <1>3, <1>4
    <3>2. HandleOf(F, T, k) = Idle(F, k)
      BY <1>2, <3>1, HandleOfIs
    <3>3. HandleOf(F, T2, k) = T2[h]
      BY <1>2, <3>1, HandleOfIs
    <3> QED
      BY <3>1, <3>2, <3>3
  <2>2. PICK i : i = Idle(F, k)
    OBVIOUS
  <2>3. HandleOk(F, i) /\ i.fd_idx = k
    BY <1>2, <2>2, IdleIs DEF Idle
  <2>4. FileOf(F[i.fd_idx].blk, D, f) = FileOf(F[i.fd_idx].blk, D, i)
    BY <1>3, <2>2, <2>3, AlikeFile
  <2> QED
    BY <2>1, <2>2, <2>3, <2>4 DEF File
<1>6. ASSUME NEW l \in InUse(F), l # k
      PROVE  File(F, D, T2, l) = File(F, D, T, l)
  <2>1. Kept(F, D, F, D, k)
    BY DEF Kept
  <2>2. l # 0
    BY AnyFd DEF InUse
  <2>3. \A g \in Handle : T[g].fd_idx = l \/ T2[g].fd_idx = l => T2[g] = T[g]
    BY <1>3, <1>4, <1>6, <2>2
  <2> QED
    BY <1>6, <2>1, <2>3, FileKept
<1>7. \A g \in Listed(F, D) :
        File(F, D, T2, Entry(F, D, g).fd) = File(F, D, T, Entry(F, D, g).fd)
  BY <1>5, <1>6 DEF Sound, Directory
<1>8. FilesAre(F, D, T2, a)
  BY <1>7 DEF FilesAre
<1>9. n \in DOMAIN a
  BY <1>3 DEF FilesAre
<1> QED
  BY <1>8, <1>9, FilesEqual

LEMMA OpenedOpens ==
    ASSUME NEW F, NEW D, NEW B, Sound(F, D, B), NEW T, Handles(F, T), NEW T2, Handles(F, T2),
           NEW n, NEW e \in Listed(F, D), NEW h \in Handle, NEW f, OpensAs(F, D, T, T2, n, e, h, f),
           NEW a, OpensAre(F, D, T, a), NEW b, OpensAre(F, D, T2, b)
    PROVE  a[h] = NotOpen /\ b = [a EXCEPT ![h] = [name |-> n, offset |-> 0]]
<1>1. a = [g \in Handle |-> a[g]] /\ b = [g \in Handle |-> b[g]] /\ a[h] = NotOpen
  BY DEF OpensAre, OpensAs
<1>2. /\ T2[h].fd_idx = Entry(F, D, e).fd /\ T2[h].offset = 0 /\ Entry(F, D, e).name = n
      /\ \A g \in Handle \ {h} : T2[g] = T[g]
  <2>1. T \in [Handle -> HandleRec] /\ T2 = [T EXCEPT ![h] = f]
    BY DEF Handles, OpensAs
  <2>2. T2[h] = f /\ \A g \in Handle \ {h} : T2[g] = T[g]
    BY <2>1
  <2>3. f.fd_idx = Entry(F, D, e).fd /\ f.offset = 0 /\ Entry(F, D, e).name = n
    BY DEF OpensAs, Alike, Idle
  <2> QED
    BY <2>2, <2>3
<1>3. b[h] = [name |-> n, offset |-> 0]
  BY <1>2 DEF OpensAre
<1>4. ASSUME NEW g \in Handle \ {h}
      PROVE  b[g] = a[g]
  <2>1. CASE T[g].fd_idx = 0
    BY <1>2, <2>1 DEF OpensAre
  <2>2. CASE T[g].fd_idx # 0
    <3>1. PICK x \in Listed(F, D) : Entry(F, D, x).fd = T[g].fd_idx
      BY <2>2 DEF OpensAre, OpenListed, HasItem
    <3> QED
      BY <1>2, <3>1 DEF OpensAre
  <2> QED
    BY <2>1, <2>2
<1> QED
  BY <1>1, <1>3, <1>4

LEMMA OpenMaps ==
    ASSUME IInv, NEW n \in Name, sf_open_file(n)
    PROVE  \E h \in Handle : FS!Open(h, n)
<1>1. PICK F, D, B : /\ Views(fs, F, D, B) /\ Sound(F, D, B) /\ Handles(F, open_file_table)
                    /\ OpenListed(F, D, open_file_table)
  BY InvHas, HeldHas
<1>2. PICK T, T2 : T = open_file_table /\ T2 = open_file_table'
  OBVIOUS
<1>f. PICK f : \E e \in Listed(F, D), h \in Handle : OpensAs(F, D, T, T2, n, e, h, f)
  BY <1>1, <1>2, OpenDoes
<1>3. PICK e \in Listed(F, D), h \in Handle : OpensAs(F, D, T, T2, n, e, h, f)
  BY <1>f
<1>4. image' = image /\ Views(fs', F, D, B)
  BY <1>1, OpenDoes
<1>5. Handles(F, T2) /\ OpenListed(F, D, T2)
  BY <1>2, <1>4, OpenHolds, HeldNext
<1>6. /\ OpensAre(F, D, T, OpenNow) /\ FilesAre(F, D, T, AbsFiles)
      /\ OpensAre(F, D, T2, OpenNow') /\ FilesAre(F, D, T2, AbsFiles')
  BY <1>1, <1>2, <1>4, <1>5, SeenNow, SeenNext
<1>7. AbsFiles' = AbsFiles /\ n \in DOMAIN AbsFiles
  BY <1>1, <1>2, <1>3, <1>5, <1>6, OpenedFiles
<1>8. OpenNow[h] = NotOpen /\ OpenNow' = [OpenNow EXCEPT ![h] = [name |-> n, offset |-> 0]]
  BY <1>1, <1>2, <1>3, <1>5, <1>6, OpenedOpens
<1>9. SameSaved
  BY <1>4, SavedKept
<1>10. FS!Open(h, n)
  BY <1>7, <1>8, <1>9 DEF FS!Open, FS!Free, FS!None, NotOpen, NoName, AbsFiles, AbsSaved, SameSaved
<1> QED
  BY <1>10

(* An open handle, and its name.                                           *)
LEMMA OpenedHandle ==
    ASSUME NEW F, NEW D, NEW B, Sound(F, D, B), NEW T, Handles(F, T),
           NEW h \in Handle, T[h].fd_idx # 0, NEW a, OpensAre(F, D, T, a)
    PROVE  /\ a[h] # NotOpen /\ a[h].offset = T[h].offset
           /\ a = [g \in Handle |-> a[g]]
           /\ \E n : a[h] = [name |-> n, offset |-> T[h].offset]
<1>1. PICK e \in Listed(F, D) : Entry(F, D, e).fd = T[h].fd_idx /\ Entry(F, D, e).name \in Name
  BY DEF OpensAre, OpenListed, HasItem, Sound, Directory
<1>2. a[h] = [name |-> Entry(F, D, e).name, offset |-> T[h].offset]
  BY <1>1 DEF OpensAre
<1>3. a[h] # NotOpen
  <2>1. NoName \notin Name
    BY FsAssumption
  <2>2. a[h].name \in Name /\ NotOpen.name = NoName
    BY <1>1, <1>2 DEF NotOpen
  <2> QED
    BY <2>1, <2>2
<1> QED
  BY <1>2, <1>3 DEF OpensAre

(* Closing h leaves what its file reads as.                                *)
LEMMA ClosedFile ==
    ASSUME NEW F, NEW D, NEW B, NEW T, NEW h \in Handle, NEW F2, NEW D2, NEW T2,
           OneFile(F, D, B, T, h, F2, D2, B, T2), ClosedAs(F, D, T[h], F2, D2, B),
           \A g \in Handle : T2[g].fd_idx # T[h].fd_idx
    PROVE  File(F2, D2, T2, T[h].fd_idx) = File(F, D, T, T[h].fd_idx)
<1>0. Sound(F, D, B) /\ Handles(F, T) /\ Handles(F2, T2) /\ T[h].fd_idx # 0
  BY DEF OneFile, OneHandle
<1>1. PICK f, k : f = T[h] /\ k = T[h].fd_idx
  OBVIOUS
<1>2. HandleOk(F, f) /\ f.fd_idx = k /\ k \in InUse(F)
  BY <1>0, <1>1, HandleIs DEF HandleOk
<1>3. /\ Sound(F2, D2, B) /\ k \in InUse(F2)
      /\ F2[k].blk = F[k].blk /\ F2[k].len = f.file_len
      /\ \A c \in DataBlk : DataOf(D2[c]) = Through(D, f, c)
  BY <1>1, <1>2 DEF ClosedAs, OnlyFile
<1>4. HandleOf(F, T, k) = f
  BY <1>0, <1>1, <1>2, HandleOfIs
<1>5. PICK i : i = Idle(F2, k)
  OBVIOUS
<1>6. HandleOf(F2, T2, k) = i
  BY <1>0, <1>1, <1>3, <1>5, HandleOfIs
<1>7. PICK g : g = [f EXCEPT !.offset = 0]
  OBVIOUS
<1>8. /\ HandleOk(F, g) /\ g.offset = 0 /\ g.fd_idx = k /\ g.file_len = f.file_len
      /\ \A b : Through(D, g, b) = Through(D, f, b)
      /\ FileOf(F[k].blk, D, g) = FileOf(F[k].blk, D, f)
  BY <1>2, <1>7, OffsetSet, Sizes
<1>9. Alike(D, g, D2, i)
  <2>1. i.fd_idx = k /\ i.file_len = f.file_len /\ i.offset = 0
    BY <1>3, <1>5 DEF Idle
  <2>2. \A c \in DataBlk : Through(D2, i, c) = DataOf(D2[c])
    BY <1>3, <1>5, IdleIs
  <2> QED
    BY <1>3, <1>8, <2>1, <2>2 DEF Alike
<1>10. FileOf(F[k].blk, D2, i) = FileOf(F[k].blk, D, g)
  BY <1>0, <1>8, <1>9, AlikeFile
<1> QED
  BY <1>1, <1>3, <1>4, <1>6, <1>8, <1>10 DEF File

LEMMA CloseMaps ==
    ASSUME IInv, NEW h \in Handle, close(h)
    PROVE  FS!Close(h)
<1>1. PICK F, D, B : /\ Views(fs, F, D, B) /\ Sound(F, D, B) /\ Handles(F, open_file_table)
                    /\ OpenListed(F, D, open_file_table)
  BY InvHas, HeldHas
<1>2. PICK T, T2 : T = open_file_table /\ T2 = open_file_table'
  OBVIOUS
<1>3. /\ T[h].fd_idx # 0 /\ image' = image /\ T2[h].fd_idx = 0
      /\ \A g \in Handle \ {h} : T2[g] = T[g]
  <2>1. T[h].fd_idx # 0
    BY <1>2 DEF close, IsOpen
  <2>2. T2 = [T EXCEPT ![h] = Closed] /\ image' = image
    BY <1>1, <1>2, CloseDoes
  <2>3. T \in [Handle -> HandleRec]
    BY <1>1, <1>2 DEF Handles
  <2> QED
    BY <2>1, <2>2, <2>3, ClosedTyped
<1>4. PICK F2, D2 : Views(fs', F2, D2, B) /\ ClosedAs(F, D, T[h], F2, D2, B)
  BY <1>1, <1>2, CloseDoes
<1>5. Handles(F2, T2) /\ OpenListed(F2, D2, T2)
  BY <1>2, <1>4, CloseHolds, HeldNext
<1>6. OneHandle(T, T2, h) /\ OnlyFile(F, D, F2, D2, B, T[h].fd_idx) /\ Sound(F2, D2, B)
  BY <1>3, <1>4 DEF OneHandle, ClosedAs, OnlyFile
<1>7. /\ OpensAre(F, D, T, OpenNow) /\ FilesAre(F, D, T, AbsFiles)
      /\ OpensAre(F2, D2, T2, OpenNow') /\ FilesAre(F2, D2, T2, AbsFiles')
  BY <1>1, <1>2, <1>4, <1>5, <1>6, SeenNow, SeenNext
<1>8. \A g \in Handle : T2[g].fd_idx # T[h].fd_idx
  BY <1>1, <1>2, <1>3 DEF Handles
<1>0. Sound(F, D, B) /\ Handles(F, T) /\ T[h].fd_idx # 0 /\ OpenListed(F, D, T)
  BY <1>1, <1>2, <1>3
<1>14. OneFile(F, D, B, T, h, F2, D2, B, T2)
  BY <1>0, <1>5, <1>6 DEF OneFile
<1>9. File(F2, D2, T2, T[h].fd_idx) = File(F, D, T, T[h].fd_idx)
  BY <1>4, <1>8, <1>14, ClosedFile
<1>10. AbsFiles' = AbsFiles
  BY <1>7, <1>9, <1>14, FilesStay
<1>11. OpenNow' = Altered(OpenNow, h, NotOpen)
  <2>1. T2[h].fd_idx = 0
    BY <1>3
  <2> QED
    BY <1>7, <1>14, <2>1, OpensChange
<1>12. OpenNow[h] # NotOpen
  BY <1>0, <1>7, OpenedHandle
<1>13. SameSaved
  BY <1>3, SavedKept
<1> QED
  BY <1>10, <1>11, <1>12, <1>13
     DEF Altered, FS!Close, FS!Free, FS!None, NotOpen, NoName, AbsFiles, AbsSaved, SameSaved

(* What a handle at work has for its file.                                 *)
LEMMA OwnFile ==
    ASSUME NEW F, NEW D, NEW B, Sound(F, D, B), NEW T, Handles(F, T), NEW h \in Handle,
           T[h].fd_idx # 0
    PROVE  File(F, D, T, T[h].fd_idx) = FileOf(F[T[h].fd_idx].blk, D, T[h])
<1>1. T[h].fd_idx \in InUse(F)
  BY DEF Handles
<1>2. HandleOf(F, T, T[h].fd_idx) = T[h]
  BY <1>1, HandleOfIs
<1> QED
  BY <1>2 DEF File

(* Handle h becomes f, with the same descriptor.                           *)
Turns(F, D, B, T, h, F2, D2, B2, T2, f) ==
    /\ Sound(F, D, B) /\ Handles(F, T) /\ Handles(F2, T2) /\ T[h].fd_idx # 0
    /\ OnlyFile(F, D, F2, D2, B2, T[h].fd_idx)
    /\ OpenListed(F, D, T) /\ OpenListed(F2, D2, T2)
    /\ T2 = [T EXCEPT ![h] = f] /\ f.fd_idx = T[h].fd_idx

LEMMA TurnsOne ==
    ASSUME NEW F, NEW D, NEW B, NEW T, NEW h \in Handle, NEW F2, NEW D2, NEW B2, NEW T2, NEW f,
           Turns(F, D, B, T, h, F2, D2, B2, T2, f)
    PROVE  /\ OneFile(F, D, B, T, h, F2, D2, B2, T2) /\ T2[h] = f /\ T2[h].fd_idx = T[h].fd_idx
           /\ File(F2, D2, T2, T[h].fd_idx) = FileOf(F2[T[h].fd_idx].blk, D2, f)
           /\ File(F, D, T, T[h].fd_idx) = FileOf(F[T[h].fd_idx].blk, D, T[h])
<1>1. /\ Sound(F, D, B) /\ Handles(F, T) /\ Handles(F2, T2) /\ T[h].fd_idx # 0
      /\ OnlyFile(F, D, F2, D2, B2, T[h].fd_idx) /\ Sound(F2, D2, B2) /\ OpenListed(F, D, T)
      /\ f.fd_idx = T[h].fd_idx
  BY DEF Turns, OnlyFile
<1>2. T2[h] = f /\ \A g \in Handle \ {h} : T2[g] = T[g]
  <2>1. T \in [Handle -> HandleRec] /\ T2 = [T EXCEPT ![h] = f]
    BY <1>1 DEF Turns, Handles
  <2> QED
    BY <2>1
<1>3. OneHandle(T, T2, h)
  BY <1>1, <1>2 DEF OneHandle
<1>4. OneFile(F, D, B, T, h, F2, D2, B2, T2)
  BY <1>1, <1>3 DEF OneFile
<1>5. File(F, D, T, T[h].fd_idx) = FileOf(F[T[h].fd_idx].blk, D, T[h])
  BY <1>1, OwnFile
<1>6. File(F2, D2, T2, T2[h].fd_idx) = FileOf(F2[T2[h].fd_idx].blk, D2, T2[h])
  BY <1>1, <1>2, OwnFile
<1> QED
  BY <1>1, <1>2, <1>4, <1>5, <1>6

(* h turns to another place of the file it has.                            *)
LEMMA MoveMaps ==
    ASSUME NEW F, NEW D, NEW B, Views(fs, F, D, B), NEW h \in Handle,
           NEW F2, NEW D2, NEW B2, Views(fs', F2, D2, B2), NEW f,
           Turns(F, D, B, open_file_table, h, F2, D2, B2, open_file_table', f),
           f.offset \in 0 .. MAX_FILE_LEN, image' = image,
           FileOf(F2[open_file_table[h].fd_idx].blk, D2, f)
             = FileOf(F[open_file_table[h].fd_idx].blk, D, open_file_table[h])
    PROVE  OpenNow'[h].offset \in 0 .. MAX_FILE_LEN /\ FS!Move(h, OpenNow'[h].offset)
<1>1. PICK T, T2 : T = open_file_table /\ T2 = open_file_table'
  OBVIOUS
<1>2. Turns(F, D, B, T, h, F2, D2, B2, T2, f)
  BY <1>1
<1>3. /\ OneFile(F, D, B, T, h, F2, D2, B2, T2) /\ T2[h] = f
      /\ File(F2, D2, T2, T[h].fd_idx) = File(F, D, T, T[h].fd_idx)
  BY <1>1, <1>2, TurnsOne
<1>4. /\ Sound(F, D, B) /\ Handles(F, T) /\ Handles(F2, T2) /\ Sound(F2, D2, B2)
      /\ T[h].fd_idx # 0 /\ T2[h].fd_idx # 0
      /\ OpenListed(F, D, T) /\ OpenListed(F2, D2, T2)
  BY <1>2, <1>3 DEF Turns, OnlyFile
<1>5. /\ OpensAre(F, D, T, OpenNow) /\ FilesAre(F, D, T, AbsFiles)
      /\ OpensAre(F2, D2, T2, OpenNow') /\ FilesAre(F2, D2, T2, AbsFiles')
  BY <1>1, <1>4, SeenNow, SeenNext
<1>6. AbsFiles' = AbsFiles
  BY <1>3, <1>5, FilesStay
<1>7. OpenNow' = AlteredAt(OpenNow, h, T2[h].offset)
  BY <1>3, <1>4, <1>5, OpensChange
<1>8. OpenNow[h] # NotOpen /\ OpenNow'[h].offset = T2[h].offset
  BY <1>4, <1>5, OpenedHandle
<1>9. SameSaved
  BY SavedKept
<1>10. FS!Move(h, T2[h].offset)
  BY <1>6, <1>7, <1>8, <1>9
     DEF AlteredAt, FS!Move, FS!ComesTo, FS!Free, FS!None, NotOpen, NoName, AbsFiles, AbsSaved, SameSaved
<1> QED
  BY <1>3, <1>8, <1>10

LEMMA ReadMaps ==
    ASSUME IInv, NEW h \in Handle, NEW count \in Count, read(h, count)
    PROVE  OpenNow'[h].offset \in 0 .. MAX_FILE_LEN /\ FS!Move(h, OpenNow'[h].offset)
<1>1. PICK F, D, B : /\ Views(fs, F, D, B) /\ Sound(F, D, B) /\ Handles(F, open_file_table)
                    /\ OpenListed(F, D, open_file_table)
  BY InvHas, HeldHas
<1>2. PICK T, T2 : T = open_file_table /\ T2 = open_file_table'
  OBVIOUS
<1>3. PICK r, D2 : /\ ReadDone(F, D, B, T[h], count, r, D2) /\ Views(fs', F, D2, B)
                   /\ T2 = [T EXCEPT ![h] = r.file]
  BY <1>1, <1>2, ReadDoes
<1>4. image' = image /\ T[h].fd_idx # 0
  BY <1>1, <1>2, ReadDoes DEF read, IsOpen
<1>5. Handles(F, T2) /\ OpenListed(F, D2, T2)
  BY <1>2, <1>3, ReadHolds, HeldNext
<1>6. /\ OnlyFile(F, D, F, D2, B, T[h].fd_idx) /\ r.file.fd_idx = T[h].fd_idx
      /\ FileOf(F[T[h].fd_idx].blk, D2, r.file) = FileOf(F[T[h].fd_idx].blk, D, T[h])
      /\ r.file.offset \in 0 .. MAX_FILE_LEN
  BY <1>3 DEF ReadDone
<1>7. Turns(F, D, B, T, h, F, D2, B, T2, r.file)
  BY <1>1, <1>2, <1>3, <1>4, <1>5, <1>6 DEF Turns
<1>8. PICK f : f = r.file
  OBVIOUS
<1>9. /\ Turns(F, D, B, open_file_table, h, F, D2, B, open_file_table', f)
      /\ f.offset \in 0 .. MAX_FILE_LEN
      /\ FileOf(F[open_file_table[h].fd_idx].blk, D2, f)
           = FileOf(F[open_file_table[h].fd_idx].blk, D, open_file_table[h])
  BY <1>2, <1>6, <1>7, <1>8
<1>10. Views(fs, F, D, B) /\ Views(fs', F, D2, B) /\ image' = image
  BY <1>1, <1>3, <1>4
<1> QED
  BY <1>9, <1>10, MoveMaps

LEMMA SeekMaps ==
    ASSUME IInv, NEW h \in Handle, NEW len \in SeekLen \cup {-l : l \in SeekLen},
           NEW whence \in {"CUR", "SET", "END"}, lseek(h, len, whence)
    PROVE  OpenNow'[h].offset \in 0 .. MAX_FILE_LEN /\ FS!Move(h, OpenNow'[h].offset)
<1>1. PICK F, D, B : /\ Views(fs, F, D, B) /\ Sound(F, D, B) /\ Handles(F, open_file_table)
                    /\ OpenListed(F, D, open_file_table)
  BY InvHas, HeldHas
<1>2. PICK T, T2 : T = open_file_table /\ T2 = open_file_table'
  OBVIOUS
<1>3. PICK o \in 0 .. MAX_FILE_LEN : T2 = [T EXCEPT ![h] = AtOffset(T[h], o)]
  BY <1>1, <1>2, SeekDoes
<1>4. /\ image' = image /\ Views(fs', F, D, B) /\ HandleOk(F, T[h]) /\ T[h].fd_idx # 0
  BY <1>1, <1>2, SeekDoes DEF lseek, IsOpen
<1>5. Handles(F, T2) /\ OpenListed(F, D, T2)
  BY <1>2, <1>4, SeekHolds, HeldNext
<1>6. PICK f : f = AtOffset(T[h], o)
  OBVIOUS
<1>7. /\ f.fd_idx = T[h].fd_idx /\ f.offset = o
      /\ FileOf(F[T[h].fd_idx].blk, D, f) = FileOf(F[T[h].fd_idx].blk, D, T[h])
  BY <1>4, <1>6, OffsetSet DEF AtOffset
<1>8. OnlyFile(F, D, F, D, B, T[h].fd_idx)
  BY <1>1, OnlyFileSame
<1>9. Turns(F, D, B, T, h, F, D, B, T2, f)
  BY <1>1, <1>2, <1>3, <1>4, <1>5, <1>6, <1>7, <1>8 DEF Turns
<1> QED
  BY <1>1, <1>2, <1>4, <1>7, <1>9, MoveMaps

LEMMA WriteMaps ==
    ASSUME IInv, NEW h \in Handle, NEW count \in Count, write(h, count)
    PROVE  /\ OpenNow'[h].offset >= OpenNow[h].offset
           /\ FS!Write(h, OpenNow'[h].offset - OpenNow[h].offset)
<1>1. PICK F, D, B : /\ Views(fs, F, D, B) /\ Sound(F, D, B) /\ Handles(F, open_file_table)
                    /\ OpenListed(F, D, open_file_table)
  BY InvHas, HeldHas
<1>2. PICK T, T2, data : /\ T = open_file_table /\ T2 = open_file_table'
                         /\ data = Bytes(changes, count)
  OBVIOUS
<1>3. changes \in Nat
  BY InvHas
<1>4. PICK w, F2, D2, B2, n :
        /\ WriteDone(F, D, T[h], data, w, F2, D2, B2, n)
        /\ fs' = w.fs /\ T2 = [T EXCEPT ![h] = w.file]
  BY <1>1, <1>2, <1>3, WriteDoes
<1>5. /\ image' = image /\ HandleOk(F, T[h]) /\ changes < MaxChanges
      /\ T[h].offset <= T[h].file_len /\ data \in Seq(Nat) /\ Len(data) = count
  BY <1>1, <1>2, <1>3, WriteDoes
<1>6. T[h].fd_idx # 0
  BY <1>2 DEF write, IsOpen
<1>7. PICK f : f = w.file
  OBVIOUS
<1>8. /\ Views(fs', F2, D2, B2) /\ OnlyFile(F, D, F2, D2, B2, T[h].fd_idx) /\ Sound(F2, D2, B2)
      /\ f.fd_idx = T[h].fd_idx
      /\ n \in 0 .. Len(data) /\ f.offset = T[h].offset + n
  BY <1>4, <1>7 DEF WriteDone, OnlyFile
<1>9. Handles(F2, T2) /\ OpenListed(F2, D2, T2)
  BY <1>2, <1>8, WriteHolds, HeldNext
<1>10. Turns(F, D, B, T, h, F2, D2, B2, T2, f)
  BY <1>1, <1>2, <1>4, <1>6, <1>7, <1>8, <1>9 DEF Turns
<1>11. PICK k, old, new : /\ k = T[h].fd_idx /\ old = File(F, D, T, k)
                          /\ new = FS!Overwritten(old, T[h].offset, SubSeq(data, 1, n))
  OBVIOUS
<1>12. Len(old) = T[h].file_len /\ File(F2, D2, T2, k) = new
  <2>1. old = FileOf(F[T[h].fd_idx].blk, D, T[h])
    BY <1>10, <1>11, TurnsOne
  <2>2. File(F2, D2, T2, k) = FileOf(F2[T[h].fd_idx].blk, D2, w.file)
    BY <1>7, <1>10, <1>11, TurnsOne
  <2>3. FileOf(F2[T[h].fd_idx].blk, D2, w.file)
          = FS!Overwritten(FileOf(F[T[h].fd_idx].blk, D, T[h]), T[h].offset, SubSeq(data, 1, n))
    BY <1>1, <1>4, <1>5, WrittenFile
  <2>4. Len(FileOf(F[T[h].fd_idx].blk, D, T[h])) = T[h].file_len
    BY <1>1, <1>5, FileTyped
  <2> QED
    BY <1>11, <2>1, <2>2, <2>3, <2>4
<1>13. /\ OneFile(F, D, B, T, h, F2, D2, B2, T2) /\ T2[h] = f /\ T2[h].fd_idx # 0
  BY <1>6, <1>10, TurnsOne
<1>14. Sound(F, D, B) /\ Handles(F, T)
  BY <1>1, <1>2
<1>15. /\ OpensAre(F, D, T, OpenNow) /\ FilesAre(F, D, T, AbsFiles)
       /\ OpensAre(F2, D2, T2, OpenNow') /\ FilesAre(F2, D2, T2, AbsFiles')
  BY <1>1, <1>2, <1>8, <1>9, SeenNow, SeenNext
<1>16. PICK e \in Listed(F, D) : Entry(F, D, e).fd = k
  BY <1>6, <1>11, <1>15 DEF OpensAre, OpenListed, HasItem
<1>17. PICK m : m = Entry(F, D, e).name
  OBVIOUS
<1>18. OpenNow[h].name = m /\ OpenNow[h].offset = T[h].offset /\ AbsFiles[m] = old
  <2>1. OpenNow[h] = [name |-> m, offset |-> T[h].offset]
    BY <1>11, <1>15, <1>16, <1>17 DEF OpensAre
  <2>2. AbsFiles[m] = File(F, D, T, Entry(F, D, e).fd)
    BY <1>15, <1>17 DEF FilesAre
  <2> QED
    BY <1>11, <1>16, <2>1, <2>2
<1>19. AbsFiles' = Altered(AbsFiles, m, new)
  <2>1. AbsFiles' = Altered(AbsFiles, Entry(F, D, e).name, File(F2, D2, T2, T[h].fd_idx))
    BY <1>11, <1>13, <1>15, <1>16, FilesChange
  <2> QED
    BY <1>11, <1>12, <1>17, <2>1
<1>20. OpenNow' = AlteredAt(OpenNow, h, T2[h].offset)
  BY <1>13, <1>15, OpensChange
<1>21. OpenNow[h] # NotOpen /\ OpenNow'[h].offset = f.offset
  <2>1. OpenNow[h] # NotOpen
    BY <1>6, <1>14, <1>15, OpenedHandle
  <2>2. OpenNow'[h].offset = T2[h].offset
    BY <1>8, <1>9, <1>13, <1>15, OpenedHandle
  <2> QED
    BY <1>13, <2>1, <2>2
<1>22. data \in {Bytes(x, c) : x \in 0 .. MaxChanges - 1, c \in Count}
  <2>1. changes \in 0 .. MaxChanges - 1
    BY <1>3, <1>5, FsAssumption
  <2> QED
    BY <1>2, <2>1
<1>23. SameSaved
  BY <1>5, SavedKept
<1>24. PICK o \in Nat : o = T[h].offset
  BY <1>5 DEF HandleOk, HandleRec
<1>25. /\ n \in Nat /\ n <= Len(data) /\ f.offset = o + n /\ o <= Len(old) /\ o + n - o = n
       /\ o + n >= o
  <2>1. Len(data) \in Nat /\ n \in 0 .. Len(data)
    BY <1>5, <1>8
  <2> QED
    BY <1>5, <1>8, <1>12, <1>24, <2>1
<1>26. FS!Write(h, n)
  <2>1. FS!ComesTo(h, OpenNow[h].offset + n)
    <3>1. OpenNow' = [OpenNow EXCEPT ![h].offset = o + n]
      BY <1>13, <1>20, <1>25 DEF AlteredAt
    <3>2. OpenNow[h] # FS!Free /\ OpenNow[h].offset = o
      BY <1>18, <1>21, <1>24 DEF FS!Free, FS!None, NotOpen, NoName
    <3> QED
      BY <3>1, <3>2 DEF FS!ComesTo
  <2>2. AbsFiles' = [AbsFiles EXCEPT ![OpenNow[h].name] =
                        FS!Overwritten(@, OpenNow[h].offset, SubSeq(data, 1, n))]
    <3>1. new = FS!Overwritten(AbsFiles[m], OpenNow[h].offset, SubSeq(data, 1, n))
      BY <1>11, <1>18
    <3> QED
      BY <1>18, <1>19, <3>1 DEF Altered
  <2>3. OpenNow[h].offset <= Len(AbsFiles[OpenNow[h].name])
    BY <1>18, <1>24, <1>25
  <2>4. AbsSaved' = AbsSaved
    BY <1>23 DEF SameSaved
  <2>5. n <= Len(data)
    BY <1>25
  <2>6. FS!Takes(h, n, data)
    BY <2>2, <2>4, <2>5 DEF FS!Takes, AbsFiles, AbsSaved
  <2>7. \E d \in {Bytes(x, c) : x \in 0 .. MaxChanges - 1, c \in Count} : FS!Takes(h, n, d)
    BY <1>22, <2>6
  <2> QED
    BY <2>1, <2>3, <2>7 DEF FS!Write, AbsFiles
<1> QED
  <2>1. OpenNow[h].offset = o /\ OpenNow'[h].offset = o + n
    BY <1>18, <1>21, <1>24, <1>25
  <2> QED
    BY <1>25, <1>26, <2>1

(* No handle is open.                                                      *)
LEMMA NoneOpen ==
    /\ open_file_table = AllClosed => OpenNow = FS!Closed
    /\ open_file_table' = AllClosed => OpenNow' = FS!Closed
<1>1. \A s : OpenIn(s, AllClosed) = FS!Closed
  <2>1. \A h \in Handle : AllClosed[h].fd_idx = 0
    BY DEF AllClosed, Closed
  <2> QED
    BY <2>1 DEF OpenIn, NotOpen, NoName, FS!Closed, FS!Free, FS!None
<1> QED
  BY <1>1, NowAre

LEMMA SavedNext == AbsSaved' = {FilesOf(sf_load(disk), AllClosed) : disk \in image'}
BY DEF AbsSaved, FilesOf, ItemsOf, DirBlocks, DirBlk, Fd

LEMMA StoreMaps ==
    ASSUME IInv, storefs
    PROVE  FS!Store
<1>1. PICK F, D, B : /\ Views(fs, F, D, B) /\ Sound(F, D, B) /\ Handles(F, open_file_table)
                    /\ OpenListed(F, D, open_file_table)
  BY InvHas, HeldHas
<1>2. open_file_table = AllClosed /\ open_file_table' = open_file_table /\ Views(fs', F, D, B)
  BY <1>1, StoreDoes
<1>3. PICK disk \in [Blk -> Block] : image' = {disk} /\ Views(sf_load(disk), F, D, B)
  BY <1>1, StoreDoes
<1>4. AbsFiles' = AbsFiles
  BY <1>1, <1>2, SeenNow, SeenNext, FilesEqual
<1>5. FilesOf(sf_load(disk), AllClosed) = AbsFiles
  <2>1. Handles(F, AllClosed)
    BY <1>1, <1>2
  <2>2. FilesAre(F, D, AllClosed, AbsFiles)
    BY <1>1, <1>2, SeenNow
  <2>3. FilesAre(F, D, AllClosed, FilesOf(sf_load(disk), AllClosed))
    BY <1>1, <1>3, <2>1, FilesOfIs
  <2> QED
    BY <2>2, <2>3, FilesEqual
<1>6. AbsSaved' = {AbsFiles}
  BY <1>3, <1>5, SavedNext
<1>7. OpenNow = FS!Closed /\ OpenNow' = FS!Closed
  BY <1>2, NoneOpen
<1> QED
  BY <1>4, <1>6, <1>7 DEF FS!Store, AbsFiles, AbsSaved

LEMMA NewFiles == open_file_table' = AllClosed => AbsFiles' = FilesOf(fs', AllClosed)
BY NowAre DEF AbsFiles

LEMMA LoadMaps ==
    ASSUME loadfs
    PROVE  FS!Load
<1>1. PICK disk \in image : fs' = sf_load(disk)
  BY DEF loadfs
<1>2. open_file_table' = AllClosed /\ image' = image
  BY DEF loadfs
<1>3. AbsFiles' \in AbsSaved
  <2>1. AbsFiles' = FilesOf(sf_load(disk), AllClosed)
    BY <1>1, <1>2, NewFiles
  <2> QED
    BY <2>1 DEF AbsSaved
<1>4. OpenNow' = FS!Closed
  BY <1>2, NoneOpen
<1>5. AbsSaved' = AbsSaved
  BY <1>2, SavedKept DEF SameSaved
<1> QED
  BY <1>3, <1>4, <1>5 DEF FS!Load, AbsFiles, AbsSaved

(* What is formatted has no files.                                         *)
LEMMA ZeroFiles == FilesOf(Zeroed, AllClosed) = FS!Empty
<1>1. FilesAre(ZeroF, ZeroD, AllClosed, FilesOf(Zeroed, AllClosed))
  BY ZeroViews, AllClosedIs, FilesOfIs
<1>2. {Entry(ZeroF, ZeroD, e).name : e \in Listed(ZeroF, ZeroD)} = {}
  BY ZeroViews
<1>3. PICK files : files = FilesOf(Zeroed, AllClosed)
  OBVIOUS
<1>4. files = [n \in {} |-> files[n]]
  BY <1>1, <1>2, <1>3 DEF FilesAre
<1> QED
  BY <1>3, <1>4 DEF FS!Empty

LEMMA FormatMaps ==
    ASSUME mkfs_loadfs
    PROVE  FS!Format
<1>1. fs' = Zeroed /\ open_file_table' = AllClosed /\ image' = {sf_mkfs}
  BY DEF mkfs_loadfs, Zeroed
<1>2. AbsFiles' = FS!Empty
  BY <1>1, NewFiles, ZeroFiles
<1>3. AbsSaved' = {FS!Empty}
  BY <1>1, SavedNext, ZeroFiles DEF Zeroed
<1>4. OpenNow' = FS!Closed
  BY <1>1, NoneOpen
<1> QED
  BY <1>2, <1>3, <1>4 DEF FS!Format, AbsFiles, AbsSaved

LEMMA RestartMaps ==
    ASSUME restart
    PROVE  FS!Restart
<1>1. fs' = Zeroed /\ open_file_table' = AllClosed /\ image' = image
  BY DEF restart
<1>2. AbsFiles' = FS!Empty
  BY <1>1, NewFiles, ZeroFiles
<1>3. AbsSaved' = AbsSaved
  BY <1>1, SavedKept DEF SameSaved
<1>4. OpenNow' = FS!Closed
  BY <1>1, NoneOpen
<1> QED
  BY <1>2, <1>3, <1>4 DEF FS!Restart, AbsFiles, AbsSaved

LEMMA InitMaps == Init => FS!Init
<1> SUFFICES ASSUME Init PROVE FS!Init
  OBVIOUS
<1>1. fs = Zeroed /\ open_file_table = AllClosed /\ image = {}
  BY DEF Init
<1>2. AbsFiles = FS!Empty
  BY <1>1, ZeroFiles DEF AbsFiles
<1>3. AbsSaved = {}
  BY <1>1 DEF AbsSaved
<1>4. OpenNow = FS!Closed
  BY <1>1, NoneOpen
<1> QED
  BY <1>2, <1>3, <1>4 DEF FS!Init, AbsFiles, AbsSaved

LEMMA StepMaps ==
    ASSUME IInv, [Next]_vars
    PROVE  [FS!Next]_(FS!vars)
<1>1. ASSUME NEW n \in Name, touch(n) \/ rm(n) \/ refuse(n)
      PROVE  FS!Next \/ UNCHANGED FS!vars
  BY <1>1, TouchMaps, RmMaps, RefuseMaps DEF FS!Next
<1>2. ASSUME NEW n \in Name, sf_open_file(n)
      PROVE  FS!Next
  <2>1. PICK h \in Handle : FS!Open(h, n)
    BY <1>2, OpenMaps
  <2> QED
    BY <2>1 DEF FS!Next
<1>3. ASSUME NEW h \in Handle, close(h)
      PROVE  FS!Next
  <2>1. FS!Close(h)
    BY <1>3, CloseMaps
  <2> QED
    BY <2>1 DEF FS!Next
<1>4. ASSUME NEW h \in Handle, NEW count \in Count, read(h, count)
      PROVE  FS!Next
  <2>1. OpenNow'[h].offset \in 0 .. MAX_FILE_LEN /\ FS!Move(h, OpenNow'[h].offset)
    BY <1>4, ReadMaps
  <2> QED
    BY <2>1 DEF FS!Next
<1>5. ASSUME NEW h \in Handle, NEW count \in Count, write(h, count)
      PROVE  FS!Next
  <2>1. /\ OpenNow'[h].offset >= OpenNow[h].offset
        /\ FS!Write(h, OpenNow'[h].offset - OpenNow[h].offset)
    BY <1>5, WriteMaps
  <2> QED
    BY <2>1 DEF FS!Next
<1>6. ASSUME NEW h \in Handle, NEW len \in SeekLen \cup {-l : l \in SeekLen},
             NEW whence \in {"CUR", "SET", "END"}, lseek(h, len, whence)
      PROVE  FS!Next
  <2>1. OpenNow'[h].offset \in 0 .. MAX_FILE_LEN /\ FS!Move(h, OpenNow'[h].offset)
    BY <1>6, SeekMaps
  <2> QED
    BY <2>1 DEF FS!Next
<1>7. CASE storefs \/ loadfs \/ mkfs_loadfs \/ restart
  BY <1>7, StoreMaps, LoadMaps, FormatMaps, RestartMaps DEF FS!Next
<1>8. CASE UNCHANGED vars
  <2>1. OpenNow' = OpenNow /\ AbsFiles' = AbsFiles
    BY <1>8, NowAre DEF vars, AbsFiles
  <2>2. SameSaved
    BY <1>8, SavedKept DEF vars
  <2> QED
    BY <2>1, <2>2, Stutters
<1> QED
  BY <1>1, <1>2, <1>3, <1>4, <1>5, <1>6, <1>7, <1>8 DEF Next

(* simplefs implements FileSystem: for any sizes of blocks, files and the  *)
(* disk, whatever is cached, buffered or full and whatever is stored,      *)
(* formatted, loaded or lost in between, a file reads as what was written. *)
THEOREM IsAFileSystem == Spec => ImplementsFileSystem
<1>1. IInv /\ [Next]_vars => [FS!Next]_(FS!vars)
  BY StepMaps
<1> QED
  BY <1>1, InitMaps, Soundness, PTL DEF Spec, ImplementsFileSystem, FS!Spec
=============================================================================
