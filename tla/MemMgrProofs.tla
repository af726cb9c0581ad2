---------------------------- MODULE MemMgrProofs ----------------------------
(***************************************************************************)
(* What MemMgr does for every size of the memory and all requests: tags    *)
(* and data stay apart, the ring links the free blocks in order, and the   *)
(* blocks are those of an allocator without tags.                          *)
(*                                                                         *)
(* The invariant says that the memory has a shape: fronts T and sizes sz   *)
(* that tile it (Layout), whose tags are those of a ring R (Chain) ordered *)
(* by a numbering of its blocks (Ranked, Sorted), and whose used blocks    *)
(* are the users' (Users).  The lemmas follow the program: what one macro  *)
(* does to the tags, what linking, splitting and joining do to the ring,   *)
(* where a search ends, and what a request and a release do to the shape.  *)
(***************************************************************************)
EXTENDS MemMgr, NumberLemmas, FiniteSetTheorems

USE DEF HEAD_SIZE, FOOT_SIZE, TAGS, MEM_START, MEM_END, TAG_FREE, TAG_USED

-----------------------------------------------------------------------------
(* Walks.                                                                  *)

LEMMA MaxBlocksNat == MaxBlocks \in Nat \ {0} /\ 6 * (MaxBlocks - 1) <= MEM_SIZE
BY MemSizeAssumption DEF MaxBlocks, TAGS, HEAD_SIZE, FOOT_SIZE

LEMMA WalkExists ==
    ASSUME NEW start, NEW step
    PROVE  \E walk : walk = [k \in 0 .. MaxBlocks |->
                                 IF k = 0 THEN start ELSE step[walk[k - 1]]]
<1> DEFINE IsWalk(w, n) == w = [k \in 0 .. n |-> IF k = 0 THEN start ELSE step[w[k - 1]]]
           G == {n \in 0 .. MaxBlocks : \E w : IsWalk(w, n)}
<1> USE MaxBlocksNat
<1>1. 0 \in G
  <2>1. IsWalk([k \in 0 .. 0 |-> start], 0)
    OBVIOUS
  <2> HIDE DEF IsWalk
  <2> QED
    BY <2>1
<1>2. ASSUME NEW n \in 0 .. MaxBlocks - 1, n \in G PROVE n + 1 \in G
  <2>1. PICK w : IsWalk(w, n)
    BY <1>2
  <2> DEFINE v == [k \in 0 .. n + 1 |-> IF k = n + 1 THEN step[w[n]] ELSE w[k]]
  <2>2. \A k \in 0 .. n : w[k] = IF k = 0 THEN start ELSE step[w[k - 1]]
    BY <2>1
  <2>3. \A k \in 0 .. n + 1 : v[k] = IF k = 0 THEN start ELSE step[v[k - 1]]
    <3> SUFFICES ASSUME NEW k \in 0 .. n + 1
                 PROVE  v[k] = IF k = 0 THEN start ELSE step[v[k - 1]]
      OBVIOUS
    <3>1. CASE k = n + 1
      <4>1. k - 1 = n /\ v[k] = step[w[n]] /\ v[n] = w[n] /\ k # 0
        BY <3>1
      <4> QED
        BY <4>1
    <3>2. CASE k \in 0 .. n
      <4>1. v[k] = w[k] /\ (k # 0 => k - 1 \in 0 .. n + 1 /\ k - 1 # n + 1 /\ v[k - 1] = w[k - 1])
        BY <3>2
      <4> QED
        BY <2>2, <3>2, <4>1
    <3> QED
      BY <3>1, <3>2
  <2> DEFINE u == [k \in 0 .. n + 1 |-> IF k = 0 THEN start ELSE step[v[k - 1]]]
  <2>4. v = u
    <3>1. \A k \in 0 .. n + 1 : v[k] = u[k]
      BY <2>3
    <3> QED
      BY <3>1
  <2>5. IsWalk(v, n + 1)
    BY <2>4
  <2>6. n + 1 \in 0 .. MaxBlocks
    OBVIOUS
  <2> QED
    BY <2>5, <2>6
<1> HIDE DEF G
<1>3. MaxBlocks \in G
  <2>1. 0 .. MaxBlocks \subseteq G
    BY <1>1, <1>2, UpTo
  <2> QED
    BY <2>1
<1> QED
  BY <1>3 DEF G

(* A walk takes its steps, and stays in a set they do not lead out of.     *)
LEMMA WalkSteps ==
    ASSUME NEW S, NEW start \in S, NEW step, \A x \in S : step[x] \in S
    PROVE  /\ Walk(start, step) \in [0 .. MaxBlocks -> S]
           /\ Walk(start, step)[0] = start
           /\ \A k \in 0 .. MaxBlocks - 1 : Walk(start, step)[k + 1] = step[Walk(start, step)[k]]
<1> DEFINE w == Walk(start, step)
<1> USE MaxBlocksNat
<1>1. w = [k \in 0 .. MaxBlocks |-> IF k = 0 THEN start ELSE step[w[k - 1]]]
  BY WalkExists DEF Walk
<1> HIDE DEF w
<1>2. \A k \in 0 .. MaxBlocks : w[k] = IF k = 0 THEN start ELSE step[w[k - 1]]
  BY <1>1
<1>3. w[0] = start
  BY <1>2
<1>4. ASSUME NEW k \in 0 .. MaxBlocks - 1 PROVE w[k + 1] = step[w[k]]
  <2>1. k + 1 \in 0 .. MaxBlocks /\ k + 1 # 0 /\ (k + 1) - 1 = k
    OBVIOUS
  <2> QED
    BY <1>2, <2>1
<1>5. \A k \in 0 .. MaxBlocks : w[k] \in S
  <2> DEFINE G == {k \in 0 .. MaxBlocks : w[k] \in S}
  <2>1. 0 \in G
    BY <1>3
  <2>2. \A k \in 0 .. MaxBlocks - 1 : k \in G => k + 1 \in G
    BY <1>4
  <2> HIDE DEF G
  <2>3. 0 .. MaxBlocks \subseteq G
    BY <2>1, <2>2, UpTo
  <2> QED
    BY <2>3 DEF G
<1>6. w \in [0 .. MaxBlocks -> S]
  BY <1>1, <1>5
<1> QED
  BY <1>3, <1>4, <1>6 DEF w

LEMMA Cells ==
    /\ MEM_SIZE \in Nat /\ MEM_SIZE > 5 /\ FREE_LIST_HEAD = -5
    /\ \A a : a \in Address <=> a \in Int /\ -5 <= a /\ a < MEM_SIZE
BY MemSizeAssumption DEF FREE_LIST_HEAD, Address

Memory == [Address -> Int]

-----------------------------------------------------------------------------
(* The memory as blocks.                                                   *)

(* The fronts T of blocks of sizes sz that tile the memory; the anchor is  *)
(* the one before the first.                                               *)
Layout(T, sz) ==
    /\ T \subseteq Address /\ {FREE_LIST_HEAD, MEM_START} \subseteq T
    /\ sz \in [T -> Nat] /\ sz[FREE_LIST_HEAD] = 0
    /\ \A f \in T : f # FREE_LIST_HEAD => sz[f] > 0
    /\ \A f \in T : f + TAGS + sz[f] \in T \cup {MEM_END}
    /\ \A f, g \in T : f < g => f + TAGS + sz[f] <= g
    /\ \A g \in T : g # FREE_LIST_HEAD => \E f \in T : f + TAGS + sz[f] = g

(* Cell a is no tag of a block of n cells; no cell of D is a tag.          *)
NoTag(a, f, n) ==
    \/ a < f \/ f + TAGS + n <= a
    \/ f + HEAD_SIZE <= a /\ a < f + HEAD_SIZE + n

Inside(D, T, sz) == \A a \in D : \A f \in T : NoTag(a, f, sz[f])

(* The tags of a block of n cells.                                         *)
TagsAre(m, f, n, prev, tag, next) ==
    /\ m[f] = prev /\ m[f + 1] = tag /\ m[f + 2] = n
    /\ m[f + 3 + n] = n /\ m[f + 4 + n] = next

(* Their tags are pv, tg and nx, and the cells of D a user's data.         *)
Tagged(m, T, sz, pv, tg, nx, D) ==
    /\ m \in Memory /\ Layout(T, sz)
    /\ pv \in [T -> Int] /\ tg \in [T -> Int] /\ nx \in [T -> Int]
    /\ \A f \in T : TagsAre(m, f, sz[f], pv[f], tg[f], nx[f])
    /\ D \subseteq Address /\ \A a \in D : m[a] = Data
    /\ Inside(D, T, sz)

LEMMA InMemory ==
    ASSUME NEW T, NEW sz, Layout(T, sz), NEW f \in T
    PROVE  /\ f \in Int /\ sz[f] \in Nat /\ -5 <= f /\ f + 5 + sz[f] <= MEM_SIZE
           /\ f \in Address
<1>1. f \in Address /\ sz[f] \in Nat /\ f + 5 + sz[f] \in T \cup {MEM_SIZE}
  BY Cells DEF Layout
<1>2. \A g \in T \cup {MEM_SIZE} : g <= MEM_SIZE
  BY Cells DEF Layout
<1> QED
  BY <1>1, <1>2, Cells

LEMMA Apart ==
    ASSUME NEW T, NEW sz, Layout(T, sz), NEW f \in T, NEW g \in T, f # g
    PROVE  f + 5 + sz[f] <= g \/ g + 5 + sz[g] <= f
<1>1. f \in Int /\ g \in Int
  BY InMemory
<1>2. f < g \/ g < f
  BY <1>1
<1> QED
  BY <1>2 DEF Layout

(* The five tags of a block are cells of its own.                          *)
TagCells(f, n) == {f, f + 1, f + 2, f + 3 + n, f + 4 + n}

LEMMA TagsApart ==
    ASSUME NEW T, NEW sz, Layout(T, sz), NEW f \in T, NEW g \in T, f # g
    PROVE  TagCells(f, sz[f]) \cap TagCells(g, sz[g]) = {}
<1>1. f \in Int /\ g \in Int /\ sz[f] \in Nat /\ sz[g] \in Nat
  BY InMemory
<1>2. f + 5 + sz[f] <= g \/ g + 5 + sz[g] <= f
  BY Apart
<1> QED
  BY <1>1, <1>2 DEF TagCells

LEMMA TagsInMemory ==
    ASSUME NEW T, NEW sz, Layout(T, sz), NEW f \in T
    PROVE  TagCells(f, sz[f]) \subseteq Address
BY InMemory, Cells DEF TagCells

LEMMA DataNotTags ==
    ASSUME NEW T, NEW sz, Layout(T, sz), NEW D, D \subseteq Address, Inside(D, T, sz),
           NEW f \in T
    PROVE  TagCells(f, sz[f]) \cap D = {}
<1>1. f \in Int /\ sz[f] \in Nat
  BY InMemory
<1>2. ASSUME NEW a \in D PROVE a \notin TagCells(f, sz[f])
  <2>1. a \in Int
    BY <1>2, Cells
  <2>2. a < f \/ f + 5 + sz[f] <= a \/ (f + 3 <= a /\ a < f + 3 + sz[f])
    BY DEF Inside, NoTag
  <2> QED
    BY <1>1, <2>1, <2>2 DEF TagCells
<1> QED
  BY <1>2

(* Writing one of the tags of f changes no other block and no data.        *)
LEMMA OneTag ==
    ASSUME NEW m, NEW T, NEW sz, NEW pv, NEW tg, NEW nx, NEW D,
           Tagged(m, T, sz, pv, tg, nx, D), NEW f \in T,
           NEW c \in TagCells(f, sz[f]), NEW m2 \in Memory,
           \A a \in Address : a # c => m2[a] = m[a]
    PROVE  /\ \A a \in TagCells(f, sz[f]) : a # c => m2[a] = m[a]
           /\ \A g \in T \ {f} : TagsAre(m2, g, sz[g], pv[g], tg[g], nx[g])
           /\ \A a \in D : m2[a] = Data
<1>0. /\ Layout(T, sz) /\ Inside(D, T, sz) /\ D \subseteq Address
      /\ m \in Memory /\ c \in Address
  BY TagsInMemory DEF Tagged
<1>1. \A a \in Address : a # c => m2[a] = m[a]
  OBVIOUS
<1>2. \A a \in TagCells(f, sz[f]) : a # c => m2[a] = m[a]
  BY <1>0, <1>1, TagsInMemory
<1>3. ASSUME NEW g \in T \ {f} PROVE TagsAre(m2, g, sz[g], pv[g], tg[g], nx[g])
  <2>1. TagsAre(m, g, sz[g], pv[g], tg[g], nx[g])
    BY DEF Tagged
  <2>2. TagCells(g, sz[g]) \subseteq Address /\ c \notin TagCells(g, sz[g])
    BY <1>0, TagsApart, TagsInMemory
  <2>3. \A a \in TagCells(g, sz[g]) : m2[a] = m[a]
    BY <1>1, <2>2
  <2> QED
    BY <2>1, <2>3 DEF TagCells, TagsAre
<1>4. \A a \in D : m2[a] = Data
  <2>1. c \notin D
    BY <1>0, DataNotTags
  <2> QED
    BY <1>0, <1>1, <2>1 DEF Tagged
<1> QED
  BY <1>1, <1>2, <1>3, <1>4

(* Writing prev, tag or next of one block.                                 *)
LEMMA SetPrev ==
    ASSUME NEW m, NEW T, NEW sz, NEW pv, NEW tg, NEW nx, NEW D,
           Tagged(m, T, sz, pv, tg, nx, D), NEW f \in T, NEW v \in Int
    PROVE  Tagged(SET_PREV_FRONT(m, f, v), T, sz, [pv EXCEPT ![f] = v], tg, nx, D)
<1>0. /\ Layout(T, sz) /\ Inside(D, T, sz) /\ D \subseteq Address
      /\ TagsAre(m, f, sz[f], pv[f], tg[f], nx[f]) /\ pv \in [T -> Int]
      /\ m \in Memory
  BY DEF Tagged
<1>1. f \in Int /\ sz[f] \in Nat
  BY <1>0, InMemory
<1>2. PICK c \in TagCells(f, sz[f]) : c = f
  BY <1>0, <1>1 DEF TagCells, TagsAre
<1>3. PICK m2 \in Memory : m2 = [m EXCEPT ![c] = v]
  BY <1>0, TagsInMemory DEF Memory
<1>3a. m2[c] = v /\ \A a \in Address : a # c => m2[a] = m[a]
  BY <1>0, <1>3, TagsInMemory DEF Memory
<1>4. /\ \A a \in TagCells(f, sz[f]) : a # c => m2[a] = m[a]
      /\ \A g \in T \ {f} : TagsAre(m2, g, sz[g], pv[g], tg[g], nx[g])
      /\ \A a \in D : m2[a] = Data
  BY <1>3a, OneTag
<1>5. TagsAre(m2, f, sz[f], v, tg[f], nx[f])
  BY <1>0, <1>1, <1>2, <1>3a, <1>4 DEF TagCells, TagsAre
<1>6. PICK new \in [T -> Int] : new = [pv EXCEPT ![f] = v]
  BY <1>0
<1>7. new[f] = v /\ \A g \in T \ {f} : new[g] = pv[g]
  BY <1>0, <1>6
<1>8. \A g \in T : TagsAre(m2, g, sz[g], new[g], tg[g], nx[g])
  BY <1>4, <1>5, <1>7
<1>9. Tagged(m2, T, sz, new, tg, nx, D)
  BY <1>0, <1>4, <1>8 DEF Tagged
<1> QED
  BY <1>2, <1>3, <1>6, <1>9 DEF SET_PREV_FRONT

LEMMA SetTag ==
    ASSUME NEW m, NEW T, NEW sz, NEW pv, NEW tg, NEW nx, NEW D,
           Tagged(m, T, sz, pv, tg, nx, D), NEW f \in T, NEW v \in Int
    PROVE  Tagged(SET_TAG_FRONT(m, f, v), T, sz, pv, [tg EXCEPT ![f] = v], nx, D)
<1>0. /\ Layout(T, sz) /\ Inside(D, T, sz) /\ D \subseteq Address
      /\ TagsAre(m, f, sz[f], pv[f], tg[f], nx[f]) /\ tg \in [T -> Int]
      /\ m \in Memory
  BY DEF Tagged
<1>1. f \in Int /\ sz[f] \in Nat
  BY <1>0, InMemory
<1>2. PICK c \in TagCells(f, sz[f]) : c = f + 1
  BY <1>0, <1>1 DEF TagCells, TagsAre
<1>3. PICK m2 \in Memory : m2 = [m EXCEPT ![c] = v]
  BY <1>0, TagsInMemory DEF Memory
<1>3a. m2[c] = v /\ \A a \in Address : a # c => m2[a] = m[a]
  BY <1>0, <1>3, TagsInMemory DEF Memory
<1>4. /\ \A a \in TagCells(f, sz[f]) : a # c => m2[a] = m[a]
      /\ \A g \in T \ {f} : TagsAre(m2, g, sz[g], pv[g], tg[g], nx[g])
      /\ \A a \in D : m2[a] = Data
  BY <1>3a, OneTag
<1>5. TagsAre(m2, f, sz[f], pv[f], v, nx[f])
  BY <1>0, <1>1, <1>2, <1>3a, <1>4 DEF TagCells, TagsAre
<1>6. PICK new \in [T -> Int] : new = [tg EXCEPT ![f] = v]
  BY <1>0
<1>7. new[f] = v /\ \A g \in T \ {f} : new[g] = tg[g]
  BY <1>0, <1>6
<1>8. \A g \in T : TagsAre(m2, g, sz[g], pv[g], new[g], nx[g])
  BY <1>4, <1>5, <1>7
<1>9. Tagged(m2, T, sz, pv, new, nx, D)
  BY <1>0, <1>4, <1>8 DEF Tagged
<1> QED
  BY <1>2, <1>3, <1>6, <1>9 DEF SET_TAG_FRONT

LEMMA SetNext ==
    ASSUME NEW m, NEW T, NEW sz, NEW pv, NEW tg, NEW nx, NEW D,
           Tagged(m, T, sz, pv, tg, nx, D), NEW f \in T, NEW v \in Int
    PROVE  Tagged(SET_NEXT_FRONT(m, f, v), T, sz, pv, tg, [nx EXCEPT ![f] = v], D)
<1>0. /\ Layout(T, sz) /\ Inside(D, T, sz) /\ D \subseteq Address
      /\ TagsAre(m, f, sz[f], pv[f], tg[f], nx[f]) /\ nx \in [T -> Int]
      /\ m \in Memory
  BY DEF Tagged
<1>1. f \in Int /\ sz[f] \in Nat
  BY <1>0, InMemory
<1>2. PICK c \in TagCells(f, sz[f]) : c = f + 4 + sz[f] /\ c = f + 3 + m[f + 2] + 1
  BY <1>0, <1>1 DEF TagCells, TagsAre
<1>3. PICK m2 \in Memory : m2 = [m EXCEPT ![c] = v]
  BY <1>0, TagsInMemory DEF Memory
<1>3a. m2[c] = v /\ \A a \in Address : a # c => m2[a] = m[a]
  BY <1>0, <1>3, TagsInMemory DEF Memory
<1>4. /\ \A a \in TagCells(f, sz[f]) : a # c => m2[a] = m[a]
      /\ \A g \in T \ {f} : TagsAre(m2, g, sz[g], pv[g], tg[g], nx[g])
      /\ \A a \in D : m2[a] = Data
  BY <1>3a, OneTag
<1>5. TagsAre(m2, f, sz[f], pv[f], tg[f], v)
  BY <1>0, <1>1, <1>2, <1>3a, <1>4 DEF TagCells, TagsAre
<1>6. PICK new \in [T -> Int] : new = [nx EXCEPT ![f] = v]
  BY <1>0
<1>7. new[f] = v /\ \A g \in T \ {f} : new[g] = nx[g]
  BY <1>0, <1>6
<1>8. \A g \in T : TagsAre(m2, g, sz[g], pv[g], tg[g], new[g])
  BY <1>4, <1>5, <1>7
<1>9. Tagged(m2, T, sz, pv, tg, new, D)
  BY <1>0, <1>4, <1>8 DEF Tagged
<1> QED
  BY <1>2, <1>3, <1>6, <1>9 DEF SET_NEXT_FRONT

(* What the macros read.                                                   *)
LEMMA Reads ==
    ASSUME NEW m, NEW T, NEW sz, NEW pv, NEW tg, NEW nx, NEW D,
           Tagged(m, T, sz, pv, tg, nx, D), NEW f \in T
    PROVE  /\ GET_PREV_FRONT(m, f) = pv[f] /\ GET_TAG_FRONT(m, f) = tg[f]
           /\ GET_SIZE_FRONT(m, f) = sz[f] /\ GET_NEXT_FRONT(m, f) = nx[f]
           /\ GET_BACK_FRONT(m, f) = f + 5 + sz[f]
<1>1. TagsAre(m, f, sz[f], pv[f], tg[f], nx[f]) /\ f \in Int /\ sz[f] \in Nat
  BY InMemory DEF Tagged
<1>2. /\ m[f] = pv[f] /\ m[f + 1] = tg[f] /\ m[f + 2] = sz[f]
      /\ m[f + 4 + sz[f]] = nx[f]
  BY <1>1 DEF TagsAre
<1>3. f + 3 + m[f + 2] + 1 = f + 4 + sz[f]
  BY <1>1, <1>2
<1>4. m[f + 3 + m[f + 2] + 1] = nx[f]
  BY <1>2, <1>3
<1> QED
  BY <1>2, <1>4
  DEF GET_PREV_FRONT, GET_TAG_FRONT, GET_SIZE_FRONT, GET_NEXT_FRONT, GET_BACK_FRONT

(* The left neighbour's size is right before a block.                      *)
LEMMA ReadsLeft ==
    ASSUME NEW m, NEW T, NEW sz, NEW pv, NEW tg, NEW nx, NEW D,
           Tagged(m, T, sz, pv, tg, nx, D), NEW f \in T, NEW g, g = f + 5 + sz[f]
    PROVE  GET_FRONT_BACK(m, g) = f
<1>1. TagsAre(m, f, sz[f], pv[f], tg[f], nx[f]) /\ f \in Int /\ sz[f] \in Nat
  BY InMemory DEF Tagged
<1>2. g - 2 = f + 3 + sz[f] /\ g - 5 - sz[f] = f
  BY <1>1
<1>3. m[g - 2] = sz[f]
  BY <1>1, <1>2 DEF TagsAre
<1> QED
  BY <1>2, <1>3 DEF GET_FRONT_BACK

(* Two blocks linked to each other; one linked between two.                *)
AddPrev(pv, l, p, r) == [pv EXCEPT ![p] = l, ![r] = p]
AddNext(nx, l, p, r) == [nx EXCEPT ![l] = p, ![p] = r]

LEMMA LinkTags ==
    ASSUME NEW m, NEW T, NEW sz, NEW pv, NEW tg, NEW nx, NEW D,
           Tagged(m, T, sz, pv, tg, nx, D), NEW l \in T, NEW r \in T
    PROVE  Tagged(Link(m, l, r), T, sz, [pv EXCEPT ![r] = l], tg, [nx EXCEPT ![l] = r], D)
<1>1. l \in Int /\ r \in Int
  BY InMemory DEF Tagged
<1>2. PICK m1 : m1 = SET_NEXT_FRONT(m, l, r)
  OBVIOUS
<1>3. PICK nx1 : nx1 = [nx EXCEPT ![l] = r]
  OBVIOUS
<1>4. Tagged(m1, T, sz, pv, tg, nx1, D)
  BY <1>1, <1>2, <1>3, SetNext
<1>5. Tagged(SET_PREV_FRONT(m1, r, l), T, sz, [pv EXCEPT ![r] = l], tg, nx1, D)
  BY <1>1, <1>4, SetPrev
<1> QED
  BY <1>2, <1>3, <1>5 DEF Link

LEMMA DelTags ==
    ASSUME NEW m, NEW T, NEW sz, NEW pv, NEW tg, NEW nx, NEW D,
           Tagged(m, T, sz, pv, tg, nx, D), NEW p \in T, pv[p] \in T, nx[p] \in T
    PROVE  Tagged(LIST_DEL(m, p), T, sz, [pv EXCEPT ![nx[p]] = pv[p]], tg,
                  [nx EXCEPT ![pv[p]] = nx[p]], D)
BY Reads, LinkTags DEF LIST_DEL

LEMMA AddTags ==
    ASSUME NEW m, NEW T, NEW sz, NEW pv, NEW tg, NEW nx, NEW D,
           Tagged(m, T, sz, pv, tg, nx, D), NEW l \in T, NEW p \in T, NEW r \in T
    PROVE  /\ Tagged(Link(Link(m, l, p), p, r), T, sz, AddPrev(pv, l, p, r), tg,
                     AddNext(nx, l, p, r), D)
           /\ p # l /\ p # r =>
                Tagged(Link(Link(m, p, r), l, p), T, sz, AddPrev(pv, l, p, r), tg,
                       AddNext(nx, l, p, r), D)
<1>1. PICK pv1, nx1 : pv1 = [pv EXCEPT ![p] = l] /\ nx1 = [nx EXCEPT ![l] = p]
  OBVIOUS
<1>2. Tagged(Link(m, l, p), T, sz, pv1, tg, nx1, D)
  BY <1>1, LinkTags
<1>3. Tagged(Link(Link(m, l, p), p, r), T, sz, [pv1 EXCEPT ![r] = p], tg,
             [nx1 EXCEPT ![p] = r], D)
  BY <1>2, LinkTags
<1>4. [pv1 EXCEPT ![r] = p] = AddPrev(pv, l, p, r) /\ [nx1 EXCEPT ![p] = r] = AddNext(nx, l, p, r)
  BY <1>1 DEF AddPrev, AddNext
<1>5. ASSUME p # l, p # r
      PROVE  Tagged(Link(Link(m, p, r), l, p), T, sz, AddPrev(pv, l, p, r), tg,
                    AddNext(nx, l, p, r), D)
  <2>1. PICK pv2, nx2 : pv2 = [pv EXCEPT ![r] = p] /\ nx2 = [nx EXCEPT ![p] = r]
    OBVIOUS
  <2>2. Tagged(Link(m, p, r), T, sz, pv2, tg, nx2, D)
    BY <2>1, LinkTags
  <2>3. Tagged(Link(Link(m, p, r), l, p), T, sz, [pv2 EXCEPT ![p] = l], tg,
               [nx2 EXCEPT ![l] = p], D)
    BY <2>2, LinkTags
  <2>4. pv \in [T -> Int] /\ nx \in [T -> Int]
    BY DEF Tagged
  <2>5. /\ [pv2 EXCEPT ![p] = l] = AddPrev(pv, l, p, r)
        /\ [nx2 EXCEPT ![l] = p] = AddNext(nx, l, p, r)
    BY <1>5, <2>1, <2>4 DEF AddPrev, AddNext
  <2> QED
    BY <2>3, <2>5
<1> QED
  BY <1>3, <1>4, <1>5

(* Less data, and more.                                                    *)
LEMMA LessData ==
    ASSUME NEW m, NEW T, NEW sz, NEW pv, NEW tg, NEW nx, NEW D,
           Tagged(m, T, sz, pv, tg, nx, D), NEW E, E \subseteq D
    PROVE  Tagged(m, T, sz, pv, tg, nx, E)
BY DEF Tagged, Inside

Filled(m, start, n) ==
    [a \in Address |-> IF a \in start .. start + n - 1 THEN Data ELSE m[a]]

LEMMA FillTags ==
    ASSUME NEW m, NEW T, NEW sz, NEW pv, NEW tg, NEW nx, NEW D,
           Tagged(m, T, sz, pv, tg, nx, D), NEW f \in T, NEW n \in Nat, n <= sz[f]
    PROVE  Tagged(Filled(m, f + 3, n), T, sz, pv, tg, nx, D \cup (f + 3 .. f + 3 + n - 1))
<1>0. /\ Layout(T, sz) /\ Inside(D, T, sz) /\ D \subseteq Address /\ m \in Memory
      /\ \A a \in D : m[a] = Data
  BY DEF Tagged
<1>1. f \in Int /\ sz[f] \in Nat /\ -5 <= f /\ f + 5 + sz[f] <= MEM_SIZE
  BY <1>0, InMemory
<1>2. PICK C : C = f + 3 .. f + 3 + n - 1
  OBVIOUS
<1>3. \A a : a \in C <=> a \in Int /\ f + 3 <= a /\ a < f + 3 + n
  BY <1>1, <1>2
<1>4. C \subseteq Address
  BY <1>1, <1>3, Cells
<1>5. Data \in Int
  BY Cells DEF Data
<1>6. PICK m2 \in Memory : m2 = [a \in Address |-> IF a \in C THEN Data ELSE m[a]]
  BY <1>0, <1>5 DEF Memory
<1>7. \A a \in Address : m2[a] = IF a \in C THEN Data ELSE m[a]
  BY <1>6
<1>8. ASSUME NEW g \in T PROVE TagsAre(m2, g, sz[g], pv[g], tg[g], nx[g])
  <2>1. g \in Int /\ sz[g] \in Nat /\ TagCells(g, sz[g]) \subseteq Address
    BY <1>0, InMemory, TagsInMemory
  <2>2. g = f \/ f + 5 + sz[f] <= g \/ g + 5 + sz[g] <= f
    BY <1>0, Apart
  <2>3. TagCells(g, sz[g]) \cap C = {}
    BY <1>1, <1>3, <2>1, <2>2 DEF TagCells
  <2>4. \A a \in TagCells(g, sz[g]) : m2[a] = m[a]
    BY <1>7, <2>1, <2>3
  <2>5. TagsAre(m, g, sz[g], pv[g], tg[g], nx[g])
    BY DEF Tagged
  <2> QED
    BY <2>4, <2>5 DEF TagCells, TagsAre
<1>9. \A a \in D \cup C : m2[a] = Data
  BY <1>0, <1>4, <1>7
<1>10. Inside(D \cup C, T, sz)
  <2>1. ASSUME NEW a \in C, NEW g \in T PROVE NoTag(a, g, sz[g])
    <3>1. g \in Int /\ sz[g] \in Nat
      BY <1>0, InMemory
    <3>2. g = f \/ f + 5 + sz[f] <= g \/ g + 5 + sz[g] <= f
      BY <1>0, Apart
    <3> QED
      BY <1>1, <1>3, <3>1, <3>2 DEF NoTag
  <2> QED
    BY <1>0, <2>1 DEF Inside
<1>11. Tagged(m2, T, sz, pv, tg, nx, D \cup C)
  BY <1>0, <1>4, <1>8, <1>9, <1>10 DEF Tagged
<1> QED
  BY <1>2, <1>6, <1>11 DEF Filled

-----------------------------------------------------------------------------
(* Blocks that grow and split.                                             *)

(* f takes in the blocks behind it up to the end of g.                     *)
Kept(T, f, g)        == {x \in T : x <= f \/ x > g}
GrownSize(sz, f, g)  == g + sz[g] - f
Grow(T, sz, f, g)    == [x \in Kept(T, f, g) |-> IF x = f THEN GrownSize(sz, f, g) ELSE sz[x]]
KeptTags(T, tags, f, g) == [x \in Kept(T, f, g) |-> tags[x]]
GrownNext(T, nx, f, g) == [x \in Kept(T, f, g) |-> IF x = f THEN nx[g] ELSE nx[x]]

LEMMA GrownLayout ==
    ASSUME NEW T, NEW sz, Layout(T, sz), NEW f \in T, NEW g \in T,
           f # FREE_LIST_HEAD, f < g
    PROVE  Layout(Kept(T, f, g), Grow(T, sz, f, g))
<1> DEFINE T2 == Kept(T, f, g)
<1>1. /\ T \subseteq Address /\ \A x \in T : x \in Int /\ sz[x] \in Nat
      /\ FREE_LIST_HEAD \in T /\ 0 \in T /\ sz[FREE_LIST_HEAD] = 0
      /\ \A x \in T : x # FREE_LIST_HEAD => sz[x] > 0
      /\ \A x, y \in T : x < y => x + 5 + sz[x] <= y
      /\ \A x \in T : x + 5 + sz[x] \in T \cup {MEM_SIZE} /\ x <= MEM_SIZE
      /\ FREE_LIST_HEAD = -5 /\ MEM_SIZE \in Nat
  BY Cells, InMemory DEF Layout
<1>2. \A x : x \in T2 <=> x \in T /\ (x <= f \/ x > g)
  BY DEF Kept
<1>3. PICK n \in Int : n = GrownSize(sz, f, g)
  BY <1>1 DEF GrownSize
<1>4. /\ n \in Nat /\ n > 0 /\ f + 5 + n = g + 5 + sz[g] /\ f + 5 + sz[f] <= g
  BY <1>1, <1>3 DEF GrownSize
<1>5. f >= 0
  BY <1>1, InMemory
<1>6. PICK sz2 : sz2 = [x \in T2 |-> IF x = f THEN n ELSE sz[x]]
  OBVIOUS
<1>7. sz2 = Grow(T, sz, f, g)
  BY <1>3, <1>6 DEF Grow
<1> HIDE DEF T2
<1>8. f \in T2 /\ sz2[f] = n /\ \A x \in T2 : x # f => sz2[x] = sz[x]
  BY <1>1, <1>2, <1>6
<1>9. sz2 \in [T2 -> Nat]
  BY <1>1, <1>2, <1>4, <1>6
<1>10. {FREE_LIST_HEAD, 0} \subseteq T2 /\ T2 \subseteq Address /\ sz2[FREE_LIST_HEAD] = 0
  BY <1>1, <1>2, <1>5, <1>8
<1>11. \A x \in T2 : x # FREE_LIST_HEAD => sz2[x] > 0
  BY <1>1, <1>2, <1>4, <1>8
<1>12. ASSUME NEW x \in T2 PROVE x + 5 + sz2[x] \in T2 \cup {MEM_SIZE}
  <2>1. x \in T /\ sz[x] \in Nat /\ x \in Int /\ x + 5 + sz[x] \in T \cup {MEM_SIZE}
    BY <1>1, <1>2
  <2>2. CASE x = f
    <3>1. g + 5 + sz[g] \in T \cup {MEM_SIZE} /\ g + 5 + sz[g] > g
      BY <1>1
    <3>2. g + 5 + sz[g] \in T2 \cup {MEM_SIZE}
      BY <1>2, <3>1
    <3> QED
      BY <1>4, <1>8, <2>2, <3>2
  <2>3. CASE x # f
    <3>1. x < f \/ x > g
      BY <1>2, <2>1, <2>3
    <3>2. x + 5 + sz[x] <= f \/ x + 5 + sz[x] > g
      BY <1>1, <2>1, <3>1
    <3>3. x + 5 + sz[x] \in T2 \cup {MEM_SIZE}
      BY <1>2, <2>1, <3>2
    <3> QED
      BY <1>8, <2>3, <3>3
  <2> QED
    BY <2>2, <2>3
<1>13. ASSUME NEW x \in T2, NEW y \in T2, x < y PROVE x + 5 + sz2[x] <= y
  BY <1>1, <1>2, <1>4, <1>8, <1>13
<1>14. ASSUME NEW y \in T2, y # FREE_LIST_HEAD PROVE \E x \in T2 : x + 5 + sz2[x] = y
  <2>1. PICK x \in T : x + 5 + sz[x] = y
    BY <1>2, <1>14 DEF Layout
  <2>1a. x \in Int /\ y \in Int /\ (y <= f \/ y > g)
    BY <1>1, <1>2
  <2>2. CASE x \in T2 /\ x # f
    BY <1>8, <2>1, <2>2
  <2>3. CASE x = f
    <3>1. y > f /\ y <= g
      BY <1>1, <1>4, <2>1, <2>3
    <3> QED
      BY <1>1, <2>1a, <3>1
  <2>4. CASE x \notin T2
    <3>1. f < x /\ x <= g /\ y > x
      BY <1>1, <1>2, <2>1, <2>1a, <2>4
    <3>2. y > g
      BY <1>1, <2>1a, <3>1
    <3>3. x = g
      BY <1>1, <2>1, <3>1, <3>2
    <3> QED
      BY <1>4, <1>8, <2>1, <3>3
  <2> QED
    BY <2>2, <2>3, <2>4
<1>15. Layout(T2, sz2)
  BY <1>9, <1>10, <1>11, <1>12, <1>13, <1>14 DEF Layout
<1> QED
  BY <1>7, <1>15 DEF T2

(* No cell of D is between the front of f and the end of g.                *)
Unwritten(D, sz, f, g) == \A a \in D : a < f \/ g + TAGS + sz[g] <= a

(* Writing f's new size.                                                   *)
LEMMA GrowTags ==
    ASSUME NEW m, NEW T, NEW sz, NEW pv, NEW tg, NEW nx, NEW D,
           Tagged(m, T, sz, pv, tg, nx, D), NEW f \in T, NEW g \in T,
           f # FREE_LIST_HEAD, f < g, Unwritten(D, sz, f, g)
    PROVE  Tagged(SET_SIZE_FRONT(m, f, GrownSize(sz, f, g)), Kept(T, f, g), Grow(T, sz, f, g),
                  KeptTags(T, pv, f, g), KeptTags(T, tg, f, g), GrownNext(T, nx, f, g), D)
<1>0. /\ Layout(T, sz) /\ Inside(D, T, sz) /\ D \subseteq Address /\ m \in Memory
      /\ \A a \in D : m[a] = Data
      /\ pv \in [T -> Int] /\ tg \in [T -> Int] /\ nx \in [T -> Int]
      /\ TagsAre(m, f, sz[f], pv[f], tg[f], nx[f]) /\ TagsAre(m, g, sz[g], pv[g], tg[g], nx[g])
  BY DEF Tagged
<1>1. /\ f \in Int /\ sz[f] \in Nat /\ f + 5 + sz[f] <= g
      /\ g \in Int /\ sz[g] \in Nat /\ g + 5 + sz[g] <= MEM_SIZE /\ f >= -5
  BY <1>0, InMemory, Apart
<1>2. PICK n \in Nat : n = GrownSize(sz, f, g) /\ f + 5 + n = g + 5 + sz[g]
  BY <1>1 DEF GrownSize
<1>3. PICK c \in Int, d \in Int : /\ c = f + 2 /\ d = g + 3 + sz[g] /\ d = f + 3 + n
                                  /\ c # d
  BY <1>1, <1>2
<1>4. c \in TagCells(f, sz[f]) /\ d \in TagCells(g, sz[g])
  BY <1>3 DEF TagCells
<1>5. c \in Address /\ d \in Address
  BY <1>0, <1>4, TagsInMemory
<1>5a. PICK m1 \in Memory : m1 = [m EXCEPT ![c] = n]
  <2>1. n \in Int
    BY <1>2
  <2> QED
    BY <1>0, <1>5, <2>1 DEF Memory
<1>6. PICK m2 \in Memory : m2 = [m1 EXCEPT ![d] = n]
  <2>1. n \in Int
    BY <1>2
  <2> QED
    BY <1>5, <1>5a, <2>1 DEF Memory
<1>7. m2 = SET_SIZE_FRONT(m, f, n)
  BY <1>3, <1>5a, <1>6 DEF SET_SIZE_FRONT
<1>8. m2[c] = n /\ m2[d] = n /\ \A a \in Address : a # c /\ a # d => m2[a] = m[a]
  BY <1>0, <1>3, <1>5, <1>5a, <1>6 DEF Memory
<1>9. TagsAre(m2, f, n, pv[f], tg[f], nx[g])
  <2>1. /\ f \in Address /\ f + 1 \in Address /\ g + 4 + sz[g] \in Address
        /\ f # c /\ f + 1 # c /\ g + 4 + sz[g] # c /\ f # d /\ f + 1 # d /\ g + 4 + sz[g] # d
        /\ f + 4 + n = g + 4 + sz[g]
    BY <1>1, <1>2, <1>3, Cells
  <2>2. m[f] = pv[f] /\ m[f + 1] = tg[f] /\ m[g + 4 + sz[g]] = nx[g]
    BY <1>0 DEF TagsAre
  <2>3. m2[f] = pv[f] /\ m2[f + 1] = tg[f] /\ m2[f + 4 + n] = nx[g]
    BY <1>8, <2>1, <2>2
  <2> QED
    BY <1>3, <1>8, <2>3 DEF TagsAre
<1>10. ASSUME NEW x \in T, x # f, x # g PROVE TagsAre(m2, x, sz[x], pv[x], tg[x], nx[x])
  <2>1. TagCells(x, sz[x]) \subseteq Address
    BY <1>0, TagsInMemory
  <2>2. c \notin TagCells(x, sz[x]) /\ d \notin TagCells(x, sz[x])
    BY <1>0, <1>4, <1>10, TagsApart
  <2>3. \A a \in TagCells(x, sz[x]) : m2[a] = m[a]
    BY <1>8, <2>1, <2>2
  <2>4. TagsAre(m, x, sz[x], pv[x], tg[x], nx[x])
    BY DEF Tagged
  <2> QED
    BY <2>3, <2>4 DEF TagCells, TagsAre
<1>11. \A a \in D : m2[a] = Data
  <2>1. c \notin D /\ d \notin D
    BY <1>0, <1>4, DataNotTags
  <2> QED
    BY <1>0, <1>8, <2>1
<1>12. PICK T2 : T2 = Kept(T, f, g)
  OBVIOUS
<1>13. T2 \subseteq T /\ f \in T2 /\ g \notin T2
  BY <1>1, <1>12 DEF Kept
<1>14. PICK sz2, pv2, tg2, nx2 :
         /\ sz2 = Grow(T, sz, f, g) /\ pv2 = KeptTags(T, pv, f, g)
         /\ tg2 = KeptTags(T, tg, f, g) /\ nx2 = GrownNext(T, nx, f, g)
  OBVIOUS
<1>15. /\ pv2 \in [T2 -> Int] /\ tg2 \in [T2 -> Int] /\ nx2 \in [T2 -> Int]
       /\ sz2[f] = n /\ pv2[f] = pv[f] /\ tg2[f] = tg[f] /\ nx2[f] = nx[g]
       /\ \A x \in T2 : x # f => /\ sz2[x] = sz[x] /\ pv2[x] = pv[x]
                                 /\ tg2[x] = tg[x] /\ nx2[x] = nx[x]
  BY <1>0, <1>2, <1>12, <1>13, <1>14 DEF Grow, KeptTags, GrownNext
<1>16. \A x \in T2 : TagsAre(m2, x, sz2[x], pv2[x], tg2[x], nx2[x])
  BY <1>9, <1>10, <1>13, <1>15
<1>17. Layout(T2, sz2)
  BY <1>0, <1>12, <1>14, GrownLayout
<1>18. Inside(D, T2, sz2)
  <2>1. \A a \in D : a < f \/ f + 5 + n <= a
    BY <1>2 DEF Unwritten
  <2>2. \A a \in D : NoTag(a, f, n)
    BY <2>1 DEF NoTag
  <2> QED
    BY <1>0, <1>13, <1>15, <2>2 DEF Inside
<1>19. Tagged(m2, T2, sz2, pv2, tg2, nx2, D)
  BY <1>0, <1>11, <1>15, <1>16, <1>17, <1>18 DEF Tagged
<1> QED
  BY <1>2, <1>7, <1>12, <1>14, <1>19

-----------------------------------------------------------------------------
(* The ring, in the direction its order grows: fw leads from a block to    *)
(* the next, bk back, and rank numbers the blocks along fw.                *)

Anchored(R) == R \cup {FREE_LIST_HEAD}

Ranked(R, bk, fw, rank) ==
    /\ R \subseteq Address /\ FREE_LIST_HEAD \notin R /\ rank \in [Address -> Int]
    /\ \A x \in Anchored(R) : fw[x] \in Anchored(R) /\ bk[x] \in Anchored(R)
    /\ \A x \in Anchored(R) : bk[fw[x]] = x /\ fw[bk[x]] = x
    /\ \A x \in R : rank[FREE_LIST_HEAD] < rank[x]
    /\ \A x, y \in R : rank[x] = rank[y] => x = y
    /\ \A x \in Anchored(R) : fw[x] \in R => rank[x] < rank[fw[x]]
    /\ \A x \in Anchored(R), y \in R :
           rank[x] < rank[y] => fw[x] \in R /\ rank[fw[x]] <= rank[y]

LEMMA Ranks ==
    ASSUME NEW R, NEW bk, NEW fw, NEW rank, Ranked(R, bk, fw, rank)
    PROVE  /\ R \subseteq Anchored(R) /\ FREE_LIST_HEAD \in Anchored(R)
           /\ \A x \in Anchored(R) : x \in Address /\ rank[x] \in Int
           /\ \A x \in Anchored(R) : x \in R \/ x = FREE_LIST_HEAD
           /\ \A x, y \in Anchored(R) : rank[x] = rank[y] => x = y
           /\ \A x \in R : rank[FREE_LIST_HEAD] < rank[x]
<1>1. R \subseteq Address /\ FREE_LIST_HEAD \in Address
  BY Cells DEF Ranked
<1>2. \A x \in Anchored(R) : x \in Address /\ rank[x] \in Int
  BY <1>1 DEF Ranked, Anchored
<1>3. \A x \in Anchored(R) : x \in R \/ x = FREE_LIST_HEAD
  BY DEF Anchored
<1>4. ASSUME NEW x \in Anchored(R), NEW y \in Anchored(R), rank[x] = rank[y] PROVE x = y
  BY <1>2, <1>3, <1>4 DEF Ranked
<1> QED
  BY <1>2, <1>3, <1>4 DEF Ranked, Anchored

(* Only the links of the ring's blocks and of its anchor matter.           *)
LEMMA SameRing ==
    ASSUME NEW R, NEW bk, NEW fw, NEW rank, Ranked(R, bk, fw, rank), NEW bk2, NEW fw2,
           \A x \in Anchored(R) : bk2[x] = bk[x] /\ fw2[x] = fw[x]
    PROVE  Ranked(R, bk2, fw2, rank)
BY DEF Ranked

(* The last one is linked to the anchor.                                   *)
LEMMA LastRank ==
    ASSUME NEW R, NEW bk, NEW fw, NEW rank, Ranked(R, bk, fw, rank)
    PROVE  \A x \in Anchored(R) : rank[x] <= rank[bk[FREE_LIST_HEAD]]
<1>1. bk[FREE_LIST_HEAD] \in Anchored(R) /\ fw[bk[FREE_LIST_HEAD]] = FREE_LIST_HEAD
  BY DEF Ranked, Anchored
<1>2. FREE_LIST_HEAD \notin R
  BY DEF Ranked
<1>3. \A x \in R : ~(rank[bk[FREE_LIST_HEAD]] < rank[x])
  BY <1>1, <1>2 DEF Ranked
<1>4. ASSUME NEW x \in Anchored(R) PROVE rank[x] <= rank[bk[FREE_LIST_HEAD]]
  BY <1>1, <1>3, Ranks
<1> QED
  BY <1>4

(* One taken out.                                                          *)
DelPrev(bk, fw, p) == [bk EXCEPT ![fw[p]] = bk[p]]
DelNext(bk, fw, p) == [fw EXCEPT ![bk[p]] = fw[p]]

LEMMA RingDel ==
    ASSUME NEW R, NEW bk, NEW fw, NEW rank, Ranked(R, bk, fw, rank), NEW p \in R,
           NEW bk2, NEW fw2,
           bk2[fw[p]] = bk[p], \A x \in Anchored(R) : x # fw[p] => bk2[x] = bk[x],
           fw2[bk[p]] = fw[p], \A x \in Anchored(R) : x # bk[p] => fw2[x] = fw[x]
    PROVE  Ranked(R \ {p}, bk2, fw2, rank)
<1> DEFINE Q == R \ {p}
<1>1. \A x : x \in Anchored(Q) <=> x \in Anchored(R) /\ x # p
  BY DEF Ranked, Anchored
<1>2. /\ p \in Anchored(R) /\ fw[p] \in Anchored(R) /\ bk[p] \in Anchored(R)
      /\ bk[fw[p]] = p /\ fw[bk[p]] = p
  BY Ranks DEF Ranked
<1>3. rank[bk[p]] < rank[p]
  BY <1>2 DEF Ranked
<1>4. bk[p] # p /\ fw[p] # p
  BY <1>2, <1>3, Ranks
<1>5. ASSUME NEW x \in Anchored(Q) PROVE fw2[x] \in Anchored(Q) /\ bk2[x] \in Anchored(Q)
  <2>1. x \in Anchored(R) /\ x # p /\ fw[x] \in Anchored(R) /\ bk[x] \in Anchored(R)
        /\ bk[fw[x]] = x /\ fw[bk[x]] = x
    BY <1>1 DEF Ranked
  <2>2. fw[x] = p => x = bk[p]
    BY <2>1
  <2>3. bk[x] = p => x = fw[p]
    BY <2>1
  <2> QED
    BY <1>1, <1>2, <1>4, <2>1, <2>2, <2>3
<1>6. ASSUME NEW x \in Anchored(Q) PROVE bk2[fw2[x]] = x /\ fw2[bk2[x]] = x
  <2>1. x \in Anchored(R) /\ x # p /\ fw[x] \in Anchored(R) /\ bk[x] \in Anchored(R)
        /\ bk[fw[x]] = x /\ fw[bk[x]] = x
    BY <1>1 DEF Ranked
  <2>2. x # bk[p] => fw[x] # fw[p]
    BY <1>2, <2>1
  <2>3. x # fw[p] => bk[x] # bk[p]
    BY <1>2, <2>1
  <2> QED
    BY <1>1, <1>2, <1>4, <2>1, <2>2, <2>3
<1>7. Q \subseteq Address /\ FREE_LIST_HEAD \notin Q /\ rank \in [Address -> Int]
  BY DEF Ranked
<1>8. \A x \in Q : rank[FREE_LIST_HEAD] < rank[x]
  BY DEF Ranked
<1>9. \A x, y \in Q : rank[x] = rank[y] => x = y
  BY DEF Ranked
<1>10. ASSUME NEW x \in Anchored(Q), fw2[x] \in Q PROVE rank[x] < rank[fw2[x]]
  <2>1. x \in Anchored(R) /\ x # p
    BY <1>1
  <2>2. CASE x = bk[p]
    <3>1. fw[p] \in R /\ rank[p] < rank[fw[p]]
      BY <1>2, <1>10, <2>2 DEF Ranked
    <3> QED
      BY <1>2, <1>3, <2>2, <3>1, Ranks
  <2>3. CASE x # bk[p]
    <3>1. fw[x] \in R /\ rank[x] < rank[fw[x]]
      BY <1>10, <2>1, <2>3 DEF Ranked
    <3> QED
      BY <2>1, <2>3, <3>1
  <2> QED
    BY <2>2, <2>3
<1>11. ASSUME NEW x \in Anchored(Q), NEW y \in Q, rank[x] < rank[y]
       PROVE  fw2[x] \in Q /\ rank[fw2[x]] <= rank[y]
  <2>1. x \in Anchored(R) /\ x # p /\ y \in R /\ y # p
    BY <1>1
  <2>2. fw[x] \in R /\ rank[fw[x]] <= rank[y]
    BY <1>11, <2>1 DEF Ranked
  <2>3. CASE x = bk[p]
    <3>1. rank[p] <= rank[y]
      BY <1>2, <2>2, <2>3
    <3>2. rank[p] # rank[y]
      BY <2>1 DEF Ranked
    <3>3. rank[p] < rank[y]
      BY <1>2, <2>1, <3>1, <3>2, Ranks
    <3>4. fw[p] \in R /\ rank[fw[p]] <= rank[y]
      BY <1>2, <2>1, <3>3 DEF Ranked
    <3> QED
      BY <1>4, <2>3, <3>4
  <2>4. CASE x # bk[p]
    <3>1. fw[x] # p
      BY <2>1, <2>4 DEF Ranked
    <3> QED
      BY <2>1, <2>2, <2>4, <3>1
  <2> QED
    BY <2>3, <2>4
<1> HIDE DEF Q
<1>12. Ranked(Q, bk2, fw2, rank)
  BY <1>5, <1>6, <1>7, <1>8, <1>9, <1>10, <1>11 DEF Ranked
<1> QED
  BY <1>12 DEF Q

(* One linked in between two neighbours.                                   *)
LEMMA RingAdd ==
    ASSUME NEW R, NEW bk, NEW fw, NEW rank, Ranked(R, bk, fw, rank),
           NEW p \in Address, p \notin Anchored(R), NEW l \in Anchored(R), NEW r, r = fw[l],
           NEW bk2, NEW fw2,
           bk2[p] = l, bk2[r] = p, \A x \in Anchored(R) : x # r => bk2[x] = bk[x],
           fw2[l] = p, fw2[p] = r, \A x \in Anchored(R) : x # l => fw2[x] = fw[x]
    PROVE  \E rank2 : /\ Ranked(R \cup {p}, bk2, fw2, rank2)
                      /\ \A x, y \in R : rank2[x] < rank2[y] <=> rank[x] < rank[y]
                      /\ \A x \in R : rank2[x] < rank2[p] <=> rank[x] <= rank[l]
                      /\ \A x \in R : rank2[p] < rank2[x] <=> rank[l] < rank[x]
<1> DEFINE Q == R \cup {p}
<1>1. \A x : x \in Anchored(Q) <=> x \in Anchored(R) \/ x = p
  BY DEF Anchored
<1>2. /\ r \in Anchored(R) /\ bk[r] = l /\ \A x \in Anchored(R) : rank[x] \in Int /\ x \in Address
      /\ R \subseteq Anchored(R)
  BY Ranks DEF Ranked
<1>3. PICK rank2 : rank2 = [x \in Address |-> IF x = p THEN 2 * rank[l] + 1 ELSE 2 * rank[x]]
  OBVIOUS
<1>4. rank2 \in [Address -> Int]
  <2>1. \A x \in Address : 2 * rank[x] \in Int
    BY DEF Ranked
  <2> QED
    BY <1>2, <1>3, <2>1
<1>5. rank2[p] = 2 * rank[l] + 1 /\ \A x \in Anchored(R) : rank2[x] = 2 * rank[x]
  BY <1>2, <1>3
<1>6. ASSUME NEW x \in Anchored(R), NEW y \in Anchored(R)
      PROVE  /\ rank2[x] < rank2[y] <=> rank[x] < rank[y]
             /\ rank2[x] <= rank2[y] <=> rank[x] <= rank[y]
             /\ rank2[x] = rank2[y] <=> rank[x] = rank[y]
             /\ rank2[x] < rank2[p] <=> rank[x] <= rank[l]
             /\ rank2[p] < rank2[x] <=> rank[l] < rank[x]
             /\ rank2[p] <= rank2[x] <=> rank[l] < rank[x]
             /\ rank2[p] # rank2[x]
  <2>1. rank[x] \in Int /\ rank[y] \in Int /\ rank[l] \in Int
    BY <1>2
  <2>2. rank2[x] = 2 * rank[x] /\ rank2[y] = 2 * rank[y] /\ rank2[p] = 2 * rank[l] + 1
    BY <1>5
  <2> QED
    BY <2>1, <2>2
<1>7. ASSUME NEW x \in Anchored(Q) PROVE fw2[x] \in Anchored(Q) /\ bk2[x] \in Anchored(Q)
  <2>1. l \in Anchored(Q) /\ r \in Anchored(Q) /\ p \in Anchored(Q)
    BY <1>1, <1>2
  <2>2. CASE x = p
    BY <2>1, <2>2
  <2>3. CASE x # p
    <3>1. x \in Anchored(R) /\ fw[x] \in Anchored(Q) /\ bk[x] \in Anchored(Q)
      BY <1>1, <2>3 DEF Ranked
    <3>2. fw2[x] = fw[x] \/ fw2[x] = p
      BY <3>1
    <3>3. bk2[x] = bk[x] \/ bk2[x] = p
      BY <3>1
    <3> QED
      BY <2>1, <3>1, <3>2, <3>3
  <2> QED
    BY <2>2, <2>3
<1>8. ASSUME NEW x \in Anchored(Q) PROVE bk2[fw2[x]] = x /\ fw2[bk2[x]] = x
  <2>1. CASE x = p
    BY <2>1
  <2>2. CASE x # p
    <3>1. x \in Anchored(R) /\ fw[x] \in Anchored(R) /\ bk[x] \in Anchored(R)
          /\ bk[fw[x]] = x /\ fw[bk[x]] = x
      BY <1>1, <2>2 DEF Ranked
    <3>2. x # l => fw[x] # r
      BY <1>2, <3>1
    <3>3. x # r => bk[x] # l
      BY <3>1
    <3> QED
      BY <1>2, <3>1, <3>2, <3>3
  <2> QED
    BY <2>1, <2>2
<1>9. Q \subseteq Address /\ FREE_LIST_HEAD \notin Q
  BY DEF Ranked, Anchored
<1>10. ASSUME NEW x \in Q PROVE rank2[FREE_LIST_HEAD] < rank2[x]
  <2>1. FREE_LIST_HEAD \in Anchored(R) /\ rank[FREE_LIST_HEAD] <= rank[l]
    BY <1>2, Ranks
  <2>2. CASE x = p
    BY <1>6, <2>1, <2>2
  <2>3. CASE x \in R
    BY <1>2, <1>6, <2>1, <2>3 DEF Ranked
  <2> QED
    BY <2>2, <2>3
<1>11. ASSUME NEW x \in Q, NEW y \in Q, rank2[x] = rank2[y] PROVE x = y
  <2>1. CASE x = p \/ y = p
    BY <1>2, <1>6, <1>11, <2>1
  <2>2. CASE x \in R /\ y \in R
    BY <1>2, <1>6, <1>11, <2>2 DEF Ranked
  <2> QED
    BY <2>1, <2>2
<1>12. ASSUME NEW x \in Anchored(Q), fw2[x] \in Q PROVE rank2[x] < rank2[fw2[x]]
  <2>1. CASE x = l
    BY <1>2, <1>6, <2>1
  <2>2. CASE x = p
    <3>1. r \in Q /\ r # p
      BY <1>2, <1>12, <2>2
    <3>2. r \in R /\ rank[l] < rank[r]
      BY <3>1 DEF Ranked
    <3> QED
      BY <1>2, <1>6, <2>2, <3>2
  <2>3. CASE x # l /\ x # p
    <3>1. x \in Anchored(R) /\ fw2[x] = fw[x] /\ fw[x] \in Anchored(R)
      BY <1>1, <2>3 DEF Ranked
    <3>2. fw[x] \in R
      BY <1>12, <3>1
    <3>3. rank[x] < rank[fw[x]]
      BY <3>1, <3>2 DEF Ranked
    <3> QED
      BY <1>6, <3>1, <3>3
  <2> QED
    BY <2>1, <2>2, <2>3
<1>13. ASSUME NEW x \in Anchored(Q), NEW y \in Q, rank2[x] < rank2[y]
       PROVE  fw2[x] \in Q /\ rank2[fw2[x]] <= rank2[y]
  <2>0. rank2[p] \in Int
    BY <1>4
  <2>1. CASE x = l
    <3>1. CASE y = p
      BY <2>0, <2>1, <3>1
    <3>2. CASE y \in R
      <4>1. rank[l] < rank[y]
        BY <1>2, <1>6, <1>13, <2>1, <3>2
      <4> QED
        BY <1>2, <1>6, <2>1, <3>2, <4>1
    <3> QED
      BY <3>1, <3>2
  <2>2. CASE x = p
    <3>1. y \in R
      BY <1>13, <2>0, <2>2
    <3>2. rank[l] < rank[y]
      BY <1>2, <1>6, <1>13, <2>2, <3>1
    <3>3. r \in R /\ rank[r] <= rank[y]
      BY <3>1, <3>2 DEF Ranked
    <3> QED
      BY <1>2, <1>6, <2>2, <3>1, <3>3
  <2>3. CASE x # l /\ x # p
    <3>1. x \in Anchored(R) /\ fw2[x] = fw[x] /\ fw[x] \in Anchored(R)
      BY <1>1, <2>3 DEF Ranked
    <3>2. CASE y = p
      <4>1. rank[x] <= rank[l]
        BY <1>6, <1>13, <3>1, <3>2
      <4>2. rank[x] < rank[l]
        BY <1>2, <2>3, <3>1, <4>1, Ranks
      <4>3. l \in R
        BY <1>2, <3>1, <4>2, Ranks
      <4>4. fw[x] \in R /\ rank[fw[x]] <= rank[l]
        BY <3>1, <4>2, <4>3 DEF Ranked
      <4>5. rank2[fw[x]] < rank2[p]
        BY <1>2, <1>6, <4>4
      <4>6. rank2[fw[x]] \in Int
        BY <1>2, <1>4, <4>4
      <4> QED
        BY <2>0, <3>1, <3>2, <4>4, <4>5, <4>6
    <3>3. CASE y \in R
      <4>1. rank[x] < rank[y]
        BY <1>2, <1>6, <1>13, <3>1, <3>3
      <4>2. fw[x] \in R /\ rank[fw[x]] <= rank[y]
        BY <3>1, <3>3, <4>1 DEF Ranked
      <4> QED
        BY <1>2, <1>6, <3>1, <3>3, <4>2
    <3> QED
      BY <3>2, <3>3
  <2> QED
    BY <2>1, <2>2, <2>3
<1> HIDE DEF Q
<1>14. Ranked(Q, bk2, fw2, rank2)
  BY <1>4, <1>7, <1>8, <1>9, <1>10, <1>11, <1>12, <1>13 DEF Ranked
<1>15. \A x \in R : rank2[x] < rank2[p] <=> rank[x] <= rank[l]
  BY <1>2, <1>6
<1>16. \A x \in R : rank2[p] < rank2[x] <=> rank[l] < rank[x]
  BY <1>2, <1>6
<1>17. \A x, y \in R : rank2[x] < rank2[y] <=> rank[x] < rank[y]
  BY <1>2, <1>6
<1> QED
  BY <1>14, <1>15, <1>16, <1>17 DEF Q

(* The ring the other way round.                                           *)
LEMMA RingBack ==
    ASSUME NEW R, NEW bk, NEW fw, NEW rank, Ranked(R, bk, fw, rank)
    PROVE  \E rank2 : /\ Ranked(R, fw, bk, rank2)
                      /\ \A x, y \in R : rank2[x] < rank2[y] <=> rank[y] < rank[x]
<1> DEFINE last == bk[FREE_LIST_HEAD]
<1>1. /\ R \subseteq Anchored(R) /\ FREE_LIST_HEAD \in Anchored(R) /\ FREE_LIST_HEAD \notin R
      /\ \A x \in Anchored(R) : x \in Address /\ rank[x] \in Int
      /\ \A x \in Anchored(R) : x \in R \/ x = FREE_LIST_HEAD
  BY Ranks DEF Ranked
<1>2. last \in Anchored(R) /\ fw[last] = FREE_LIST_HEAD /\ \A x \in Anchored(R) : rank[x] <= rank[last]
  BY <1>1, LastRank DEF Ranked
<1> HIDE DEF last
<1>3. PICK rank2 : rank2 = [x \in Address |-> IF x = FREE_LIST_HEAD THEN -rank[last] - 1 ELSE -rank[x]]
  OBVIOUS
<1>4. rank2 \in [Address -> Int]
  <2>1. \A x \in Address : -rank[x] \in Int
    BY DEF Ranked
  <2>2. -rank[last] - 1 \in Int
    BY <1>1, <1>2
  <2> QED
    BY <1>3, <2>1, <2>2
<1>5. rank2[FREE_LIST_HEAD] = -rank[last] - 1 /\ \A x \in R : rank2[x] = -rank[x]
  BY <1>1, <1>3
<1>6. ASSUME NEW x \in R, NEW y \in R
      PROVE  /\ rank2[x] < rank2[y] <=> rank[y] < rank[x]
             /\ rank2[x] <= rank2[y] <=> rank[y] <= rank[x]
             /\ rank2[x] = rank2[y] <=> rank[x] = rank[y]
             /\ rank2[FREE_LIST_HEAD] < rank2[x]
  <2>1. /\ rank[x] \in Int /\ rank[y] \in Int /\ rank[last] \in Int
        /\ rank[x] <= rank[last]
    BY <1>1, <1>2
  <2>2. rank2[x] = -rank[x] /\ rank2[y] = -rank[y]
    BY <1>5
  <2> QED
    BY <1>5, <2>1, <2>2
<1>7. ASSUME NEW x \in Anchored(R), bk[x] \in R PROVE rank2[x] < rank2[bk[x]]
  <2>1. CASE x = FREE_LIST_HEAD
    BY <1>6, <1>7, <2>1
  <2>2. CASE x \in R
    <3>1. bk[x] \in Anchored(R) /\ fw[bk[x]] = x
      BY <1>1, <2>2 DEF Ranked
    <3>2. rank[bk[x]] < rank[x]
      BY <2>2, <3>1 DEF Ranked
    <3> QED
      BY <1>6, <1>7, <2>2, <3>2
  <2> QED
    BY <1>1, <2>1, <2>2
<1>8. ASSUME NEW x \in Anchored(R), NEW y \in R, rank2[x] < rank2[y]
      PROVE  bk[x] \in R /\ rank2[bk[x]] <= rank2[y]
  <2>1. CASE x = FREE_LIST_HEAD
    <3>1. bk[x] = last /\ rank[y] <= rank[last]
      BY <1>1, <1>2, <2>1 DEF last
    <3>2. last # FREE_LIST_HEAD
      <4>1. rank[FREE_LIST_HEAD] < rank[y]
        BY Ranks
      <4> QED
        BY <1>1, <3>1, <4>1
    <3>3. last \in R
      BY <1>1, <1>2, <3>2
    <3> QED
      BY <1>6, <3>1, <3>3
  <2>2. CASE x \in R
    <3>1. rank[y] < rank[x]
      BY <1>6, <1>8, <2>2
    <3>2. bk[x] \in Anchored(R) /\ fw[bk[x]] = x
      BY <1>1, <2>2 DEF Ranked
    <3>3. ~(rank[bk[x]] < rank[y])
      <4>1. rank[bk[x]] < rank[y] => rank[x] <= rank[y]
        BY <3>2 DEF Ranked
      <4> QED
        BY <1>1, <2>2, <3>1, <4>1
    <3>4. bk[x] # FREE_LIST_HEAD
      BY <3>3, Ranks
    <3>5. bk[x] \in R /\ rank[y] <= rank[bk[x]]
      BY <1>1, <3>2, <3>3, <3>4
    <3> QED
      BY <1>6, <3>5
  <2> QED
    BY <1>1, <2>1, <2>2
<1>9. \A x, y \in R : rank2[x] = rank2[y] => x = y
  BY <1>6 DEF Ranked
<1>10. Ranked(R, fw, bk, rank2)
  BY <1>1, <1>4, <1>6, <1>7, <1>8, <1>9 DEF Ranked
<1> QED
  BY <1>6, <1>10

-----------------------------------------------------------------------------
(* LIST_FOR_EACH.                                                          *)

(* w goes along the ring from the block behind `before' and stays at the   *)
(* anchor and at blocks of F.                                              *)
WalksOn(w, R, fw, before, F) ==
    /\ w \in [0 .. MaxBlocks -> Anchored(R)] /\ w[0] = fw[before]
    /\ \A k \in 0 .. MaxBlocks - 1 :
           w[k + 1] = IF w[k] = FREE_LIST_HEAD \/ w[k] \in F THEN w[k] ELSE fw[w[k]]

LEMMA WalkStays ==
    ASSUME NEW w, NEW R, NEW fw, NEW before, NEW F, WalksOn(w, R, fw, before, F),
           NEW k \in 0 .. MaxBlocks, w[k] = FREE_LIST_HEAD \/ w[k] \in F
    PROVE  \A j \in k .. MaxBlocks : w[j] = w[k]
<1> DEFINE G == {j \in 0 .. MaxBlocks : j < k \/ w[j] = w[k]}
<1>1. MaxBlocks \in Nat
  BY MaxBlocksNat
<1>2. 0 \in G
  BY <1>1
<1>3. ASSUME NEW j \in 0 .. MaxBlocks - 1, j \in G PROVE j + 1 \in G
  <2>1. j + 1 \in 0 .. MaxBlocks
    BY <1>1
  <2>2. CASE j + 1 < k \/ j + 1 = k
    BY <2>1, <2>2
  <2>3. CASE w[j] = w[k]
    BY <2>1, <2>3 DEF WalksOn
  <2> QED
    BY <1>3, <2>2, <2>3
<1>4. 0 .. MaxBlocks \subseteq G
  <2> HIDE DEF G
  <2> QED
    BY <1>1, <1>2, <1>3, UpTo
<1> QED
  BY <1>1, <1>4

(* Blocks are at least six cells apart, so there are too few of them for a *)
(* walk that goes on to the end.                                           *)
LEMMA Numbers ==
    ASSUME NEW T, NEW sz, Layout(T, sz), NEW R, R \subseteq T \ {FREE_LIST_HEAD}
    PROVE  /\ \A x \in R : x \div 6 \in 0 .. MaxBlocks - 2
           /\ \A x, y \in R : x \div 6 = y \div 6 => x = y
<1>1. ASSUME NEW x \in R PROVE x \in Nat /\ x + 6 <= MEM_SIZE /\ sz[x] \in Nat /\ sz[x] > 0
  <2>1. x \in Int /\ sz[x] \in Nat /\ x + 5 + sz[x] <= MEM_SIZE /\ sz[x] > 0
    BY InMemory DEF Layout
  <2>2. x >= 0
    <3>1. FREE_LIST_HEAD \in T /\ FREE_LIST_HEAD = -5 /\ sz[FREE_LIST_HEAD] = 0 /\ x # FREE_LIST_HEAD
      BY Cells DEF Layout
    <3>2. -5 + 5 + 0 <= x \/ x + 5 + sz[x] <= -5
      BY <3>1, Apart
    <3>3. -5 <= x
      BY InMemory
    <3> QED
      BY <2>1, <3>2, <3>3
  <2>3. MEM_SIZE \in Nat
    BY Cells
  <2> QED
    BY <2>1, <2>2, <2>3
<1>2. \A x \in R : x \div 6 \in 0 .. MaxBlocks - 2
  <2>1. MEM_SIZE \in Nat
    BY Cells
  <2>2. MaxBlocks = MEM_SIZE \div 6 + 1
    BY DEF MaxBlocks
  <2>3. ASSUME NEW x \in R PROVE x \div 6 \in 0 .. MaxBlocks - 2
    <3>1. x \in Nat /\ x + 6 <= MEM_SIZE
      BY <1>1
    <3>2. x \div 6 \in Nat /\ 6 * (x \div 6) <= x
      BY <3>1
    <3>3. MEM_SIZE \div 6 \in Nat /\ MEM_SIZE < 6 * (MEM_SIZE \div 6) + 6
      BY <2>1
    <3>4. x \div 6 < MEM_SIZE \div 6
      BY <2>1, <3>1, <3>2, <3>3
    <3> QED
      BY <2>2, <3>2, <3>3, <3>4
  <2> QED
    BY <2>3
<1>3. ASSUME NEW x \in R, NEW y \in R, x \div 6 = y \div 6 PROVE x = y
  <2>1. /\ x \in Nat /\ y \in Nat /\ sz[x] \in Nat /\ sz[x] > 0 /\ sz[y] \in Nat /\ sz[y] > 0
    BY <1>1
  <2>2. x = y \/ x + 6 <= y \/ y + 6 <= x
    BY <2>1, Apart
  <2> QED
    BY <1>3, <2>1, <2>2
<1> QED
  BY <1>2, <1>3

LEMMA WalkEnds ==
    ASSUME NEW T, NEW sz, Layout(T, sz), NEW R, R \subseteq T \ {FREE_LIST_HEAD},
           NEW bk, NEW fw, NEW rank, Ranked(R, bk, fw, rank), NEW F,
           NEW before \in Anchored(R), NEW w, WalksOn(w, R, fw, before, F)
    PROVE  w[MaxBlocks] = FREE_LIST_HEAD \/ w[MaxBlocks] \in F
<1> SUFFICES ASSUME w[MaxBlocks] # FREE_LIST_HEAD, w[MaxBlocks] \notin F PROVE FALSE
  OBVIOUS
<1>1. MaxBlocks \in Nat /\ MaxBlocks > 0
  BY MaxBlocksNat
<1>2. \A k \in 0 .. MaxBlocks : w[k] \in Anchored(R)
  BY DEF WalksOn
<1>3. ASSUME NEW k \in 0 .. MaxBlocks PROVE w[k] \in R /\ w[k] \notin F
  <2>1. w[k] # FREE_LIST_HEAD /\ w[k] \notin F
    BY <1>1, WalkStays
  <2> QED
    BY <1>2, <2>1, Ranks
<1>4. ASSUME NEW k \in 0 .. MaxBlocks - 1 PROVE rank[w[k]] < rank[w[k + 1]]
  <2>1. k \in 0 .. MaxBlocks /\ k + 1 \in 0 .. MaxBlocks
    BY <1>1
  <2>2. w[k] \in R /\ w[k] \notin F /\ w[k + 1] \in R
    BY <1>3, <2>1
  <2>3. w[k] # FREE_LIST_HEAD
    BY <2>2 DEF Ranked
  <2>4. w[k + 1] = fw[w[k]]
    BY <2>2, <2>3 DEF WalksOn
  <2> QED
    BY <1>2, <2>1, <2>2, <2>4 DEF Ranked
<1>5. \A k \in 0 .. MaxBlocks : rank[w[k]] \in Int
  BY <1>2, Ranks
<1>6. \A j \in 0 .. MaxBlocks : \A i \in 0 .. j - 1 : rank[w[i]] < rank[w[j]]
  <2> DEFINE G == {j \in 0 .. MaxBlocks : \A i \in 0 .. j - 1 : rank[w[i]] < rank[w[j]]}
  <2>1. 0 \in G
    BY <1>1
  <2>2. ASSUME NEW j \in 0 .. MaxBlocks - 1, j \in G PROVE j + 1 \in G
    <3>1. j \in 0 .. MaxBlocks /\ j + 1 \in 0 .. MaxBlocks
      BY <1>1
    <3>2. ASSUME NEW i \in 0 .. (j + 1) - 1 PROVE rank[w[i]] < rank[w[j + 1]]
      <4>1. i = j \/ i \in 0 .. j - 1
        OBVIOUS
      <4>2. i \in 0 .. MaxBlocks
        BY <1>1, <3>1
      <4>3. i = j \/ rank[w[i]] < rank[w[j]]
        BY <2>2, <4>1
      <4>4. rank[w[j]] < rank[w[j + 1]]
        BY <1>4
      <4>5. rank[w[i]] \in Int /\ rank[w[j]] \in Int /\ rank[w[j + 1]] \in Int
        BY <1>5, <3>1, <4>2
      <4> QED
        BY <4>3, <4>4, <4>5
    <3> QED
      BY <3>1, <3>2
  <2> HIDE DEF G
  <2>3. 0 .. MaxBlocks \subseteq G
    BY <1>1, <2>1, <2>2, UpTo
  <2> QED
    BY <2>3 DEF G
<1>7. PICK S, N : S = 0 .. MaxBlocks /\ N = 0 .. MaxBlocks - 1
  OBVIOUS
<1>8. PICK h : h = [k \in S |-> w[k] \div 6]
  OBVIOUS
<1>9. h \in [S -> N]
  <2>1. ASSUME NEW k \in S PROVE w[k] \div 6 \in N
    <3>1. w[k] \in R
      BY <1>3, <1>7
    <3>2. w[k] \div 6 \in 0 .. MaxBlocks - 2
      BY <3>1, Numbers
    <3> QED
      BY <1>1, <1>7, <3>2
  <2> QED
    BY <1>8, <2>1
<1>10. /\ IsFiniteSet(S) /\ Cardinality(S) = MaxBlocks + 1
       /\ IsFiniteSet(N) /\ Cardinality(N) = MaxBlocks
  <2>1. 0 \in Int /\ MaxBlocks \in Int /\ MaxBlocks - 1 \in Int
    BY <1>1
  <2>2. /\ IsFiniteSet(0 .. MaxBlocks)
        /\ Cardinality(0 .. MaxBlocks) = IF 0 > MaxBlocks THEN 0 ELSE MaxBlocks - 0 + 1
    BY <2>1, FS_Interval
  <2>3. /\ IsFiniteSet(0 .. MaxBlocks - 1)
        /\ Cardinality(0 .. MaxBlocks - 1) =
               IF 0 > MaxBlocks - 1 THEN 0 ELSE MaxBlocks - 1 - 0 + 1
    BY <2>1, FS_Interval
  <2> QED
    BY <1>1, <1>7, <2>2, <2>3
<1>11. Cardinality(N) < Cardinality(S)
  BY <1>1, <1>10
<1>12. PICK i \in S, j \in S : i # j /\ h[i] = h[j]
  BY <1>9, <1>10, <1>11, FS_PigeonHole
<1>13. w[i] = w[j]
  <2>1. w[i] \in R /\ w[j] \in R
    BY <1>3, <1>7
  <2>2. w[i] \div 6 = w[j] \div 6
    BY <1>8, <1>12
  <2> QED
    BY <2>1, <2>2, Numbers
<1>14. i \in 0 .. j - 1 \/ j \in 0 .. i - 1
  BY <1>7, <1>12
<1>15. rank[w[i]] < rank[w[j]] \/ rank[w[j]] < rank[w[i]]
  BY <1>6, <1>7, <1>14
<1> QED
  BY <1>5, <1>7, <1>13, <1>15

(* It misses no block before the one where it ends.                        *)
LEMMA WalkVisits ==
    ASSUME NEW R, NEW bk, NEW fw, NEW rank, Ranked(R, bk, fw, rank), NEW F,
           NEW before \in Anchored(R), NEW w, WalksOn(w, R, fw, before, F),
           NEW x \in R, rank[before] < rank[x],
           NEW end, end = w[MaxBlocks], end = FREE_LIST_HEAD \/ rank[x] <= rank[end]
    PROVE  \E k \in 0 .. MaxBlocks : w[k] = x
<1> DEFINE G == {k \in 0 .. MaxBlocks : w[k] \in R /\ rank[w[k]] <= rank[x]}
<1>1. MaxBlocks \in Nat
  BY MaxBlocksNat
<1>2. 0 \in G
  BY <1>1 DEF WalksOn, Ranked
<1>3. PICK k \in G : \A j \in G : j <= k
  <2>1. G \in SUBSET (0 .. MaxBlocks) /\ G # {}
    BY <1>2
  <2> HIDE DEF G
  <2> QED
    BY <1>1, <2>1, GreatestElement
<1>4. k \in 0 .. MaxBlocks /\ w[k] \in R /\ rank[w[k]] <= rank[x]
  OBVIOUS
<1>5. k + 1 \notin G
  BY <1>3
<1>6. x \in Anchored(R) /\ w[k] \in Anchored(R) /\ rank[x] \in Int /\ rank[w[k]] \in Int
      /\ w[k] # FREE_LIST_HEAD
  BY <1>4, Ranks DEF Ranked
<1>7. SUFFICES ASSUME rank[w[k]] < rank[x] PROVE FALSE
  <2>1. rank[w[k]] # rank[x] => rank[w[k]] < rank[x]
    BY <1>4, <1>6
  <2>2. rank[w[k]] = rank[x] => w[k] = x
    BY <1>4 DEF Ranked
  <2> QED
    BY <1>4, <2>1, <2>2
<1>8. k \in 0 .. MaxBlocks - 1
  <2>1. SUFFICES ASSUME k = MaxBlocks PROVE FALSE
    BY <1>1, <1>4
  <2> QED
    BY <1>4, <1>6, <1>7, <2>1
<1>9. k + 1 \in 0 .. MaxBlocks
  BY <1>1, <1>8
<1>10. CASE w[k] \in F
  BY <1>4, <1>5, <1>8, <1>9, <1>10 DEF WalksOn
<1>11. CASE w[k] \notin F
  <2>1. w[k + 1] = fw[w[k]]
    BY <1>6, <1>8, <1>11 DEF WalksOn
  <2>2. fw[w[k]] \in R /\ rank[fw[w[k]]] <= rank[x]
    BY <1>6, <1>7 DEF Ranked
  <2> QED
    BY <1>5, <1>9, <2>1, <2>2
<1> QED
  BY <1>10, <1>11

(* No block of the walk is nearer than the first.                          *)
LEMMA WalkAhead ==
    ASSUME NEW R, NEW bk, NEW fw, NEW rank, Ranked(R, bk, fw, rank), NEW F,
           NEW before \in Anchored(R), NEW w, WalksOn(w, R, fw, before, F)
    PROVE  \A k \in 0 .. MaxBlocks : w[k] = FREE_LIST_HEAD \/ rank[before] < rank[w[k]]
<1> DEFINE G == {k \in 0 .. MaxBlocks : w[k] = FREE_LIST_HEAD \/ rank[before] < rank[w[k]]}
<1>1. MaxBlocks \in Nat
  BY MaxBlocksNat
<1>2. 0 \in G
  <2>1. fw[before] = FREE_LIST_HEAD \/ fw[before] \in R
    BY Ranks DEF Ranked
  <2> QED
    BY <1>1, <2>1 DEF WalksOn, Ranked
<1>3. ASSUME NEW k \in 0 .. MaxBlocks - 1, k \in G PROVE k + 1 \in G
  <2>1. k \in 0 .. MaxBlocks /\ k + 1 \in 0 .. MaxBlocks /\ w[k] \in Anchored(R)
        /\ w[k + 1] \in Anchored(R)
    BY <1>1 DEF WalksOn
  <2>2. CASE w[k + 1] = w[k] \/ w[k + 1] = FREE_LIST_HEAD
    BY <1>3, <2>1, <2>2
  <2>3. CASE w[k + 1] # w[k] /\ w[k + 1] # FREE_LIST_HEAD
    <3>1. w[k + 1] = fw[w[k]] /\ w[k + 1] \in R /\ w[k] # FREE_LIST_HEAD
      BY <2>1, <2>3, Ranks DEF WalksOn
    <3>2. rank[w[k]] < rank[w[k + 1]]
      BY <2>1, <3>1 DEF Ranked
    <3>3. rank[before] \in Int /\ rank[w[k]] \in Int /\ rank[w[k + 1]] \in Int
      BY <2>1, Ranks
    <3> QED
      BY <1>3, <2>1, <3>1, <3>2, <3>3
  <2> QED
    BY <2>2, <2>3
<1>4. 0 .. MaxBlocks \subseteq G
  <2> HIDE DEF G
  <2> QED
    BY <1>1, <1>2, <1>3, UpTo
<1> QED
  BY <1>4

(* The search: the nearest block of F behind `before', or the anchor.      *)
LEMMA SearchOn ==
    ASSUME NEW T, NEW sz, Layout(T, sz), NEW R, R \subseteq T \ {FREE_LIST_HEAD},
           NEW bk, NEW fw, NEW rank, Ranked(R, bk, fw, rank), NEW F,
           NEW before \in Anchored(R), NEW step,
           \A x \in Anchored(R) :
               step[x] = IF x = FREE_LIST_HEAD \/ x \in F THEN x ELSE fw[x]
    PROVE  LET end == Walk(fw[before], step)[MaxBlocks]
           IN  /\ end \in Anchored(R) /\ (end = FREE_LIST_HEAD \/ end \in F)
               /\ end \in R => rank[before] < rank[end]
               /\ \A x \in R : rank[before] < rank[x] /\ x \in F =>
                                   end \in R /\ rank[end] <= rank[x]
<1>1. PICK w : w = Walk(fw[before], step)
  OBVIOUS
<1>2. fw[before] \in Anchored(R) /\ \A x \in Anchored(R) : step[x] \in Anchored(R)
  BY DEF Ranked
<1>3. MaxBlocks \in Nat
  BY MaxBlocksNat
<1>4. /\ w \in [0 .. MaxBlocks -> Anchored(R)] /\ w[0] = fw[before]
      /\ \A k \in 0 .. MaxBlocks - 1 : w[k + 1] = step[w[k]]
  BY <1>1, <1>2, WalkSteps
<1>5. WalksOn(w, R, fw, before, F)
  <2>1. ASSUME NEW k \in 0 .. MaxBlocks - 1
        PROVE  w[k + 1] = IF w[k] = FREE_LIST_HEAD \/ w[k] \in F THEN w[k] ELSE fw[w[k]]
    <3>1. w[k] \in Anchored(R)
      BY <1>3, <1>4
    <3> QED
      BY <1>4, <3>1
  <2> QED
    BY <1>4, <2>1 DEF WalksOn
<1>6. PICK end : end = w[MaxBlocks]
  OBVIOUS
<1>7. end \in Anchored(R) /\ (end = FREE_LIST_HEAD \/ end \in F)
  BY <1>3, <1>4, <1>5, <1>6, WalkEnds
<1>8. end \in R => rank[before] < rank[end]
  <2>1. end = FREE_LIST_HEAD \/ rank[before] < rank[end]
    BY <1>3, <1>5, <1>6, WalkAhead
  <2> QED
    BY <2>1 DEF Ranked
<1>9. ASSUME NEW x \in R, rank[before] < rank[x], x \in F
      PROVE  end \in R /\ rank[end] <= rank[x]
  <2> SUFFICES ASSUME ~(end \in R /\ rank[end] <= rank[x]) PROVE FALSE
    OBVIOUS
  <2>1. x \in Anchored(R) /\ rank[x] \in Int /\ rank[end] \in Int
    BY <1>7, Ranks
  <2>2. end = FREE_LIST_HEAD \/ rank[x] <= rank[end]
    BY <1>7, <2>1, Ranks
  <2>3. PICK k \in 0 .. MaxBlocks : w[k] = x
    BY <1>5, <1>6, <1>9, <2>2, WalkVisits
  <2>4. end = x
    BY <1>3, <1>5, <1>6, <1>9, <2>3, WalkStays
  <2> QED
    BY <2>1, <2>4
<1> QED
  BY <1>1, <1>6, <1>7, <1>8, <1>9

(* Without F the walk goes round the whole ring.                           *)
LEMMA WholeRing ==
    ASSUME NEW T, NEW sz, Layout(T, sz), NEW R, R \subseteq T \ {FREE_LIST_HEAD},
           NEW bk, NEW fw, NEW rank, Ranked(R, bk, fw, rank), NEW step,
           \A x \in Anchored(R) : step[x] = IF x = FREE_LIST_HEAD THEN x ELSE fw[x]
    PROVE  Range(Walk(fw[FREE_LIST_HEAD], step)) \ {FREE_LIST_HEAD} = R
<1>1. PICK w : w = Walk(fw[FREE_LIST_HEAD], step)
  OBVIOUS
<1>2. /\ FREE_LIST_HEAD \in Anchored(R) /\ fw[FREE_LIST_HEAD] \in Anchored(R)
      /\ \A x \in Anchored(R) : step[x] \in Anchored(R)
  BY Ranks DEF Ranked
<1>3. MaxBlocks \in Nat
  BY MaxBlocksNat
<1>4. /\ w \in [0 .. MaxBlocks -> Anchored(R)] /\ w[0] = fw[FREE_LIST_HEAD]
      /\ \A k \in 0 .. MaxBlocks - 1 : w[k + 1] = step[w[k]]
  BY <1>1, <1>2, WalkSteps
<1>5. WalksOn(w, R, fw, FREE_LIST_HEAD, {})
  <2>1. ASSUME NEW k \in 0 .. MaxBlocks - 1
        PROVE  w[k + 1] = IF w[k] = FREE_LIST_HEAD \/ w[k] \in {} THEN w[k] ELSE fw[w[k]]
    <3>1. w[k] \in Anchored(R)
      BY <1>3, <1>4
    <3> QED
      BY <1>4, <3>1
  <2> QED
    BY <1>4, <2>1 DEF WalksOn
<1>6. w[MaxBlocks] = FREE_LIST_HEAD
  BY <1>2, <1>5, WalkEnds
<1>7. ASSUME NEW x \in R PROVE \E k \in 0 .. MaxBlocks : w[k] = x
  <2>1. rank[FREE_LIST_HEAD] < rank[x]
    BY Ranks
  <2> QED
    BY <1>2, <1>5, <1>6, <2>1, WalkVisits
<1>8. Range(w) = {w[k] : k \in 0 .. MaxBlocks}
  BY <1>4 DEF Range
<1>9. \A k \in 0 .. MaxBlocks : w[k] = FREE_LIST_HEAD \/ w[k] \in R
  BY <1>4, Ranks
<1>10. FREE_LIST_HEAD \notin R
  BY DEF Ranked
<1>11. Range(w) \ {FREE_LIST_HEAD} = R
  BY <1>7, <1>8, <1>9, <1>10
<1> QED
  BY <1>1, <1>11

(* One takes another's place.                                              *)
SamePlace(R, p, q, rank, rank2) ==
    /\ \A x, y \in R \ {p} : rank2[x] < rank2[y] <=> rank[x] < rank[y]
    /\ \A x \in R \ {p} : rank2[x] < rank2[q] <=> rank[x] < rank[p]
    /\ \A x \in R \ {p} : rank2[q] < rank2[x] <=> rank[p] < rank[x]

LEMMA RingReplace ==
    ASSUME NEW R, NEW bk, NEW fw, NEW rank, Ranked(R, bk, fw, rank), NEW p \in R,
           NEW q \in Address, q \notin Anchored(R), NEW bk2, NEW fw2,
           bk2[q] = bk[p], bk2[fw[p]] = q,
           \A x \in Anchored(R) \ {p} : x # fw[p] => bk2[x] = bk[x],
           fw2[q] = fw[p], fw2[bk[p]] = q,
           \A x \in Anchored(R) \ {p} : x # bk[p] => fw2[x] = fw[x]
    PROVE  \E rank2 : /\ Ranked((R \ {p}) \cup {q}, bk2, fw2, rank2)
                      /\ SamePlace(R, p, q, rank, rank2)
<1> DEFINE l == bk[p]
           r == fw[p]
           Q == R \ {p}
<1>1. /\ p \in Anchored(R) /\ l \in Anchored(R) /\ r \in Anchored(R)
      /\ fw[l] = p /\ bk[r] = p /\ FREE_LIST_HEAD \notin R
      /\ \A x \in Anchored(R) : rank[x] \in Int
  BY Ranks DEF Ranked
<1>2. rank[l] < rank[p]
  BY <1>1 DEF Ranked
<1>3. l # p /\ r # p
  BY <1>1, <1>2
<1>4. PICK bk1, fw1 : /\ bk1 = [x \in Anchored(R) |-> IF x = r THEN l ELSE bk[x]]
                      /\ fw1 = [x \in Anchored(R) |-> IF x = l THEN r ELSE fw[x]]
  OBVIOUS
<1>5. /\ bk1[r] = l /\ \A x \in Anchored(R) : x # r => bk1[x] = bk[x]
      /\ fw1[l] = r /\ \A x \in Anchored(R) : x # l => fw1[x] = fw[x]
  BY <1>1, <1>4
<1>6. Ranked(Q, bk1, fw1, rank)
  BY <1>5, RingDel
<1>7. \A x : x \in Anchored(Q) <=> x \in Anchored(R) \ {p}
  BY <1>1 DEF Anchored
<1>8. /\ l \in Anchored(Q) /\ q \notin Anchored(Q) /\ fw1[l] = r
      /\ \A x \in Anchored(Q) : x # r => bk2[x] = bk1[x]
      /\ \A x \in Anchored(Q) : x # l => fw2[x] = fw1[x]
  BY <1>1, <1>3, <1>5, <1>7
<1>9. bk2[q] = l /\ bk2[r] = q /\ fw2[l] = q /\ fw2[q] = r
  OBVIOUS
<1> HIDE DEF l, r, Q
<1>10. PICK rank2 : /\ Ranked(Q \cup {q}, bk2, fw2, rank2)
                    /\ \A x, y \in Q : rank2[x] < rank2[y] <=> rank[x] < rank[y]
                    /\ \A x \in Q : rank2[x] < rank2[q] <=> rank[x] <= rank[l]
                    /\ \A x \in Q : rank2[q] < rank2[x] <=> rank[l] < rank[x]
  BY <1>6, <1>8, <1>9, RingAdd
<1>11. ASSUME NEW x \in Q
       PROVE  (rank[x] <= rank[l] <=> rank[x] < rank[p]) /\ (rank[l] < rank[x] <=> rank[p] < rank[x])
  <2>1. x \in R /\ x # p /\ x \in Anchored(R)
    BY <1>7, Ranks DEF Q
  <2>2. rank[x] # rank[p]
    BY <2>1 DEF Ranked
  <2>3. rank[l] < rank[x] => rank[p] <= rank[x]
    BY <1>1, <2>1 DEF Ranked
  <2>4. rank[x] \in Int /\ rank[p] \in Int /\ rank[l] \in Int
    BY <1>1, <2>1
  <2> QED
    BY <1>2, <2>2, <2>3, <2>4
<1>12. SamePlace(R, p, q, rank, rank2)
  BY <1>10, <1>11 DEF SamePlace, Q
<1> QED
  BY <1>10, <1>12 DEF Q

-----------------------------------------------------------------------------
(* The policy says which way the ring's order grows, and by what.          *)

Fw(pol, pv, nx)  == IF pol = "worst_fit" THEN pv ELSE nx
Bk(pol, pv, nx)  == IF pol = "worst_fit" THEN nx ELSE pv
Key(pol, sz, f)  == IF pol = "first_fit" THEN f ELSE sz[f]

(* Blocks that precede others are not greater, but for those of L before   *)
(* and those of U behind others.                                           *)
Sorted(R, pol, sz, rank, L, U) ==
    \A x \in R \ L, y \in R \ U : rank[x] < rank[y] => Key(pol, sz, x) <= Key(pol, sz, y)

(* The tags of the blocks T, of which R are linked in a ring.              *)
Chain(m, pol, T, sz, pv, tg, nx, D, R, rank) ==
    /\ Tagged(m, T, sz, pv, tg, nx, D)
    /\ pol \in Policy /\ R \subseteq T \ {FREE_LIST_HEAD}
    /\ Ranked(R, Bk(pol, pv, nx), Fw(pol, pv, nx), rank)

LEMMA ChainFacts ==
    ASSUME NEW m, NEW pol, NEW T, NEW sz, NEW pv, NEW tg, NEW nx, NEW D, NEW R, NEW rank,
           Chain(m, pol, T, sz, pv, tg, nx, D, R, rank)
    PROVE  /\ Tagged(m, T, sz, pv, tg, nx, D) /\ Layout(T, sz)
           /\ pv \in [T -> Int] /\ nx \in [T -> Int] /\ tg \in [T -> Int]
           /\ R \subseteq T /\ FREE_LIST_HEAD \in T /\ FREE_LIST_HEAD \notin R
           /\ Anchored(R) \subseteq T /\ T \subseteq Address
           /\ FREE_LIST_HEAD \in Anchored(R) /\ R \subseteq Anchored(R)
           /\ \A x \in Anchored(R) : /\ pv[x] \in Anchored(R) /\ nx[x] \in Anchored(R)
                                     /\ pv[nx[x]] = x /\ nx[pv[x]] = x
           /\ \A x \in R : pv[x] # x /\ nx[x] # x
           /\ \A x \in T : x \in Int /\ sz[x] \in Nat
           /\ \A x \in Anchored(R) : rank[x] \in Int
<1>1. /\ Tagged(m, T, sz, pv, tg, nx, D) /\ Layout(T, sz)
      /\ pv \in [T -> Int] /\ nx \in [T -> Int] /\ tg \in [T -> Int]
      /\ R \subseteq T /\ FREE_LIST_HEAD \in T /\ FREE_LIST_HEAD \notin R /\ T \subseteq Address
  BY DEF Chain, Tagged, Layout
<1>2. FREE_LIST_HEAD \in Anchored(R) /\ R \subseteq Anchored(R) /\ Anchored(R) \subseteq T
  BY <1>1 DEF Anchored
<1>3. PICK bk, fw : bk = Bk(pol, pv, nx) /\ fw = Fw(pol, pv, nx)
  OBVIOUS
<1>4. Ranked(R, bk, fw, rank)
  BY <1>3 DEF Chain
<1>5. \A x \in Anchored(R) : /\ bk[x] \in Anchored(R) /\ fw[x] \in Anchored(R)
                             /\ bk[fw[x]] = x /\ fw[bk[x]] = x
  BY <1>4 DEF Ranked
<1>6. \A x \in Anchored(R) : rank[x] \in Int
  BY <1>4, Ranks
<1>7. ASSUME NEW x \in R PROVE bk[x] # x /\ fw[x] # x
  <2>1. fw[x] = x => rank[x] < rank[x]
    BY <1>2, <1>4 DEF Ranked
  <2>2. fw[x] # x
    BY <1>2, <1>6, <2>1
  <2> QED
    BY <1>2, <1>5, <2>2
<1>8. (bk = pv /\ fw = nx) \/ (bk = nx /\ fw = pv)
  BY <1>3 DEF Bk, Fw
<1>9. \A x \in Anchored(R) : /\ pv[x] \in Anchored(R) /\ nx[x] \in Anchored(R)
                             /\ pv[nx[x]] = x /\ nx[pv[x]] = x
  BY <1>5, <1>8
<1>10. \A x \in R : pv[x] # x /\ nx[x] # x
  BY <1>7, <1>8
<1>11. \A x \in T : x \in Int /\ sz[x] \in Nat
  BY <1>1, InMemory
<1> QED
  BY <1>1, <1>2, <1>6, <1>9, <1>10, <1>11

(* Taking a block out of the ring.                                         *)
LEMMA ChainDel ==
    ASSUME NEW m, NEW pol, NEW T, NEW sz, NEW pv, NEW tg, NEW nx, NEW D, NEW R, NEW rank,
           Chain(m, pol, T, sz, pv, tg, nx, D, R, rank), NEW p \in R
    PROVE  \E pv2, nx2 : Chain(LIST_DEL(m, p), pol, T, sz, pv2, tg, nx2, D, R \ {p}, rank)
<1>1. /\ Tagged(m, T, sz, pv, tg, nx, D) /\ p \in T /\ pv[p] \in T /\ nx[p] \in T
      /\ pv \in [T -> Int] /\ nx \in [T -> Int] /\ Anchored(R) \subseteq T
  BY ChainFacts
<1>2. PICK pv2, nx2 : /\ pv2 = [pv EXCEPT ![nx[p]] = pv[p]]
                      /\ nx2 = [nx EXCEPT ![pv[p]] = nx[p]]
  OBVIOUS
<1>3. Tagged(LIST_DEL(m, p), T, sz, pv2, tg, nx2, D)
  BY <1>1, <1>2, DelTags
<1>4. /\ pv2[nx[p]] = pv[p] /\ \A x \in Anchored(R) : x # nx[p] => pv2[x] = pv[x]
      /\ nx2[pv[p]] = nx[p] /\ \A x \in Anchored(R) : x # pv[p] => nx2[x] = nx[x]
  BY <1>1, <1>2
<1>5. Ranked(R \ {p}, Bk(pol, pv2, nx2), Fw(pol, pv2, nx2), rank)
  <2>1. PICK bk, fw, bk2, fw2 : /\ bk = Bk(pol, pv, nx) /\ fw = Fw(pol, pv, nx)
                                /\ bk2 = Bk(pol, pv2, nx2) /\ fw2 = Fw(pol, pv2, nx2)
    OBVIOUS
  <2>2. Ranked(R, bk, fw, rank)
    BY <2>1 DEF Chain
  <2>3. /\ bk2[fw[p]] = bk[p] /\ \A x \in Anchored(R) : x # fw[p] => bk2[x] = bk[x]
        /\ fw2[bk[p]] = fw[p] /\ \A x \in Anchored(R) : x # bk[p] => fw2[x] = fw[x]
    BY <1>4, <2>1 DEF Bk, Fw
  <2> QED
    BY <2>1, <2>2, <2>3, RingDel
<1> QED
  BY <1>3, <1>5 DEF Chain

(* A block that takes another's place in it.                               *)
LEMMA LinksReplace ==
    ASSUME NEW pol, NEW R, NEW pv, NEW nx, NEW rank,
           Ranked(R, Bk(pol, pv, nx), Fw(pol, pv, nx), rank), NEW p \in R,
           NEW q \in Address, q \notin Anchored(R), NEW pv2, NEW nx2,
           pv2[q] = pv[p], pv2[nx[p]] = q,
           \A x \in Anchored(R) \ {p} : x # nx[p] => pv2[x] = pv[x],
           nx2[q] = nx[p], nx2[pv[p]] = q,
           \A x \in Anchored(R) \ {p} : x # pv[p] => nx2[x] = nx[x]
    PROVE  \E rank2 : /\ Ranked((R \ {p}) \cup {q}, Bk(pol, pv2, nx2), Fw(pol, pv2, nx2), rank2)
                      /\ SamePlace(R, p, q, rank, rank2)
<1>1. PICK bk, fw, bk2, fw2 : /\ bk = Bk(pol, pv, nx) /\ fw = Fw(pol, pv, nx)
                              /\ bk2 = Bk(pol, pv2, nx2) /\ fw2 = Fw(pol, pv2, nx2)
  OBVIOUS
<1>2. Ranked(R, bk, fw, rank)
  BY <1>1
<1>3. /\ bk2[q] = bk[p] /\ bk2[fw[p]] = q
      /\ \A x \in Anchored(R) \ {p} : x # fw[p] => bk2[x] = bk[x]
      /\ fw2[q] = fw[p] /\ fw2[bk[p]] = q
      /\ \A x \in Anchored(R) \ {p} : x # bk[p] => fw2[x] = fw[x]
  BY <1>1 DEF Bk, Fw
<1>4. PICK rank2 : /\ Ranked((R \ {p}) \cup {q}, bk2, fw2, rank2)
                   /\ SamePlace(R, p, q, rank, rank2)
  BY <1>2, <1>3, RingReplace
<1> QED
  BY <1>1, <1>4

-----------------------------------------------------------------------------
(* Linking a block in before or after a position, which the policy's list_add searches. *)

Insert(pol, m, p, pos) ==
    IF pol = "worst_fit" THEN LIST_ADD_AFTER(m, p, pos) ELSE LIST_ADD_BEFORE(m, p, pos)

LEMMA ChainInsert ==
    ASSUME NEW m, NEW pol, NEW T, NEW sz, NEW pv, NEW tg, NEW nx, NEW D, NEW R, NEW rank,
           Chain(m, pol, T, sz, pv, tg, nx, D, R, rank), NEW p \in T, p \notin Anchored(R),
           NEW pos \in Anchored(R), NEW low, low = Bk(pol, pv, nx)[pos]
    PROVE  \E pv2, nx2, rank2 :
               /\ Chain(Insert(pol, m, p, pos), pol, T, sz, pv2, tg, nx2, D, R \cup {p}, rank2)
               /\ \A x, y \in R : rank2[x] < rank2[y] <=> rank[x] < rank[y]
               /\ \A x \in R : rank2[x] < rank2[p] <=> rank[x] <= rank[low]
               /\ \A x \in R : rank2[p] < rank2[x] <=> rank[low] < rank[x]
<1>1. PICK l, r : IF pol = "worst_fit" THEN l = pos /\ r = nx[pos] ELSE l = pv[pos] /\ r = pos
  OBVIOUS
<1>2. /\ Tagged(m, T, sz, pv, tg, nx, D) /\ Anchored(R) \subseteq T
      /\ pv \in [T -> Int] /\ nx \in [T -> Int]
      /\ p \in Address /\ p # FREE_LIST_HEAD
      /\ \A x \in Anchored(R) : /\ pv[x] \in Anchored(R) /\ nx[x] \in Anchored(R)
                                /\ pv[nx[x]] = x /\ nx[pv[x]] = x
  BY ChainFacts
<1>3. l \in Anchored(R) /\ r \in Anchored(R) /\ nx[l] = r /\ pv[r] = l /\ p # l /\ p # r
  BY <1>1, <1>2
<1>4. PICK pv2, nx2 : pv2 = AddPrev(pv, l, p, r) /\ nx2 = AddNext(nx, l, p, r)
  OBVIOUS
<1>5. Tagged(Insert(pol, m, p, pos), T, sz, pv2, tg, nx2, D)
  <2>1. l \in T /\ r \in T /\ pos \in T
    BY <1>2, <1>3
  <2>2. /\ Tagged(Link(Link(m, l, p), p, r), T, sz, pv2, tg, nx2, D)
        /\ Tagged(Link(Link(m, p, r), l, p), T, sz, pv2, tg, nx2, D)
    BY <1>2, <1>3, <1>4, <2>1, AddTags
  <2>3. GET_PREV_FRONT(m, pos) = pv[pos] /\ GET_NEXT_FRONT(m, pos) = nx[pos]
    BY <1>2, <2>1, Reads
  <2>4. CASE pol = "worst_fit"
    <3>1. Insert(pol, m, p, pos) = Link(Link(m, p, r), l, p)
      BY <1>1, <2>3, <2>4 DEF Insert, LIST_ADD_AFTER
    <3> QED
      BY <2>2, <3>1
  <2>5. CASE pol # "worst_fit"
    <3>1. Insert(pol, m, p, pos) = Link(Link(m, l, p), p, r)
      BY <1>1, <2>3, <2>5 DEF Insert, LIST_ADD_BEFORE
    <3> QED
      BY <2>2, <3>1
  <2> QED
    BY <2>4, <2>5
<1>6. /\ pv2[p] = l /\ pv2[r] = p /\ \A x \in Anchored(R) : x # r => pv2[x] = pv[x]
      /\ nx2[p] = r /\ nx2[l] = p /\ \A x \in Anchored(R) : x # l => nx2[x] = nx[x]
  BY <1>2, <1>3, <1>4 DEF AddPrev, AddNext
<1>7. PICK bk, fw, bk2, fw2 : /\ bk = Bk(pol, pv, nx) /\ fw = Fw(pol, pv, nx)
                              /\ bk2 = Bk(pol, pv2, nx2) /\ fw2 = Fw(pol, pv2, nx2)
  OBVIOUS
<1>8. PICK up : up = IF pol = "worst_fit" THEN l ELSE r
  OBVIOUS
<1>9. /\ low \in Anchored(R) /\ up = fw[low]
      /\ bk2[p] = low /\ bk2[up] = p /\ \A x \in Anchored(R) : x # up => bk2[x] = bk[x]
      /\ fw2[p] = up /\ fw2[low] = p /\ \A x \in Anchored(R) : x # low => fw2[x] = fw[x]
  <2>1. CASE pol = "worst_fit"
    <3>1. /\ bk = nx /\ fw = pv /\ bk2 = nx2 /\ fw2 = pv2 /\ low = r /\ up = l
      BY <1>1, <1>7, <1>8, <2>1 DEF Bk, Fw
    <3> QED
      BY <1>3, <1>6, <3>1
  <2>2. CASE pol # "worst_fit"
    <3>1. /\ bk = pv /\ fw = nx /\ bk2 = pv2 /\ fw2 = nx2 /\ low = l /\ up = r
      BY <1>1, <1>7, <1>8, <2>2 DEF Bk, Fw
    <3> QED
      BY <1>3, <1>6, <3>1
  <2> QED
    BY <2>1, <2>2
<1>10. Ranked(R, bk, fw, rank)
  BY <1>7 DEF Chain
<1>11. PICK rank2 : /\ Ranked(R \cup {p}, bk2, fw2, rank2)
                    /\ \A x, y \in R : rank2[x] < rank2[y] <=> rank[x] < rank[y]
                    /\ \A x \in R : rank2[x] < rank2[p] <=> rank[x] <= rank[low]
                    /\ \A x \in R : rank2[p] < rank2[x] <=> rank[low] < rank[x]
  <2>1. p \in Address /\ p \notin Anchored(R) /\ low \in Anchored(R) /\ up = fw[low]
    BY <1>2, <1>9
  <2>2. /\ bk2[p] = low /\ bk2[up] = p /\ \A x \in Anchored(R) : x # up => bk2[x] = bk[x]
        /\ fw2[low] = p /\ fw2[p] = up /\ \A x \in Anchored(R) : x # low => fw2[x] = fw[x]
    BY <1>9
  <2> QED
    BY ONLY <1>10, <2>1, <2>2, RingAdd
<1>12. Chain(Insert(pol, m, p, pos), pol, T, sz, pv2, tg, nx2, D, R \cup {p}, rank2)
  <2>1. R \cup {p} \subseteq T \ {FREE_LIST_HEAD}
    BY <1>2 DEF Chain
  <2>2. Ranked(R \cup {p}, Bk(pol, pv2, nx2), Fw(pol, pv2, nx2), rank2)
    BY <1>7, <1>11
  <2> QED
    BY <1>5, <2>1, <2>2 DEF Chain
<1> QED
  BY <1>11, <1>12

(* A block linked in before the first one found that is not less than it.  *)
LEMMA SortedInsert ==
    ASSUME NEW m, NEW pol, NEW T, NEW sz, NEW pv, NEW tg, NEW nx, NEW D, NEW R, NEW rank,
           Chain(m, pol, T, sz, pv, tg, nx, D, R, rank), Sorted(R, pol, sz, rank, {}, {}),
           NEW p \in T, p \notin Anchored(R), NEW before \in Anchored(R),
           \A x \in R : rank[x] <= rank[before] => Key(pol, sz, x) <= Key(pol, sz, p),
           NEW F, F = {x \in R : Key(pol, sz, x) >= Key(pol, sz, p)},
           NEW pos \in Anchored(R), pos = FREE_LIST_HEAD \/ pos \in F,
           \A x \in R : rank[before] < rank[x] /\ x \in F => pos \in R /\ rank[pos] <= rank[x]
    PROVE  \E pv2, nx2, rank2 :
               /\ Chain(Insert(pol, m, p, pos), pol, T, sz, pv2, tg, nx2, D, R \cup {p}, rank2)
               /\ Sorted(R \cup {p}, pol, sz, rank2, {}, {})
<1>1. PICK bk, fw, low : /\ bk = Bk(pol, pv, nx) /\ fw = Fw(pol, pv, nx)
                         /\ low = bk[pos]
  OBVIOUS
<1>2. Ranked(R, bk, fw, rank)
  BY <1>1 DEF Chain
<1>3. /\ low \in Anchored(R) /\ fw[low] = pos
      /\ \A x \in Anchored(R) : rank[x] \in Int /\ (x \in R \/ x = FREE_LIST_HEAD)
      /\ R \subseteq Anchored(R) /\ FREE_LIST_HEAD \notin R
  BY <1>1, <1>2, Ranks DEF Ranked
<1>4. PICK key : key = [x \in T |-> Key(pol, sz, x)]
  OBVIOUS
<1>5. \A x \in T : key[x] = Key(pol, sz, x) /\ key[x] \in Int
  <2>1. \A x \in T : x \in Int /\ sz[x] \in Int
    BY ChainFacts
  <2> QED
    BY <1>4, <2>1 DEF Key
<1>6. R \subseteq T
  BY ChainFacts
<1>7. ASSUME NEW x \in R, rank[x] <= rank[low] PROVE key[x] <= key[p]
  <2>1. CASE rank[x] <= rank[before]
    BY <1>5, <1>6, <2>1
  <2>2. CASE rank[before] < rank[x]
    <3>1. SUFFICES ASSUME x \in F PROVE FALSE
      <4>1. x \notin F => ~(key[x] >= key[p])
        BY <1>5, <1>6
      <4> QED
        BY <1>5, <1>6, <4>1
    <3>2. pos \in R /\ rank[pos] <= rank[x]
      BY <2>2, <3>1
    <3>3. rank[low] < rank[pos]
      BY <1>2, <1>3, <3>2 DEF Ranked
    <3> QED
      BY <1>3, <1>7, <3>2, <3>3
  <2> QED
    BY <1>3, <2>1, <2>2
<1>8. ASSUME NEW x \in R, rank[low] < rank[x] PROVE key[p] <= key[x]
  <2>1. pos \in R /\ rank[pos] <= rank[x]
    BY <1>2, <1>3, <1>8 DEF Ranked
  <2>2. pos \in F
    BY <1>3, <2>1
  <2>3. key[pos] >= key[p]
    BY <1>5, <1>6, <2>2
  <2>4. key[pos] <= key[x]
    <3>1. CASE rank[pos] = rank[x]
      <4>1. pos = x
        BY <1>2, <2>1, <3>1 DEF Ranked
      <4> QED
        BY <1>5, <1>6, <4>1
    <3>2. CASE rank[pos] < rank[x]
      BY <1>5, <1>6, <2>1, <3>2 DEF Sorted
    <3> QED
      BY <1>3, <2>1, <3>1, <3>2
  <2> QED
    BY <1>5, <1>6, <2>1, <2>3, <2>4
<1>9. PICK pv2, nx2, rank2 :
         /\ Chain(Insert(pol, m, p, pos), pol, T, sz, pv2, tg, nx2, D, R \cup {p}, rank2)
         /\ \A x, y \in R : rank2[x] < rank2[y] <=> rank[x] < rank[y]
         /\ \A x \in R : rank2[x] < rank2[p] <=> rank[x] <= rank[low]
         /\ \A x \in R : rank2[p] < rank2[x] <=> rank[low] < rank[x]
  BY <1>1, ChainInsert
<1>10. ASSUME NEW x \in R \cup {p}, NEW y \in R \cup {p}, rank2[x] < rank2[y]
       PROVE  key[x] <= key[y]
  <2>1. CASE x \in R /\ y \in R
    <3>1. rank[x] < rank[y]
      BY <1>9, <1>10, <2>1
    <3>2. Key(pol, sz, x) <= Key(pol, sz, y)
      BY <2>1, <3>1 DEF Sorted
    <3> QED
      BY <1>5, <1>6, <2>1, <3>2
  <2>2. CASE x = p /\ y = p
    BY <1>5, <2>2
  <2>3. CASE x \in R /\ y = p
    BY <1>7, <1>9, <1>10, <2>3
  <2>4. CASE x = p /\ y \in R
    BY <1>8, <1>9, <1>10, <2>4
  <2> QED
    BY <2>1, <2>2, <2>3, <2>4
<1>11. Sorted(R \cup {p}, pol, sz, rank2, {}, {})
  <2>1. R \cup {p} \subseteq T
    BY <1>6
  <2> QED
    BY <1>5, <1>10, <2>1 DEF Sorted
<1> QED
  BY <1>9, <1>11

LEMMA SearchInsert ==
    ASSUME NEW m, NEW pol, NEW T, NEW sz, NEW pv, NEW tg, NEW nx, NEW D, NEW R, NEW rank,
           Chain(m, pol, T, sz, pv, tg, nx, D, R, rank), Sorted(R, pol, sz, rank, {}, {}),
           NEW p \in T, p \notin Anchored(R), NEW before \in Anchored(R),
           \A x \in R : rank[x] <= rank[before] => Key(pol, sz, x) <= Key(pol, sz, p),
           NEW step,
           \A x \in Anchored(R) :
               step[x] = IF x = FREE_LIST_HEAD \/ Key(pol, sz, x) >= Key(pol, sz, p)
                         THEN x ELSE Fw(pol, pv, nx)[x],
           NEW pos, pos = Walk(Fw(pol, pv, nx)[before], step)[MaxBlocks]
    PROVE  \E pv2, nx2, rank2 :
               /\ Chain(Insert(pol, m, p, pos), pol, T, sz, pv2, tg, nx2, D, R \cup {p}, rank2)
               /\ Sorted(R \cup {p}, pol, sz, rank2, {}, {})
<1>1. PICK F : F = {x \in R : Key(pol, sz, x) >= Key(pol, sz, p)}
  OBVIOUS
<1>2. ASSUME NEW x \in Anchored(R)
      PROVE  step[x] = IF x = FREE_LIST_HEAD \/ x \in F THEN x ELSE Fw(pol, pv, nx)[x]
  BY <1>1 DEF Anchored
<1>3. /\ pos \in Anchored(R) /\ (pos = FREE_LIST_HEAD \/ pos \in F)
      /\ \A x \in R : rank[before] < rank[x] /\ x \in F => pos \in R /\ rank[pos] <= rank[x]
  <2>1. PICK bk, fw : bk = Bk(pol, pv, nx) /\ fw = Fw(pol, pv, nx)
    OBVIOUS
  <2>2. Layout(T, sz) /\ R \subseteq T \ {FREE_LIST_HEAD} /\ Ranked(R, bk, fw, rank)
    BY <2>1, ChainFacts DEF Chain
  <2>3. \A x \in Anchored(R) : step[x] = IF x = FREE_LIST_HEAD \/ x \in F THEN x ELSE fw[x]
    BY <1>2, <2>1
  <2>4. pos = Walk(fw[before], step)[MaxBlocks]
    BY <2>1
  <2> QED
    BY <2>2, <2>3, <2>4, SearchOn
<1> QED
  BY <1>1, <1>3, SortedInsert

(* The three list_add keep the ring sorted.                                *)
LEMMA AddFF ==
    ASSUME NEW m, NEW pol, pol = "first_fit",
           NEW T, NEW sz, NEW pv, NEW tg, NEW nx, NEW D, NEW R, NEW rank,
           Chain(m, pol, T, sz, pv, tg, nx, D, R, rank), Sorted(R, pol, sz, rank, {}, {}),
           NEW p \in T, p \notin Anchored(R)
    PROVE  \E pv2, nx2, rank2 :
               /\ Chain(list_add_ff(m, p), pol, T, sz, pv2, tg, nx2, D, R \cup {p}, rank2)
               /\ Sorted(R \cup {p}, pol, sz, rank2, {}, {})
<1>1. PICK step : step = [f \in Address \cup {MEM_END} |->
                              IF f = FREE_LIST_HEAD \/ f > p THEN f ELSE GET_NEXT_FRONT(m, f)]
  OBVIOUS
<1>2. PICK pos : pos = Walk(GET_NEXT_FRONT(m, FREE_LIST_HEAD), step)[MaxBlocks]
  OBVIOUS
<1>3. list_add_ff(m, p) = Insert(pol, m, p, pos)
  BY <1>1, <1>2 DEF list_add_ff, Search, Until, Insert
<1>4. /\ Tagged(m, T, sz, pv, tg, nx, D) /\ Anchored(R) \subseteq T
      /\ T \subseteq Address /\ FREE_LIST_HEAD \in Anchored(R)
      /\ \A x \in T : x \in Int
      /\ \A x \in Anchored(R) : rank[x] \in Int
  BY ChainFacts
<1>5. /\ Fw(pol, pv, nx) = nx
      /\ \A x \in T : GET_NEXT_FRONT(m, x) = nx[x] /\ Key(pol, sz, x) = x
  BY <1>4, Reads DEF Fw, Key
<1>6. ASSUME NEW x \in Anchored(R)
      PROVE  step[x] = IF x = FREE_LIST_HEAD \/ Key(pol, sz, x) >= Key(pol, sz, p)
                       THEN x ELSE Fw(pol, pv, nx)[x]
  <2>1. x \in T /\ x \in Address /\ x # p
    BY <1>4
  <2>2. Key(pol, sz, x) >= Key(pol, sz, p) <=> x > p
    BY <1>4, <1>5, <2>1
  <2> QED
    BY <1>1, <1>5, <2>1, <2>2
<1>7. pos = Walk(Fw(pol, pv, nx)[FREE_LIST_HEAD], step)[MaxBlocks]
  BY <1>2, <1>4, <1>5
<1>8. \A x \in R : rank[FREE_LIST_HEAD] < rank[x] /\ x \in Anchored(R)
  BY Ranks DEF Chain
<1>9. \A x \in R : rank[x] <= rank[FREE_LIST_HEAD] => Key(pol, sz, x) <= Key(pol, sz, p)
  BY <1>4, <1>8
<1> QED
  BY <1>3, <1>4, <1>6, <1>7, <1>9, SearchInsert

LEMMA AddBF ==
    ASSUME NEW m, NEW pol, pol = "best_fit",
           NEW T, NEW sz, NEW pv, NEW tg, NEW nx, NEW D, NEW R, NEW rank,
           Chain(m, pol, T, sz, pv, tg, nx, D, R, rank), Sorted(R, pol, sz, rank, {}, {}),
           NEW p \in T, p \notin Anchored(R), NEW before \in Anchored(R),
           \A x \in R : rank[x] <= rank[before] => sz[x] <= sz[p]
    PROVE  \E pv2, nx2, rank2 :
               /\ Chain(list_add_bf(m, p, before), pol, T, sz, pv2, tg, nx2, D, R \cup {p}, rank2)
               /\ Sorted(R \cup {p}, pol, sz, rank2, {}, {})
<1>1. PICK step :
         step = [f \in Address \cup {MEM_END} |->
                     IF f = FREE_LIST_HEAD \/ GET_SIZE_FRONT(m, f) >= GET_SIZE_FRONT(m, p)
                     THEN f ELSE GET_NEXT_FRONT(m, f)]
  OBVIOUS
<1>2. PICK pos : pos = Walk(GET_NEXT_FRONT(m, before), step)[MaxBlocks]
  OBVIOUS
<1>3. list_add_bf(m, p, before) = Insert(pol, m, p, pos)
  BY <1>1, <1>2 DEF list_add_bf, Search, Until, Insert
<1>4. /\ Tagged(m, T, sz, pv, tg, nx, D) /\ Anchored(R) \subseteq T
      /\ T \subseteq Address /\ \A x \in T : sz[x] \in Nat
  BY ChainFacts
<1>5. /\ Fw(pol, pv, nx) = nx
      /\ \A x \in T : /\ GET_NEXT_FRONT(m, x) = nx[x] /\ GET_SIZE_FRONT(m, x) = sz[x]
                      /\ Key(pol, sz, x) = sz[x]
  BY <1>4, Reads DEF Fw, Key
<1>6. ASSUME NEW x \in Anchored(R)
      PROVE  step[x] = IF x = FREE_LIST_HEAD \/ Key(pol, sz, x) >= Key(pol, sz, p)
                       THEN x ELSE Fw(pol, pv, nx)[x]
  <2>1. x \in T /\ x \in Address
    BY <1>4
  <2> QED
    BY <1>1, <1>5, <2>1
<1>7. pos = Walk(Fw(pol, pv, nx)[before], step)[MaxBlocks]
  BY <1>2, <1>4, <1>5
<1>8. \A x \in R : rank[x] <= rank[before] => Key(pol, sz, x) <= Key(pol, sz, p)
  BY DEF Key
<1> QED
  BY <1>3, <1>6, <1>7, <1>8, SearchInsert

LEMMA AddWF ==
    ASSUME NEW m, NEW pol, pol = "worst_fit",
           NEW T, NEW sz, NEW pv, NEW tg, NEW nx, NEW D, NEW R, NEW rank,
           Chain(m, pol, T, sz, pv, tg, nx, D, R, rank), Sorted(R, pol, sz, rank, {}, {}),
           NEW p \in T, p \notin Anchored(R), NEW after \in Anchored(R),
           \A x \in R : rank[x] <= rank[after] => sz[x] <= sz[p]
    PROVE  \E pv2, nx2, rank2 :
               /\ Chain(list_add_wf(m, p, after), pol, T, sz, pv2, tg, nx2, D, R \cup {p}, rank2)
               /\ Sorted(R \cup {p}, pol, sz, rank2, {}, {})
<1>1. PICK step :
         step = [f \in Address \cup {MEM_END} |->
                     IF f = FREE_LIST_HEAD \/ GET_SIZE_FRONT(m, f) >= GET_SIZE_FRONT(m, p)
                     THEN f ELSE GET_PREV_FRONT(m, f)]
  OBVIOUS
<1>2. PICK pos : pos = Walk(GET_PREV_FRONT(m, after), step)[MaxBlocks]
  OBVIOUS
<1>3. list_add_wf(m, p, after) = Insert(pol, m, p, pos)
  BY <1>1, <1>2 DEF list_add_wf, Search, Until, Insert
<1>4. /\ Tagged(m, T, sz, pv, tg, nx, D) /\ Anchored(R) \subseteq T
      /\ T \subseteq Address /\ \A x \in T : sz[x] \in Nat
  BY ChainFacts
<1>5. /\ Fw(pol, pv, nx) = pv
      /\ \A x \in T : /\ GET_PREV_FRONT(m, x) = pv[x] /\ GET_SIZE_FRONT(m, x) = sz[x]
                      /\ Key(pol, sz, x) = sz[x]
  BY <1>4, Reads DEF Fw, Key
<1>6. ASSUME NEW x \in Anchored(R)
      PROVE  step[x] = IF x = FREE_LIST_HEAD \/ Key(pol, sz, x) >= Key(pol, sz, p)
                       THEN x ELSE Fw(pol, pv, nx)[x]
  <2>1. x \in T /\ x \in Address
    BY <1>4
  <2> QED
    BY <1>1, <1>5, <2>1
<1>7. pos = Walk(Fw(pol, pv, nx)[after], step)[MaxBlocks]
  BY <1>2, <1>4, <1>5
<1>8. \A x \in R : rank[x] <= rank[after] => Key(pol, sz, x) <= Key(pol, sz, p)
  BY DEF Key
<1> QED
  BY <1>3, <1>6, <1>7, <1>8, SearchInsert

LEMMA WriteSize ==
    ASSUME NEW m \in Memory, NEW f \in Int, NEW n \in Nat, f + 2 \in Address, f + 3 + n \in Address
    PROVE  \E m2 \in Memory :
               /\ SET_SIZE_FRONT(m, f, n) = m2 /\ m2[f + 2] = n /\ m2[f + 3 + n] = n
               /\ \A a \in Address : a # f + 2 /\ a # f + 3 + n => m2[a] = m[a]
<1>1. PICK c \in Address, d \in Address : c = f + 2 /\ d = f + 3 + n /\ n \in Int /\ c # d
  OBVIOUS
<1>2. PICK m1 : m1 = [m EXCEPT ![c] = n]
  OBVIOUS
<1>3. m1 \in Memory /\ m1[c] = n /\ \A a \in Address : a # c => m1[a] = m[a]
  BY <1>1, <1>2 DEF Memory
<1>4. PICK m2 : m2 = [m1 EXCEPT ![d] = n]
  OBVIOUS
<1>5. m2 \in Memory /\ m2[d] = n /\ \A a \in Address : a # d => m2[a] = m1[a]
  BY <1>1, <1>3, <1>4 DEF Memory
<1>6. m2[c] = n /\ \A a \in Address : a # c /\ a # d => m2[a] = m[a]
  BY <1>1, <1>3, <1>5
<1>7. SET_SIZE_FRONT(m, f, n) = m2
  BY <1>1, <1>2, <1>4 DEF SET_SIZE_FRONT
<1> QED
  BY <1>1, <1>5, <1>6, <1>7

LEMMA SetAll ==
    ASSUME NEW m \in Memory, NEW f \in Int, NEW n \in Nat, TagCells(f, n) \subseteq Address,
           NEW prev \in Int, NEW tag \in Int, NEW next \in Int
    PROVE  \E m2 \in Memory :
               /\ SET_ALL_FRONT(m, f, n, prev, tag, next) = m2
               /\ TagsAre(m2, f, n, prev, tag, next)
               /\ \A a \in Address : a \notin TagCells(f, n) => m2[a] = m[a]
<1>1. /\ f \in Address /\ f + 1 \in Address /\ f + 2 \in Address
      /\ f + 3 + n \in Address /\ f + 4 + n \in Address
  BY DEF TagCells
<1>2. PICK m1 \in Memory :
         /\ SET_SIZE_FRONT(m, f, n) = m1 /\ m1[f + 2] = n /\ m1[f + 3 + n] = n
         /\ \A a \in Address : a # f + 2 /\ a # f + 3 + n => m1[a] = m[a]
  BY <1>1, WriteSize
<1>3. PICK m2 : m2 = SET_PREV_FRONT(m1, f, prev)
  OBVIOUS
<1>4. m2 \in Memory /\ m2[f] = prev /\ \A a \in Address : a # f => m2[a] = m1[a]
  BY <1>1, <1>3 DEF Memory, SET_PREV_FRONT
<1>5. PICK c \in Address : c = f + 1
  BY <1>1
<1>6. PICK m3 : m3 = SET_TAG_FRONT(m2, f, tag)
  OBVIOUS
<1>7. m3 \in Memory /\ m3[c] = tag /\ \A a \in Address : a # c => m3[a] = m2[a]
  BY <1>4, <1>5, <1>6 DEF Memory, SET_TAG_FRONT
<1>8. m3[f + 2] = n
  BY <1>1, <1>2, <1>4, <1>5, <1>7
<1>9. PICK d \in Address : d = f + 4 + n /\ d = f + 3 + m3[f + 2] + 1
  BY <1>1, <1>8
<1>10. PICK m4 : m4 = SET_NEXT_FRONT(m3, f, next)
  OBVIOUS
<1>11. m4 \in Memory /\ m4[d] = next /\ \A a \in Address : a # d => m4[a] = m3[a]
  BY <1>7, <1>9, <1>10 DEF Memory, SET_NEXT_FRONT
<1>12. TagsAre(m4, f, n, prev, tag, next)
  BY <1>1, <1>2, <1>4, <1>5, <1>7, <1>8, <1>9, <1>11 DEF TagsAre
<1>13. ASSUME NEW a \in Address, a \notin TagCells(f, n) PROVE m4[a] = m[a]
  <2>1. a # f /\ a # c /\ a # f + 2 /\ a # f + 3 + n /\ a # d
    BY <1>5, <1>9, <1>13 DEF TagCells
  <2> QED
    BY <1>2, <1>4, <1>7, <1>11, <2>1
<1>14. SET_ALL_FRONT(m, f, n, prev, tag, next) = m4
  BY <1>2, <1>3, <1>6, <1>10 DEF SET_ALL_FRONT
<1> QED
  BY <1>11, <1>12, <1>13, <1>14

-----------------------------------------------------------------------------
(* One free block.                                                         *)

LEMMA InitChain ==
    ASSUME NEW m \in Memory, NEW pol \in Policy
    PROVE  \E T, sz, pv, tg, nx, rank :
               /\ Chain(mm_init(m), pol, T, sz, pv, tg, nx, {}, {MEM_START}, rank)
               /\ Sorted({MEM_START}, pol, sz, rank, {}, {})
               /\ T = {FREE_LIST_HEAD, MEM_START} /\ sz[MEM_START] = MEM_SIZE - TAGS
               /\ tg[MEM_START] = TAG_FREE
<1>1. /\ MEM_SIZE \in Nat /\ MEM_SIZE > 5 /\ FREE_LIST_HEAD = -5 /\ FREE_LIST_HEAD \in Address
      /\ 0 \in Address
  BY Cells
<1>2. PICK n \in Nat : n = MEM_SIZE - 5 /\ n > 0
  BY <1>1
<1>3. PICK h \in Int : h = FREE_LIST_HEAD /\ h = -5
  BY <1>1
<1>4. TagCells(0, n) \subseteq Address /\ TagCells(h, 0) \subseteq Address
      /\ TagCells(0, n) \cap TagCells(h, 0) = {}
  BY <1>2, <1>3, Cells DEF TagCells
<1>5. PICK m1 \in Memory : /\ SET_ALL_FRONT(m, 0, n, h, 0, h) = m1 /\ TagsAre(m1, 0, n, h, 0, h)
  BY <1>3, <1>4, SetAll
<1>6. PICK m2 \in Memory : /\ SET_ALL_FRONT(m1, h, 0, 0, 0, 0) = m2 /\ TagsAre(m2, h, 0, 0, 0, 0)
                           /\ \A a \in Address : a \notin TagCells(h, 0) => m2[a] = m1[a]
  BY <1>3, <1>4, SetAll
<1>7. mm_init(m) = m2
  BY <1>2, <1>3, <1>5, <1>6 DEF mm_init
<1>8. TagsAre(m2, 0, n, h, 0, h)
  <2>1. \A a \in TagCells(0, n) : m2[a] = m1[a]
    BY <1>4, <1>6
  <2> QED
    BY <1>5, <2>1 DEF TagCells, TagsAre
<1>9. PICK T : T = {h, 0}
  OBVIOUS
<1>10. PICK sz, link, tg : /\ sz = [f \in T |-> IF f = 0 THEN n ELSE 0]
                           /\ link = [f \in T |-> IF f = 0 THEN h ELSE 0]
                           /\ tg = [f \in T |-> 0]
  OBVIOUS
<1>11. /\ sz \in [T -> Nat] /\ link \in [T -> Int] /\ tg \in [T -> Int]
       /\ sz[0] = n /\ sz[h] = 0 /\ link[0] = h /\ link[h] = 0 /\ tg[0] = 0 /\ tg[h] = 0
       /\ h \in T /\ 0 \in T /\ h # 0 /\ \A f \in T : f = h \/ f = 0
  BY <1>2, <1>3, <1>9, <1>10
<1>12. Layout(T, sz)
  <2>1. T \subseteq Address /\ {FREE_LIST_HEAD, 0} \subseteq T /\ sz[FREE_LIST_HEAD] = 0
    BY <1>1, <1>3, <1>11
  <2>2. \A f \in T : f # FREE_LIST_HEAD => sz[f] > 0
    BY <1>2, <1>3, <1>11
  <2>3. h + 5 + sz[h] = 0 /\ 0 + 5 + sz[0] = MEM_SIZE
    BY <1>1, <1>2, <1>3, <1>11
  <2>4. \A f \in T : f + 5 + sz[f] \in T \cup {MEM_SIZE}
    BY <1>11, <2>3
  <2>5. \A f, g \in T : f < g => f = h /\ g = 0
    BY <1>3, <1>11
  <2>6. \A f, g \in T : f < g => f + 5 + sz[f] <= g
    BY <2>3, <2>5
  <2>7. \A g \in T : g # FREE_LIST_HEAD => \E f \in T : f + 5 + sz[f] = g
    BY <1>3, <1>11, <2>3
  <2> QED
    BY <1>11, <2>1, <2>2, <2>4, <2>6, <2>7 DEF Layout
<1>13. Tagged(m2, T, sz, link, tg, link, {})
  <2>1. \A f \in T : TagsAre(m2, f, sz[f], link[f], tg[f], link[f])
    BY <1>6, <1>8, <1>11
  <2> QED
    BY <1>11, <1>12, <2>1 DEF Tagged, Inside
<1>14. PICK rank : rank = [a \in Address |-> IF a = h THEN 0 ELSE 1]
  OBVIOUS
<1>15. rank \in [Address -> Int] /\ rank[h] = 0 /\ rank[0] = 1
  BY <1>1, <1>3, <1>11, <1>14
<1>16. Ranked({0}, link, link, rank)
  <2>1. \A x : x \in Anchored({0}) <=> x = h \/ x = 0
    BY <1>3 DEF Anchored
  <2>2. /\ {0} \subseteq Address /\ FREE_LIST_HEAD \notin {0} /\ rank[FREE_LIST_HEAD] = 0
    BY <1>1, <1>3, <1>15
  <2>3. \A x \in Anchored({0}) : link[x] \in Anchored({0}) /\ link[link[x]] = x
    BY <1>11, <2>1
  <2>4. \A x \in Anchored({0}) : link[x] \in {0} => rank[x] < rank[link[x]]
    BY <1>11, <1>15, <2>1
  <2>5. \A x \in Anchored({0}), y \in {0} :
            rank[x] < rank[y] => link[x] \in {0} /\ rank[link[x]] <= rank[y]
    BY <1>11, <1>15, <2>1
  <2> QED
    BY <1>15, <2>2, <2>3, <2>4, <2>5 DEF Ranked
<1>17. Chain(m2, pol, T, sz, link, tg, link, {}, {0}, rank)
  <2>1. Bk(pol, link, link) = link /\ Fw(pol, link, link) = link
    BY DEF Bk, Fw
  <2>2. {0} \subseteq T \ {FREE_LIST_HEAD}
    BY <1>3, <1>11
  <2> QED
    BY <1>13, <1>16, <2>1, <2>2 DEF Chain
<1>18. Sorted({0}, pol, sz, rank, {}, {})
  <2>1. ~(rank[0] < rank[0])
    BY <1>15
  <2> QED
    BY <2>1 DEF Sorted
<1> QED
  BY <1>2, <1>3, <1>7, <1>9, <1>11, <1>17, <1>18

-----------------------------------------------------------------------------
(* A tag written, a user's data written and returned.                      *)

LEMMA ChainTag ==
    ASSUME NEW m, NEW pol, NEW T, NEW sz, NEW pv, NEW tg, NEW nx, NEW D, NEW R, NEW rank,
           Chain(m, pol, T, sz, pv, tg, nx, D, R, rank), NEW p \in T, NEW v \in Int
    PROVE  Chain(SET_TAG_FRONT(m, p, v), pol, T, sz, pv, [tg EXCEPT ![p] = v], nx, D, R, rank)
BY SetTag DEF Chain

LEMMA ChainFill ==
    ASSUME NEW m, NEW pol, NEW T, NEW sz, NEW pv, NEW tg, NEW nx, NEW D, NEW R, NEW rank,
           Chain(m, pol, T, sz, pv, tg, nx, D, R, rank), NEW f \in T, NEW n \in Nat, n <= sz[f]
    PROVE  Chain(Filled(m, f + 3, n), pol, T, sz, pv, tg, nx,
                 D \cup (f + 3 .. f + 3 + n - 1), R, rank)
BY FillTags DEF Chain

LEMMA ChainLess ==
    ASSUME NEW m, NEW pol, NEW T, NEW sz, NEW pv, NEW tg, NEW nx, NEW D, NEW R, NEW rank,
           Chain(m, pol, T, sz, pv, tg, nx, D, R, rank), NEW E, E \subseteq D
    PROVE  Chain(m, pol, T, sz, pv, tg, nx, E, R, rank)
BY LessData DEF Chain

-----------------------------------------------------------------------------
(* Splitting a block.                                                      *)

(* p keeps n cells.                                                        *)
SplitSize(T, sz, p, n) ==
    [x \in T \cup {Rest(p, n)} |->
        CASE x = p -> n [] x = Rest(p, n) -> sz[p] - n - TAGS [] OTHER -> sz[x]]

Divides(sz, p, n) == n \in Nat \ {0} /\ n + TAGS < sz[p]

(* Sizes or tags of the blocks in T, but for p's.                          *)
AllKept(T, p, old, new) == \A x \in T : x # p => new[x] = old[x]

(* The memory before the rest is linked.                                   *)
Cut(m, sz, p, n) ==
    LET used == SET_TAG_FRONT(SET_SIZE_FRONT(m, p, n), p, TAG_USED)
    IN  SET_TAG_FRONT(SET_SIZE_FRONT(used, Rest(p, n), sz[p] - n - TAGS),
                      Rest(p, n), TAG_FREE)

LEMMA SplitLayout ==
    ASSUME NEW T, NEW sz, Layout(T, sz), NEW p \in T, p # FREE_LIST_HEAD,
           NEW n \in Nat, Divides(sz, p, n)
    PROVE  /\ Layout(T \cup {Rest(p, n)}, SplitSize(T, sz, p, n))
           /\ Rest(p, n) \in Int /\ Rest(p, n) \notin T /\ p < Rest(p, n)
           /\ SplitSize(T, sz, p, n)[p] = n
           /\ SplitSize(T, sz, p, n)[Rest(p, n)] \in Nat
           /\ SplitSize(T, sz, p, n)[Rest(p, n)] = sz[p] - n - 5
           /\ AllKept(T, p, sz, SplitSize(T, sz, p, n))
<1>0. PICK q, sz2 : q = Rest(p, n) /\ sz2 = SplitSize(T, sz, p, n)
  OBVIOUS
<1>n. n \in Nat \ {0} /\ n + TAGS < sz[p]
  BY DEF Divides
<1> DEFINE U == T \cup {q}
<1>1. /\ T \subseteq Address /\ \A x \in T : x \in Int /\ sz[x] \in Nat
      /\ FREE_LIST_HEAD \in T /\ 0 \in T /\ sz[FREE_LIST_HEAD] = 0
      /\ \A x \in T : x # FREE_LIST_HEAD => sz[x] > 0
      /\ \A x, y \in T : x < y => x + 5 + sz[x] <= y
      /\ \A x \in T : x + 5 + sz[x] \in T \cup {MEM_SIZE}
      /\ \A x \in T : x + 5 + sz[x] <= MEM_SIZE
      /\ MEM_SIZE \in Nat
  BY Cells, InMemory DEF Layout
<1>2a. q = p + 5 + n
  BY <1>0 DEF Rest
<1>2. q = p + 5 + n /\ q \in Int /\ p \in Int /\ sz[p] \in Nat /\ p < q /\ q + 6 <= p + 5 + sz[p] /\ -5 <= p
  BY <1>1, <1>2a, <1>n, InMemory
<1>3. q \in Address /\ q # FREE_LIST_HEAD
  BY <1>1, <1>2, Cells
<1>4. q \notin T
  BY <1>1, <1>2
<1>5. PICK k \in Nat : k = sz[p] - n - 5 /\ k > 0 /\ q + 5 + k = p + 5 + sz[p]
  BY <1>1, <1>2, <1>n
<1>6. sz2 = [x \in U |-> IF x = p THEN n ELSE IF x = q THEN k ELSE sz[x]]
  BY <1>0, <1>2, <1>5 DEF SplitSize
<1>7. /\ sz2 \in [U -> Nat] /\ sz2[p] = n /\ sz2[q] = k
      /\ \A x \in T : x # p => sz2[x] = sz[x]
  BY <1>1, <1>2, <1>4, <1>6, <1>n
<1> HIDE DEF U
<1>8. \A x : x \in U <=> x \in T \/ x = q
  BY DEF U
<1>9. U \subseteq Address /\ {FREE_LIST_HEAD, 0} \subseteq U /\ sz2[FREE_LIST_HEAD] = 0
  BY <1>1, <1>3, <1>7, <1>8
<1>10. \A x \in U : x # FREE_LIST_HEAD => sz2[x] > 0
  BY <1>1, <1>5, <1>7, <1>8, <1>n
<1>11. ASSUME NEW x \in U PROVE x + 5 + sz2[x] \in U \cup {MEM_SIZE}
  <2>1. CASE x = p
    BY <1>2, <1>7, <1>8, <2>1
  <2>2. CASE x = q
    BY <1>1, <1>5, <1>7, <1>8, <2>2
  <2>3. CASE x \in T /\ x # p
    BY <1>1, <1>7, <1>8, <2>3
  <2> QED
    BY <1>8, <2>1, <2>2, <2>3
<1>12. ASSUME NEW x \in U, NEW y \in U, x < y PROVE x + 5 + sz2[x] <= y
  <2>1. CASE x \in T /\ y \in T /\ x # p
    BY <1>1, <1>7, <1>12, <2>1
  <2>2. CASE x = p /\ y \in T
    BY <1>1, <1>2, <1>7, <1>12, <2>2
  <2>3. CASE x = p /\ y = q
    BY <1>2, <1>7, <2>3
  <2>4. CASE x = q /\ y \in T
    <3>1. p < y /\ y \in Int
      BY <1>1, <1>2, <1>12, <2>4
    <3>2. p + 5 + sz[p] <= y
      BY <1>1, <2>4, <3>1
    <3> QED
      BY <1>2, <1>5, <1>7, <2>4, <3>1, <3>2
  <2>5. CASE x \in T /\ x # p /\ y = q
    <3>1. x \in Int /\ sz[x] \in Nat /\ (x < p \/ p < x)
      BY <1>1, <1>2, <2>5
    <3>2. CASE p < x
      <4>1. p + 5 + sz[p] <= x
        BY <1>1, <2>5, <3>2
      <4> QED
        BY <1>2, <1>12, <2>5, <3>1, <4>1
    <3>3. CASE x < p
      <4>1. x + 5 + sz[x] <= p
        BY <1>1, <2>5, <3>3
      <4> QED
        BY <1>2, <1>7, <2>5, <3>1, <4>1
    <3> QED
      BY <3>1, <3>2, <3>3
  <2>6. CASE x = q /\ y = q
    BY <1>2, <1>12, <2>6
  <2> QED
    BY <1>8, <2>1, <2>2, <2>3, <2>4, <2>5, <2>6
<1>13. ASSUME NEW y \in U, y # FREE_LIST_HEAD PROVE \E x \in U : x + 5 + sz2[x] = y
  <2>1. CASE y = q
    BY <1>2, <1>7, <1>8, <2>1
  <2>2. CASE y \in T
    <3>1. PICK x \in T : x + 5 + sz[x] = y
      BY <1>13, <2>2 DEF Layout
    <3>2. CASE x = p
      BY <1>5, <1>7, <1>8, <3>1, <3>2
    <3>3. CASE x # p
      BY <1>7, <1>8, <3>1, <3>3
    <3> QED
      BY <3>2, <3>3
  <2> QED
    BY <1>8, <2>1, <2>2
<1>14. Layout(U, sz2)
  BY <1>7, <1>9, <1>10, <1>11, <1>12, <1>13 DEF Layout
<1> QED
  BY <1>0, <1>2, <1>4, <1>5, <1>7, <1>14 DEF U, AllKept

(* The memory before the rest is linked: its prev and p's next are what    *)
(* was in the memory.                                                      *)
CutTags(T, p, n, pv, tg, nx, pv2, tg2, nx2) ==
    /\ tg2[p] = TAG_USED /\ tg2[Rest(p, n)] = TAG_FREE
    /\ \A x \in T : x # p => pv2[x] = pv[x] /\ tg2[x] = tg[x] /\ nx2[x] = nx[x]

LEMMA SplitTags ==
    ASSUME NEW m, NEW T, NEW sz, NEW pv, NEW tg, NEW nx, NEW D,
           Tagged(m, T, sz, pv, tg, nx, D), NEW p \in T, p # FREE_LIST_HEAD,
           NEW n \in Nat, Divides(sz, p, n), Unwritten(D, sz, p, p)
    PROVE  \E pv2, tg2, nx2 :
               /\ Tagged(Cut(m, sz, p, n), T \cup {Rest(p, n)},
                         SplitSize(T, sz, p, n), pv2, tg2, nx2, D)
               /\ CutTags(T, p, n, pv, tg, nx, pv2, tg2, nx2)
<1>q. PICK q, sz2 : q = Rest(p, n) /\ sz2 = SplitSize(T, sz, p, n)
  OBVIOUS
<1> DEFINE U == T \cup {q}
<1>n. n \in Nat \ {0} /\ n + TAGS < sz[p]
  BY DEF Divides
<1>0. /\ Layout(T, sz) /\ Inside(D, T, sz) /\ D \subseteq Address /\ m \in Memory
      /\ \A a \in D : m[a] = Data
      /\ pv \in [T -> Int] /\ tg \in [T -> Int] /\ nx \in [T -> Int]
      /\ TagsAre(m, p, sz[p], pv[p], tg[p], nx[p])
  BY DEF Tagged
<1>1. /\ Layout(U, sz2) /\ q \in Int /\ q \notin T /\ p < q
      /\ sz2[p] = n /\ sz2[q] \in Nat /\ sz2[q] = sz[p] - n - 5
      /\ \A x \in T : x # p => sz2[x] = sz[x]
  BY <1>0, <1>q, SplitLayout DEF AllKept
<1> HIDE DEF U
<1>2. \A x : x \in U <=> x \in T \/ x = q
  BY DEF U
<1>3. PICK k \in Nat : k = sz[p] - n - 5 /\ k = sz2[q]
  BY <1>1
<1>3a. q = p + 5 + n
  BY <1>q DEF Rest
<1>4. /\ p \in Int /\ sz[p] \in Nat /\ q = p + 5 + n /\ q + 5 + k = p + 5 + sz[p] /\ n \in Nat
      /\ n \in Int /\ k \in Int
  BY <1>0, <1>3, <1>3a, <1>n, InMemory
<1>5. TagCells(p, n) \subseteq Address /\ TagCells(q, k) \subseteq Address
  <2>1. p \in U /\ q \in U
    BY <1>2
  <2> QED
    BY <1>1, <1>3, <2>1, TagsInMemory
<1>6. /\ p \in Address /\ p + 1 \in Address /\ p + 2 \in Address
      /\ p + 3 + n \in Address /\ p + 4 + n \in Address
      /\ q \in Address /\ q + 1 \in Address /\ q + 2 \in Address
      /\ q + 3 + k \in Address /\ q + 4 + k \in Address
  BY <1>5 DEF TagCells
<1>7. PICK m1 \in Memory :
         /\ SET_SIZE_FRONT(m, p, n) = m1 /\ m1[p + 2] = n /\ m1[p + 3 + n] = n
         /\ \A a \in Address : a # p + 2 /\ a # p + 3 + n => m1[a] = m[a]
  BY <1>0, <1>4, <1>6, WriteSize
<1>8. PICK c \in Address : c = p + 1
  BY <1>6
<1>9. PICK m2 \in Memory : m2 = [m1 EXCEPT ![c] = 1]
  <2>1. 1 \in Int
    OBVIOUS
  <2>2. \A v \in Int : [m1 EXCEPT ![c] = v] \in Memory
    BY DEF Memory
  <2>3. [m1 EXCEPT ![c] = 1] \in Memory
    BY <2>1, <2>2
  <2> QED
    BY <2>3
<1>10. m2[c] = 1 /\ \A a \in Address : a # c => m2[a] = m1[a]
  BY <1>9 DEF Memory
<1>11. PICK m3 \in Memory :
         /\ SET_SIZE_FRONT(m2, q, k) = m3 /\ m3[q + 2] = k /\ m3[q + 3 + k] = k
         /\ \A a \in Address : a # q + 2 /\ a # q + 3 + k => m3[a] = m2[a]
  BY <1>1, <1>6, WriteSize
<1>12. PICK d \in Address : d = q + 1
  BY <1>6
<1>13. PICK m4 \in Memory : m4 = [m3 EXCEPT ![d] = 0]
  <2>1. 0 \in Int
    OBVIOUS
  <2>2. \A v \in Int : [m3 EXCEPT ![d] = v] \in Memory
    BY DEF Memory
  <2>3. [m3 EXCEPT ![d] = 0] \in Memory
    BY <2>1, <2>2
  <2> QED
    BY <2>3
<1>14. m4[d] = 0 /\ \A a \in Address : a # d => m4[a] = m3[a]
  BY <1>13 DEF Memory
<1>15. Cut(m, sz, p, n) = m4
  <2>1. m2 = SET_TAG_FRONT(m1, p, 1) /\ m4 = SET_TAG_FRONT(m3, q, 0)
    BY <1>8, <1>9, <1>12, <1>13 DEF SET_TAG_FRONT
  <2> QED
    BY <1>3, <1>7, <1>11, <1>q, <2>1 DEF Cut
<1>16. PICK B : B = {p + 1, p + 2, p + 3 + n, q + 1, q + 2, q + 3 + k}
  OBVIOUS
<1>17. ASSUME NEW a \in Address, a \notin B PROVE m4[a] = m[a]
  <2>1. /\ a # p + 2 /\ a # p + 3 + n /\ a # c /\ a # q + 2 /\ a # q + 3 + k /\ a # d
    BY <1>8, <1>12, <1>16, <1>17
  <2> QED
    BY <1>7, <1>10, <1>11, <1>14, <2>1
<1>18. \A a \in B : a \in Int /\ p < a /\ a < p + 5 + sz[p]
  BY <1>1, <1>4, <1>16
<1>19. PICK v \in Int, w \in Int : v = m4[q] /\ w = m4[p + 4 + n]
  BY <1>6 DEF Memory
<1>20. TagsAre(m4, p, n, pv[p], 1, w)
  <2>1. m4[p] = pv[p]
    <3>1. p \notin B /\ m[p] = pv[p]
      BY <1>0, <1>4, <1>18 DEF TagsAre
    <3> QED
      BY <1>6, <1>17, <3>1
  <2>2. p + 1 # d /\ p + 1 # q + 2 /\ p + 1 # q + 3 + k
    BY <1>1, <1>4, <1>12
  <2>3. m4[p + 1] = 1
    BY <1>6, <1>8, <1>10, <1>11, <1>14, <2>2
  <2>4. p + 2 # d /\ p + 2 # q + 2 /\ p + 2 # q + 3 + k /\ p + 2 # c
    BY <1>1, <1>4, <1>8, <1>12
  <2>5. m4[p + 2] = n
    BY <1>6, <1>7, <1>10, <1>11, <1>14, <2>4
  <2>6. p + 3 + n # d /\ p + 3 + n # q + 2 /\ p + 3 + n # q + 3 + k /\ p + 3 + n # c
    BY <1>1, <1>4, <1>8, <1>12
  <2>7. m4[p + 3 + n] = n
    BY <1>6, <1>7, <1>10, <1>11, <1>14, <2>6
  <2> QED
    BY <1>19, <2>1, <2>3, <2>5, <2>7 DEF TagsAre
<1>21. TagsAre(m4, q, k, v, 0, nx[p])
  <2>1. q + 4 + k = p + 4 + sz[p]
    BY <1>4
  <2>2. m4[q + 4 + k] = nx[p]
    <3>1. q + 4 + k \notin B
      BY <1>4, <1>16
    <3>2. m[p + 4 + sz[p]] = nx[p]
      BY <1>0 DEF TagsAre
    <3> QED
      BY <1>6, <1>17, <2>1, <3>1, <3>2
  <2>3. q + 2 # d /\ q + 3 + k # d
    BY <1>1, <1>12
  <2>4. m4[q + 2] = k /\ m4[q + 3 + k] = k
    BY <1>6, <1>11, <1>14, <2>3
  <2> QED
    BY <1>12, <1>14, <1>19, <2>2, <2>4 DEF TagsAre
<1>22. ASSUME NEW x \in T, x # p PROVE TagsAre(m4, x, sz[x], pv[x], tg[x], nx[x])
  <2>1. x \in Int /\ sz[x] \in Nat /\ TagCells(x, sz[x]) \subseteq Address
    BY <1>0, InMemory, TagsInMemory
  <2>2. x + 5 + sz[x] <= p \/ p + 5 + sz[p] <= x
    BY <1>0, <1>22, Apart
  <2>3. \A a \in TagCells(x, sz[x]) : a \in Int /\ x <= a /\ a < x + 5 + sz[x]
    BY <2>1 DEF TagCells
  <2>4. TagCells(x, sz[x]) \cap B = {}
    BY <1>4, <1>18, <2>1, <2>2, <2>3
  <2>5. \A a \in TagCells(x, sz[x]) : m4[a] = m[a]
    BY <1>17, <2>1, <2>4
  <2>6. TagsAre(m, x, sz[x], pv[x], tg[x], nx[x])
    BY DEF Tagged
  <2> QED
    BY <2>5, <2>6 DEF TagCells, TagsAre
<1>23. \A a \in D : a \in Int /\ (a < p \/ p + 5 + sz[p] <= a)
  BY <1>0, Cells DEF Unwritten
<1>24. \A a \in D : m4[a] = Data
  <2>1. D \cap B = {}
    BY <1>4, <1>18, <1>23
  <2> QED
    BY <1>0, <1>17, <2>1
<1>25. PICK pv2, tg2, nx2 :
         /\ pv2 = [x \in U |-> IF x = q THEN v ELSE pv[x]]
         /\ tg2 = [x \in U |-> IF x = q THEN 0 ELSE IF x = p THEN 1 ELSE tg[x]]
         /\ nx2 = [x \in U |-> IF x = q THEN nx[p] ELSE IF x = p THEN w ELSE nx[x]]
  OBVIOUS
<1>26. /\ pv2 \in [U -> Int] /\ tg2 \in [U -> Int] /\ nx2 \in [U -> Int]
       /\ pv2[q] = v /\ tg2[q] = 0 /\ nx2[q] = nx[p]
       /\ pv2[p] = pv[p] /\ tg2[p] = 1 /\ nx2[p] = w
       /\ \A x \in T : x # p => pv2[x] = pv[x] /\ tg2[x] = tg[x] /\ nx2[x] = nx[x]
  BY <1>0, <1>1, <1>2, <1>19, <1>25
<1>27. \A x \in U : TagsAre(m4, x, sz2[x], pv2[x], tg2[x], nx2[x])
  BY <1>1, <1>2, <1>3, <1>20, <1>21, <1>22, <1>26
<1>28. Inside(D, U, sz2)
  <2>1. ASSUME NEW a \in D, NEW x \in U PROVE NoTag(a, x, sz2[x])
    <3>1. CASE x = p \/ x = q
      <4>1. a < x \/ x + 5 + sz2[x] <= a
        BY <1>1, <1>3, <1>4, <1>23, <3>1
      <4> QED
        BY <4>1 DEF NoTag
    <3>2. CASE x \in T /\ x # p
      BY <1>0, <1>1, <3>2 DEF Inside
    <3> QED
      BY <1>2, <3>1, <3>2
  <2> QED
    BY <2>1 DEF Inside
<1>29. Tagged(m4, U, sz2, pv2, tg2, nx2, D)
  BY <1>0, <1>1, <1>24, <1>26, <1>27, <1>28 DEF Tagged
<1> QED
  BY <1>15, <1>26, <1>29, <1>q DEF U, CutTags

SplitTag(T, p, n, tg, tg2) ==
    tg2[p] = TAG_USED /\ tg2[Rest(p, n)] = TAG_FREE /\ AllKept(T, p, tg, tg2)

(* The rest takes p's place in the ring.                                   *)
LEMMA ChainSplit ==
    ASSUME NEW m, NEW pol, NEW T, NEW sz, NEW pv, NEW tg, NEW nx, NEW D, NEW R, NEW rank,
           Chain(m, pol, T, sz, pv, tg, nx, D, R, rank), NEW p \in R,
           NEW n \in Nat, Divides(sz, p, n), Unwritten(D, sz, p, p)
    PROVE  \E pv2, tg2, nx2, rank2 :
               /\ Chain(Split(m, p, n), pol, T \cup {Rest(p, n)}, SplitSize(T, sz, p, n),
                        pv2, tg2, nx2, D, (R \ {p}) \cup {Rest(p, n)}, rank2)
               /\ SamePlace(R, p, Rest(p, n), rank, rank2)
               /\ SplitTag(T, p, n, tg, tg2)
<1>q. PICK q, sz2 : q = Rest(p, n) /\ sz2 = SplitSize(T, sz, p, n)
  OBVIOUS
<1>1. /\ Tagged(m, T, sz, pv, tg, nx, D) /\ Layout(T, sz) /\ p \in T /\ p # FREE_LIST_HEAD
      /\ Anchored(R) \subseteq T /\ p \in Anchored(R) /\ FREE_LIST_HEAD \notin R
      /\ pv[p] \in Anchored(R) /\ nx[p] \in Anchored(R) /\ pv[p] # p /\ nx[p] # p
      /\ pv \in [T -> Int] /\ nx \in [T -> Int]
  BY ChainFacts
<1>2. Layout(T \cup {q}, sz2) /\ q \notin T
  BY <1>1, <1>q, SplitLayout
<1>3. PICK pv2, tg2, nx2 :
         /\ Tagged(Cut(m, sz, p, n), T \cup {Rest(p, n)}, SplitSize(T, sz, p, n), pv2, tg2, nx2, D)
         /\ CutTags(T, p, n, pv, tg, nx, pv2, tg2, nx2)
  BY <1>1, SplitTags
<1>3a. PICK rest : rest = Cut(m, sz, p, n)
  OBVIOUS
<1>4. /\ Tagged(rest, T \cup {q}, sz2, pv2, tg2, nx2, D)
      /\ tg2[p] = TAG_USED /\ tg2[q] = TAG_FREE
      /\ \A x \in T : x # p => pv2[x] = pv[x] /\ tg2[x] = tg[x] /\ nx2[x] = nx[x]
  BY <1>3, <1>3a, <1>q DEF CutTags
<1>5. PICK l, r : l = pv[p] /\ r = nx[p]
  OBVIOUS
<1>6. PICK pv3, nx3 : pv3 = AddPrev(pv2, l, q, r) /\ nx3 = AddNext(nx2, l, q, r)
  OBVIOUS
<1>7. /\ l \in Anchored(R) /\ r \in Anchored(R) /\ l \in T /\ r \in T /\ l # q /\ r # q
      /\ l # p /\ r # p
  BY <1>1, <1>2, <1>5
<1>8. Tagged(Link(Link(rest, l, q), q, r), T \cup {q}, sz2, pv3, tg2, nx3, D)
  <2>1. l \in T \cup {q} /\ r \in T \cup {q} /\ q \in T \cup {q}
    BY <1>7
  <2> QED
    BY <1>4, <1>6, <2>1, AddTags
<1>9. Split(m, p, n) = Link(Link(rest, l, q), q, r)
  <2>1. GET_PREV_FRONT(m, p) = l /\ GET_NEXT_FRONT(m, p) = r /\ GET_SIZE_FRONT(m, p) = sz[p]
    BY <1>1, <1>5, Reads
  <2> QED
    BY <1>3a, <1>q, <2>1 DEF Split, Cut
<1>10. pv2 \in [T \cup {q} -> Int] /\ nx2 \in [T \cup {q} -> Int]
  BY <1>4 DEF Tagged
<1>11. /\ pv3[q] = l /\ pv3[r] = q /\ \A x \in T : x # r => pv3[x] = pv2[x]
       /\ nx3[q] = r /\ nx3[l] = q /\ \A x \in T : x # l => nx3[x] = nx2[x]
  BY <1>2, <1>6, <1>7, <1>10 DEF AddPrev, AddNext
<1>12. /\ pv3[q] = pv[p] /\ pv3[nx[p]] = q
       /\ \A x \in Anchored(R) \ {p} : x # nx[p] => pv3[x] = pv[x]
       /\ nx3[q] = nx[p] /\ nx3[pv[p]] = q
       /\ \A x \in Anchored(R) \ {p} : x # pv[p] => nx3[x] = nx[x]
  BY <1>1, <1>4, <1>5, <1>11
<1>13. q \in Address /\ q \notin Anchored(R) /\ q # FREE_LIST_HEAD
  BY <1>1, <1>2 DEF Layout
<1>14. PICK rank2 :
         /\ Ranked((R \ {p}) \cup {q}, Bk(pol, pv3, nx3), Fw(pol, pv3, nx3), rank2)
         /\ SamePlace(R, p, q, rank, rank2)
  BY <1>12, <1>13, LinksReplace DEF Chain
<1>15. Chain(Split(m, p, n), pol, T \cup {q}, sz2, pv3, tg2, nx3, D, (R \ {p}) \cup {q}, rank2)
  <2>1. (R \ {p}) \cup {q} \subseteq (T \cup {q}) \ {FREE_LIST_HEAD} /\ pol \in Policy
    BY <1>13 DEF Chain
  <2> QED
    BY <1>8, <1>9, <1>14, <2>1 DEF Chain
<1>16. SplitTag(T, p, n, tg, tg2)
  BY <1>4, <1>q DEF SplitTag, AllKept
<1> QED
  BY <1>14, <1>15, <1>16, <1>q

-----------------------------------------------------------------------------
(* Joining blocks.                                                         *)

(* A grown block may be out of place, unless the order is by address.      *)
Grew(pol, f) == IF pol = "first_fit" THEN {} ELSE {f}

LEMMA GrownKeys ==
    ASSUME NEW T, NEW sz, Layout(T, sz), NEW f \in T, NEW g \in T, f # FREE_LIST_HEAD, f < g
    PROVE  /\ f \in Kept(T, f, g) /\ g \notin Kept(T, f, g) /\ Kept(T, f, g) \subseteq T
           /\ Layout(Kept(T, f, g), Grow(T, sz, f, g))
           /\ GrownSize(sz, f, g) \in Nat
           /\ Grow(T, sz, f, g)[f] = GrownSize(sz, f, g)
           /\ sz[f] <= Grow(T, sz, f, g)[f] /\ sz[g] <= Grow(T, sz, f, g)[f]
           /\ \A x \in Kept(T, f, g) : x # f => Grow(T, sz, f, g)[x] = sz[x]
<1>1. PICK T2 : T2 = Kept(T, f, g)
  OBVIOUS
<1>2. f \in Int /\ g \in Int /\ sz[f] \in Nat /\ sz[g] \in Nat /\ f + 5 + sz[f] <= g
  BY InMemory DEF Layout
<1>3. f \in T2 /\ g \notin T2 /\ T2 \subseteq T
  BY <1>1, <1>2 DEF Kept
<1>4. PICK n \in Nat : n = GrownSize(sz, f, g) /\ sz[f] <= n /\ sz[g] <= n
  BY <1>2 DEF GrownSize
<1>5. PICK sz2 : sz2 = Grow(T, sz, f, g)
  OBVIOUS
<1>6. sz2 = [x \in T2 |-> IF x = f THEN n ELSE sz[x]]
  BY <1>1, <1>4, <1>5 DEF Grow
<1>7. sz2[f] = n /\ \A x \in T2 : x # f => sz2[x] = sz[x]
  BY <1>3, <1>6
<1>8. Layout(T2, sz2)
  BY <1>1, <1>5, GrownLayout
<1> QED
  BY <1>1, <1>3, <1>4, <1>5, <1>7, <1>8

LEMMA ChainAbsorb ==
    ASSUME NEW m, NEW pol, NEW T, NEW sz, NEW pv, NEW tg, NEW nx, NEW D, NEW R, NEW rank,
           Chain(m, pol, T, sz, pv, tg, nx, D, R, rank), Sorted(R, pol, sz, rank, {}, {}),
           NEW f \in R, NEW g \in T, f < g, R \subseteq Kept(T, f, g), Unwritten(D, sz, f, g)
    PROVE  \E pv2, tg2, nx2 :
               /\ Chain(Absorb(m, f, g), pol, Kept(T, f, g), Grow(T, sz, f, g),
                        pv2, tg2, nx2, D, R, rank)
               /\ Sorted(R, pol, Grow(T, sz, f, g), rank, Grew(pol, f), {})
               /\ \A x \in Kept(T, f, g) : tg2[x] = tg[x]
<1>1. /\ Tagged(m, T, sz, pv, tg, nx, D) /\ Layout(T, sz) /\ f \in T /\ f # FREE_LIST_HEAD
      /\ pv \in [T -> Int] /\ tg \in [T -> Int] /\ nx \in [T -> Int]
      /\ \A x \in T : x \in Int /\ sz[x] \in Nat
      /\ FREE_LIST_HEAD \notin R /\ FREE_LIST_HEAD \in T /\ R \subseteq T
  BY ChainFacts
<1>2. PICK T2, sz2 : T2 = Kept(T, f, g) /\ sz2 = Grow(T, sz, f, g)
  OBVIOUS
<1>3. /\ f \in T2 /\ g \notin T2 /\ T2 \subseteq T /\ Layout(T2, sz2)
      /\ sz2[f] = GrownSize(sz, f, g) /\ sz[f] <= sz2[f]
      /\ \A x \in T2 : x # f => sz2[x] = sz[x]
  BY <1>1, <1>2, GrownKeys
<1>4. PICK pv2, tg2, nx1 : /\ pv2 = KeptTags(T, pv, f, g) /\ tg2 = KeptTags(T, tg, f, g)
                           /\ nx1 = GrownNext(T, nx, f, g)
  OBVIOUS
<1>5. PICK m1 : m1 = SET_SIZE_FRONT(m, f, GrownSize(sz, f, g))
  OBVIOUS
<1>6. Tagged(m1, T2, sz2, pv2, tg2, nx1, D)
  BY <1>1, <1>2, <1>4, <1>5, GrowTags
<1>7. PICK nx2 : nx2 = [nx1 EXCEPT ![f] = nx[f]]
  OBVIOUS
<1>8. Tagged(SET_NEXT_FRONT(m1, f, nx[f]), T2, sz2, pv2, tg2, nx2, D)
  <2>1. nx[f] \in Int
    BY <1>1
  <2> QED
    BY <1>3, <1>6, <1>7, <2>1, SetNext
<1>9. Absorb(m, f, g) = SET_NEXT_FRONT(m1, f, nx[f])
  <2>1. GET_BACK_FRONT(m, g) = g + 5 + sz[g] /\ GET_NEXT_FRONT(m, f) = nx[f]
    BY <1>1, Reads
  <2>2. GET_BACK_FRONT(m, g) - f - TAGS = GrownSize(sz, f, g)
    BY <1>1, <2>1 DEF GrownSize
  <2> QED
    BY <1>5, <2>1, <2>2 DEF Absorb
<1>10. \A x \in T2 : pv2[x] = pv[x] /\ tg2[x] = tg[x] /\ nx2[x] = nx[x]
  <2>1. \A x \in T2 : pv2[x] = pv[x] /\ tg2[x] = tg[x]
    BY <1>2, <1>4 DEF KeptTags
  <2>2. nx1 = [x \in T2 |-> IF x = f THEN nx[g] ELSE nx[x]]
    BY <1>2, <1>4 DEF GrownNext
  <2>3. \A x \in T2 : nx2[x] = nx[x]
    BY <1>7, <2>2
  <2> QED
    BY <2>1, <2>3
<1>11. Anchored(R) \subseteq T2 /\ R \subseteq T2 \ {FREE_LIST_HEAD}
  BY <1>1, <1>2, <1>3 DEF Layout, Anchored
<1>12. Ranked(R, Bk(pol, pv2, nx2), Fw(pol, pv2, nx2), rank)
  <2>1. PICK bk, fw, bk2, fw2 : /\ bk = Bk(pol, pv, nx) /\ fw = Fw(pol, pv, nx)
                                /\ bk2 = Bk(pol, pv2, nx2) /\ fw2 = Fw(pol, pv2, nx2)
    OBVIOUS
  <2>2. \A x \in Anchored(R) : bk2[x] = bk[x] /\ fw2[x] = fw[x]
    BY <1>10, <1>11, <2>1 DEF Bk, Fw
  <2>3. Ranked(R, bk, fw, rank)
    BY <2>1 DEF Chain
  <2> QED
    BY <2>1, <2>2, <2>3, SameRing
<1>13. Chain(Absorb(m, f, g), pol, T2, sz2, pv2, tg2, nx2, D, R, rank)
  BY <1>8, <1>9, <1>11, <1>12 DEF Chain
<1>14. Sorted(R, pol, sz2, rank, Grew(pol, f), {})
  <2>1. ASSUME NEW x \in R \ Grew(pol, f), NEW y \in R \ {}, rank[x] < rank[y]
        PROVE  Key(pol, sz2, x) <= Key(pol, sz2, y)
    <3>1. Key(pol, sz, x) <= Key(pol, sz, y)
      BY <2>1 DEF Sorted
    <3>2. x \in T2 /\ y \in T2 /\ x \in T /\ y \in T
      BY <1>3, <1>11
    <3>3. CASE pol = "first_fit"
      BY <3>1, <3>3 DEF Key
    <3>4. CASE pol # "first_fit"
      <4>1. x # f /\ sz[x] <= sz[y]
        BY <2>1, <3>1, <3>4 DEF Key, Grew
      <4>2. sz2[x] = sz[x] /\ sz[y] <= sz2[y]
        BY <1>1, <1>3, <3>2, <4>1
      <4>3. sz2[y] \in Int
        BY <1>3, <3>2 DEF Layout
      <4>4. sz2[x] <= sz2[y]
        BY <1>1, <3>2, <4>1, <4>2, <4>3
      <4> QED
        BY <3>4, <4>4 DEF Key
    <3> QED
      BY <3>3, <3>4
  <2> QED
    BY <2>1 DEF Sorted
<1> QED
  BY <1>2, <1>10, <1>13, <1>14

(* A used block takes in the free one on its right, and its place.         *)
LEMMA ChainAbsorbRight ==
    ASSUME NEW m, NEW pol, NEW T, NEW sz, NEW pv, NEW tg, NEW nx, NEW D, NEW R, NEW rank,
           Chain(m, pol, T, sz, pv, tg, nx, D, R, rank), Sorted(R, pol, sz, rank, {}, {}),
           NEW p \in T, p \notin Anchored(R), NEW g \in R, g = p + 5 + sz[p],
           Unwritten(D, sz, p, g)
    PROVE  \E pv2, tg2, nx2, rank2 :
               /\ Chain(AbsorbRight(m, p), pol, Kept(T, p, g), Grow(T, sz, p, g),
                        pv2, tg2, nx2, D, (R \ {g}) \cup {p}, rank2)
               /\ Sorted((R \ {g}) \cup {p}, pol, Grow(T, sz, p, g), rank2, Grew(pol, p), {})
               /\ tg2[p] = TAG_FREE /\ AllKept(Kept(T, p, g), p, tg, tg2)
<1>1. /\ Tagged(m, T, sz, pv, tg, nx, D) /\ Layout(T, sz) /\ g \in T /\ p # FREE_LIST_HEAD
      /\ pv \in [T -> Int] /\ tg \in [T -> Int] /\ nx \in [T -> Int]
      /\ \A x \in T : x \in Int /\ sz[x] \in Nat
      /\ FREE_LIST_HEAD \notin R /\ R \subseteq T /\ p \notin R
      /\ g \in Anchored(R) /\ Anchored(R) \subseteq T /\ p \in Address
  BY ChainFacts DEF Anchored
<1>2. p < g
  BY <1>1
<1>3. PICK T2, sz2 : T2 = Kept(T, p, g) /\ sz2 = Grow(T, sz, p, g)
  OBVIOUS
<1>4. /\ p \in T2 /\ g \notin T2 /\ T2 \subseteq T /\ Layout(T2, sz2)
      /\ sz2[p] = GrownSize(sz, p, g) /\ sz[g] <= sz2[p]
      /\ \A x \in T2 : x # p => sz2[x] = sz[x]
  BY <1>1, <1>2, <1>3, GrownKeys
<1>5. \A x \in T : x # g => x \in T2
  <2>1. ASSUME NEW x \in T, x # g PROVE x <= p \/ x > g
    <3>1. x = p \/ p + 5 + sz[p] <= x \/ x + 5 + sz[x] <= p
      BY <1>1, Apart
    <3> QED
      BY <1>1, <2>1, <3>1
  <2> QED
    BY <1>3, <2>1 DEF Kept
<1>6. PICK l, r : l = pv[g] /\ r = nx[g]
  OBVIOUS
<1>7. /\ l \in Anchored(R) /\ r \in Anchored(R) /\ l # g /\ r # g /\ l # p /\ r # p
      /\ l \in T2 /\ r \in T2 /\ l \in Int /\ r \in Int /\ p \in Int
  <2>1. pv[g] \in Anchored(R) /\ nx[g] \in Anchored(R) /\ pv[g] # g /\ nx[g] # g
    BY <1>1, ChainFacts
  <2> QED
    BY <1>1, <1>5, <1>6, <2>1
<1>8. PICK pv1, tg1, nx1 : /\ pv1 = KeptTags(T, pv, p, g) /\ tg1 = KeptTags(T, tg, p, g)
                           /\ nx1 = GrownNext(T, nx, p, g)
  OBVIOUS
<1>9. PICK m1 : m1 = SET_SIZE_FRONT(m, p, GrownSize(sz, p, g))
  OBVIOUS
<1>10. Tagged(m1, T2, sz2, pv1, tg1, nx1, D)
  BY <1>1, <1>2, <1>3, <1>8, <1>9, GrowTags
<1>11. PICK m2, pv2 : m2 = SET_PREV_FRONT(m1, p, l) /\ pv2 = [pv1 EXCEPT ![p] = l]
  OBVIOUS
<1>12. Tagged(m2, T2, sz2, pv2, tg1, nx1, D)
  BY <1>4, <1>7, <1>10, <1>11, SetPrev
<1>12a. PICK free \in Int : free = TAG_FREE
  OBVIOUS
<1>13. PICK m3, tg2 : m3 = SET_TAG_FRONT(m2, p, free) /\ tg2 = [tg1 EXCEPT ![p] = free]
  OBVIOUS
<1>14. Tagged(m3, T2, sz2, pv2, tg2, nx1, D)
  BY <1>4, <1>12, <1>13, SetTag
<1>15. PICK m4, nx2 : m4 = SET_NEXT_FRONT(m3, l, p) /\ nx2 = [nx1 EXCEPT ![l] = p]
  OBVIOUS
<1>16. Tagged(m4, T2, sz2, pv2, tg2, nx2, D)
  BY <1>7, <1>14, <1>15, SetNext
<1>17. PICK m5, pv3 : m5 = SET_PREV_FRONT(m4, r, p) /\ pv3 = [pv2 EXCEPT ![r] = p]
  OBVIOUS
<1>18. Tagged(m5, T2, sz2, pv3, tg2, nx2, D)
  BY <1>7, <1>16, <1>17, SetPrev
<1>19. AbsorbRight(m, p) = m5
  <2>1. /\ GET_BACK_FRONT(m, p) = g /\ GET_PREV_FRONT(m, g) = l /\ GET_NEXT_FRONT(m, g) = r
        /\ GET_BACK_FRONT(m, g) = g + 5 + sz[g]
    BY <1>1, <1>6, Reads
  <2>2. GET_BACK_FRONT(m, g) - p - TAGS = GrownSize(sz, p, g)
    BY <1>1, <2>1 DEF GrownSize
  <2> QED
    BY <1>9, <1>11, <1>12a, <1>13, <1>15, <1>17, <2>1, <2>2 DEF AbsorbRight
<1>20. /\ pv1 = [x \in T2 |-> pv[x]] /\ tg1 = [x \in T2 |-> tg[x]]
       /\ nx1 = [x \in T2 |-> IF x = p THEN r ELSE nx[x]]
  BY <1>3, <1>6, <1>8 DEF KeptTags, GrownNext
<1>21. /\ pv3[p] = l /\ pv3[r] = p /\ \A x \in T2 : x # p /\ x # r => pv3[x] = pv[x]
       /\ nx2[p] = r /\ nx2[l] = p /\ \A x \in T2 : x # p /\ x # l => nx2[x] = nx[x]
       /\ tg2[p] = 0 /\ \A x \in T2 : x # p => tg2[x] = tg[x]
  BY <1>4, <1>7, <1>11, <1>12a, <1>13, <1>15, <1>17, <1>20
<1>22. /\ pv3[p] = pv[g] /\ pv3[nx[g]] = p
       /\ \A x \in Anchored(R) \ {g} : x # nx[g] => pv3[x] = pv[x]
       /\ nx2[p] = nx[g] /\ nx2[pv[g]] = p
       /\ \A x \in Anchored(R) \ {g} : x # pv[g] => nx2[x] = nx[x]
  BY <1>1, <1>5, <1>6, <1>21
<1>23. PICK rank2 :
         /\ Ranked((R \ {g}) \cup {p}, Bk(pol, pv3, nx2), Fw(pol, pv3, nx2), rank2)
         /\ SamePlace(R, g, p, rank, rank2)
  <2>1. Ranked(R, Bk(pol, pv, nx), Fw(pol, pv, nx), rank)
    BY DEF Chain
  <2>2. p \in Address /\ p \notin Anchored(R)
    BY <1>1
  <2>3. g \in R
    OBVIOUS
  <2> QED
    BY ONLY <1>22, <2>1, <2>2, <2>3, LinksReplace
<1>24. PICK Q : Q = (R \ {g}) \cup {p}
  OBVIOUS
<1>25. Q \subseteq T2 \ {FREE_LIST_HEAD}
  BY <1>1, <1>4, <1>5, <1>24
<1>26. Chain(AbsorbRight(m, p), pol, T2, sz2, pv3, tg2, nx2, D, Q, rank2)
  BY <1>18, <1>19, <1>23, <1>24, <1>25 DEF Chain
<1>27. ASSUME NEW x \in Q \ Grew(pol, p), NEW y \in Q, rank2[x] < rank2[y]
       PROVE  Key(pol, sz2, x) <= Key(pol, sz2, y)
  <2>1. x \in T2 /\ y \in T2 /\ sz2[x] \in Nat /\ sz2[y] \in Nat /\ x \in Int /\ y \in Int
    BY <1>1, <1>4, <1>25 DEF Layout
  <2>2. rank2[p] \in Int
    BY <1>1, <1>23 DEF Ranked
  <2>3. CASE x # p /\ y # p
    <3>1. x \in R \ {g} /\ y \in R \ {g}
      BY <1>24, <2>3
    <3>2. rank[x] < rank[y]
      BY <1>23, <1>27, <3>1 DEF SamePlace
    <3>3. Key(pol, sz, x) <= Key(pol, sz, y)
      BY <3>1, <3>2 DEF Sorted
    <3> QED
      BY <1>4, <2>1, <2>3, <3>3 DEF Key
  <2>4. CASE x # p /\ y = p
    <3>1. x \in R \ {g}
      BY <1>24, <2>4
    <3>2. rank[x] < rank[g]
      BY <1>23, <1>27, <2>4, <3>1 DEF SamePlace
    <3>3. Key(pol, sz, x) <= Key(pol, sz, g)
      BY <3>1, <3>2 DEF Sorted
    <3>4. CASE pol = "first_fit"
      <4>1. x <= g /\ x # g
        BY <3>1, <3>3, <3>4 DEF Key
      <4>2. x <= p \/ x > g
        BY <1>3, <2>1 DEF Kept
      <4>3. x <= p
        BY <1>1, <2>1, <4>1, <4>2
      <4> QED
        BY <2>4, <3>4, <4>3 DEF Key
    <3>5. CASE pol # "first_fit"
      <4>1. sz[x] <= sz[g] /\ sz2[x] = sz[x]
        BY <1>4, <2>1, <2>4, <3>3, <3>5 DEF Key
      <4>2. sz2[x] <= sz2[p]
        BY <1>1, <1>4, <2>1, <2>4, <4>1
      <4> QED
        BY <2>4, <3>5, <4>2 DEF Key
    <3> QED
      BY <3>4, <3>5
  <2>5. CASE x = p /\ y # p
    <3>1. y \in R \ {g} /\ pol = "first_fit"
      BY <1>24, <1>27, <2>5 DEF Grew
    <3>2. rank[g] < rank[y]
      BY <1>23, <1>27, <2>5, <3>1 DEF SamePlace
    <3>3. g <= y
      BY <3>1, <3>2 DEF Sorted, Key
    <3>4. p <= y
      BY <1>1, <1>2, <2>1, <3>3
    <3> QED
      BY <2>5, <3>1, <3>4 DEF Key
  <2>6. CASE x = p /\ y = p
    BY <1>27, <2>2, <2>6
  <2> QED
    BY <2>3, <2>4, <2>5, <2>6
<1>28. Sorted(Q, pol, sz2, rank2, Grew(pol, p), {})
  BY <1>27 DEF Sorted
<1> QED
  BY <1>3, <1>21, <1>24, <1>26, <1>28 DEF AllKept

-----------------------------------------------------------------------------
(* What the three programs do with a new, a grown and a split block.       *)

Added(pol, m, p) ==
    IF pol = "first_fit" THEN list_add_ff(m, p)
    ELSE IF pol = "best_fit" THEN list_add_bf(m, p, FREE_LIST_HEAD)
    ELSE list_add_wf(m, p, FREE_LIST_HEAD)

Resorted(pol, m, f) ==
    IF pol = "first_fit" THEN m
    ELSE IF pol = "best_fit" THEN list_add_bf(LIST_DEL(m, f), f, GET_PREV_FRONT(m, f))
    ELSE list_add_wf(LIST_DEL(m, f), f, GET_NEXT_FRONT(m, f))

Divided(pol, m, p, n) ==
    IF pol = "first_fit" THEN Split(m, p, n)
    ELSE Added(pol, LIST_DEL(Split(m, p, n), Rest(p, n)), Rest(p, n))

LEMMA Policies == \A pol \in Policy : pol = "first_fit" \/ pol = "best_fit" \/ pol = "worst_fit"
BY DEF Policy

LEMMA AddedChain ==
    ASSUME NEW m, NEW pol, NEW T, NEW sz, NEW pv, NEW tg, NEW nx, NEW D, NEW R, NEW rank,
           Chain(m, pol, T, sz, pv, tg, nx, D, R, rank), Sorted(R, pol, sz, rank, {}, {}),
           NEW p \in T, p \notin Anchored(R)
    PROVE  \E pv2, nx2, rank2 :
               /\ Chain(Added(pol, m, p), pol, T, sz, pv2, tg, nx2, D, R \cup {p}, rank2)
               /\ Sorted(R \cup {p}, pol, sz, rank2, {}, {})
<1>1. PICK head : head = FREE_LIST_HEAD
  OBVIOUS
<1>2. head \in Anchored(R) /\ R \subseteq Anchored(R) /\ \A x \in Anchored(R) : rank[x] \in Int
  BY <1>1, ChainFacts
<1>3. \A x \in R : rank[head] < rank[x]
  BY <1>1, Ranks DEF Chain
<1>4. \A x \in R : rank[x] <= rank[head] => sz[x] <= sz[p]
  BY <1>2, <1>3
<1>5. CASE pol = "first_fit"
  <2>1. Added(pol, m, p) = list_add_ff(m, p)
    BY <1>5 DEF Added
  <2> QED
    BY <1>5, <2>1, AddFF
<1>6. CASE pol = "best_fit"
  <2>1. Added(pol, m, p) = list_add_bf(m, p, head)
    BY <1>1, <1>6 DEF Added
  <2> QED
    BY <1>2, <1>4, <1>6, <2>1, AddBF
<1>7. CASE pol = "worst_fit"
  <2>1. Added(pol, m, p) = list_add_wf(m, p, head)
    BY <1>1, <1>7 DEF Added
  <2> QED
    BY <1>2, <1>4, <1>7, <2>1, AddWF
<1> QED
  BY <1>5, <1>6, <1>7, Policies DEF Chain

LEMMA ResortedChain ==
    ASSUME NEW m, NEW pol, NEW T, NEW sz, NEW pv, NEW tg, NEW nx, NEW D, NEW R, NEW rank,
           Chain(m, pol, T, sz, pv, tg, nx, D, R, rank), NEW f \in R,
           Sorted(R, pol, sz, rank, Grew(pol, f), {})
    PROVE  \E pv2, nx2, rank2 :
               /\ Chain(Resorted(pol, m, f), pol, T, sz, pv2, tg, nx2, D, R, rank2)
               /\ Sorted(R, pol, sz, rank2, {}, {})
<1>1. CASE pol = "first_fit"
  <2>1. Resorted(pol, m, f) = m /\ Grew(pol, f) = {}
    BY <1>1 DEF Resorted, Grew
  <2> QED
    BY <2>1
<1>2. CASE pol # "first_fit"
  <2>1. PICK Q : Q = R \ {f}
    OBVIOUS
  <2>2. PICK pv2, nx2 : Chain(LIST_DEL(m, f), pol, T, sz, pv2, tg, nx2, D, Q, rank)
    BY <2>1, ChainDel
  <2>3. /\ Tagged(m, T, sz, pv, tg, nx, D) /\ f \in T /\ f # FREE_LIST_HEAD
        /\ FREE_LIST_HEAD \notin R /\ f \in Anchored(R)
        /\ \A x \in Anchored(R) : rank[x] \in Int
        /\ pv[f] \in Anchored(R) /\ nx[f] \in Anchored(R) /\ pv[f] # f /\ nx[f] # f
    BY ChainFacts
  <2>4. \A x : x \in Anchored(Q) <=> x \in Anchored(R) /\ x # f
    BY <2>1, <2>3 DEF Anchored
  <2>5. f \notin Anchored(Q) /\ pv[f] \in Anchored(Q) /\ nx[f] \in Anchored(Q) /\ Q \cup {f} = R
    BY <2>1, <2>3, <2>4
  <2>6. PICK before : before = Bk(pol, pv, nx)[f]
    OBVIOUS
  <2>7. before \in Anchored(Q)
    BY <2>5, <2>6 DEF Bk
  <2>8. rank[before] < rank[f]
    <3>1. PICK bk, fw : /\ bk = Bk(pol, pv, nx) /\ fw = Fw(pol, pv, nx)
      OBVIOUS
    <3>2. Ranked(R, bk, fw, rank)
      BY <3>1 DEF Chain
    <3>3. before = bk[f] /\ before \in Anchored(R) /\ fw[before] = f
      BY <2>3, <2>6, <3>1, <3>2 DEF Ranked
    <3> QED
      BY <3>2, <3>3 DEF Ranked
  <2>9. Sorted(Q, pol, sz, rank, {}, {})
    BY <1>2, <2>1 DEF Sorted, Grew
  <2>10. ASSUME NEW x \in Q, rank[x] <= rank[before] PROVE sz[x] <= sz[f]
    <3>1. x \in R \ Grew(pol, f) /\ x \in Anchored(R) /\ before \in Anchored(R)
      BY <2>1, <2>4, <2>7 DEF Grew, Anchored
    <3>2. rank[x] < rank[f]
      BY <2>3, <2>8, <2>10, <3>1
    <3>3. Key(pol, sz, x) <= Key(pol, sz, f)
      BY <3>1, <3>2 DEF Sorted
    <3> QED
      BY <1>2, <3>3 DEF Key
  <2>11. PICK m1 : m1 = LIST_DEL(m, f)
    OBVIOUS
  <2>12. Chain(m1, pol, T, sz, pv2, tg, nx2, D, Q, rank)
    BY <2>2, <2>11
  <2>13. GET_PREV_FRONT(m, f) = pv[f] /\ GET_NEXT_FRONT(m, f) = nx[f]
    BY <2>3, Reads
  <2>14. CASE pol = "best_fit"
    <3>1. Resorted(pol, m, f) = list_add_bf(m1, f, before)
      BY <2>6, <2>11, <2>13, <2>14 DEF Resorted, Bk
    <3>2. PICK pv3, nx3, rank3 :
             /\ Chain(list_add_bf(m1, f, before), pol, T, sz, pv3, tg, nx3, D, Q \cup {f}, rank3)
             /\ Sorted(Q \cup {f}, pol, sz, rank3, {}, {})
      BY <2>3, <2>5, <2>7, <2>9, <2>10, <2>12, <2>14, AddBF
    <3> QED
      BY <2>5, <3>1, <3>2
  <2>15. CASE pol = "worst_fit"
    <3>1. Resorted(pol, m, f) = list_add_wf(m1, f, before)
      BY <2>6, <2>11, <2>13, <2>15 DEF Resorted, Bk
    <3>2. PICK pv3, nx3, rank3 :
             /\ Chain(list_add_wf(m1, f, before), pol, T, sz, pv3, tg, nx3, D, Q \cup {f}, rank3)
             /\ Sorted(Q \cup {f}, pol, sz, rank3, {}, {})
      BY <2>3, <2>5, <2>7, <2>9, <2>10, <2>12, <2>15, AddWF
    <3> QED
      BY <2>5, <3>1, <3>2
  <2> QED
    BY <1>2, <2>14, <2>15, Policies DEF Chain
<1> QED
  BY <1>1, <1>2

(* The rest of a split block, in its place.                                *)
LEMMA DividedChain ==
    ASSUME NEW m, NEW pol, NEW T, NEW sz, NEW pv, NEW tg, NEW nx, NEW D, NEW R, NEW rank,
           Chain(m, pol, T, sz, pv, tg, nx, D, R, rank), Sorted(R, pol, sz, rank, {}, {}),
           NEW p \in R, NEW n \in Nat, Divides(sz, p, n), Unwritten(D, sz, p, p)
    PROVE  \E pv2, tg2, nx2, rank2 :
               /\ Chain(Divided(pol, m, p, n), pol, T \cup {Rest(p, n)}, SplitSize(T, sz, p, n),
                        pv2, tg2, nx2, D, (R \ {p}) \cup {Rest(p, n)}, rank2)
               /\ Sorted((R \ {p}) \cup {Rest(p, n)}, pol, SplitSize(T, sz, p, n), rank2, {}, {})
               /\ SplitTag(T, p, n, tg, tg2)
<1>1. PICK q, sz2, U, Q : /\ q = Rest(p, n) /\ sz2 = SplitSize(T, sz, p, n)
                          /\ U = T \cup {q} /\ Q = R \ {p}
  OBVIOUS
<1>2a. PICK pv2, tg2, nx2, rank2 :
          /\ Chain(Split(m, p, n), pol, T \cup {Rest(p, n)}, SplitSize(T, sz, p, n),
                   pv2, tg2, nx2, D, (R \ {p}) \cup {Rest(p, n)}, rank2)
          /\ SamePlace(R, p, Rest(p, n), rank, rank2)
          /\ SplitTag(T, p, n, tg, tg2)
  BY ChainSplit
<1>2. /\ Chain(Split(m, p, n), pol, U, sz2, pv2, tg2, nx2, D, Q \cup {q}, rank2)
      /\ SamePlace(R, p, q, rank, rank2)
  BY <1>1, <1>2a
<1>3. SplitTag(T, p, n, tg, tg2)
  BY <1>2a
<1>4. /\ Layout(T, sz) /\ p \in T /\ p # FREE_LIST_HEAD /\ R \subseteq T /\ FREE_LIST_HEAD \notin R
      /\ FREE_LIST_HEAD \in T
      /\ \A x \in T : x \in Int /\ sz[x] \in Nat
  BY ChainFacts
<1>5. q \in Int /\ q \notin T /\ p < q /\ \A x \in T : x # p => sz2[x] = sz[x]
  <2>1. /\ Rest(p, n) \in Int /\ Rest(p, n) \notin T /\ p < Rest(p, n)
        /\ AllKept(T, p, sz, SplitSize(T, sz, p, n))
    BY <1>4, SplitLayout
  <2> QED
    BY <1>1, <2>1 DEF AllKept
<1>6. \A x \in Q : x \in R /\ x # p /\ x \in T /\ x # q /\ sz2[x] = sz[x]
  BY <1>1, <1>4, <1>5
<1>7. ASSUME NEW x \in Q, NEW y \in Q, rank2[x] < rank2[y] PROVE Key(pol, sz2, x) <= Key(pol, sz2, y)
  <2>1. rank[x] < rank[y]
    BY <1>1, <1>2, <1>7 DEF SamePlace
  <2>2. Key(pol, sz, x) <= Key(pol, sz, y)
    BY <1>6, <2>1 DEF Sorted
  <2> QED
    BY <1>6, <2>2 DEF Key
<1>8. CASE pol = "first_fit"
  <2>1. ASSUME NEW x \in Q \cup {q}, NEW y \in Q \cup {q}, rank2[x] < rank2[y]
        PROVE  x <= y
    <3>1. CASE x \in Q /\ y \in Q
      BY <1>7, <1>8, <2>1, <3>1 DEF Key
    <3>2. CASE x \in Q /\ y = q
      <4>1. rank[x] < rank[p]
        BY <1>1, <1>2, <2>1, <3>2 DEF SamePlace
      <4>2. x <= p
        BY <1>6, <1>8, <3>2, <4>1 DEF Sorted, Key
      <4> QED
        BY <1>4, <1>5, <1>6, <3>2, <4>2
    <3>3. CASE x = q /\ y \in Q
      <4>1. rank[p] < rank[y]
        BY <1>1, <1>2, <2>1, <3>3 DEF SamePlace
      <4>2. p <= y
        BY <1>6, <1>8, <3>3, <4>1 DEF Sorted, Key
      <4>3. p < y
        BY <1>4, <1>6, <3>3, <4>2
      <4>4. p + 5 + sz[p] <= y
        BY <1>4, <1>6, <3>3, <4>3 DEF Layout
      <4>5. q <= p + 5 + sz[p]
        <5>1. q = p + 5 + n /\ n + 5 < sz[p] /\ n \in Int
          BY <1>1 DEF Rest, Divides
        <5> QED
          BY <1>4, <5>1
      <4> QED
        BY <1>4, <1>5, <1>6, <3>3, <4>4, <4>5
    <3>4. CASE x = q /\ y = q
      BY <1>5, <3>4
    <3> QED
      BY <3>1, <3>2, <3>3, <3>4
  <2>2. Sorted(Q \cup {q}, pol, sz2, rank2, {}, {})
    BY <1>8, <2>1 DEF Sorted, Key
  <2>3. Divided(pol, m, p, n) = Split(m, p, n)
    BY <1>8 DEF Divided
  <2> QED
    BY <1>1, <1>2, <1>3, <2>2, <2>3
<1>9. CASE pol # "first_fit"
  <2>1. PICK m1, m2 : m1 = Split(m, p, n) /\ m2 = LIST_DEL(m1, q)
    OBVIOUS
  <2>2. Chain(m1, pol, U, sz2, pv2, tg2, nx2, D, Q \cup {q}, rank2)
    BY <1>2, <2>1
  <2>3. (Q \cup {q}) \ {q} = Q /\ q \in Q \cup {q} /\ q \in U
    BY <1>1, <1>6
  <2>4. PICK pv3, nx3 : Chain(m2, pol, U, sz2, pv3, tg2, nx3, D, Q, rank2)
    BY <2>1, <2>2, <2>3, ChainDel
  <2>5. Sorted(Q, pol, sz2, rank2, {}, {})
    BY <1>7 DEF Sorted
  <2>6. q \notin Anchored(Q)
    BY <1>4, <1>5, <1>6 DEF Anchored
  <2>7. PICK pv4, nx4, rank4 :
           /\ Chain(Added(pol, m2, q), pol, U, sz2, pv4, tg2, nx4, D, Q \cup {q}, rank4)
           /\ Sorted(Q \cup {q}, pol, sz2, rank4, {}, {})
    BY <2>3, <2>4, <2>5, <2>6, AddedChain
  <2>8. Divided(pol, m, p, n) = Added(pol, m2, q)
    BY <1>1, <1>9, <2>1 DEF Divided
  <2> QED
    BY <1>1, <1>3, <2>7, <2>8
<1> QED
  BY <1>8, <1>9

-----------------------------------------------------------------------------
(* A memory between two calls: blocks T of sizes sz, those of R free and   *)
(* linked in the policy's order, the users' data in D.                     *)
FreeTags(T, tg, R) == \A f \in T \ {FREE_LIST_HEAD} : tg[f] = TAG_FREE <=> f \in R

Shape(m, pol, T, sz, R, D) ==
    \E pv, tg, nx, rank :
        /\ Chain(m, pol, T, sz, pv, tg, nx, D, R, rank)
        /\ Sorted(R, pol, sz, rank, {}, {})
        /\ FreeTags(T, tg, R)

LEMMA ShapeFacts ==
    ASSUME NEW m, NEW pol, NEW T, NEW sz, NEW R, NEW D, Shape(m, pol, T, sz, R, D)
    PROVE  /\ m \in Memory /\ Layout(T, sz) /\ R \subseteq T /\ FREE_LIST_HEAD \notin R
           /\ Anchored(R) \subseteq T /\ R \subseteq Anchored(R)
           /\ D \subseteq Address /\ pol \in Policy
           /\ \A a \in D : m[a] = Data
<1>1. PICK pv, tg, nx, rank : Chain(m, pol, T, sz, pv, tg, nx, D, R, rank)
  BY DEF Shape
<1> QED
  BY <1>1, ChainFacts DEF Chain, Tagged

(* What the macros read of a block.                                        *)
LEMMA ShapeReads ==
    ASSUME NEW m, NEW pol, NEW T, NEW sz, NEW R, NEW D, Shape(m, pol, T, sz, R, D), NEW f \in T
    PROVE  /\ GET_SIZE_FRONT(m, f) = sz[f] /\ GET_BACK_FRONT(m, f) = f + 5 + sz[f]
           /\ f # FREE_LIST_HEAD => (GET_TAG_FRONT(m, f) = TAG_FREE <=> f \in R)
<1>1. PICK pv, tg, nx, rank : /\ Chain(m, pol, T, sz, pv, tg, nx, D, R, rank)
                              /\ FreeTags(T, tg, R)
  BY DEF Shape
<1>2. /\ GET_SIZE_FRONT(m, f) = sz[f] /\ GET_BACK_FRONT(m, f) = f + 5 + sz[f]
      /\ GET_TAG_FRONT(m, f) = tg[f]
  BY <1>1, ChainFacts, Reads
<1> QED
  BY <1>1, <1>2 DEF FreeTags

LEMMA ShapeReadsLeft ==
    ASSUME NEW m, NEW pol, NEW T, NEW sz, NEW R, NEW D, Shape(m, pol, T, sz, R, D),
           NEW f \in T, NEW g, g = f + 5 + sz[f]
    PROVE  GET_FRONT_BACK(m, g) = f
<1>1. PICK pv, tg, nx, rank : Chain(m, pol, T, sz, pv, tg, nx, D, R, rank)
  BY DEF Shape
<1> QED
  BY <1>1, ChainFacts, ReadsLeft

LEMMA SortedSubset ==
    ASSUME NEW R, NEW pol, NEW sz, NEW rank, Sorted(R, pol, sz, rank, {}, {}), NEW Q, Q \subseteq R
    PROVE  Sorted(Q, pol, sz, rank, {}, {})
BY DEF Sorted

(* A block used whole.                                                     *)
LEMMA ShapeWhole ==
    ASSUME NEW m, NEW pol, NEW T, NEW sz, NEW R, NEW D, Shape(m, pol, T, sz, R, D), NEW p \in R
    PROVE  Shape(Whole(m, p), pol, T, sz, R \ {p}, D)
<1>1. PICK pv, tg, nx, rank : /\ Chain(m, pol, T, sz, pv, tg, nx, D, R, rank)
                              /\ Sorted(R, pol, sz, rank, {}, {})
                              /\ FreeTags(T, tg, R)
  BY DEF Shape
<1>2. PICK u \in Int : u = TAG_USED
  OBVIOUS
<1>3. PICK m1, tg1 : m1 = SET_TAG_FRONT(m, p, u) /\ tg1 = [tg EXCEPT ![p] = u]
  OBVIOUS
<1>4. p \in T /\ tg \in [T -> Int]
  BY <1>1, ChainFacts
<1>5. Chain(m1, pol, T, sz, pv, tg1, nx, D, R, rank)
  BY <1>1, <1>3, <1>4, ChainTag
<1>6. PICK pv2, nx2 : Chain(LIST_DEL(m1, p), pol, T, sz, pv2, tg1, nx2, D, R \ {p}, rank)
  BY <1>5, ChainDel
<1>7. Whole(m, p) = LIST_DEL(m1, p)
  BY <1>2, <1>3 DEF Whole
<1>8. FreeTags(T, tg1, R \ {p})
  BY <1>1, <1>2, <1>3, <1>4 DEF FreeTags
<1>9. Sorted(R \ {p}, pol, sz, rank, {}, {})
  BY <1>1, SortedSubset
<1> QED
  BY <1>6, <1>7, <1>8, <1>9 DEF Shape

(* A block divided: its user has n cells, the rest is free.                *)
LEMMA ShapeDivided ==
    ASSUME NEW m, NEW pol, NEW T, NEW sz, NEW R, NEW D, Shape(m, pol, T, sz, R, D), NEW p \in R,
           NEW n \in Nat, Divides(sz, p, n), Unwritten(D, sz, p, p)
    PROVE  Shape(Divided(pol, m, p, n), pol, T \cup {Rest(p, n)}, SplitSize(T, sz, p, n),
                 (R \ {p}) \cup {Rest(p, n)}, D)
<1>1. PICK pv, tg, nx, rank : /\ Chain(m, pol, T, sz, pv, tg, nx, D, R, rank)
                              /\ Sorted(R, pol, sz, rank, {}, {})
                              /\ FreeTags(T, tg, R)
  BY DEF Shape
<1>2. PICK pv2, tg2, nx2, rank2 :
         /\ Chain(Divided(pol, m, p, n), pol, T \cup {Rest(p, n)}, SplitSize(T, sz, p, n),
                  pv2, tg2, nx2, D, (R \ {p}) \cup {Rest(p, n)}, rank2)
         /\ Sorted((R \ {p}) \cup {Rest(p, n)}, pol, SplitSize(T, sz, p, n), rank2, {}, {})
         /\ SplitTag(T, p, n, tg, tg2)
  BY <1>1, DividedChain
<1>3. PICK q : q = Rest(p, n)
  OBVIOUS
<1>4. p \in T /\ Layout(T, sz) /\ R \subseteq T /\ p # FREE_LIST_HEAD
  BY <1>1, ChainFacts
<1>5. q \notin T
  BY <1>3, <1>4, SplitLayout
<1>6. tg2[p] = TAG_USED /\ tg2[q] = TAG_FREE /\ \A x \in T : x # p => tg2[x] = tg[x]
  BY <1>2, <1>3 DEF SplitTag, AllKept
<1>7. FreeTags(T \cup {q}, tg2, (R \ {p}) \cup {q})
  <2>1. ASSUME NEW x \in T \cup {q}, x # FREE_LIST_HEAD
        PROVE  tg2[x] = TAG_FREE <=> x \in (R \ {p}) \cup {q}
    <3>1. CASE x = q
      BY <1>6, <3>1
    <3>2. CASE x = p
      BY <1>4, <1>5, <1>6, <3>2
    <3>3. CASE x \in T /\ x # p /\ x # q
      BY <1>1, <1>6, <2>1, <3>3 DEF FreeTags
    <3> QED
      BY <3>1, <3>2, <3>3
  <2> QED
    BY <2>1 DEF FreeTags
<1> QED
  BY <1>2, <1>3, <1>7 DEF Shape

(* A user's data written, and given up.                                    *)
LEMMA ShapeFilled ==
    ASSUME NEW m, NEW pol, NEW T, NEW sz, NEW R, NEW D, Shape(m, pol, T, sz, R, D), NEW f \in T,
           NEW n \in Nat, n <= sz[f]
    PROVE  Shape(Filled(m, f + 3, n), pol, T, sz, R, D \cup (f + 3 .. f + 3 + n - 1))
<1>1. PICK pv, tg, nx, rank : /\ Chain(m, pol, T, sz, pv, tg, nx, D, R, rank)
                              /\ Sorted(R, pol, sz, rank, {}, {})
                              /\ FreeTags(T, tg, R)
  BY DEF Shape
<1>2. Chain(Filled(m, f + 3, n), pol, T, sz, pv, tg, nx, D \cup (f + 3 .. f + 3 + n - 1), R, rank)
  BY <1>1, ChainFill
<1> QED
  BY <1>1, <1>2 DEF Shape

LEMMA ShapeLess ==
    ASSUME NEW m, NEW pol, NEW T, NEW sz, NEW R, NEW D, Shape(m, pol, T, sz, R, D),
           NEW E, E \subseteq D
    PROVE  Shape(m, pol, T, sz, R, E)
<1>1. PICK pv, tg, nx, rank : /\ Chain(m, pol, T, sz, pv, tg, nx, D, R, rank)
                              /\ Sorted(R, pol, sz, rank, {}, {})
                              /\ FreeTags(T, tg, R)
  BY DEF Shape
<1>2. Chain(m, pol, T, sz, pv, tg, nx, E, R, rank)
  BY <1>1, ChainLess
<1> QED
  BY <1>1, <1>2 DEF Shape

(* One free block: at the start, and when the only block is returned.      *)
OneBlock(T, sz) == T = {FREE_LIST_HEAD, MEM_START} /\ sz[MEM_START] = MEM_SIZE - TAGS

LEMMA ShapeInit ==
    ASSUME NEW m \in Memory, NEW pol \in Policy
    PROVE  \E T, sz : Shape(mm_init(m), pol, T, sz, {MEM_START}, {}) /\ OneBlock(T, sz)
<1>1. PICK T, sz, pv, tg, nx, rank :
               /\ Chain(mm_init(m), pol, T, sz, pv, tg, nx, {}, {MEM_START}, rank)
               /\ Sorted({MEM_START}, pol, sz, rank, {}, {})
               /\ T = {FREE_LIST_HEAD, MEM_START} /\ sz[MEM_START] = MEM_SIZE - TAGS
               /\ tg[MEM_START] = TAG_FREE
  BY InitChain
<1>2. FreeTags(T, tg, {MEM_START})
  BY <1>1 DEF FreeTags
<1>3. Shape(mm_init(m), pol, T, sz, {MEM_START}, {})
  BY <1>1, <1>2 DEF Shape
<1>4. OneBlock(T, sz)
  BY <1>1 DEF OneBlock
<1> QED
  BY <1>3, <1>4

-----------------------------------------------------------------------------
(* Releases.  Free blocks that only a used one parts.                      *)

LEMMA KeptFree ==
    ASSUME NEW T, NEW sz, Layout(T, sz), NEW f \in T, NEW g \in T, f < g,
           NEW R, R \subseteq T, \A x \in R : ~(f < x /\ x <= g)
    PROVE  R \subseteq Kept(T, f, g)
<1>1. \A x \in T : x \in Int
  BY InMemory
<1> QED
  BY <1>1 DEF Kept

(* f grows by what lies behind it up to the end of g.                      *)
LEMMA ShapeAbsorb ==
    ASSUME NEW m, NEW pol, NEW T, NEW sz, NEW R, NEW D, Shape(m, pol, T, sz, R, D),
           NEW f \in R, NEW g \in T, f < g, Unwritten(D, sz, f, g),
           \A x \in R : ~(f < x /\ x <= g)
    PROVE  Shape(Resorted(pol, Absorb(m, f, g), f), pol, Kept(T, f, g), Grow(T, sz, f, g), R, D)
<1>1. PICK pv, tg, nx, rank : /\ Chain(m, pol, T, sz, pv, tg, nx, D, R, rank)
                              /\ Sorted(R, pol, sz, rank, {}, {})
                              /\ FreeTags(T, tg, R)
  BY DEF Shape
<1>2. R \subseteq Kept(T, f, g)
  BY ShapeFacts, KeptFree
<1>3. PICK pv2, tg2, nx2 :
         /\ Chain(Absorb(m, f, g), pol, Kept(T, f, g), Grow(T, sz, f, g), pv2, tg2, nx2, D, R, rank)
         /\ Sorted(R, pol, Grow(T, sz, f, g), rank, Grew(pol, f), {})
         /\ \A x \in Kept(T, f, g) : tg2[x] = tg[x]
  BY <1>1, <1>2, ChainAbsorb
<1>4. PICK pv3, nx3, rank3 :
         /\ Chain(Resorted(pol, Absorb(m, f, g), f), pol, Kept(T, f, g), Grow(T, sz, f, g),
                  pv3, tg2, nx3, D, R, rank3)
         /\ Sorted(R, pol, Grow(T, sz, f, g), rank3, {}, {})
  BY <1>3, ResortedChain
<1>5. FreeTags(Kept(T, f, g), tg2, R)
  BY <1>1, <1>3 DEF FreeTags, Kept
<1> QED
  BY <1>4, <1>5 DEF Shape

(* The block on the right of p taken out of the ring.                      *)
LEMMA AbsorbDel ==
    ASSUME NEW m, NEW pol, NEW T, NEW sz, NEW R, NEW D, Shape(m, pol, T, sz, R, D),
           NEW f \in R, NEW g \in R, f < g, Unwritten(D, sz, f, g),
           \A x \in R : ~(f < x /\ x < g)
    PROVE  Shape(Resorted(pol, Absorb(LIST_DEL(m, g), f, g), f), pol,
                 Kept(T, f, g), Grow(T, sz, f, g), R \ {g}, D)
<1>1. PICK pv, tg, nx, rank : /\ Chain(m, pol, T, sz, pv, tg, nx, D, R, rank)
                              /\ Sorted(R, pol, sz, rank, {}, {})
                              /\ FreeTags(T, tg, R)
  BY DEF Shape
<1>2. PICK m1, Q : m1 = LIST_DEL(m, g) /\ Q = R \ {g}
  OBVIOUS
<1>3. PICK pv1, nx1 : Chain(LIST_DEL(m, g), pol, T, sz, pv1, tg, nx1, D, R \ {g}, rank)
  BY <1>1, ChainDel
<1>4. Chain(m1, pol, T, sz, pv1, tg, nx1, D, Q, rank)
  BY <1>2, <1>3
<1>5. Sorted(Q, pol, sz, rank, {}, {})
  BY <1>1, <1>2, SortedSubset
<1>6. \A x \in T : x \in Int
  BY ShapeFacts, InMemory
<1>7. f \in Q /\ g \in T /\ f \in T /\ Q \subseteq T /\ Layout(T, sz) /\ R \subseteq T
  BY <1>2, <1>6, ShapeFacts
<1>8. \A x \in Q : ~(f < x /\ x <= g)
  BY <1>2, <1>6, <1>7
<1>9. Q \subseteq Kept(T, f, g)
  BY <1>7, <1>8, KeptFree
<1>10. PICK pv2, tg2, nx2 :
         /\ Chain(Absorb(m1, f, g), pol, Kept(T, f, g), Grow(T, sz, f, g), pv2, tg2, nx2, D, Q, rank)
         /\ Sorted(Q, pol, Grow(T, sz, f, g), rank, Grew(pol, f), {})
         /\ \A x \in Kept(T, f, g) : tg2[x] = tg[x]
  BY <1>4, <1>5, <1>7, <1>9, ChainAbsorb
<1>11. PICK pv3, nx3, rank3 :
         /\ Chain(Resorted(pol, Absorb(m1, f, g), f), pol, Kept(T, f, g), Grow(T, sz, f, g),
                  pv3, tg2, nx3, D, Q, rank3)
         /\ Sorted(Q, pol, Grow(T, sz, f, g), rank3, {}, {})
  BY <1>7, <1>10, ResortedChain
<1>12. g \notin Kept(T, f, g)
  BY <1>6, <1>7 DEF Kept
<1>13. FreeTags(Kept(T, f, g), tg2, Q)
  BY <1>1, <1>2, <1>10, <1>12 DEF FreeTags, Kept
<1> QED
  BY <1>2, <1>11, <1>13 DEF Shape

(* p takes in the free block on its right.                                 *)
LEMMA ShapeAbsorbRight ==
    ASSUME NEW m, NEW pol, NEW T, NEW sz, NEW R, NEW D, Shape(m, pol, T, sz, R, D),
           NEW p \in T, p \notin Anchored(R), NEW g \in R, g = p + 5 + sz[p],
           Unwritten(D, sz, p, g)
    PROVE  Shape(Resorted(pol, AbsorbRight(m, p), p), pol,
                 Kept(T, p, g), Grow(T, sz, p, g), (R \ {g}) \cup {p}, D)
<1>1. PICK pv, tg, nx, rank : /\ Chain(m, pol, T, sz, pv, tg, nx, D, R, rank)
                              /\ Sorted(R, pol, sz, rank, {}, {})
                              /\ FreeTags(T, tg, R)
  BY DEF Shape
<1>2. PICK pv2, tg2, nx2, rank2 :
         /\ Chain(AbsorbRight(m, p), pol, Kept(T, p, g), Grow(T, sz, p, g),
                  pv2, tg2, nx2, D, (R \ {g}) \cup {p}, rank2)
         /\ Sorted((R \ {g}) \cup {p}, pol, Grow(T, sz, p, g), rank2, Grew(pol, p), {})
         /\ tg2[p] = TAG_FREE /\ AllKept(Kept(T, p, g), p, tg, tg2)
  BY <1>1, ChainAbsorbRight
<1>3. p \in (R \ {g}) \cup {p}
  OBVIOUS
<1>4. PICK pv3, nx3, rank3 :
         /\ Chain(Resorted(pol, AbsorbRight(m, p), p), pol, Kept(T, p, g), Grow(T, sz, p, g),
                  pv3, tg2, nx3, D, (R \ {g}) \cup {p}, rank3)
         /\ Sorted((R \ {g}) \cup {p}, pol, Grow(T, sz, p, g), rank3, {}, {})
  BY <1>2, <1>3, ResortedChain
<1>5. p \in Int /\ g \in Int /\ sz[p] \in Nat /\ g \in T
  <2>1. g \in T /\ Layout(T, sz)
    BY ShapeFacts
  <2> QED
    BY <2>1, InMemory
<1>6. g \notin Kept(T, p, g)
  BY <1>5 DEF Kept
<1>7. FreeTags(Kept(T, p, g), tg2, (R \ {g}) \cup {p})
  <2>1. ASSUME NEW x \in Kept(T, p, g), x # FREE_LIST_HEAD
        PROVE  tg2[x] = TAG_FREE <=> x \in (R \ {g}) \cup {p}
    <3>1. CASE x = p
      BY <1>2, <3>1
    <3>2. CASE x # p
      BY <1>1, <1>2, <1>6, <2>1, <3>2 DEF FreeTags, AllKept, Kept
    <3> QED
      BY <3>1, <3>2
  <2> QED
    BY <2>1 DEF FreeTags
<1> QED
  BY <1>4, <1>7 DEF Shape

(* p linked in on its own.                                                 *)
LEMMA ShapeAdded ==
    ASSUME NEW m, NEW pol, NEW T, NEW sz, NEW R, NEW D, Shape(m, pol, T, sz, R, D),
           NEW p \in T, p \notin Anchored(R)
    PROVE  Shape(Added(pol, SET_TAG_FRONT(m, p, TAG_FREE), p), pol, T, sz, R \cup {p}, D)
<1>1. PICK pv, tg, nx, rank : /\ Chain(m, pol, T, sz, pv, tg, nx, D, R, rank)
                              /\ Sorted(R, pol, sz, rank, {}, {})
                              /\ FreeTags(T, tg, R)
  BY DEF Shape
<1>2. PICK u \in Int : u = TAG_FREE
  OBVIOUS
<1>3. PICK m1, tg1 : m1 = SET_TAG_FRONT(m, p, u) /\ tg1 = [tg EXCEPT ![p] = u]
  OBVIOUS
<1>4. tg \in [T -> Int]
  BY <1>1, ChainFacts
<1>5. Chain(m1, pol, T, sz, pv, tg1, nx, D, R, rank)
  BY <1>1, <1>3, ChainTag
<1>6. PICK pv2, nx2, rank2 :
         /\ Chain(Added(pol, m1, p), pol, T, sz, pv2, tg1, nx2, D, R \cup {p}, rank2)
         /\ Sorted(R \cup {p}, pol, sz, rank2, {}, {})
  BY <1>1, <1>5, AddedChain
<1>7. FreeTags(T, tg1, R \cup {p})
  BY <1>1, <1>2, <1>3, <1>4 DEF FreeTags
<1>8. Added(pol, SET_TAG_FRONT(m, p, TAG_FREE), p) = Added(pol, m1, p)
  BY <1>2, <1>3
<1> QED
  BY <1>6, <1>7, <1>8 DEF Shape

-----------------------------------------------------------------------------
(* The used blocks: those outside the ring.                                *)
Used(T, R) == T \ Anchored(R)

(* No two free blocks are neighbours.                                      *)
Joined(sz, R) == \A f \in R : f + 5 + sz[f] \notin R

(* The users other than p's write within their blocks.                     *)
Clear(D, T, sz, R, p) ==
    \A a \in D : \E u \in Used(T, R) : u # p /\ u <= a /\ a < u + 5 + sz[u]

(* p is given back; the other used blocks stay as they are, and free       *)
(* neighbours are joined.                                                  *)
Freed(T, sz, R, p, T2, sz2, R2) ==
    /\ Used(T2, R2) = Used(T, R) \ {p}
    /\ \A u \in Used(T2, R2) : sz2[u] = sz[u]
    /\ Joined(sz, R) => Joined(sz2, R2)

LEMMA UsedFacts ==
    ASSUME NEW T, NEW R, NEW p \in Used(T, R)
    PROVE  p \in T /\ p \notin R /\ p # FREE_LIST_HEAD /\ p \notin Anchored(R)
BY DEF Used, Anchored

LEMMA Neighbours ==
    ASSUME NEW T, NEW sz, Layout(T, sz)
    PROVE  /\ \A x \in T : x \in Int /\ sz[x] \in Nat /\ x + 5 + sz[x] <= MEM_SIZE
           /\ \A x, y \in T : x < y => x + 5 + sz[x] <= y
           /\ \A x \in T : x # FREE_LIST_HEAD => 0 <= x
           /\ \A x \in T : x + 5 + sz[x] \in T \/ x + 5 + sz[x] = MEM_SIZE
           /\ MEM_SIZE \in Nat /\ MEM_SIZE \notin T
<1>1. \A x \in T : x \in Int /\ sz[x] \in Nat /\ x + 5 + sz[x] <= MEM_SIZE /\ -5 <= x
  BY InMemory
<1>2. \A x, y \in T : x < y => x + 5 + sz[x] <= y
  BY DEF Layout
<1>3. FREE_LIST_HEAD \in T /\ sz[FREE_LIST_HEAD] = 0 /\ FREE_LIST_HEAD = -5 /\ MEM_SIZE \in Nat
  BY Cells DEF Layout
<1>4. \A x \in T : x # FREE_LIST_HEAD => 0 <= x
  BY <1>1, <1>2, <1>3
<1>5. MEM_SIZE \notin T
  BY <1>1, <1>3
<1>6. \A x \in T : x + 5 + sz[x] \in T \/ x + 5 + sz[x] = MEM_SIZE
  BY DEF Layout
<1>7. MEM_SIZE \in Nat
  BY <1>3
<1>8. \A x \in T : x \in Int /\ sz[x] \in Nat /\ x + 5 + sz[x] <= MEM_SIZE
  BY <1>1
<1> HIDE DEF HEAD_SIZE, FOOT_SIZE, TAGS, MEM_START, MEM_END
<1> QED
  BY <1>2, <1>4, <1>5, <1>6, <1>7, <1>8

LEMMA ClearUnwritten ==
    ASSUME NEW T, NEW sz, Layout(T, sz), NEW R, NEW p, NEW D, D \subseteq Address,
           Clear(D, T, sz, R, p), NEW f \in T, NEW g \in T, f <= g,
           \A u \in T : f <= u /\ u <= g => u \in R \/ u = p
    PROVE  Unwritten(D, sz, f, g)
<1>1. ASSUME NEW a \in D PROVE a < f \/ g + 5 + sz[g] <= a
  <2>1. PICK u \in Used(T, R) : u # p /\ u <= a /\ a < u + 5 + sz[u]
    BY DEF Clear
  <2>2. u \in T /\ u \notin R
    BY UsedFacts
  <2>3. a \in Int /\ u \in Int /\ sz[u] \in Nat /\ f \in Int /\ g \in Int /\ sz[g] \in Nat
    BY <2>2, Cells, Neighbours
  <2>4. u < f \/ g < u
    BY <2>1, <2>2, <2>3
  <2>5. CASE u < f
    <3>1. u + 5 + sz[u] <= f
      BY <2>2, <2>5, Neighbours
    <3> QED
      BY <2>1, <2>3, <3>1
  <2>6. CASE g < u
    <3>1. g + 5 + sz[g] <= u
      BY <2>2, <2>6, Neighbours
    <3> QED
      BY <2>1, <2>3, <3>1
  <2> QED
    BY <2>4, <2>5, <2>6
<1> QED
  BY <1>1 DEF Unwritten

(* The neighbours in memory, as the tags tell them.                        *)
NoFreeLeft(sz, R, p) == \A f \in R : f + 5 + sz[f] # p

LEMMA LeftIs ==
    ASSUME NEW m, NEW pol, NEW T, NEW sz, NEW R, NEW D, Shape(m, pol, T, sz, R, D),
           NEW p \in Used(T, R)
    PROVE  /\ LeftFree(m, p) => \E f \in R : f + 5 + sz[f] = p /\ GET_FRONT_BACK(m, p) = f
           /\ ~LeftFree(m, p) => NoFreeLeft(sz, R, p)
<1>1. Layout(T, sz) /\ R \subseteq T /\ FREE_LIST_HEAD \notin R /\ p \in T /\ p # FREE_LIST_HEAD
  BY ShapeFacts, UsedFacts
<1>2. PICK f \in T : f + 5 + sz[f] = p
  BY <1>1 DEF Layout
<1>3. GET_FRONT_BACK(m, p) = f
  BY <1>2, ShapeReadsLeft
<1>4. \A x \in T : x \in Int /\ sz[x] \in Nat
  BY <1>1, InMemory
<1>5. \A x \in R : x + 5 + sz[x] = p => x = f
  <2>1. ASSUME NEW x \in R, x + 5 + sz[x] = p, x # f PROVE FALSE
    <3>1. x + 5 + sz[x] <= f \/ f + 5 + sz[f] <= x
      BY <1>1, <2>1, Apart
    <3> QED
      BY <1>1, <1>2, <1>4, <2>1, <3>1
  <2> QED
    BY <2>1
<1>6. CASE p = 0
  <2>1. ~LeftFree(m, p)
    BY <1>6 DEF LeftFree, IS_FIRST_FRONT
  <2>2. \A x \in R : 0 <= x
    BY <1>1, Neighbours
  <2>3. \A x \in R : x + 5 + sz[x] # p
    BY <1>1, <1>4, <1>6, <2>2
  <2> QED
    BY <2>1, <2>3 DEF NoFreeLeft
<1>7. CASE p # 0
  <2>1. f # FREE_LIST_HEAD
    BY <1>1, <1>2, <1>7, Cells DEF Layout
  <2>2. GET_TAG_FRONT(m, f) = TAG_FREE <=> f \in R
    BY <2>1, ShapeReads
  <2>3. LeftFree(m, p) <=> f \in R
    BY <1>3, <1>7, <2>2 DEF LeftFree, IS_FIRST_FRONT
  <2> QED
    BY <1>2, <1>3, <1>5, <2>3 DEF NoFreeLeft
<1> QED
  BY <1>6, <1>7

LEMMA RightIs ==
    ASSUME NEW m, NEW pol, NEW T, NEW sz, NEW R, NEW D, Shape(m, pol, T, sz, R, D),
           NEW p \in Used(T, R)
    PROVE  /\ GET_BACK_FRONT(m, p) = p + 5 + sz[p]
           /\ RightFree(m, p) <=> p + 5 + sz[p] \in R
<1>1. /\ Layout(T, sz) /\ R \subseteq T /\ FREE_LIST_HEAD \notin R
      /\ p \in T /\ p # FREE_LIST_HEAD
  BY ShapeFacts, UsedFacts
<1>2. PICK g : g = p + 5 + sz[p]
  OBVIOUS
<1>3. GET_BACK_FRONT(m, p) = g
  BY <1>1, <1>2, ShapeReads
<1>4. CASE g = MEM_SIZE
  <2>1. g \notin R
    BY <1>1, <1>4, Neighbours
  <2>2. ~RightFree(m, p)
    BY <1>3, <1>4 DEF RightFree, IS_LAST_FRONT
  <2> QED
    BY <1>2, <1>3, <2>1, <2>2
<1>5. CASE g # MEM_SIZE
  <2>1. g \in T
    BY <1>1, <1>2, <1>5, Neighbours
  <2>2. g # FREE_LIST_HEAD
    BY <1>1, <1>2, Neighbours, Cells
  <2>3. GET_TAG_FRONT(m, g) = TAG_FREE <=> g \in R
    BY <2>1, <2>2, ShapeReads
  <2>4. RightFree(m, p) <=> g \in R
    BY <1>3, <1>5, <2>3 DEF RightFree, IS_LAST_FRONT
  <2> QED
    BY <1>2, <1>3, <2>4
<1> QED
  BY <1>4, <1>5

-----------------------------------------------------------------------------
(* The four ways of joining p with its free neighbours.                    *)
LEMMA FreedBoth ==
    ASSUME NEW T, NEW sz, Layout(T, sz), NEW R, R \subseteq T, FREE_LIST_HEAD \notin R,
           NEW p \in Used(T, R), NEW f \in R, NEW g \in R, f + 5 + sz[f] = p, p + 5 + sz[p] = g
    PROVE  /\ f < g
           /\ \A u \in T : f <= u /\ u <= g => u = f \/ u = p \/ u = g
           /\ Freed(T, sz, R, p, Kept(T, f, g), Grow(T, sz, f, g), R \ {g})
<1>1. PICK K, sz2, Q : K = Kept(T, f, g) /\ sz2 = Grow(T, sz, f, g) /\ Q = R \ {g}
  OBVIOUS
<1>2. p \in T /\ p \notin R /\ p # FREE_LIST_HEAD
  BY UsedFacts
<1>3. /\ f \in Int /\ g \in Int /\ p \in Int /\ sz[f] \in Nat /\ sz[g] \in Nat /\ sz[p] \in Nat
      /\ f < p /\ p < g
  BY <1>2, Neighbours
<1>4. /\ \A x \in T : x \in Int /\ sz[x] \in Nat
      /\ \A x, y \in T : x < y => x + 5 + sz[x] <= y
  BY Neighbours
<1>5. \A u \in T : f <= u /\ u <= g => u = f \/ u = p \/ u = g
  BY <1>2, <1>3, <1>4
<1>6. \A x : x \in K <=> x \in T /\ x # p /\ x # g
  <2>1. ASSUME NEW x \in T PROVE x <= f \/ x > g <=> ~(x = p \/ x = g)
    <3>1. x \in Int
      BY <1>4
    <3>2. (x = p \/ x = g) => f < x /\ x <= g
      BY <1>3, <3>1
    <3>3. f < x /\ x <= g => x = p \/ x = g
      BY <1>3, <1>5, <3>1
    <3> QED
      BY <1>3, <3>1, <3>2, <3>3
  <2>2. K = {x \in T : x <= f \/ x > g}
    BY <1>1 DEF Kept
  <2> QED
    BY <2>1, <2>2
<1>7. Used(K, Q) = Used(T, R) \ {p}
  BY <1>1, <1>6 DEF Used, Anchored
<1>8. sz2[f] = g + sz[g] - f /\ \A x \in K : x # f => sz2[x] = sz[x]
  BY <1>1, <1>2, <1>3, <1>6 DEF Grow, GrownSize
<1>9. \A u \in Used(K, Q) : sz2[u] = sz[u]
  BY <1>2, <1>3, <1>1, <1>8 DEF Used, Anchored
<1>10. ASSUME Joined(sz, R) PROVE Joined(sz2, Q)
  <2>1. ASSUME NEW x \in Q PROVE x + 5 + sz2[x] \notin Q
    <3>1. CASE x = f
      <4>1. x + 5 + sz2[x] = g + 5 + sz[g]
        BY <1>3, <1>8, <3>1
      <4>2. g + 5 + sz[g] \notin R
        BY <1>10 DEF Joined
      <4> QED
        BY <1>1, <4>1, <4>2
    <3>2. CASE x # f
      <4>1. x \in K /\ x \in R
        BY <1>1, <1>2, <1>6, <2>1
      <4>2. sz2[x] = sz[x]
        BY <1>8, <3>2, <4>1
      <4> QED
        BY <1>1, <1>10, <4>1, <4>2 DEF Joined
    <3> QED
      BY <3>1, <3>2
  <2> QED
    BY <2>1 DEF Joined
<1>11. Freed(T, sz, R, p, K, sz2, Q)
  BY <1>7, <1>9, <1>10 DEF Freed
<1> QED
  BY <1>1, <1>3, <1>5, <1>11

LEMMA FreedLeft ==
    ASSUME NEW T, NEW sz, Layout(T, sz), NEW R, R \subseteq T, FREE_LIST_HEAD \notin R,
           NEW p \in Used(T, R), NEW f \in R, f + 5 + sz[f] = p, p + 5 + sz[p] \notin R
    PROVE  /\ f < p
           /\ \A u \in T : f <= u /\ u <= p => u = f \/ u = p
           /\ Freed(T, sz, R, p, Kept(T, f, p), Grow(T, sz, f, p), R)
<1>1. PICK K, sz2 : K = Kept(T, f, p) /\ sz2 = Grow(T, sz, f, p)
  OBVIOUS
<1>2. p \in T /\ p \notin R /\ p # FREE_LIST_HEAD
  BY UsedFacts
<1>3. /\ f \in Int /\ p \in Int /\ sz[f] \in Nat /\ sz[p] \in Nat
      /\ f < p
  BY <1>2, Neighbours
<1>4. /\ \A x \in T : x \in Int /\ sz[x] \in Nat
      /\ \A x, y \in T : x < y => x + 5 + sz[x] <= y
  BY Neighbours
<1>5. \A u \in T : f <= u /\ u <= p => u = f \/ u = p
  BY <1>2, <1>3, <1>4
<1>6. \A x : x \in K <=> x \in T /\ x # p
  <2>1. ASSUME NEW x \in T PROVE x <= f \/ x > p <=> ~(x = p)
    <3>1. x \in Int
      BY <1>4
    <3>2. (x = p) => f < x /\ x <= p
      BY <1>3, <3>1
    <3>3. f < x /\ x <= p => x = p
      BY <1>3, <1>5, <3>1
    <3> QED
      BY <1>3, <3>1, <3>2, <3>3
  <2>2. K = {x \in T : x <= f \/ x > p}
    BY <1>1 DEF Kept
  <2> QED
    BY <2>1, <2>2
<1>7. Used(K, R) = Used(T, R) \ {p}
  BY <1>6 DEF Used, Anchored
<1>8. sz2[f] = p + sz[p] - f /\ \A x \in K : x # f => sz2[x] = sz[x]
  BY <1>1, <1>2, <1>3, <1>6 DEF Grow, GrownSize
<1>9. \A u \in Used(K, R) : sz2[u] = sz[u]
  BY <1>2, <1>8 DEF Used, Anchored
<1>10. ASSUME Joined(sz, R) PROVE Joined(sz2, R)
  <2>1. ASSUME NEW x \in R PROVE x + 5 + sz2[x] \notin R
    <3>1. CASE x = f
      <4>1. x + 5 + sz2[x] = p + 5 + sz[p]
        BY <1>3, <1>8, <3>1
      <4> QED
        BY <4>1
    <3>2. CASE x # f
      <4>1. x \in K
        BY <1>2, <1>6, <2>1
      <4>2. sz2[x] = sz[x]
        BY <1>8, <3>2, <4>1
      <4> QED
        BY <1>10, <4>2 DEF Joined
    <3> QED
      BY <3>1, <3>2
  <2> QED
    BY <2>1 DEF Joined
<1>11. Freed(T, sz, R, p, K, sz2, R)
  BY <1>7, <1>9, <1>10 DEF Freed
<1> QED
  BY <1>1, <1>3, <1>5, <1>11

LEMMA FreedRight ==
    ASSUME NEW T, NEW sz, Layout(T, sz), NEW R, R \subseteq T, FREE_LIST_HEAD \notin R,
           NEW p \in Used(T, R), NoFreeLeft(sz, R, p), NEW g \in R, p + 5 + sz[p] = g
    PROVE  /\ p < g
           /\ \A u \in T : p <= u /\ u <= g => u = p \/ u = g
           /\ Freed(T, sz, R, p, Kept(T, p, g), Grow(T, sz, p, g), (R \ {g}) \cup {p})
<1>1. PICK K, sz2, Q : K = Kept(T, p, g) /\ sz2 = Grow(T, sz, p, g) /\ Q = (R \ {g}) \cup {p}
  OBVIOUS
<1>2. p \in T /\ p \notin R /\ p # FREE_LIST_HEAD
  BY UsedFacts
<1>3. /\ g \in Int /\ p \in Int /\ sz[g] \in Nat /\ sz[p] \in Nat
      /\ p < g
  BY <1>2, Neighbours
<1>4. /\ \A x \in T : x \in Int /\ sz[x] \in Nat
      /\ \A x, y \in T : x < y => x + 5 + sz[x] <= y
  BY Neighbours
<1>5. \A u \in T : p <= u /\ u <= g => u = p \/ u = g
  BY <1>2, <1>3, <1>4
<1>6. \A x : x \in K <=> x \in T /\ x # g
  <2>1. ASSUME NEW x \in T PROVE x <= p \/ x > g <=> ~(x = g)
    <3>1. x \in Int
      BY <1>4
    <3>2. (x = g) => p < x /\ x <= g
      BY <1>3, <3>1
    <3>3. p < x /\ x <= g => x = g
      BY <1>3, <1>5, <3>1
    <3> QED
      BY <1>3, <3>1, <3>2, <3>3
  <2>2. K = {x \in T : x <= p \/ x > g}
    BY <1>1 DEF Kept
  <2> QED
    BY <2>1, <2>2
<1>7. Used(K, Q) = Used(T, R) \ {p}
  BY <1>1, <1>6 DEF Used, Anchored
<1>8. sz2[p] = g + sz[g] - p /\ \A x \in K : x # p => sz2[x] = sz[x]
  BY <1>1, <1>2, <1>3, <1>6 DEF Grow, GrownSize
<1>9. \A u \in Used(K, Q) : sz2[u] = sz[u]
  BY <1>1, <1>2, <1>8 DEF Used, Anchored
<1>10. ASSUME Joined(sz, R) PROVE Joined(sz2, Q)
  <2>1. ASSUME NEW x \in Q PROVE x + 5 + sz2[x] \notin Q
    <3>1. CASE x = p
      <4>1. x + 5 + sz2[x] = g + 5 + sz[g]
        BY <1>3, <1>8, <3>1
      <4>2. g + 5 + sz[g] \notin R
        BY <1>10 DEF Joined
      <4>3. g + 5 + sz[g] # p
        BY <1>3
      <4> QED
        BY <1>1, <4>1, <4>2, <4>3
    <3>2. CASE x # p
      <4>1. x \in K /\ x \in R
        BY <1>1, <1>2, <1>6, <2>1, <3>2
      <4>2. sz2[x] = sz[x]
        BY <1>8, <3>2, <4>1
      <4>3. x + 5 + sz[x] \notin R /\ x + 5 + sz[x] # p
        BY <1>10, <4>1 DEF Joined, NoFreeLeft
      <4> QED
        BY <1>1, <4>2, <4>3
    <3> QED
      BY <3>1, <3>2
  <2> QED
    BY <2>1 DEF Joined
<1>11. Freed(T, sz, R, p, K, sz2, Q)
  BY <1>7, <1>9, <1>10 DEF Freed
<1> QED
  BY <1>1, <1>3, <1>5, <1>11

LEMMA FreedAlone ==
    ASSUME NEW T, NEW sz, Layout(T, sz), NEW R, R \subseteq T, FREE_LIST_HEAD \notin R,
           NEW p \in Used(T, R), NoFreeLeft(sz, R, p), p + 5 + sz[p] \notin R
    PROVE  Freed(T, sz, R, p, T, sz, R \cup {p})
<1>1. p \in T /\ p \notin R /\ p # FREE_LIST_HEAD
  BY UsedFacts
<1>2. p \in Int /\ sz[p] \in Nat
  BY <1>1, Neighbours
<1>3. p + 5 + sz[p] # p
  BY <1>2
<1>4. Used(T, R \cup {p}) = Used(T, R) \ {p}
  BY DEF Used, Anchored
<1>5. Joined(sz, R) => Joined(sz, R \cup {p})
  BY <1>3 DEF Joined, NoFreeLeft
<1> QED
  BY <1>4, <1>5 DEF Freed

(* The only block.                                                         *)
LEMMA FreedWhole ==
    ASSUME NEW T, NEW sz, Layout(T, sz), NEW R, R \subseteq T,
           NEW p \in Used(T, R), p = 0, p + 5 + sz[p] = MEM_SIZE,
           NEW T2, NEW sz2, OneBlock(T2, sz2)
    PROVE  /\ Used(T, R) = {p}
           /\ Freed(T, sz, R, p, T2, sz2, {MEM_START})
<1>1. p \in T /\ p \notin R /\ p # FREE_LIST_HEAD
  BY UsedFacts
<1>2. /\ \A x \in T : x \in Int /\ sz[x] \in Nat /\ x + 5 + sz[x] <= MEM_SIZE
      /\ \A x, y \in T : x < y => x + 5 + sz[x] <= y
      /\ \A x \in T : x # FREE_LIST_HEAD => 0 <= x
      /\ MEM_SIZE \in Nat
  BY Neighbours
<1>3. \A x \in T : x = FREE_LIST_HEAD \/ x = p
  <2>1. ASSUME NEW x \in T, x # FREE_LIST_HEAD, x # p PROVE FALSE
    <3>1. p < x
      BY <1>2, <2>1
    <3>2. p + 5 + sz[p] <= x
      BY <1>1, <1>2, <2>1, <3>1
    <3> QED
      BY <1>2, <2>1, <3>2
  <2> QED
    BY <2>1
<1>4. Used(T, R) = {p}
  BY <1>1, <1>3 DEF Used, Anchored
<1>5. Used(T2, {MEM_START}) = {}
  BY DEF Used, Anchored, OneBlock
<1>6. sz2[0] = MEM_SIZE - 5 /\ MEM_SIZE > 5
  BY Cells DEF OneBlock
<1>7. Joined(sz2, {MEM_START})
  BY <1>2, <1>6 DEF Joined
<1> QED
  BY <1>4, <1>5, <1>7 DEF Freed

-----------------------------------------------------------------------------
(* The memory after the three programs' release of p.                      *)
After(pol, m, p) ==
    IF IS_FIRST_FRONT(p) /\ IS_LAST_FRONT(m, p) THEN mm_init(m)
    ELSE IF LeftFree(m, p)
         THEN IF RightFree(m, p)
              THEN Resorted(pol, AbsorbBoth(m, p), GET_FRONT_BACK(m, p))
              ELSE Resorted(pol, Absorb(m, GET_FRONT_BACK(m, p), p), GET_FRONT_BACK(m, p))
         ELSE IF RightFree(m, p) THEN Resorted(pol, AbsorbRight(m, p), p)
              ELSE Added(pol, SET_TAG_FRONT(m, p, TAG_FREE), p)

LEMMA ReleaseIs ==
    ASSUME NEW b, mm_release_ff(b) \/ mm_release_bf(b) \/ mm_release_wf(b)
    PROVE  Return(b, After(policy, mm, Front(b)))
<1>0. /\ IS_FIRST_FRONT(Front(b)) => ~LeftFree(mm, Front(b))
      /\ IS_LAST_FRONT(mm, Front(b)) => ~RightFree(mm, Front(b))
  BY DEF LeftFree, RightFree
<1>1. CASE mm_release_ff(b)
  BY <1>0, <1>1 DEF mm_release_ff, Released, After, Resorted, Added
<1>2. CASE mm_release_bf(b)
  BY <1>0, <1>2 DEF mm_release_bf, Released, After, Resorted, Added
<1>3. CASE mm_release_wf(b)
  BY <1>0, <1>3 DEF mm_release_wf, Released, After, Resorted, Added
<1> QED
  BY <1>1, <1>2, <1>3

LEMMA ReleaseShape ==
    ASSUME NEW m, NEW pol, NEW T, NEW sz, NEW R, NEW D, Shape(m, pol, T, sz, R, D),
           NEW p \in Used(T, R), Clear(D, T, sz, R, p)
    PROVE  \E T2, sz2, R2 : /\ Shape(After(pol, m, p), pol, T2, sz2, R2, D)
                            /\ Freed(T, sz, R, p, T2, sz2, R2)
<1>1. /\ Layout(T, sz) /\ R \subseteq T /\ FREE_LIST_HEAD \notin R /\ D \subseteq Address
      /\ m \in Memory /\ pol \in Policy
      /\ p \in T /\ p \notin R /\ p # FREE_LIST_HEAD /\ p \notin Anchored(R)
  BY ShapeFacts, UsedFacts
<1>2. PICK g : p + 5 + sz[p] = g
  OBVIOUS
<1>3. GET_BACK_FRONT(m, p) = g /\ (RightFree(m, p) <=> g \in R)
  BY <1>2, RightIs
<1>4. CASE IS_FIRST_FRONT(p) /\ IS_LAST_FRONT(m, p)
  <2>1. p = 0 /\ g = MEM_SIZE
    BY <1>3, <1>4 DEF IS_FIRST_FRONT, IS_LAST_FRONT
  <2>2. PICK T2, sz2 : Shape(mm_init(m), pol, T2, sz2, {MEM_START}, {}) /\ OneBlock(T2, sz2)
    BY <1>1, ShapeInit
  <2>3. Used(T, R) = {p} /\ Freed(T, sz, R, p, T2, sz2, {MEM_START})
    BY <1>1, <1>2, <2>1, <2>2, FreedWhole
  <2>4. D = {}
    BY <2>3 DEF Clear
  <2>5. After(pol, m, p) = mm_init(m)
    BY <1>4 DEF After
  <2> QED
    BY <2>2, <2>3, <2>4, <2>5
<1>5. CASE ~(IS_FIRST_FRONT(p) /\ IS_LAST_FRONT(m, p)) /\ LeftFree(m, p)
  <2>1. PICK f \in R : f + 5 + sz[f] = p /\ GET_FRONT_BACK(m, p) = f
    BY <1>5, LeftIs
  <2>f. f \in T /\ f \in Int /\ p \in Int /\ sz[f] \in Nat
    BY <1>1, InMemory
  <2>2. CASE g \in R
    <3>1. /\ f < g
          /\ \A u \in T : f <= u /\ u <= g => u = f \/ u = p \/ u = g
          /\ Freed(T, sz, R, p, Kept(T, f, g), Grow(T, sz, f, g), R \ {g})
      BY <1>1, <1>2, <2>1, <2>2, FreedBoth
    <3>2. g \in T /\ f <= g /\ \A u \in T : f <= u /\ u <= g => u \in R \/ u = p
      BY <1>1, <2>2, <2>f, <3>1, InMemory
    <3>3. Unwritten(D, sz, f, g)
      BY <1>1, <2>f, <3>2, ClearUnwritten
    <3>4. \A x \in R : ~(f < x /\ x < g)
      <4>1. ASSUME NEW x \in R, f < x, x < g PROVE FALSE
        <5>1. x \in T /\ x \in Int /\ g \in Int
          BY <1>1, <3>2, <4>1, InMemory
        <5> QED
          BY <1>1, <2>f, <3>1, <4>1, <5>1
      <4> QED
        BY <4>1
    <3>5. Shape(Resorted(pol, Absorb(LIST_DEL(m, g), f, g), f), pol,
                Kept(T, f, g), Grow(T, sz, f, g), R \ {g}, D)
      BY <2>2, <3>1, <3>3, <3>4, AbsorbDel
    <3>6. After(pol, m, p) = Resorted(pol, Absorb(LIST_DEL(m, g), f, g), f)
      BY <1>3, <1>5, <2>1, <2>2 DEF After, AbsorbBoth
    <3> QED
      BY <3>1, <3>5, <3>6
  <2>3. CASE g \notin R
    <3>1. /\ f < p
          /\ \A u \in T : f <= u /\ u <= p => u = f \/ u = p
          /\ Freed(T, sz, R, p, Kept(T, f, p), Grow(T, sz, f, p), R)
      BY <1>1, <1>2, <2>1, <2>3, FreedLeft
    <3>2. f <= p /\ \A u \in T : f <= u /\ u <= p => u \in R \/ u = p
      BY <1>1, <2>f, <3>1
    <3>3. Unwritten(D, sz, f, p)
      BY <1>1, <2>f, <3>2, ClearUnwritten
    <3>4. \A x \in R : ~(f < x /\ x <= p)
      <4>1. ASSUME NEW x \in R, f < x, x <= p PROVE FALSE
        <5>1. x \in T /\ x \in Int
          BY <1>1, <4>1, InMemory
        <5> QED
          BY <1>1, <2>f, <3>1, <4>1, <5>1
      <4> QED
        BY <4>1
    <3>5. Shape(Resorted(pol, Absorb(m, f, p), f), pol, Kept(T, f, p), Grow(T, sz, f, p), R, D)
      BY <1>1, <3>1, <3>3, <3>4, ShapeAbsorb
    <3>6. After(pol, m, p) = Resorted(pol, Absorb(m, f, p), f)
      BY <1>3, <1>5, <2>1, <2>3 DEF After
    <3> QED
      BY <3>1, <3>5, <3>6
  <2> QED
    BY <2>2, <2>3
<1>6. CASE ~(IS_FIRST_FRONT(p) /\ IS_LAST_FRONT(m, p)) /\ ~LeftFree(m, p)
  <2>1. NoFreeLeft(sz, R, p)
    BY <1>6, LeftIs
  <2>2. CASE g \in R
    <3>1. /\ p < g
          /\ \A u \in T : p <= u /\ u <= g => u = p \/ u = g
          /\ Freed(T, sz, R, p, Kept(T, p, g), Grow(T, sz, p, g), (R \ {g}) \cup {p})
      BY <1>1, <1>2, <2>1, <2>2, FreedRight
    <3>2. g \in T /\ p <= g /\ \A u \in T : p <= u /\ u <= g => u \in R \/ u = p
      BY <1>1, <2>2, <3>1, InMemory
    <3>3. Unwritten(D, sz, p, g)
      BY <1>1, <3>2, ClearUnwritten
    <3>4. Shape(Resorted(pol, AbsorbRight(m, p), p), pol,
                Kept(T, p, g), Grow(T, sz, p, g), (R \ {g}) \cup {p}, D)
      BY <1>1, <1>2, <2>2, <3>3, ShapeAbsorbRight
    <3>5. After(pol, m, p) = Resorted(pol, AbsorbRight(m, p), p)
      BY <1>3, <1>6, <2>2 DEF After
    <3> QED
      BY <3>1, <3>4, <3>5
  <2>3. CASE g \notin R
    <3>1. Freed(T, sz, R, p, T, sz, R \cup {p})
      BY <1>1, <1>2, <2>1, <2>3, FreedAlone
    <3>2. Shape(Added(pol, SET_TAG_FRONT(m, p, TAG_FREE), p), pol, T, sz, R \cup {p}, D)
      BY <1>1, ShapeAdded
    <3>3. After(pol, m, p) = Added(pol, SET_TAG_FRONT(m, p, TAG_FREE), p)
      BY <1>3, <1>6, <2>3 DEF After
    <3> QED
      BY <3>1, <3>2, <3>3
  <2> QED
    BY <2>2, <2>3
<1> QED
  BY <1>4, <1>5, <1>6

-----------------------------------------------------------------------------
(* Requests.  Which block is found.                                        *)
Better(pol, sz, p, x) ==
    IF pol = "first_fit" THEN p <= x
    ELSE IF pol = "best_fit" THEN sz[p] <= sz[x] ELSE sz[p] >= sz[x]

Best(pol, sz, R, n, p) ==
    p \in R /\ sz[p] >= n /\ \A x \in R : sz[x] >= n => Better(pol, sz, p, x)

NoneFits(sz, R, n) == \A x \in R : sz[x] < n

LEMMA SearchFits ==
    ASSUME NEW pol, pol # "worst_fit", NEW T, NEW sz, NEW R, NEW D,
           Shape(mm, pol, T, sz, R, D), NEW n \in Nat
    PROVE  \/ FirstThatFits(n) = FREE_LIST_HEAD /\ NoneFits(sz, R, n)
           \/ FirstThatFits(n) # FREE_LIST_HEAD /\ Best(pol, sz, R, n, FirstThatFits(n))
<1>1. PICK pv, tg, nx, rank : /\ Chain(mm, pol, T, sz, pv, tg, nx, D, R, rank)
                              /\ Sorted(R, pol, sz, rank, {}, {})
  BY DEF Shape
<1>2. PICK step :
         step = [f \in Address \cup {MEM_END} |->
                     IF f = FREE_LIST_HEAD \/ GET_SIZE_FRONT(mm, f) >= n
                     THEN f ELSE GET_NEXT_FRONT(mm, f)]
  OBVIOUS
<1>3. PICK p : p = FirstThatFits(n)
  OBVIOUS
<1>4. p = Walk(GET_NEXT_FRONT(mm, FREE_LIST_HEAD), step)[MaxBlocks]
  BY <1>2, <1>3 DEF FirstThatFits, Search, Until
<1>5. /\ Tagged(mm, T, sz, pv, tg, nx, D) /\ Layout(T, sz) /\ R \subseteq T
      /\ FREE_LIST_HEAD \in Anchored(R) /\ Anchored(R) \subseteq T /\ T \subseteq Address
      /\ R \subseteq Anchored(R) /\ FREE_LIST_HEAD \notin R
      /\ \A x \in T : x \in Int /\ sz[x] \in Nat
      /\ \A x \in Anchored(R) : rank[x] \in Int
  BY <1>1, ChainFacts
<1>6. /\ \A x \in T : GET_NEXT_FRONT(mm, x) = nx[x] /\ GET_SIZE_FRONT(mm, x) = sz[x]
  BY <1>5, Reads
<1>7. PICK F : F = {x \in R : sz[x] >= n}
  OBVIOUS
<1>8. ASSUME NEW x \in Anchored(R)
      PROVE  step[x] = IF x = FREE_LIST_HEAD \/ x \in F THEN x ELSE nx[x]
  <2>1. x \in T /\ x \in Address
    BY <1>5
  <2>2. x \in F <=> x # FREE_LIST_HEAD /\ sz[x] >= n
    BY <1>5, <1>7 DEF Anchored
  <2> QED
    BY <1>2, <1>6, <2>1, <2>2
<1>9. Ranked(R, pv, nx, rank)
  BY <1>1 DEF Chain, Fw, Bk
<1>10. R \subseteq T \ {FREE_LIST_HEAD}
  BY <1>5
<1>11. PICK before : before = FREE_LIST_HEAD
  OBVIOUS
<1>12. PICK end : end = Walk(nx[before], step)[MaxBlocks]
  OBVIOUS
<1>13. /\ end \in Anchored(R) /\ (end = FREE_LIST_HEAD \/ end \in F)
       /\ \A x \in R : rank[before] < rank[x] /\ x \in F => end \in R /\ rank[end] <= rank[x]
  <2>1. before \in Anchored(R)
    BY <1>5, <1>11
  <2>2. LET e == Walk(nx[before], step)[MaxBlocks]
        IN  /\ e \in Anchored(R) /\ (e = FREE_LIST_HEAD \/ e \in F)
            /\ e \in R => rank[before] < rank[e]
            /\ \A x \in R : rank[before] < rank[x] /\ x \in F => e \in R /\ rank[e] <= rank[x]
    BY <1>5, <1>8, <1>9, <1>10, <2>1, SearchOn
  <2> QED
    BY <1>12, <2>2
<1>14. end = p
  BY <1>4, <1>5, <1>6, <1>11, <1>12
<1>15. \A x \in R : rank[before] < rank[x]
  BY <1>9, <1>11, Ranks
<1>16. CASE p = FREE_LIST_HEAD
  <2>1. NoneFits(sz, R, n)
    BY <1>5, <1>7, <1>13, <1>14, <1>15, <1>16 DEF NoneFits
  <2> QED
    BY <1>3, <1>16, <2>1
<1>17. CASE p # FREE_LIST_HEAD
  <2>1. p \in R /\ sz[p] >= n
    BY <1>7, <1>13, <1>14, <1>17
  <2>2. ASSUME NEW x \in R, sz[x] >= n PROVE Better(pol, sz, p, x)
    <3>1. rank[p] <= rank[x] /\ rank[p] \in Int /\ rank[x] \in Int
      BY <1>5, <1>7, <1>13, <1>14, <1>15, <2>1, <2>2
    <3>2. x \in T /\ p \in T
      BY <1>5, <2>1
    <3>3. CASE rank[p] < rank[x]
      <4>1. Key(pol, sz, p) <= Key(pol, sz, x)
        BY <1>1, <2>1, <3>3 DEF Sorted
      <4> QED
        BY <1>1, <4>1, Policies DEF Key, Better, Chain
    <3>4. CASE rank[p] = rank[x]
      <4>1. p = x
        BY <1>9, <2>1, <3>4 DEF Ranked
      <4> QED
        BY <1>1, <1>5, <3>2, <4>1, Policies DEF Better, Chain
    <3> QED
      BY <3>1, <3>3, <3>4
  <2>3. Best(pol, sz, R, n, p)
    BY <2>1, <2>2 DEF Best
  <2> QED
    BY <1>3, <1>17, <2>3
<1> QED
  BY <1>16, <1>17

(* Worst fit takes the ring's first, the largest.                          *)
LEMMA WorstIs ==
    ASSUME NEW pol, pol = "worst_fit", NEW T, NEW sz, NEW R, NEW D,
           Shape(mm, pol, T, sz, R, D), NEW n \in Nat
    PROVE  \/ /\ Worst = FREE_LIST_HEAD \/ GET_SIZE_FRONT(mm, Worst) < n
              /\ NoneFits(sz, R, n)
           \/ /\ Worst # FREE_LIST_HEAD /\ GET_SIZE_FRONT(mm, Worst) >= n
              /\ Best(pol, sz, R, n, Worst)
<1>1. PICK pv, tg, nx, rank : /\ Chain(mm, pol, T, sz, pv, tg, nx, D, R, rank)
                              /\ Sorted(R, pol, sz, rank, {}, {})
  BY DEF Shape
<1>2. PICK p, head : p = Worst /\ head = FREE_LIST_HEAD
  OBVIOUS
<1>3. /\ Tagged(mm, T, sz, pv, tg, nx, D) /\ R \subseteq T
      /\ head \in Anchored(R) /\ Anchored(R) \subseteq T
      /\ R \subseteq Anchored(R) /\ head \notin R
      /\ \A x \in T : x \in Int /\ sz[x] \in Nat
      /\ \A x \in Anchored(R) : rank[x] \in Int /\ nx[x] \in Anchored(R)
  BY <1>1, <1>2, ChainFacts
<1>4. p = nx[head]
  BY <1>2, <1>3, Reads DEF Worst
<1>5. p \in Anchored(R) /\ p \in T /\ GET_SIZE_FRONT(mm, p) = sz[p]
  BY <1>3, <1>4, Reads
<1>6. Ranked(R, nx, pv, rank)
  BY <1>1 DEF Chain, Fw, Bk
<1>7. \A x \in Anchored(R) : rank[x] <= rank[p]
  BY <1>2, <1>4, <1>6, LastRank
<1>8. \A x \in R : rank[head] < rank[x]
  BY <1>2, <1>6, Ranks
<1>9. CASE p = head
  <2>1. R = {}
    BY <1>3, <1>7, <1>8, <1>9
  <2>2. NoneFits(sz, R, n)
    BY <2>1 DEF NoneFits
  <2> QED
    BY <1>2, <1>9, <2>2
<1>10. CASE p # head
  <2>1. p \in R
    BY <1>2, <1>5, <1>10 DEF Anchored
  <2>2. ASSUME NEW x \in R PROVE sz[x] <= sz[p]
    <3>1. rank[x] <= rank[p] /\ rank[p] \in Int /\ rank[x] \in Int /\ x \in T
      BY <1>3, <1>5, <1>7
    <3>2. CASE rank[x] < rank[p]
      BY <1>1, <2>1, <3>2 DEF Sorted, Key
    <3>3. CASE rank[x] = rank[p]
      <4>1. p = x
        BY <1>6, <2>1, <3>3 DEF Ranked
      <4> QED
        BY <1>3, <3>1, <4>1
    <3> QED
      BY <3>1, <3>2, <3>3
  <2>3. sz[p] \in Nat /\ \A x \in R : sz[x] \in Nat
    BY <1>3, <1>5
  <2>4. CASE sz[p] < n
    <3>1. NoneFits(sz, R, n)
      BY <2>2, <2>3, <2>4 DEF NoneFits
    <3> QED
      BY <1>2, <1>5, <2>4, <3>1
  <2>5. CASE sz[p] >= n
    <3>1. Best(pol, sz, R, n, p)
      BY <2>1, <2>2, <2>3, <2>5 DEF Best, Better
    <3> QED
      BY <1>2, <1>5, <1>10, <2>5, <3>1
  <2> QED
    BY <2>3, <2>4, <2>5
<1> QED
  BY <1>9, <1>10

-----------------------------------------------------------------------------
(* The memory a user of block p gets.                                      *)
Granted(pol, m, p, n) == IF TakeWhole(m, p, n) THEN Whole(m, p) ELSE Divided(pol, m, p, n)

LEMMA RequestIs ==
    ASSUME NEW T, NEW sz, NEW R, NEW D, Shape(mm, policy, T, sz, R, D), NEW n \in Nat,
           mm_request_ff(n) \/ mm_request_bf(n) \/ mm_request_wf(n)
    PROVE  \E p : Asking /\ Best(policy, sz, R, n, p) /\ Grant(Granted(policy, mm, p, n), p, n)
<1>1. CASE mm_request_ff(n)
  <2>1. PICK p : p = FirstThatFits(n)
    OBVIOUS
  <2>2. /\ Asking /\ policy = "first_fit" /\ p # FREE_LIST_HEAD
        /\ Grant(IF TakeWhole(mm, p, n) THEN Whole(mm, p) ELSE Split(mm, p, n), p, n)
    BY <1>1, <2>1 DEF mm_request_ff
  <2>3. Grant(Granted(policy, mm, p, n), p, n)
    BY <2>2 DEF Granted, Divided
  <2>4. Best(policy, sz, R, n, p)
    BY <2>1, <2>2, SearchFits
  <2> QED
    BY <2>2, <2>3, <2>4
<1>2. CASE mm_request_bf(n)
  <2>1. PICK p : p = FirstThatFits(n)
    OBVIOUS
  <2>2. /\ Asking /\ policy = "best_fit" /\ p # FREE_LIST_HEAD
        /\ Grant(IF TakeWhole(mm, p, n) THEN Whole(mm, p)
                 ELSE list_add_bf(LIST_DEL(Split(mm, p, n), Rest(p, n)), Rest(p, n), FREE_LIST_HEAD),
                 p, n)
    BY <1>2, <2>1 DEF mm_request_bf
  <2>3. Grant(Granted(policy, mm, p, n), p, n)
    BY <2>2 DEF Granted, Divided, Added
  <2>4. Best(policy, sz, R, n, p)
    BY <2>1, <2>2, SearchFits
  <2> QED
    BY <2>2, <2>3, <2>4
<1>3. CASE mm_request_wf(n)
  <2>1. PICK p : p = Worst
    OBVIOUS
  <2>2. /\ Asking /\ policy = "worst_fit" /\ p # FREE_LIST_HEAD
        /\ GET_SIZE_FRONT(mm, p) >= n
        /\ Grant(IF TakeWhole(mm, p, n) THEN Whole(mm, p)
                 ELSE list_add_wf(LIST_DEL(Split(mm, p, n), Rest(p, n)), Rest(p, n), FREE_LIST_HEAD),
                 p, n)
    BY <1>3, <2>1 DEF mm_request_wf
  <2>3. Grant(Granted(policy, mm, p, n), p, n)
    BY <2>2 DEF Granted, Divided, Added
  <2>4. Best(policy, sz, R, n, p)
    <3>1. p \in Int /\ GET_SIZE_FRONT(mm, p) \in Int
      <4>1. PICK pv, tg, nx, rank : Chain(mm, policy, T, sz, pv, tg, nx, D, R, rank)
        BY DEF Shape
      <4>2. p = nx[FREE_LIST_HEAD] /\ nx[FREE_LIST_HEAD] \in Anchored(R)
        BY <2>1, <4>1, ChainFacts, Reads DEF Worst
      <4>3. p \in T
        BY <4>1, <4>2, ChainFacts
      <4> QED
        BY <4>1, <4>3, ChainFacts, Reads
    <3>2. ~(GET_SIZE_FRONT(mm, p) < n)
      BY <2>2, <3>1
    <3> QED
      BY <2>1, <2>2, <3>2, WorstIs
  <2> QED
    BY <2>2, <2>3, <2>4
<1> QED
  BY <1>1, <1>2, <1>3

LEMMA RefuseIs ==
    ASSUME NEW T, NEW sz, NEW R, NEW D, Shape(mm, policy, T, sz, R, D), NEW n \in Nat,
           mm_request_fails(n)
    PROVE  NoneFits(sz, R, n)
<1>1. CASE policy = "worst_fit"
  <2>1. Worst = FREE_LIST_HEAD \/ GET_SIZE_FRONT(mm, Worst) < n
    BY <1>1 DEF mm_request_fails
  <2>2. ASSUME Best(policy, sz, R, n, Worst), Worst # FREE_LIST_HEAD PROVE FALSE
    <3>1. Worst \in R /\ sz[Worst] >= n
      BY <2>2 DEF Best
    <3>2. Worst \in T /\ sz[Worst] \in Nat
      BY <3>1, ShapeFacts, InMemory
    <3>3. GET_SIZE_FRONT(mm, Worst) = sz[Worst]
      BY <3>2, ShapeReads
    <3> QED
      BY <2>1, <2>2, <3>1, <3>2, <3>3
  <2> QED
    BY <1>1, <2>2, WorstIs
<1>2. CASE policy # "worst_fit"
  <2>1. FirstThatFits(n) = FREE_LIST_HEAD
    BY <1>2 DEF mm_request_fails
  <2> QED
    BY <1>2, <2>1, SearchFits
<1> QED
  BY <1>1, <1>2

-----------------------------------------------------------------------------
(* The users write within their blocks.                                    *)
Within(D, T, sz, R) == \A a \in D : \E u \in Used(T, R) : u <= a /\ a < u + 5 + sz[u]

(* p is the user's: whole, or n cells of it.                               *)
Given(sz, p, n) == IF sz[p] < n + 6 THEN sz[p] ELSE n

Taken(T, sz, R, p, n, T2, sz2, R2) ==
    /\ Used(T2, R2) = Used(T, R) \cup {p}
    /\ \A u \in Used(T, R) : sz2[u] = sz[u]
    /\ sz2[p] = Given(sz, p, n)
    /\ Joined(sz, R) => Joined(sz2, R2)

LEMMA TakenWhole ==
    ASSUME NEW T, NEW sz, NEW R, R \subseteq T, FREE_LIST_HEAD \notin R, NEW p \in R,
           NEW n \in Nat, sz[p] < n + 6
    PROVE  Taken(T, sz, R, p, n, T, sz, R \ {p})
<1>1. Used(T, R \ {p}) = Used(T, R) \cup {p}
  BY DEF Used, Anchored
<1>2. Joined(sz, R) => Joined(sz, R \ {p})
  BY DEF Joined
<1> QED
  BY <1>1, <1>2 DEF Taken, Given

LEMMA TakenPart ==
    ASSUME NEW T, NEW sz, Layout(T, sz), NEW R, R \subseteq T, FREE_LIST_HEAD \notin R, NEW p \in R,
           NEW n \in Nat, Divides(sz, p, n)
    PROVE  Taken(T, sz, R, p, n, T \cup {Rest(p, n)}, SplitSize(T, sz, p, n),
                 (R \ {p}) \cup {Rest(p, n)})
<1>1. PICK q, sz2, Q : q = Rest(p, n) /\ sz2 = SplitSize(T, sz, p, n) /\ Q = (R \ {p}) \cup {q}
  OBVIOUS
<1>2. p \in T /\ p # FREE_LIST_HEAD
  OBVIOUS
<1>3. /\ Layout(T \cup {Rest(p, n)}, SplitSize(T, sz, p, n))
      /\ Rest(p, n) \in Int /\ Rest(p, n) \notin T /\ p < Rest(p, n)
      /\ SplitSize(T, sz, p, n)[p] = n
      /\ SplitSize(T, sz, p, n)[Rest(p, n)] \in Nat
      /\ SplitSize(T, sz, p, n)[Rest(p, n)] = sz[p] - n - 5
      /\ AllKept(T, p, sz, SplitSize(T, sz, p, n))
  BY <1>2, SplitLayout
<1>4. /\ Layout(T \cup {q}, sz2)
      /\ q \in Int /\ q \notin T /\ p < q
      /\ sz2[p] = n /\ sz2[q] \in Nat
      /\ sz2[q] = sz[p] - n - 5
      /\ \A x \in T : x # p => sz2[x] = sz[x]
  BY <1>1, <1>3 DEF AllKept
<1>5. \A x \in T : x \in Int /\ sz[x] \in Nat /\ (x + 5 + sz[x] \in T \/ x + 5 + sz[x] = MEM_SIZE)
  BY Neighbours
<1>6. q < MEM_SIZE /\ MEM_SIZE \in Nat
  <2>1. q + 5 + sz2[q] <= MEM_SIZE /\ MEM_SIZE \in Nat
    BY <1>4, Neighbours
  <2> QED
    BY <1>4, <2>1
<1>7. q = p + 5 + n /\ n + 5 < sz[p]
  BY <1>1 DEF Rest, Divides
<1>8. q + 5 + sz2[q] = p + 5 + sz[p]
  BY <1>2, <1>4, <1>5, <1>7
<1>9. q # FREE_LIST_HEAD
  BY <1>2, <1>4 DEF Layout
<1>10. Used(T \cup {q}, Q) = Used(T, R) \cup {p}
  BY <1>1, <1>2, <1>4, <1>9 DEF Used, Anchored
<1>11. \A u \in Used(T, R) : sz2[u] = sz[u]
  BY <1>4 DEF Used, Anchored
<1>12. sz2[p] = Given(sz, p, n)
  <2>1. ~(sz[p] < n + 6)
    BY <1>2, <1>5, <1>7
  <2> QED
    BY <1>4, <2>1 DEF Given
<1>13. ASSUME Joined(sz, R) PROVE Joined(sz2, Q)
  <2>1. ASSUME NEW x \in Q PROVE x + 5 + sz2[x] \notin Q
    <3>1. CASE x = q
      <4>1. p + 5 + sz[p] \notin R
        BY <1>13 DEF Joined
      <4>2. p + 5 + sz[p] # q
        BY <1>2, <1>5, <1>7
      <4> QED
        BY <1>1, <1>8, <3>1, <4>1, <4>2
    <3>2. CASE x # q
      <4>1. x \in R /\ x # p /\ x \in T
        BY <1>1, <2>1, <3>2
      <4>2. sz2[x] = sz[x]
        BY <1>4, <4>1
      <4>3. x + 5 + sz[x] # q
        BY <1>4, <1>5, <1>6, <4>1
      <4>4. x + 5 + sz[x] \notin R
        BY <1>13, <4>1 DEF Joined
      <4> QED
        BY <1>1, <4>2, <4>3, <4>4
    <3> QED
      BY <3>1, <3>2
  <2> QED
    BY <2>1 DEF Joined
<1> QED
  BY <1>1, <1>10, <1>11, <1>12, <1>13 DEF Taken

LEMMA GrantShape ==
    ASSUME NEW m, NEW pol, NEW T, NEW sz, NEW R, NEW D, Shape(m, pol, T, sz, R, D),
           Within(D, T, sz, R), NEW n \in Nat \ {0}, NEW p \in R, n <= sz[p]
    PROVE  \E T2, sz2, R2 :
               /\ Shape(Filled(Granted(pol, m, p, n), p + 3, n), pol, T2, sz2, R2,
                        D \cup (p + 3 .. p + 3 + n - 1))
               /\ Taken(T, sz, R, p, n, T2, sz2, R2)
<1>1. /\ Layout(T, sz) /\ R \subseteq T /\ FREE_LIST_HEAD \notin R /\ D \subseteq Address
      /\ p \in T /\ p # FREE_LIST_HEAD
  BY ShapeFacts
<1>2. p \in Int /\ sz[p] \in Nat /\ GET_SIZE_FRONT(m, p) = sz[p]
  BY <1>1, InMemory, ShapeReads
<1>3. CASE sz[p] < n + 6
  <2>1. Granted(pol, m, p, n) = Whole(m, p)
    BY <1>2, <1>3 DEF Granted, TakeWhole
  <2>2. PICK m2 : m2 = Whole(m, p)
    OBVIOUS
  <2>3. Shape(m2, pol, T, sz, R \ {p}, D)
    BY <2>2, ShapeWhole
  <2>4. Shape(Filled(m2, p + 3, n), pol, T, sz, R \ {p}, D \cup (p + 3 .. p + 3 + n - 1))
    BY <1>1, <2>3, ShapeFilled
  <2>5. Taken(T, sz, R, p, n, T, sz, R \ {p})
    BY <1>1, <1>3, TakenWhole
  <2> QED
    BY <2>1, <2>2, <2>4, <2>5
<1>4. CASE ~(sz[p] < n + 6)
  <2>1. Granted(pol, m, p, n) = Divided(pol, m, p, n)
    BY <1>2, <1>4 DEF Granted, TakeWhole
  <2>2. Divides(sz, p, n)
    BY <1>2, <1>4 DEF Divides
  <2>3. Clear(D, T, sz, R, p)
    BY <1>1 DEF Clear, Within, Used, Anchored
  <2>4. p <= p /\ \A u \in T : p <= u /\ u <= p => u \in R \/ u = p
    <3>1. \A u \in T : u \in Int
      BY <1>1, Neighbours
    <3> QED
      BY <1>2, <3>1
  <2>5. Unwritten(D, sz, p, p)
    BY <1>1, <2>3, <2>4, ClearUnwritten
  <2>6. PICK m2, T2, sz2, R2 :
           /\ m2 = Divided(pol, m, p, n) /\ T2 = T \cup {Rest(p, n)}
           /\ sz2 = SplitSize(T, sz, p, n) /\ R2 = (R \ {p}) \cup {Rest(p, n)}
    OBVIOUS
  <2>7. Shape(m2, pol, T2, sz2, R2, D)
    BY <2>2, <2>5, <2>6, ShapeDivided
  <2>8. Taken(T, sz, R, p, n, T2, sz2, R2)
    BY <1>1, <2>2, <2>6, TakenPart
  <2>9. p \in T2 /\ sz2[p] = n
    <3>1. sz2[p] = n
      BY <1>4, <2>8 DEF Taken, Given
    <3> QED
      BY <1>1, <2>6, <3>1
  <2>10. n \in Nat /\ n <= sz2[p]
    BY <2>9
  <2>11. Shape(Filled(m2, p + 3, n), pol, T2, sz2, R2, D \cup (p + 3 .. p + 3 + n - 1))
    BY <2>7, <2>9, <2>10, ShapeFilled
  <2> QED
    BY <2>1, <2>6, <2>8, <2>11
<1> QED
  BY <1>3, <1>4

-----------------------------------------------------------------------------
(* The inductive invariant: the memory has a shape, its used blocks are    *)
(* the users', and free neighbours are joined.                             *)
Written(H) == UNION {b.at .. b.at + b.n - 1 : b \in H}

Users(H, T, sz, R) ==
    /\ \A b \in H : /\ b.at \in Int /\ Front(b) \in Used(T, R)
                    /\ b.n \in Request /\ b.n <= sz[Front(b)]
    /\ \A a, b \in H : a.at = b.at => a = b
    /\ \A u \in Used(T, R) : \E b \in H : Front(b) = u

Answers(H) == {NULL, Void} \cup {b.at : b \in H}

Tiled(T, sz, R) == /\ Shape(mm, policy, T, sz, R, Written(held))
                   /\ Users(held, T, sz, R) /\ Joined(sz, R)

MemInv == /\ \E T, sz, R : Tiled(T, sz, R)
          /\ answer \in Answers(held)

LEMMA Requests == \A n \in Request : n \in Nat \ {0} /\ n \in Int /\ n <= MEM_SIZE - 6
BY RequestAssumption, Cells

LEMMA UsersWithin ==
    ASSUME NEW T, NEW sz, Layout(T, sz), NEW R, NEW H, Users(H, T, sz, R)
    PROVE  Within(Written(H), T, sz, R)
<1>1. ASSUME NEW a \in Written(H) PROVE \E u \in Used(T, R) : u <= a /\ a < u + 5 + sz[u]
  <2>1. PICK b \in H : a \in b.at .. b.at + b.n - 1
    BY DEF Written
  <2>2. /\ b.at \in Int /\ Front(b) \in Used(T, R) /\ b.n \in Int /\ b.n <= sz[Front(b)]
    BY Requests DEF Users
  <2>3. Front(b) \in Int /\ sz[Front(b)] \in Nat /\ Front(b) = b.at - 3
    BY <2>2, UsedFacts, InMemory DEF Front
  <2>4. Front(b) <= a /\ a < Front(b) + 5 + sz[Front(b)]
    BY <2>1, <2>2, <2>3
  <2> QED
    BY <2>2, <2>4
<1> QED
  BY <1>1 DEF Within

LEMMA OthersClear ==
    ASSUME NEW T, NEW sz, Layout(T, sz), NEW R, NEW H, Users(H, T, sz, R), NEW b \in H
    PROVE  Clear(Written(H \ {b}), T, sz, R, Front(b))
<1>1. ASSUME NEW a \in Written(H \ {b})
      PROVE \E u \in Used(T, R) : u # Front(b) /\ u <= a /\ a < u + 5 + sz[u]
  <2>1. PICK c \in H \ {b} : a \in c.at .. c.at + c.n - 1
    BY DEF Written
  <2>2. /\ c.at \in Int /\ Front(c) \in Used(T, R) /\ c.n \in Int /\ c.n <= sz[Front(c)]
        /\ b.at \in Int /\ c.at # b.at
    BY <2>1, Requests DEF Users
  <2>3. /\ Front(c) \in Int /\ sz[Front(c)] \in Nat
        /\ Front(c) = c.at - 3 /\ Front(b) = b.at - 3
    BY <2>2, UsedFacts, InMemory DEF Front
  <2>4. Front(c) <= a /\ a < Front(c) + 5 + sz[Front(c)] /\ Front(c) # Front(b)
    BY <2>1, <2>2, <2>3
  <2> QED
    BY <2>2, <2>4
<1> QED
  BY <1>1 DEF Clear

LEMMA InitTiled ==
    ASSUME Init
    PROVE  MemInv
<1>1. PICK m : m = [a \in Address |-> 0]
  OBVIOUS
<1>2. m \in Memory
  BY <1>1 DEF Memory
<1>3. mm = mm_init(m) /\ policy \in Policy /\ held = {} /\ answer = Void
  BY <1>1 DEF Init
<1>4. PICK T, sz : Shape(mm_init(m), policy, T, sz, {MEM_START}, {}) /\ OneBlock(T, sz)
  BY <1>2, <1>3, ShapeInit
<1>5. Written(held) = {}
  BY <1>3 DEF Written
<1>6. Used(T, {MEM_START}) = {}
  BY <1>4 DEF OneBlock, Used, Anchored
<1>7. Users(held, T, sz, {MEM_START})
  BY <1>3, <1>6 DEF Users
<1>8. sz[0] = MEM_SIZE - 5
  BY <1>4 DEF OneBlock
<1>9. 0 + 5 + sz[0] # 0
  BY <1>8, Cells
<1>10. Joined(sz, {MEM_START})
  BY <1>9 DEF Joined
<1>11. Tiled(T, sz, {MEM_START})
  BY <1>3, <1>4, <1>5, <1>7, <1>10 DEF Tiled
<1> QED
  BY <1>3, <1>11 DEF MemInv, Answers

(* A request served, whatever the program.                                 *)
LEMMA GrantTiled ==
    ASSUME NEW T, NEW sz, NEW R, Tiled(T, sz, R), NEW n \in Request,
           NEW p, Best(policy, sz, R, n, p), Grant(Granted(policy, mm, p, n), p, n)
    PROVE  \E T2, sz2, R2 : Tiled(T2, sz2, R2)' /\ Taken(T, sz, R, p, n, T2, sz2, R2)
<1>1. /\ Shape(mm, policy, T, sz, R, Written(held)) /\ Users(held, T, sz, R) /\ Joined(sz, R)
  BY DEF Tiled
<1>2. Layout(T, sz) /\ R \subseteq T /\ FREE_LIST_HEAD \notin R
  BY <1>1, ShapeFacts
<1>3. n \in Nat \ {0} /\ n \in Int
  BY Requests
<1>4. p \in R /\ p \in T /\ p \in Int /\ sz[p] \in Nat /\ n <= sz[p]
  BY <1>2, <1>3, InMemory DEF Best
<1>5. Within(Written(held), T, sz, R)
  BY <1>1, <1>2, UsersWithin
<1>6. PICK T2, sz2, R2 :
         /\ Shape(Filled(Granted(policy, mm, p, n), p + 3, n), policy, T2, sz2, R2,
                  Written(held) \cup (p + 3 .. p + 3 + n - 1))
         /\ Taken(T, sz, R, p, n, T2, sz2, R2)
  BY <1>1, <1>3, <1>4, <1>5, GrantShape
<1>7. PICK b : b = [at |-> p + 3, n |-> n]
  OBVIOUS
<1>8. /\ mm' = Filled(Granted(policy, mm, p, n), p + 3, n)
      /\ held' = held \cup {b} /\ answer' = p + 3 /\ policy' = policy
  BY <1>7 DEF Grant, GET_USER_START_FRONT, Filled
<1>9. b.at = p + 3 /\ b.n = n /\ Front(b) = p /\ b.at \in Int
  BY <1>4, <1>7 DEF Front
<1>10. Written(held') = Written(held) \cup (p + 3 .. p + 3 + n - 1)
  BY <1>8, <1>9 DEF Written
<1>11. Shape(mm', policy', T2, sz2, R2, Written(held'))
  BY <1>6, <1>8, <1>10
<1>12. /\ Used(T2, R2) = Used(T, R) \cup {p} /\ \A u \in Used(T, R) : sz2[u] = sz[u]
       /\ sz2[p] = Given(sz, p, n) /\ Joined(sz2, R2)
  BY <1>1, <1>6 DEF Taken
<1>13. n <= sz2[p]
  BY <1>3, <1>4, <1>12 DEF Given
<1>14. p \notin Used(T, R)
  BY <1>4 DEF Used, Anchored
<1>15. Users(held', T2, sz2, R2)
  <2>1. ASSUME NEW c \in held'
        PROVE  c.at \in Int /\ Front(c) \in Used(T2, R2) /\ c.n \in Request /\ c.n <= sz2[Front(c)]
    <3>1. CASE c = b
      BY <1>9, <1>12, <1>13, <3>1
    <3>2. CASE c \in held
      BY <1>1, <1>12, <3>2 DEF Users
    <3> QED
      BY <1>8, <2>1, <3>1, <3>2
  <2>2. ASSUME NEW c \in held PROVE c.at # b.at
    <3>1. c.at \in Int /\ Front(c) \in Used(T, R)
      BY <1>1, <2>2 DEF Users
    <3> QED
      BY <1>4, <1>9, <1>14, <3>1 DEF Front
  <2>3. \A a, c \in held' : a.at = c.at => a = c
    BY <1>1, <1>8, <2>2 DEF Users
  <2>4. \A u \in Used(T2, R2) : \E c \in held' : Front(c) = u
    BY <1>1, <1>8, <1>9, <1>12 DEF Users
  <2> QED
    BY <2>1, <2>3, <2>4 DEF Users
<1>16. Tiled(T2, sz2, R2)'
  BY <1>11, <1>12, <1>15 DEF Tiled
<1> QED
  BY <1>6, <1>16

(* A release.                                                              *)
LEMMA ReturnTiled ==
    ASSUME NEW T, NEW sz, NEW R, Tiled(T, sz, R), NEW b \in held,
           Return(b, After(policy, mm, Front(b)))
    PROVE  \E T2, sz2, R2 : Tiled(T2, sz2, R2)' /\ Freed(T, sz, R, Front(b), T2, sz2, R2)
<1>1. /\ Shape(mm, policy, T, sz, R, Written(held)) /\ Users(held, T, sz, R) /\ Joined(sz, R)
  BY DEF Tiled
<1>2. Layout(T, sz) /\ R \subseteq T /\ FREE_LIST_HEAD \notin R
  BY <1>1, ShapeFacts
<1>3. PICK p, H : p = Front(b) /\ H = held \ {b}
  OBVIOUS
<1>4. p \in Used(T, R)
  BY <1>1, <1>3 DEF Users
<1>5. Written(H) \subseteq Written(held)
  BY <1>3 DEF Written
<1>6. Shape(mm, policy, T, sz, R, Written(H))
  BY <1>1, <1>5, ShapeLess
<1>7. Clear(Written(H), T, sz, R, p)
  BY <1>1, <1>2, <1>3, OthersClear
<1>8. PICK T2, sz2, R2 : /\ Shape(After(policy, mm, p), policy, T2, sz2, R2, Written(H))
                         /\ Freed(T, sz, R, p, T2, sz2, R2)
  BY <1>4, <1>6, <1>7, ReleaseShape
<1>9. mm' = After(policy, mm, p) /\ held' = H /\ policy' = policy
  BY <1>3 DEF Return
<1>10. /\ Used(T2, R2) = Used(T, R) \ {p} /\ \A u \in Used(T2, R2) : sz2[u] = sz[u]
       /\ Joined(sz2, R2)
  BY <1>1, <1>8 DEF Freed
<1>11. ASSUME NEW c \in H PROVE Front(c) # p
  <2>1. c.at \in Int /\ b.at \in Int /\ c.at # b.at
    BY <1>1, <1>3, <1>11 DEF Users
  <2> QED
    BY <1>3, <2>1 DEF Front
<1>12. Users(H, T2, sz2, R2)
  <2>1. \A c \in H : /\ c.at \in Int /\ Front(c) \in Used(T2, R2)
                     /\ c.n \in Request /\ c.n <= sz2[Front(c)]
    BY <1>1, <1>3, <1>10, <1>11 DEF Users
  <2>2. \A a, c \in H : a.at = c.at => a = c
    BY <1>1, <1>3 DEF Users
  <2>3. \A u \in Used(T2, R2) : \E c \in H : Front(c) = u
    BY <1>1, <1>3, <1>10 DEF Users
  <2> QED
    BY <2>1, <2>2, <2>3 DEF Users
<1>13. Tiled(T2, sz2, R2)'
  BY <1>8, <1>9, <1>10, <1>12 DEF Tiled
<1> QED
  BY <1>3, <1>8, <1>13

LEMMA StepTiled ==
    ASSUME MemInv, [Next]_vars
    PROVE  MemInv'
<1>1. PICK T, sz, R : Tiled(T, sz, R)
  BY DEF MemInv
<1>2. Shape(mm, policy, T, sz, R, Written(held))
  BY <1>1 DEF Tiled
<1>3. ASSUME NEW n \in Request, mm_request_ff(n) \/ mm_request_bf(n) \/ mm_request_wf(n)
      PROVE  MemInv'
  <2>1. n \in Nat
    BY Requests
  <2>2. PICK p : Best(policy, sz, R, n, p) /\ Grant(Granted(policy, mm, p, n), p, n)
    BY <1>2, <1>3, <2>1, RequestIs
  <2>3. \E T2, sz2, R2 : Tiled(T2, sz2, R2)'
    BY <1>1, <2>2, GrantTiled
  <2>4. answer' \in {b.at : b \in held'}
    <3>1. PICK start : start = GET_USER_START_FRONT(p)
      OBVIOUS
    <3>2. answer' = start /\ [at |-> start, n |-> n] \in held'
      BY <2>2, <3>1 DEF Grant
    <3> QED
      BY <3>2
  <2> QED
    BY <2>3, <2>4 DEF MemInv, Answers
<1>4. ASSUME NEW n \in Request, mm_request_fails(n) PROVE MemInv'
  <2>1. mm' = mm /\ policy' = policy /\ held' = held /\ answer' = NULL
    BY <1>4 DEF mm_request_fails
  <2>2. Tiled(T, sz, R)'
    BY <1>1, <2>1 DEF Tiled
  <2> QED
    BY <2>1, <2>2 DEF MemInv, Answers
<1>5. ASSUME NEW b \in held, mm_release_ff(b) \/ mm_release_bf(b) \/ mm_release_wf(b)
      PROVE  MemInv'
  <2>1. Return(b, After(policy, mm, Front(b)))
    BY <1>5, ReleaseIs
  <2>2. \E T2, sz2, R2 : Tiled(T2, sz2, R2)'
    BY <1>1, <2>1, ReturnTiled
  <2>3. answer' = Void
    BY <2>1 DEF Return
  <2> QED
    BY <2>2, <2>3 DEF MemInv, Answers
<1>6. CASE UNCHANGED vars
  <2>1. Tiled(T, sz, R)'
    BY <1>1, <1>6 DEF Tiled, vars
  <2>2. answer' = answer /\ held' = held
    BY <1>6 DEF vars
  <2>3. answer' \in Answers(held')
    BY <2>2 DEF MemInv
  <2> QED
    BY <2>1, <2>3 DEF MemInv
<1> QED
  BY <1>3, <1>4, <1>5, <1>6 DEF Next

(* The inductive invariant holds.                                          *)
LEMMA Invariant == Spec => []MemInv
<1>1. Init => MemInv
  BY InitTiled
<1>2. MemInv /\ [Next]_vars => MemInv'
  BY StepTiled
<1> QED
  BY <1>1, <1>2, PTL DEF Spec

-----------------------------------------------------------------------------
(* What the walks along the memory and along the ring find.                *)
LEMMA WalkIsLong == MEM_SIZE < 6 * MaxBlocks
BY Cells DEF MaxBlocks

LEMMA BlocksAre ==
    ASSUME NEW m, NEW pol, NEW T, NEW sz, NEW R, NEW D, Shape(m, pol, T, sz, R, D)
    PROVE  Blocks(m) = T \ {FREE_LIST_HEAD}
<1>1. PICK step : step = [f \in Address \cup {MEM_END} |->
                              IF f \notin Address THEN f ELSE GET_BACK_FRONT(m, f)]
  OBVIOUS
<1>2. PICK w : w = Walk(MEM_START, step)
  OBVIOUS
<1>3. Blocks(m) = Range(w) \ {MEM_SIZE}
  BY <1>1, <1>2 DEF Blocks, Until
<1>4. PICK B : B = T \ {FREE_LIST_HEAD}
  OBVIOUS
<1>5. Layout(T, sz)
  BY ShapeFacts
<1>6. /\ \A x \in B : x \in T /\ x \in Address /\ x \in Int /\ 0 <= x /\ sz[x] \in Nat /\ sz[x] > 0
      /\ \A x \in B : x + 5 + sz[x] <= MEM_SIZE
      /\ \A x \in B : x + 5 + sz[x] \in T \/ x + 5 + sz[x] = MEM_SIZE
      /\ MEM_SIZE \in Nat /\ MEM_SIZE \notin T /\ MEM_SIZE \notin Address
      /\ 0 \in B /\ FREE_LIST_HEAD = -5
  <2>1. T \subseteq Address /\ 0 \in T /\ \A x \in T : x # FREE_LIST_HEAD => sz[x] > 0
    BY <1>5 DEF Layout
  <2>2. 0 \in B /\ MEM_SIZE \notin Address
    BY <1>4, <2>1, Cells
  <2> QED
    BY <1>4, <1>5, <2>1, <2>2, Neighbours, Cells
<1>7. \A x \in B : step[x] = x + 5 + sz[x]
  BY <1>1, <1>6, ShapeReads
<1>8. \A x \in B : x + 5 + sz[x] \in B \cup {MEM_SIZE}
  <2>1. \A x \in B : x + 5 + sz[x] # FREE_LIST_HEAD
    BY <1>6
  <2> QED
    BY <1>4, <1>6, <2>1
<1>9. step[MEM_SIZE] = MEM_SIZE
  BY <1>1, <1>6
<1>10. \A x \in B \cup {MEM_SIZE} : step[x] \in B \cup {MEM_SIZE}
  BY <1>7, <1>8, <1>9
<1>11. MaxBlocks \in Nat \ {0}
  BY MaxBlocksNat
<1>12. /\ w \in [0 .. MaxBlocks -> B \cup {MEM_SIZE}] /\ w[0] = 0
       /\ \A k \in 0 .. MaxBlocks - 1 : w[k + 1] = step[w[k]]
  <2>1. PICK S, start : S = B \cup {MEM_SIZE} /\ start = 0
    OBVIOUS
  <2>2. start \in S /\ \A x \in S : step[x] \in S
    BY <1>6, <1>10, <2>1
  <2>3. /\ Walk(start, step) \in [0 .. MaxBlocks -> S] /\ Walk(start, step)[0] = start
        /\ \A k \in 0 .. MaxBlocks - 1 : Walk(start, step)[k + 1] = step[Walk(start, step)[k]]
    BY <2>2, WalkSteps
  <2>4. w = Walk(start, step)
    BY <1>2, <2>1
  <2> QED
    BY <2>1, <2>3, <2>4
<1>13. \A k \in 0 .. MaxBlocks : w[k] = MEM_SIZE \/ 6 * k <= w[k]
  <2>1. PICK G : G = {k \in 0 .. MaxBlocks : w[k] = MEM_SIZE \/ 6 * k <= w[k]}
    OBVIOUS
  <2>2. 0 \in G
    BY <1>11, <1>12, <2>1
  <2>3. ASSUME NEW k \in 0 .. MaxBlocks - 1, k \in G PROVE k + 1 \in G
    <3>1. k \in Int /\ k \in 0 .. MaxBlocks /\ k + 1 \in 0 .. MaxBlocks
      BY <1>11
    <3>2. w[k] \in B \cup {MEM_SIZE} /\ w[k + 1] = step[w[k]]
      BY <1>12, <3>1
    <3>3. CASE w[k] = MEM_SIZE
      BY <1>9, <2>1, <3>1, <3>2, <3>3
    <3>4. CASE w[k] # MEM_SIZE
      <4>1. PICK x \in B : x = w[k]
        BY <3>2, <3>4
      <4>2. w[k + 1] = x + 5 + sz[x] /\ 6 * k <= x
        BY <1>7, <2>1, <2>3, <3>2, <3>4, <4>1
      <4>3. 6 * (k + 1) <= w[k + 1]
        BY <1>6, <3>1, <4>2
      <4> QED
        BY <2>1, <3>1, <4>3
    <3> QED
      BY <3>3, <3>4
  <2>4. 0 .. MaxBlocks \subseteq G
    BY <1>11, <2>2, <2>3, UpTo
  <2> QED
    BY <2>1, <2>4
<1>14. PICK V : V = {x \in B : \A k \in 0 .. MaxBlocks : w[k] # x}
  OBVIOUS
<1>15. ASSUME V # {} PROVE FALSE
  <2>1. V \in SUBSET Nat
    BY <1>6, <1>14
  <2>2. PICK y \in V : \A x \in V : y <= x
    BY <1>15, <2>1, LeastElement
  <2>3. y \in B /\ y # 0 /\ y \in Int
    BY <1>6, <1>11, <1>12, <1>14
  <2>4. PICK x \in T : x + 5 + sz[x] = y
    BY <1>4, <1>5, <2>3 DEF Layout
  <2>5. x # FREE_LIST_HEAD
    BY <1>5, <1>6, <2>3, <2>4 DEF Layout
  <2>6. x \in B /\ x < y
    <3>1. x \in B
      BY <1>4, <2>5
    <3> QED
      BY <1>6, <2>4, <3>1
  <2>7. x \notin V
    BY <1>6, <2>2, <2>3, <2>6
  <2>8. PICK k \in 0 .. MaxBlocks : w[k] = x
    BY <1>14, <2>6, <2>7
  <2>9. 6 * k <= x /\ x < MEM_SIZE
    BY <1>6, <1>13, <2>6, <2>8
  <2>10. k \in 0 .. MaxBlocks - 1 /\ k + 1 \in 0 .. MaxBlocks
    BY <1>6, <1>11, <2>6, <2>9, WalkIsLong
  <2>11. w[k + 1] = y
    BY <1>7, <1>12, <2>4, <2>6, <2>8, <2>10
  <2> QED
    BY <1>14, <2>2, <2>10, <2>11
<1>16. \A x \in B : \E k \in 0 .. MaxBlocks : w[k] = x
  BY <1>14, <1>15
<1>17. Range(w) = {w[k] : k \in 0 .. MaxBlocks}
  BY <1>12 DEF Range
<1>18. Range(w) \ {MEM_SIZE} = B
  <2>1. \A k \in 0 .. MaxBlocks : w[k] \in B \cup {MEM_SIZE}
    BY <1>12
  <2>2. MEM_SIZE \notin B
    BY <1>6
  <2> QED
    BY <1>16, <1>17, <2>1, <2>2
<1> QED
  BY <1>3, <1>4, <1>18

LEMMA RingIs ==
    ASSUME NEW m, NEW pol, NEW T, NEW sz, NEW R, NEW D, Shape(m, pol, T, sz, R, D)
    PROVE  Ring(m) = R
<1>1. PICK pv, tg, nx, rank : Chain(m, pol, T, sz, pv, tg, nx, D, R, rank)
  BY DEF Shape
<1>2. PICK step : step = [f \in Address \cup {MEM_END} |->
                              IF f = FREE_LIST_HEAD THEN f ELSE GET_NEXT_FRONT(m, f)]
  OBVIOUS
<1>3. Ring(m) = Range(Walk(GET_NEXT_FRONT(m, FREE_LIST_HEAD), step)) \ {FREE_LIST_HEAD}
  BY <1>2 DEF Ring, Until
<1>4. /\ Tagged(m, T, sz, pv, tg, nx, D) /\ Layout(T, sz) /\ R \subseteq T \ {FREE_LIST_HEAD}
      /\ Anchored(R) \subseteq T /\ T \subseteq Address /\ FREE_LIST_HEAD \in T
  BY <1>1, ChainFacts
<1>5. \A x \in T : GET_NEXT_FRONT(m, x) = nx[x]
  BY <1>4, Reads
<1>6. \A x \in Anchored(R) : step[x] = IF x = FREE_LIST_HEAD THEN x ELSE nx[x]
  BY <1>2, <1>4, <1>5
<1>7. \E rank2 : Ranked(R, pv, nx, rank2)
  <2>1. CASE pol = "worst_fit"
    <3>1. Ranked(R, nx, pv, rank)
      BY <1>1, <2>1 DEF Chain, Fw, Bk
    <3> QED
      BY <3>1, RingBack
  <2>2. CASE pol # "worst_fit"
    BY <1>1, <2>2 DEF Chain, Fw, Bk
  <2> QED
    BY <2>1, <2>2
<1>8. PICK rank2 : Ranked(R, pv, nx, rank2)
  BY <1>7
<1>9. Range(Walk(nx[FREE_LIST_HEAD], step)) \ {FREE_LIST_HEAD} = R
  BY <1>4, <1>6, <1>8, WholeRing
<1> QED
  BY <1>3, <1>4, <1>5, <1>9

-----------------------------------------------------------------------------
LEMMA TypeHolds ==
    ASSUME MemInv
    PROVE  TypeOK
<1>1. PICK T, sz, R : Tiled(T, sz, R)
  BY DEF MemInv
<1>2. Shape(mm, policy, T, sz, R, Written(held)) /\ Users(held, T, sz, R)
  BY <1>1 DEF Tiled
<1>3. mm \in [Address -> Int] /\ policy \in Policy /\ Layout(T, sz)
  BY <1>2, ShapeFacts DEF Memory
<1>4. ASSUME NEW b \in held
      PROVE  b.n \in Request /\ b.at \in HEAD_SIZE .. MEM_END - FOOT_SIZE - b.n
  <2>1. /\ b.at \in Int /\ Front(b) \in Used(T, R) /\ b.n \in Request /\ b.n <= sz[Front(b)]
        /\ b.n \in Int
    BY <1>2, Requests DEF Users
  <2>2. Front(b) \in T /\ Front(b) # FREE_LIST_HEAD /\ Front(b) = b.at - 3
    BY <2>1, UsedFacts DEF Front
  <2>3. /\ 0 <= Front(b) /\ Front(b) + 5 + sz[Front(b)] <= MEM_SIZE /\ MEM_SIZE \in Nat
        /\ Front(b) \in Int /\ sz[Front(b)] \in Nat
    BY <1>3, <2>2, Neighbours
  <2> QED
    BY <2>1, <2>2, <2>3
<1>5. answer \in {NULL, Void} \cup {b.at : b \in held}
  BY DEF MemInv, Answers
<1> QED
  BY <1>3, <1>4, <1>5 DEF TypeOK

(* The variables keep their types; the users' cells and the tags around    *)
(* them are inside the memory, for every size of it and all requests.      *)
THEOREM MemMgrTypeOK == Spec => []TypeOK
<1>1. MemInv => TypeOK
  BY TypeHolds
<1> QED
  BY <1>1, Invariant, PTL

-----------------------------------------------------------------------------
LEMMA DataHolds ==
    ASSUME MemInv
    PROVE  UserDataIntact
<1>1. PICK T, sz, R : Tiled(T, sz, R)
  BY DEF MemInv
<1>2. Shape(mm, policy, T, sz, R, Written(held)) /\ Users(held, T, sz, R)
  BY <1>1 DEF Tiled
<1>3. \A a \in Written(held) : mm[a] = Data
  BY <1>2, ShapeFacts
<1>4. ASSUME NEW b \in held, NEW i \in 0 .. b.n - 1 PROVE mm[b.at + i] = Data
  <2>1. b.at \in Int /\ b.n \in Int
    BY <1>2, Requests DEF Users
  <2>2. b.at + i \in b.at .. b.at + b.n - 1
    BY <1>4, <2>1
  <2>3. b.at + i \in Written(held)
    BY <2>2 DEF Written
  <2> QED
    BY <1>3, <2>3
<1> QED
  BY <1>4 DEF UserDataIntact

(* What a user wrote stays until the block is returned: no request and no  *)
(* release of the three programs writes a tag, a link or another user's    *)
(* data there.                                                             *)
THEOREM MemMgrKeepsData == Spec => []UserDataIntact
<1>1. MemInv => UserDataIntact
  BY DataHolds
<1> QED
  BY <1>1, Invariant, PTL

-----------------------------------------------------------------------------
LEMMA RingHolds ==
    ASSUME MemInv
    PROVE  RingIsFreeBlocks
<1>1. PICK T, sz, R : Tiled(T, sz, R)
  BY DEF MemInv
<1>2. Shape(mm, policy, T, sz, R, Written(held))
  BY <1>1 DEF Tiled
<1>3. PICK pv, tg, nx, rank : /\ Chain(mm, policy, T, sz, pv, tg, nx, Written(held), R, rank)
                              /\ Sorted(R, policy, sz, rank, {}, {})
                              /\ FreeTags(T, tg, R)
  BY <1>2 DEF Shape
<1>4. PICK blocks, ring : blocks = Blocks(mm) /\ ring = Ring(mm)
  OBVIOUS
<1>5. blocks = T \ {FREE_LIST_HEAD} /\ ring = R
  BY <1>2, <1>4, BlocksAre, RingIs
<1>6. /\ Layout(T, sz) /\ R \subseteq T /\ FREE_LIST_HEAD \notin R /\ policy \in Policy
      /\ Anchored(R) \subseteq T
  BY <1>2, ShapeFacts
<1>7. /\ \A x \in Anchored(R) : /\ pv[x] \in Anchored(R) /\ nx[x] \in Anchored(R)
                                /\ pv[nx[x]] = x /\ nx[pv[x]] = x
      /\ \A x \in R : nx[x] # x
      /\ \A x \in T : x \in Int /\ sz[x] \in Nat
      /\ \A x \in Anchored(R) : rank[x] \in Int
  BY <1>3, ChainFacts
<1>8. \A x \in T : /\ GET_PREV_FRONT(mm, x) = pv[x] /\ GET_NEXT_FRONT(mm, x) = nx[x]
                   /\ GET_SIZE_FRONT(mm, x) = sz[x] /\ GET_BACK_FRONT(mm, x) = x + 5 + sz[x]
  BY <1>3, ChainFacts, Reads
<1>9. ASSUME NEW f \in blocks PROVE GET_BACK_FRONT(mm, f) \in blocks \cup {MEM_END}
  <2>1. /\ f \in T /\ f \in Int /\ sz[f] \in Nat /\ 0 <= f
        /\ (f + 5 + sz[f] \in T \/ f + 5 + sz[f] = MEM_SIZE)
    BY <1>5, <1>6, Neighbours
  <2>2. f + 5 + sz[f] # FREE_LIST_HEAD
    BY <2>1, Cells
  <2> QED
    BY <1>5, <1>8, <2>1, <2>2
<1>10. ring = {f \in blocks : Free(f)}
  <2>1. \A f \in T : f # FREE_LIST_HEAD => (GET_TAG_FRONT(mm, f) = TAG_FREE <=> f \in R)
    BY <1>2, ShapeReads
  <2> QED
    BY <1>5, <1>6, <2>1 DEF Free
<1>11. ASSUME NEW f \in ring \cup {FREE_LIST_HEAD}
       PROVE  GET_PREV_FRONT(mm, GET_NEXT_FRONT(mm, f)) = f
  <2>1. f \in Anchored(R)
    BY <1>5 DEF Anchored
  <2>2. f \in T /\ nx[f] \in T /\ pv[nx[f]] = f
    BY <1>6, <1>7, <2>1
  <2> QED
    BY <1>8, <2>2
<1>12. ASSUME NEW f \in ring, NEW next, next = GET_NEXT_FRONT(mm, f), next # FREE_LIST_HEAD
       PROVE  InOrder(f, next)
  <2>1. f \in R /\ f \in Anchored(R) /\ f \in T
    BY <1>5, <1>6 DEF Anchored
  <2>2. next = nx[f]
    BY <1>8, <1>12, <2>1
  <2>3. next \in Anchored(R) /\ next # f
    BY <1>7, <2>1, <2>2
  <2>4. next \in R /\ next \in T
    BY <1>6, <1>12, <2>3 DEF Anchored
  <2>5. Size(f) = sz[f] /\ Size(next) = sz[next]
    BY <1>8, <2>1, <2>4 DEF Size
  <2>6. /\ f \in Int /\ next \in Int /\ sz[f] \in Nat /\ sz[next] \in Nat
    BY <1>7, <2>1, <2>4
  <2>7. CASE policy = "worst_fit"
    <3>1. Ranked(R, nx, pv, rank)
      BY <1>3, <2>7 DEF Chain, Fw, Bk
    <3>2. pv[next] = f
      BY <1>7, <2>1, <2>2
    <3>3. rank[next] < rank[f]
      BY <2>1, <2>3, <3>1, <3>2 DEF Ranked
    <3>4. sz[next] <= sz[f]
      BY <1>3, <2>1, <2>4, <2>7, <3>3 DEF Sorted, Key
    <3>5. Size(f) >= Size(next)
      BY <2>5, <2>6, <3>4
    <3> QED
      BY <2>7, <3>5 DEF InOrder
  <2>8. CASE policy # "worst_fit"
    <3>1. Ranked(R, pv, nx, rank)
      BY <1>3, <2>8 DEF Chain, Fw, Bk
    <3>2. rank[f] < rank[next]
      BY <2>1, <2>2, <2>4, <3>1 DEF Ranked
    <3>3. CASE policy = "first_fit"
      <4>1. f <= next
        BY <1>3, <2>1, <2>4, <3>2, <3>3 DEF Sorted, Key
      <4>2. f < next
        BY <2>3, <2>6, <4>1
      <4> QED
        BY <3>3, <4>2 DEF InOrder
    <3>4. CASE policy = "best_fit"
      <4>1. sz[f] <= sz[next]
        BY <1>3, <2>1, <2>4, <3>2, <3>4 DEF Sorted, Key
      <4>2. Size(f) <= Size(next)
        BY <2>5, <4>1
      <4> QED
        BY <3>4, <4>2 DEF InOrder
    <3> QED
      BY <1>6, <2>8, <3>3, <3>4, Policies
  <2> QED
    BY <2>7, <2>8
<1> QED
  BY <1>4, <1>9, <1>10, <1>11, <1>12 DEF RingIsFreeBlocks

(* The blocks tile the memory, and the ring links exactly the free ones,   *)
(* both ways and in the policy's order.                                    *)
THEOREM MemMgrRing == Spec => []RingIsFreeBlocks
<1>1. MemInv => RingIsFreeBlocks
  BY RingHolds
<1> QED
  BY <1>1, Invariant, PTL

-----------------------------------------------------------------------------
(* Refinement.  The blocks an allocator without tags has.                  *)
BlocksOf(S, sz) == {[at |-> f, size |-> sz[f]] : f \in S}

UsedIn(m) ==
    {[at |-> f, size |-> GET_SIZE_FRONT(m, f)] :
         f \in {g \in Blocks(m) : GET_TAG_FRONT(m, g) # TAG_FREE}}

LEMMA UsedInIs ==
    ASSUME NEW m, NEW pol, NEW T, NEW sz, NEW R, NEW D, Shape(m, pol, T, sz, R, D)
    PROVE  UsedIn(m) = BlocksOf(Used(T, R), sz)
<1>1. Blocks(m) = T \ {FREE_LIST_HEAD}
  BY BlocksAre
<1>2. ASSUME NEW f \in T, f # FREE_LIST_HEAD
      PROVE  GET_SIZE_FRONT(m, f) = sz[f] /\ (GET_TAG_FRONT(m, f) = TAG_FREE <=> f \in R)
  BY <1>2, ShapeReads
<1>3. {g \in Blocks(m) : GET_TAG_FRONT(m, g) # TAG_FREE} = Used(T, R)
  BY <1>1, <1>2 DEF Used, Anchored
<1>4. \A f \in Used(T, R) : GET_SIZE_FRONT(m, f) = sz[f]
  BY <1>2, UsedFacts
<1> QED
  BY <1>3, <1>4 DEF UsedIn, BlocksOf

(* The stretches between used blocks.                                      *)
Starts(S, sz) == {0} \cup {x + sz[x] + 5 : x \in S}
Ends(S)       == {MEM_SIZE} \cup S
Open(S, sz, from, to) == \A x \in S : x + sz[x] + 5 <= from \/ to <= x

LEMMA GapsAre ==
    ASSUME NEW T, NEW sz, Layout(T, sz), NEW R, R \subseteq T, FREE_LIST_HEAD \notin R,
           Joined(sz, R), NEW U, U = Used(T, R)
    PROVE  /\ \A f \in R : /\ f \in Starts(U, sz) /\ f + 5 + sz[f] \in Ends(U)
                           /\ f < f + 5 + sz[f] /\ Open(U, sz, f, f + 5 + sz[f])
           /\ \A s \in Starts(U, sz), e \in Ends(U) :
                  s < e /\ Open(U, sz, s, e) => s \in R /\ e = s + 5 + sz[s]
<1>1. /\ \A x \in T : x \in Int /\ sz[x] \in Nat /\ x + 5 + sz[x] <= MEM_SIZE
      /\ \A x, y \in T : x < y => x + 5 + sz[x] <= y
      /\ \A x \in T : x # FREE_LIST_HEAD => 0 <= x
      /\ \A x \in T : x + 5 + sz[x] \in T \/ x + 5 + sz[x] = MEM_SIZE
      /\ MEM_SIZE \in Nat /\ MEM_SIZE \notin T /\ FREE_LIST_HEAD = -5
  BY Neighbours, Cells
<1>2. \A x : x \in U <=> x \in T /\ x # FREE_LIST_HEAD /\ x \notin R
  BY DEF Used, Anchored
<1>3. ASSUME NEW f \in R
      PROVE  /\ f \in Starts(U, sz) /\ f + 5 + sz[f] \in Ends(U)
             /\ f < f + 5 + sz[f] /\ Open(U, sz, f, f + 5 + sz[f])
  <2>1. f \in T /\ f # FREE_LIST_HEAD /\ f \in Int /\ sz[f] \in Nat /\ 0 <= f
    BY <1>1
  <2>2. f \in Starts(U, sz)
    <3>1. PICK x \in T : x + 5 + sz[x] = f
      BY <2>1 DEF Layout
    <3>2. CASE x = FREE_LIST_HEAD
      <4>1. f = 0
        BY <1>1, <3>1, <3>2 DEF Layout
      <4> QED
        BY <4>1 DEF Starts
    <3>3. CASE x # FREE_LIST_HEAD
      <4>1. x \notin R
        BY <3>1 DEF Joined
      <4>2. x \in U
        BY <1>2, <3>3, <4>1
      <4>3. f = x + sz[x] + 5
        BY <1>1, <3>1
      <4> QED
        BY <4>2, <4>3 DEF Starts
    <3> QED
      BY <3>2, <3>3
  <2>3. f + 5 + sz[f] \in Ends(U)
    <3>1. f + 5 + sz[f] \notin R
      BY DEF Joined
    <3>2. f + 5 + sz[f] # FREE_LIST_HEAD
      BY <1>1, <2>1
    <3>3. f + 5 + sz[f] \in T \/ f + 5 + sz[f] = MEM_SIZE
      BY <1>1, <2>1
    <3> QED
      BY <1>2, <3>1, <3>2, <3>3 DEF Ends
  <2>4. ASSUME NEW x \in U PROVE x + sz[x] + 5 <= f \/ f + 5 + sz[f] <= x
    <3>1. x \in T /\ x # f
      BY <1>2, <2>4
    <3>2. x + 5 + sz[x] <= f \/ f + 5 + sz[f] <= x
      BY <2>1, <3>1, Apart
    <3> QED
      BY <1>1, <2>1, <3>1, <3>2
  <2>5. f < f + 5 + sz[f]
    BY <2>1
  <2> QED
    BY <2>2, <2>3, <2>4, <2>5 DEF Open
<1>4. ASSUME NEW s \in Starts(U, sz), NEW e \in Ends(U), s < e, Open(U, sz, s, e)
      PROVE  s \in R /\ e = s + 5 + sz[s]
  <2>1. e \in Int /\ e <= MEM_SIZE /\ (e \in T \/ e = MEM_SIZE)
    <3>1. CASE e = MEM_SIZE
      BY <1>1, <3>1
    <3>2. CASE e \in U
      <4>1. e \in T /\ e + 5 + sz[e] <= MEM_SIZE /\ e \in Int /\ sz[e] \in Nat
        BY <1>1, <1>2, <3>2
      <4> QED
        BY <1>1, <4>1
    <3> QED
      BY <3>1, <3>2 DEF Ends
  <2>2. s \in T /\ 0 <= s
    <3>1. CASE s = 0
      BY <3>1 DEF Layout
    <3>2. CASE s # 0
      <4>1. PICK x \in U : s = x + sz[x] + 5
        BY <3>2 DEF Starts
      <4>2. x \in T /\ x \in Int /\ sz[x] \in Nat /\ 0 <= x
        BY <1>1, <1>2, <4>1
      <4>3. s = x + 5 + sz[x] /\ s \in Int /\ 0 <= s
        BY <4>1, <4>2
      <4>4. s # MEM_SIZE
        BY <1>1, <1>4, <2>1, <4>3
      <4> QED
        BY <1>1, <4>2, <4>3, <4>4
    <3> QED
      BY <3>1, <3>2
  <2>3. s # FREE_LIST_HEAD /\ s \in Int /\ sz[s] \in Nat
    BY <1>1, <2>2
  <2>4. s \notin U
    <3>1. ASSUME s \in U PROVE FALSE
      <4>1. s + sz[s] + 5 <= s \/ e <= s
        BY <1>4, <3>1 DEF Open
      <4> QED
        BY <1>4, <2>1, <2>3, <4>1
    <3> QED
      BY <3>1
  <2>5. s \in R
    BY <1>2, <2>2, <2>3, <2>4
  <2>6. PICK t \in Int : t = s + 5 + sz[s]
    BY <2>3
  <2>7. t <= e
    <3>1. CASE e = MEM_SIZE
      BY <1>1, <2>2, <2>6, <3>1
    <3>2. CASE e \in T
      BY <1>1, <1>4, <2>2, <2>6, <3>2
    <3> QED
      BY <2>1, <3>1, <3>2
  <2>8. ASSUME t # e PROVE FALSE
    <3>1. t < e /\ t # MEM_SIZE /\ t # FREE_LIST_HEAD
      BY <1>1, <2>1, <2>2, <2>3, <2>6, <2>7, <2>8
    <3>2. t \in T
      BY <1>1, <2>2, <2>6, <3>1
    <3>3. t \notin R
      BY <2>5, <2>6 DEF Joined
    <3>4. t \in U
      BY <1>2, <3>1, <3>2, <3>3
    <3>5. t + sz[t] + 5 <= s \/ e <= t
      BY <1>4, <3>4 DEF Open
    <3>6. sz[t] \in Nat
      BY <1>1, <3>2
    <3> QED
      BY <2>1, <2>3, <2>6, <3>1, <3>5, <3>6
  <2> QED
    BY <2>5, <2>6, <2>8
<1> QED
  BY <1>3, <1>4

LEMMA AbstractGaps ==
    ASSUME NEW T, NEW sz, NEW R, Tiled(T, sz, R)
    PROVE  Abstract!Gaps = BlocksOf(R, sz)
<1>1. /\ Shape(mm, policy, T, sz, R, Written(held)) /\ Joined(sz, R)
  BY DEF Tiled
<1>2. Layout(T, sz) /\ R \subseteq T /\ FREE_LIST_HEAD \notin R
  BY <1>1, ShapeFacts
<1>3. PICK U : U = Used(T, R)
  OBVIOUS
<1>4. UsedIn(mm) = BlocksOf(U, sz)
  BY <1>1, <1>3, UsedInIs
<1>5. PICK S, E : S = Starts(U, sz) /\ E = Ends(U)
  OBVIOUS
<1>6. Abstract!Gaps = {[at |-> g[1], size |-> g[2] - g[1] - 5] :
                          g \in {h \in S \X E : h[1] < h[2] /\ Open(U, sz, h[1], h[2])}}
  <2>a. ASSUME NEW x \in U PROVE \E b \in UsedIn(mm) : b.at = x /\ b.size = sz[x]
    <3>1. PICK b : b = [at |-> x, size |-> sz[x]]
      OBVIOUS
    <3>2. b \in UsedIn(mm)
      BY <1>4, <3>1 DEF BlocksOf
    <3> QED
      BY <3>1, <3>2
  <2>b. ASSUME NEW b \in UsedIn(mm) PROVE b.at \in U /\ b.size = sz[b.at]
    BY <1>4 DEF BlocksOf
  <2>1. S = {0} \cup {b.at + b.size + 5 : b \in UsedIn(mm)}
    <3>1. \A x \in U : x + sz[x] + 5 \in {b.at + b.size + 5 : b \in UsedIn(mm)}
      BY <2>a
    <3>2. \A b \in UsedIn(mm) : b.at + b.size + 5 \in {x + sz[x] + 5 : x \in U}
      BY <2>b
    <3> QED
      BY <1>5, <3>1, <3>2 DEF Starts
  <2>2. E = {MEM_SIZE} \cup {b.at : b \in UsedIn(mm)}
    <3>1. \A x \in U : x \in {b.at : b \in UsedIn(mm)}
      BY <2>a
    <3> QED
      BY <1>5, <2>b, <3>1 DEF Ends
  <2>3. ASSUME NEW s, NEW e
        PROVE  Open(U, sz, s, e) <=> \A b \in UsedIn(mm) : b.at + b.size + 5 <= s \/ e <= b.at
    <3>1. ASSUME Open(U, sz, s, e), NEW b \in UsedIn(mm) PROVE b.at + b.size + 5 <= s \/ e <= b.at
      BY <2>b, <3>1 DEF Open
    <3>2. ASSUME \A b \in UsedIn(mm) : b.at + b.size + 5 <= s \/ e <= b.at
          PROVE  Open(U, sz, s, e)
      BY <2>a, <3>2 DEF Open
    <3> QED
      BY <3>1, <3>2
  <2>4. Abstract!Gaps =
          LET Away(from, to) == \A b \in UsedIn(mm) : b.at + b.size + 5 <= from \/ to <= b.at
          IN  {[at |-> g[1], size |-> g[2] - g[1] - 5] :
                 g \in {h \in ({0} \cup {b.at + b.size + 5 : b \in UsedIn(mm)})
                                 \X ({MEM_SIZE} \cup {b.at : b \in UsedIn(mm)}) :
                           h[1] < h[2] /\ Away(h[1], h[2])}}
    BY DEF Abstract!Gaps, Abstract!End, UsedIn, Size, Free
  <2> QED
    BY <2>1, <2>2, <2>3, <2>4
<1>7. PICK P : P = {h \in S \X E : h[1] < h[2] /\ Open(U, sz, h[1], h[2])}
  OBVIOUS
<1>8. /\ \A f \in R : /\ f \in S /\ f + 5 + sz[f] \in E
                      /\ f < f + 5 + sz[f] /\ Open(U, sz, f, f + 5 + sz[f])
      /\ \A s \in S, e \in E : s < e /\ Open(U, sz, s, e) => s \in R /\ e = s + 5 + sz[s]
  BY <1>1, <1>2, <1>3, <1>5, GapsAre
<1>9. \A f \in R : f \in Int /\ sz[f] \in Nat
  BY <1>2, Neighbours
<1>10. ASSUME NEW g \in P PROVE [at |-> g[1], size |-> g[2] - g[1] - 5] \in BlocksOf(R, sz)
  <2>1. g[1] \in S /\ g[2] \in E /\ g[1] < g[2] /\ Open(U, sz, g[1], g[2])
    BY <1>7
  <2>2. g[1] \in R /\ g[2] = g[1] + 5 + sz[g[1]]
    BY <1>8, <2>1
  <2>3. g[2] - g[1] - 5 = sz[g[1]]
    BY <1>9, <2>2
  <2> QED
    BY <2>2, <2>3 DEF BlocksOf
<1>11. ASSUME NEW f \in R
       PROVE  \E g \in P : [at |-> f, size |-> sz[f]] = [at |-> g[1], size |-> g[2] - g[1] - 5]
  <2>1. PICK g : g = <<f, f + 5 + sz[f]>>
    OBVIOUS
  <2>2. g \in S \X E /\ g[1] = f /\ g[2] = f + 5 + sz[f]
    BY <1>8, <2>1
  <2>3. g \in P
    BY <1>7, <1>8, <2>2
  <2>4. g[2] - g[1] - 5 = sz[f]
    BY <1>9, <2>2
  <2> QED
    BY <2>2, <2>3, <2>4
<1>12. Abstract!Gaps \subseteq BlocksOf(R, sz)
  BY <1>6, <1>7, <1>10
<1>13. BlocksOf(R, sz) \subseteq Abstract!Gaps
  <2>1. Abstract!Gaps = {[at |-> g[1], size |-> g[2] - g[1] - 5] : g \in P}
    BY <1>6, <1>7
  <2>2. ASSUME NEW b \in BlocksOf(R, sz) PROVE b \in Abstract!Gaps
    <3>1. PICK f \in R : b = [at |-> f, size |-> sz[f]]
      BY DEF BlocksOf
    <3>2. PICK g \in P : b = [at |-> g[1], size |-> g[2] - g[1] - 5]
      BY <1>11, <3>1
    <3> QED
      BY <2>1, <3>2
  <2> QED
    BY <2>2
<1> QED
  BY <1>12, <1>13

-----------------------------------------------------------------------------
AnswerNow == IF answer < 0 THEN answer ELSE answer - HEAD_SIZE

LEMMA AllocInit ==
    ASSUME Init
    PROVE  Abstract!AllocatorInit
<1>1. MemInv
  BY InitTiled
<1>2. PICK T, sz, R : Tiled(T, sz, R)
  BY <1>1 DEF MemInv
<1>3. held = {} /\ policy \in Policy /\ answer = -2
  BY DEF Init, Void
<1>4. Used(T, R) = {}
  BY <1>2, <1>3 DEF Tiled, Users
<1>5. UsedIn(mm) = {}
  BY <1>2, <1>4, UsedInIs DEF Tiled, BlocksOf
<1>6. AnswerNow = -2
  BY <1>3 DEF AnswerNow
<1> QED
  BY <1>3, <1>5, <1>6 DEF Abstract!AllocatorInit, UsedIn, Size, Free, AnswerNow

(* A request served is the abstract allocator's.                           *)
LEMMA Serves ==
    ASSUME NEW T, NEW sz, NEW R, Tiled(T, sz, R), NEW n \in Request,
           NEW p, Best(policy, sz, R, n, p), Grant(Granted(policy, mm, p, n), p, n)
    PROVE  Abstract!Serve(n)
<1>1. PICK T2, sz2, R2 : Tiled(T2, sz2, R2)' /\ Taken(T, sz, R, p, n, T2, sz2, R2)
  BY GrantTiled
<1>2. /\ Shape(mm, policy, T, sz, R, Written(held))
  BY DEF Tiled
<1>3. Layout(T, sz) /\ R \subseteq T /\ FREE_LIST_HEAD \notin R /\ policy \in Policy
  BY <1>2, ShapeFacts
<1>4. /\ p \in R /\ p \in Int /\ 0 <= p /\ n \in Nat /\ sz[p] \in Nat /\ sz[p] >= n
      /\ \A x \in R : x \in Int /\ sz[x] \in Nat
      /\ \A x \in R : sz[x] >= n => Better(policy, sz, p, x)
  BY <1>3, Requests, Neighbours DEF Best
<1>5. UsedIn(mm) = BlocksOf(Used(T, R), sz) /\ Abstract!Gaps = BlocksOf(R, sz)
  BY <1>2, UsedInIs, AbstractGaps
<1>6. UsedIn(mm') = BlocksOf(Used(T2, R2), sz2)
  <2>1. Shape(mm', policy', T2, sz2, R2, Written(held'))
    BY <1>1 DEF Tiled
  <2> QED
    BY <2>1, UsedInIs
<1>7. answer' = p + 3 /\ policy' = policy
  BY DEF Grant, GET_USER_START_FRONT
<1>8. PICK g : g = [at |-> p, size |-> sz[p]]
  OBVIOUS
<1>9. g.at = p /\ g.size = sz[p] /\ g \in Abstract!Gaps
  BY <1>4, <1>5, <1>8 DEF BlocksOf
<1>10. UsedIn(mm') = UsedIn(mm) \cup {[at |-> g.at, size |-> IF g.size <= n + 5 THEN g.size ELSE n]}
  <2>1. (IF g.size <= n + 5 THEN g.size ELSE n) = Given(sz, p, n)
    BY <1>4, <1>9 DEF Given
  <2>2. /\ Used(T2, R2) = Used(T, R) \cup {p} /\ \A u \in Used(T, R) : sz2[u] = sz[u]
        /\ sz2[p] = Given(sz, p, n)
    BY <1>1 DEF Taken
  <2>3. BlocksOf(Used(T2, R2), sz2)
          = BlocksOf(Used(T, R), sz) \cup {[at |-> p, size |-> Given(sz, p, n)]}
    BY <2>2 DEF BlocksOf
  <2> QED
    BY <1>5, <1>6, <1>9, <2>1, <2>3
<1>11. PICK fitting : fitting = {h \in Abstract!Gaps : h.size >= n}
  OBVIOUS
<1>12. g \in fitting
  BY <1>4, <1>9, <1>11
<1>13. Abstract!Chosen(g, fitting)
  <2>1. ASSUME NEW h \in fitting
        PROVE  CASE policy = "first_fit" -> g.at   <= h.at
                 [] policy = "best_fit"  -> g.size <= h.size
                 [] policy = "worst_fit" -> g.size >= h.size
    <3>1. PICK x \in R : h = [at |-> x, size |-> sz[x]]
      BY <1>5, <1>11 DEF BlocksOf
    <3>2. h.at = x /\ h.size = sz[x] /\ sz[x] >= n
      BY <1>11, <3>1
    <3>3. Better(policy, sz, p, x)
      BY <1>4, <3>2
    <3> QED
      BY <1>3, <1>9, <3>2, <3>3, Policies DEF Better
  <2> QED
    BY <2>1 DEF Abstract!Chosen
<1>14. AnswerNow' = p /\ p \notin {-1, -2}
  BY <1>4, <1>7 DEF AnswerNow
<1>15. /\ AnswerNow' \notin {-1, -2} /\ AnswerNow' = g.at
  BY <1>9, <1>14
<1>16. \E x \in {h \in Abstract!Gaps : h.size >= n} :
          /\ Abstract!Chosen(x, {h \in Abstract!Gaps : h.size >= n})
          /\ AnswerNow' = x.at
          /\ UsedIn(mm') = UsedIn(mm) \cup
                             {[at |-> x.at, size |-> IF x.size <= n + TAGS THEN x.size ELSE n]}
  <2>1. PICK gained : gained = {[at |-> g.at, size |-> IF g.size <= n + TAGS THEN g.size ELSE n]}
    OBVIOUS
  <2>2. UsedIn(mm') = UsedIn(mm) \cup gained
    BY <1>10, <2>1
  <2>3. \E x \in fitting :
           /\ Abstract!Chosen(x, fitting)
           /\ AnswerNow' = x.at
           /\ UsedIn(mm') = UsedIn(mm) \cup
                             {[at |-> x.at, size |-> IF x.size <= n + TAGS THEN x.size ELSE n]}
    <3> HIDE DEF HEAD_SIZE, FOOT_SIZE, TAGS
    <3> QED
      BY <1>12, <1>13, <1>15, <2>1, <2>2
  <2> QED
    BY <1>11, <2>3
<1> HIDE DEF HEAD_SIZE, FOOT_SIZE, TAGS, TAG_FREE
<1> QED
  BY <1>7, <1>15, <1>16 DEF Abstract!Serve, UsedIn, Size, Free, AnswerNow

LEMMA Refuses ==
    ASSUME MemInv, NEW n \in Request, mm_request_fails(n)
    PROVE  Abstract!Refuse(n)
<1>1. PICK T, sz, R : Tiled(T, sz, R)
  BY DEF MemInv
<1>2. Shape(mm, policy, T, sz, R, Written(held))
  BY <1>1 DEF Tiled
<1>3. n \in Nat /\ \A x \in R : sz[x] \in Nat
  BY <1>2, Requests, ShapeFacts, Neighbours
<1>4. \A x \in R : sz[x] < n
  BY <1>2, <1>3, RefuseIs DEF NoneFits
<1>5. Abstract!Gaps = BlocksOf(R, sz)
  BY <1>1, AbstractGaps
<1>6. {g \in Abstract!Gaps : g.size >= n} = {}
  <2>1. ASSUME NEW g \in Abstract!Gaps PROVE ~(g.size >= n)
    <3>1. PICK x \in R : g = [at |-> x, size |-> sz[x]]
      BY <1>5 DEF BlocksOf
    <3>2. g.size = sz[x]
      BY <3>1
    <3> QED
      BY <1>3, <1>4, <3>2
  <2> QED
    BY <2>1
<1>7. mm' = mm /\ policy' = policy /\ answer' = -1
  BY DEF mm_request_fails, NULL
<1>8. UsedIn(mm') = UsedIn(mm)
  BY <1>7
<1>9. AnswerNow' = -1
  BY <1>7 DEF AnswerNow
<1> QED
  BY <1>6, <1>7, <1>8, <1>9 DEF Abstract!Refuse, UsedIn, Size, Free, AnswerNow

LEMMA Releases ==
    ASSUME MemInv, NEW b \in held, Return(b, After(policy, mm, Front(b)))
    PROVE  Abstract!Release
<1>1. PICK T, sz, R : Tiled(T, sz, R)
  BY DEF MemInv
<1>2. PICK T2, sz2, R2 : Tiled(T2, sz2, R2)' /\ Freed(T, sz, R, Front(b), T2, sz2, R2)
  BY <1>1, ReturnTiled
<1>3. PICK p : p = Front(b)
  OBVIOUS
<1>4. p \in Used(T, R)
  BY <1>1, <1>3 DEF Tiled, Users
<1>5. UsedIn(mm) = BlocksOf(Used(T, R), sz) /\ UsedIn(mm') = BlocksOf(Used(T2, R2), sz2)
  <2>1. Shape(mm', policy', T2, sz2, R2, Written(held'))
    BY <1>2 DEF Tiled
  <2>2. Shape(mm, policy, T, sz, R, Written(held))
    BY <1>1 DEF Tiled
  <2> QED
    BY <2>1, <2>2, UsedInIs
<1>6. Used(T2, R2) = Used(T, R) \ {p} /\ \A u \in Used(T2, R2) : sz2[u] = sz[u]
  BY <1>2, <1>3 DEF Freed
<1>7. PICK old : old = [at |-> p, size |-> sz[p]]
  OBVIOUS
<1>8. old \in UsedIn(mm)
  BY <1>4, <1>5, <1>7 DEF BlocksOf
<1>9. UsedIn(mm') = UsedIn(mm) \ {old}
  <2>1. BlocksOf(Used(T2, R2), sz2) = BlocksOf(Used(T, R) \ {p}, sz)
    BY <1>6 DEF BlocksOf
  <2>2. \A u \in Used(T, R) : [at |-> u, size |-> sz[u]] = old => u = p
    <3>1. ASSUME NEW u, [at |-> u, size |-> sz[u]] = old PROVE u = p
      <4>1. [at |-> u, size |-> sz[u]].at = [at |-> p, size |-> sz[p]].at
        BY <1>7, <3>1
      <4> QED
        BY <4>1
    <3> QED
      BY <3>1
  <2>3. BlocksOf(Used(T, R) \ {p}, sz) = BlocksOf(Used(T, R), sz) \ {old}
    BY <1>7, <2>2 DEF BlocksOf
  <2> QED
    BY <1>5, <2>1, <2>3
<1>10. answer' = -2 /\ policy' = policy
  BY DEF Return, Void
<1>11. AnswerNow' = -2
  BY <1>10 DEF AnswerNow
<1> QED
  BY <1>8, <1>9, <1>10, <1>11 DEF Abstract!Release, UsedIn, Size, Free, AnswerNow

(* The programs' steps are the allocator's.                                *)
LEMMA StepAllocates ==
    ASSUME MemInv, [Next]_vars
    PROVE  [(\E n \in Request : Abstract!Serve(n) \/ Abstract!Refuse(n)) \/ Abstract!Release]_(Abstract!allocVars)
<1>1. PICK T, sz, R : Tiled(T, sz, R)
  BY DEF MemInv
<1>2. Shape(mm, policy, T, sz, R, Written(held))
  BY <1>1 DEF Tiled
<1>3. ASSUME NEW n \in Request, mm_request_ff(n) \/ mm_request_bf(n) \/ mm_request_wf(n)
      PROVE  Abstract!Serve(n)
  <2>1. n \in Nat
    BY Requests
  <2>2. PICK p : Best(policy, sz, R, n, p) /\ Grant(Granted(policy, mm, p, n), p, n)
    BY <1>2, <1>3, <2>1, RequestIs
  <2> QED
    BY <1>1, <2>2, Serves
<1>4. ASSUME NEW n \in Request, mm_request_fails(n) PROVE Abstract!Refuse(n)
  BY <1>4, Refuses
<1>5. ASSUME NEW b \in held, mm_release_ff(b) \/ mm_release_bf(b) \/ mm_release_wf(b)
      PROVE  Abstract!Release
  BY <1>5, ReleaseIs, Releases
<1>6. CASE UNCHANGED vars
  <2>1. mm' = mm /\ answer' = answer /\ policy' = policy
    BY <1>6 DEF vars
  <2>2. UsedIn(mm') = UsedIn(mm) /\ AnswerNow' = AnswerNow
    BY <2>1 DEF AnswerNow
  <2>3. UNCHANGED Abstract!allocVars
    BY <2>1, <2>2 DEF Abstract!allocVars, UsedIn, Size, Free, AnswerNow
  <2> QED
    BY <2>3
<1> QED
  BY <1>3, <1>4, <1>5, <1>6 DEF Next

(* Read from the tags, the memory is always one that an allocator without  *)
(* tags could have: a request fails only if no free stretch is long        *)
(* enough, and gets the one the policy names.                              *)
THEOREM MemMgrAllocates == Spec => ImplementsAllocator
<1>1. Init => Abstract!AllocatorInit
  BY AllocInit
<1>2. MemInv /\ [Next]_vars =>
        [(\E n \in Request : Abstract!Serve(n) \/ Abstract!Refuse(n)) \/ Abstract!Release]_(Abstract!allocVars)
  BY StepAllocates
<1> QED
  BY <1>1, <1>2, Invariant, PTL DEF Spec, ImplementsAllocator, Abstract!AllocatorSpec
=============================================================================
