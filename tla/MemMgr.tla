------------------------------- MODULE MemMgr -------------------------------
(***************************************************************************)
(* The first-fit, best-fit and worst-fit memory managers of                *)
(* src/OS/实验二/project_2 (mem_mgr_ff.c, mem_mgr_bf.c, mem_mgr_wf.c).     *)
(* Three copies of one program, they differ in how the ring of free blocks *)
(* is ordered: by address, by growing or by shrinking size.                *)
(*                                                                         *)
(* The user is main.c's test: it asks for blocks until it is refused one,  *)
(* returns any one of those it has, and starts again.  It overwrites all   *)
(* the cells it asked for.                                                 *)
(***************************************************************************)
EXTENDS BoundaryTags, FiniteSets

CONSTANT Request   \* sizes the user asks for

ASSUME RequestAssumption == Request \subseteq 1 .. MEM_SIZE - TAGS - 1

VARIABLES mm,       \* the managed memory and the ring's anchor
          policy,   \* struct mem_mgr's name: which copy runs
          held,     \* the user's blocks, [at, n]
          answer    \* what the last call returned

vars == <<mm, policy, held, answer>>

Policy == {"first_fit", "best_fit", "worst_fit"}
NULL   == -1
Void   == -2         \* of a release, or before the first call
Data   == MEM_SIZE   \* what the user writes: no tag, size or address

(* A definition whose name ends in _ and a fault is the one after it with  *)
(* that fault: the properties have to notice each.                         *)

-----------------------------------------------------------------------------
(* mm_init_ff, mm_init_bf and mm_init_wf: one free block.                  *)
mm_init(m) ==
    SET_ALL_FRONT(
        SET_ALL_FRONT(m, MEM_START, MEM_SIZE - TAGS,
                      FREE_LIST_HEAD, TAG_FREE, FREE_LIST_HEAD),
        FREE_LIST_HEAD, 0, MEM_START, TAG_FREE, MEM_START)

Init ==
    /\ mm = mm_init([a \in Address |-> 0])
    /\ policy \in Policy
    /\ held = {}
    /\ answer = Void

(* Linking a free block in: from the ring's start, or from a neighbour     *)
(* that is on its near side.                                               *)
list_add_ff(m, p) ==
    LET Step(f)  == GET_NEXT_FRONT(m, f)
        Found(f) == f > p
    IN  LIST_ADD_BEFORE(m, p, Search(Step(FREE_LIST_HEAD), Step, Found))

list_add_bf(m, p, before) ==
    LET Step(f)  == GET_NEXT_FRONT(m, f)
        Found(f) == GET_SIZE_FRONT(m, f) >= GET_SIZE_FRONT(m, p)
    IN  LIST_ADD_BEFORE(m, p, Search(Step(before), Step, Found))

list_add_wf(m, p, after) ==
    LET Step(f)  == GET_PREV_FRONT(m, f)
        Found(f) == GET_SIZE_FRONT(m, f) >= GET_SIZE_FRONT(m, p)
    IN  LIST_ADD_AFTER(m, p, Search(Step(after), Step, Found))

-----------------------------------------------------------------------------
(* Requests.                                                               *)

Asking == answer # NULL \/ held = {}

(* Too little would remain for a block of at least one cell.               *)
TakeWhole_KeepsNone(m, p, n) == GET_SIZE_FRONT(m, p) < n + TAGS
TakeWhole(m, p, n)           == GET_SIZE_FRONT(m, p) < n + TAGS + 1

(* The remainder of p once its user has n cells.                           *)
Rest(p, n) == p + TAGS + n

(* p becomes the user's block of n cells; the rest takes its place in the  *)
(* ring.                                                                   *)
Split(m, p, n) ==
    LET prev  == GET_PREV_FRONT(m, p)
        next  == GET_NEXT_FRONT(m, p)
        used  == SET_TAG_FRONT(SET_SIZE_FRONT(m, p, n), p, TAG_USED)
        new_p == Rest(p, n)
        rest  == SET_TAG_FRONT(
                     SET_SIZE_FRONT(used, new_p, GET_SIZE_FRONT(m, p) - n - TAGS),
                     new_p, TAG_FREE)
    IN  Link(Link(rest, prev, new_p), new_p, next)

Whole(m, p) == LIST_DEL(SET_TAG_FRONT(m, p, TAG_USED), p)

(* Block p is the user's, who writes all of the n cells asked for.         *)
Grant(m, p, n) ==
    LET start == GET_USER_START_FRONT(p)
    IN  /\ mm' = [a \in Address |-> IF a \in start .. start + n - 1 THEN Data ELSE m[a]]
        /\ held' = held \cup {[at |-> start, n |-> n]}
        /\ answer' = start
        /\ UNCHANGED policy

FirstThatFits(n) ==
    LET Step(f)  == GET_NEXT_FRONT(mm, f)
        Found(f) == GET_SIZE_FRONT(mm, f) >= n
    IN  Search(Step(FREE_LIST_HEAD), Step, Found)

mm_request_ff(n) ==
    LET p == FirstThatFits(n)
    IN  /\ Asking /\ policy = "first_fit" /\ p # FREE_LIST_HEAD
        /\ Grant(IF TakeWhole(mm, p, n) THEN Whole(mm, p) ELSE Split(mm, p, n), p, n)

mm_request_bf(n) ==
    LET p    == FirstThatFits(n)
        rest == LIST_DEL(Split(mm, p, n), Rest(p, n))
    IN  /\ Asking /\ policy = "best_fit" /\ p # FREE_LIST_HEAD
        /\ Grant(IF TakeWhole(mm, p, n) THEN Whole(mm, p)
                 ELSE list_add_bf(rest, Rest(p, n), FREE_LIST_HEAD), p, n)

(* Worst fit looks at the ring's first block only.                         *)
Worst == GET_NEXT_FRONT(mm, FREE_LIST_HEAD)

mm_request_wf(n) ==
    LET p    == Worst
        rest == LIST_DEL(Split(mm, p, n), Rest(p, n))
    IN  /\ Asking /\ policy = "worst_fit" /\ p # FREE_LIST_HEAD
        /\ GET_SIZE_FRONT(mm, p) >= n
        /\ Grant(IF TakeWhole(mm, p, n) THEN Whole(mm, p)
                 ELSE list_add_wf(rest, Rest(p, n), FREE_LIST_HEAD), p, n)

(* The three of them returning NULL.                                       *)
mm_request_fails(n) ==
    /\ Asking
    /\ IF policy = "worst_fit"
       THEN Worst = FREE_LIST_HEAD \/ GET_SIZE_FRONT(mm, Worst) < n
       ELSE FirstThatFits(n) = FREE_LIST_HEAD
    /\ answer' = NULL
    /\ UNCHANGED <<mm, policy, held>>

-----------------------------------------------------------------------------
(* Releases.  The released block p may have free neighbours in memory.     *)

LeftFree(m, p) ==
    /\ ~IS_FIRST_FRONT(p)
    /\ GET_TAG_FRONT(m, GET_FRONT_BACK(m, p)) = TAG_FREE

RightFree(m, p) ==
    /\ ~IS_LAST_FRONT(m, p)
    /\ GET_TAG_FRONT(m, GET_BACK_FRONT(m, p)) = TAG_FREE

(* f takes in what lies up to the end of the block g behind it, and its    *)
(* next is carried over to its new end.                                    *)
Absorb(m, f, g) ==
    SET_NEXT_FRONT(
        SET_SIZE_FRONT(m, f, GET_BACK_FRONT(m, g) - f - TAGS),
        f, GET_NEXT_FRONT(m, f))

(* p takes over the place in the ring of the block on its right.  The code *)
(* does not write p's next: its foot is the right block's own.  What it    *)
(* does for a ring of one block, whose prev is also next, adds nothing.    *)
AbsorbRight(m, p) ==
    LET p_right == GET_BACK_FRONT(m, p)
        prev    == GET_PREV_FRONT(m, p_right)
        next    == GET_NEXT_FRONT(m, p_right)
        joined  == SET_TAG_FRONT(
                       SET_PREV_FRONT(
                           SET_SIZE_FRONT(m, p, GET_BACK_FRONT(m, p_right) - p - TAGS),
                           p, prev),
                       p, TAG_FREE)
    IN  SET_PREV_FRONT(SET_NEXT_FRONT(joined, prev, p), next, p)

AbsorbBoth(m, p) ==
    LET p_right == GET_BACK_FRONT(m, p)
    IN  Absorb(LIST_DEL(m, p_right), GET_FRONT_BACK(m, p), p_right)

(* The memory after the release of p by a manager that puts a grown block  *)
(* back with Resort and links a new free one in with Add.                  *)
Released(m, p, Resort(_, _), Add(_, _)) ==
    LET p_left == GET_FRONT_BACK(m, p)
    IN  CASE IS_FIRST_FRONT(p) /\ IS_LAST_FRONT(m, p) -> mm_init(m)
          [] LeftFree(m, p) /\ RightFree(m, p)        -> Resort(AbsorbBoth(m, p), p_left)
          [] LeftFree(m, p) /\ ~RightFree(m, p)       -> Resort(Absorb(m, p_left, p), p_left)
          [] ~LeftFree(m, p) /\ RightFree(m, p)       -> Resort(AbsorbRight(m, p), p)
          [] OTHER                                    -> Add(SET_TAG_FRONT(m, p, TAG_FREE), p)

Return(b, m) ==
    /\ answer = NULL
    /\ mm' = m
    /\ held' = held \ {b}
    /\ answer' = Void
    /\ UNCHANGED policy

Front(b) == b.at - HEAD_SIZE

mm_release_ff(b) ==
    LET Stay(m, f) == m
    IN  /\ policy = "first_fit"
        /\ Return(b, Released(mm, Front(b), Stay, list_add_ff))

mm_release_bf(b) ==
    LET Resort(m, f) == list_add_bf(LIST_DEL(m, f), f, GET_PREV_FRONT(m, f))
        Add(m, f)    == list_add_bf(m, f, FREE_LIST_HEAD)
    IN  /\ policy = "best_fit"
        /\ Return(b, Released(mm, Front(b), Resort, Add))

mm_release_wf_FromPrev(b) ==
    LET Resort(m, f) == list_add_wf(LIST_DEL(m, f), f, GET_PREV_FRONT(m, f))
        Add(m, f)    == list_add_wf(m, f, FREE_LIST_HEAD)
    IN  /\ policy = "worst_fit"
        /\ Return(b, Released(mm, Front(b), Resort, Add))

mm_release_wf(b) ==
    LET Resort(m, f) == list_add_wf(LIST_DEL(m, f), f, GET_NEXT_FRONT(m, f))
        Add(m, f)    == list_add_wf(m, f, FREE_LIST_HEAD)
    IN  /\ policy = "worst_fit"
        /\ Return(b, Released(mm, Front(b), Resort, Add))

-----------------------------------------------------------------------------
Next ==
    \/ \E n \in Request : \/ mm_request_ff(n) \/ mm_request_bf(n)
                          \/ mm_request_wf(n) \/ mm_request_fails(n)
    \/ \E b \in held : mm_release_ff(b) \/ mm_release_bf(b) \/ mm_release_wf(b)

Spec == Init /\ [][Next]_vars

-----------------------------------------------------------------------------
Free(f) == GET_TAG_FRONT(mm, f) = TAG_FREE
Size(f) == GET_SIZE_FRONT(mm, f)

(* Every variable has its type; the user's cells and the tags before and  *)
(* after them are inside the memory.                                       *)
TypeOK ==
    /\ mm \in [Address -> Int]
    /\ policy \in Policy
    /\ \A b \in held : b.n \in Request /\ b.at \in HEAD_SIZE .. MEM_END - FOOT_SIZE - b.n
    /\ answer \in {NULL, Void} \cup {b.at : b \in held}

(* What a user wrote stays as it was until the block is returned: no tag,  *)
(* no link and no other user's data is ever written into it.               *)
UserDataIntact ==
    \A b \in held : \A i \in 0 .. b.n - 1 : mm[b.at + i] = Data

InOrder(f, g) ==
    CASE policy = "first_fit" -> f < g
      [] policy = "best_fit"  -> Size(f) <= Size(g)
      [] policy = "worst_fit" -> Size(f) >= Size(g)

(* The blocks tile the memory, the ring links exactly the free ones, the   *)
(* same way forwards and backwards and in the policy's order.              *)
RingIsFreeBlocks ==
    LET blocks == Blocks(mm)
        ring   == Ring(mm)
    IN  /\ \A f \in blocks : GET_BACK_FRONT(mm, f) \in blocks \cup {MEM_END}
        /\ ring = {f \in blocks : Free(f)}
        /\ \A f \in ring \cup {FREE_LIST_HEAD} :
               GET_PREV_FRONT(mm, GET_NEXT_FRONT(mm, f)) = f
        /\ \A f \in ring :
               LET next == GET_NEXT_FRONT(mm, f)
               IN  next = FREE_LIST_HEAD \/ InOrder(f, next)

(* Read from the tags alone, the used blocks are those an allocator with   *)
(* the same policy and no tags would have: a request fails only if no      *)
(* stretch of free memory is long enough, and is served from the lowest,   *)
(* the shortest or the longest one.                                        *)
Abstract ==
    INSTANCE Allocator
      WITH MemSize <- MEM_SIZE, Overhead <- TAGS,
           used   <- {[at |-> f, size |-> Size(f)] : f \in {g \in Blocks(mm) : ~Free(g)}},
           answer <- IF answer < 0 THEN answer ELSE answer - HEAD_SIZE
ImplementsAllocator == Abstract!AllocatorSpec
=============================================================================
