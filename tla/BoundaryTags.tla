---------------------------- MODULE BoundaryTags ----------------------------
(***************************************************************************)
(* The tagged blocks of src/OS/实验二/project_2/mem_mgr_def.h: a block is  *)
(*     prev, tag, size, <size cells of the user>, size, next               *)
(* and lies between its neighbours in memory; prev and next also link the  *)
(* free blocks in a ring through FREE_LIST_HEAD.                           *)
(*                                                                         *)
(* A field takes one cell here (8, 1, 4, 4 and 8 bytes in the code); an    *)
(* address is the number of a cell and a block is named by its front.      *)
(***************************************************************************)
EXTENDS Integers, Functions

CONSTANT MEM_SIZE   \* cells managed: 2048 bytes in the code

HEAD_SIZE == 3
FOOT_SIZE == 2
TAGS      == HEAD_SIZE + FOOT_SIZE

ASSUME MemSizeAssumption == MEM_SIZE \in Nat /\ MEM_SIZE > TAGS

TAG_FREE == 0
TAG_USED == 1

MEM_START == 0
MEM_END   == MEM_SIZE

(* The ring's anchor is a block of size 0 outside the managed memory.      *)
FREE_LIST_HEAD == MEM_START - TAGS

Address == FREE_LIST_HEAD .. MEM_END - 1

-----------------------------------------------------------------------------
GET_PREV_FRONT(m, f) == m[f]
GET_TAG_FRONT(m, f)  == m[f + 1]
GET_SIZE_FRONT(m, f) == m[f + 2]
GET_NEXT_FRONT(m, f) == m[f + HEAD_SIZE + m[f + 2] + 1]
GET_BACK_FRONT(m, f) == f + TAGS + m[f + 2]
GET_FRONT_BACK(m, b) == b - TAGS - m[b - FOOT_SIZE]

(* A definition whose name ends in _ and a fault is the one after it with  *)
(* that fault: the properties have to notice each.                         *)

GET_USER_START_FRONT_AfterFoot(f) == f + HEAD_SIZE + FOOT_SIZE
GET_USER_START_FRONT(f)           == f + HEAD_SIZE

SET_PREV_FRONT(m, f, prev) == [m EXCEPT ![f] = prev]
SET_TAG_FRONT(m, f, tag)   == [m EXCEPT ![f + 1] = tag]
SET_SIZE_FRONT(m, f, size) ==
    [m EXCEPT ![f + 2] = size, ![f + HEAD_SIZE + size] = size]
SET_NEXT_FRONT(m, f, next) ==
    [m EXCEPT ![f + HEAD_SIZE + m[f + 2] + 1] = next]

SET_ALL_FRONT(m, f, size, prev, tag, next) ==
    SET_NEXT_FRONT(
        SET_TAG_FRONT(SET_PREV_FRONT(SET_SIZE_FRONT(m, f, size), f, prev), f, tag),
        f, next)

IS_FIRST_FRONT(f) == f = MEM_START

IS_LAST_FRONT_UpTo(m, f) == GET_BACK_FRONT(m, f) <= MEM_END
IS_LAST_FRONT(m, f)      == GET_BACK_FRONT(m, f) = MEM_END

-----------------------------------------------------------------------------
(* The ring.  p is linked between two neighbours, or they are linked to    *)
(* each other.                                                             *)

Link(m, left, right) == SET_PREV_FRONT(SET_NEXT_FRONT(m, left, right), right, left)

LIST_DEL(m, p) == Link(m, GET_PREV_FRONT(m, p), GET_NEXT_FRONT(m, p))

LIST_ADD_BEFORE(m, p, pos) == Link(Link(m, GET_PREV_FRONT(m, pos), p), p, pos)
LIST_ADD_AFTER(m, p, pos)  == Link(Link(m, p, GET_NEXT_FRONT(m, pos)), pos, p)

MaxBlocks == MEM_SIZE \div (TAGS + 1) + 1

(* The k-th address met from start on.                                     *)
Walk(start, step) ==
    LET walk[k \in 0 .. MaxBlocks] == IF k = 0 THEN start ELSE step[walk[k - 1]]
    IN  walk

(* A walk that stays where Stop holds.                                     *)
Until(Step(_), Stop(_)) ==
    [f \in Address \cup {MEM_END} |-> IF Stop(f) THEN f ELSE Step(f)]

(* LIST_FOR_EACH and its variants, left by break where Found holds: the    *)
(* block found, or FREE_LIST_HEAD.                                         *)
Search(start, Step(_), Found(_)) ==
    LET Stop(f) == f = FREE_LIST_HEAD \/ Found(f)
    IN  Walk(start, Until(Step, Stop))[MaxBlocks]

(* The blocks, one after the other in memory, and those of the ring.       *)
Blocks(m) ==
    LET Step(f) == GET_BACK_FRONT(m, f)
        Stop(f) == f \notin Address
    IN  Range(Walk(MEM_START, Until(Step, Stop))) \ {MEM_END}

Ring(m) ==
    LET Step(f) == GET_NEXT_FRONT(m, f)
        Stop(f) == f = FREE_LIST_HEAD
    IN  Range(Walk(Step(FREE_LIST_HEAD), Until(Step, Stop))) \ {FREE_LIST_HEAD}
=============================================================================
