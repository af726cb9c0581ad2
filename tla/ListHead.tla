------------------------------- MODULE ListHead -------------------------------
(***************************************************************************)
(* The kernel's doubly linked ring, list_head.h of simplemonitor.  A ring  *)
(* is the links of every node, by address; HEAD is the one that is no      *)
(* entry.                                                                  *)
(***************************************************************************)
EXTENDS Naturals

HEAD == 0

INIT_LIST_HEAD(ring, ptr) == [ring EXCEPT ![ptr] = [prev |-> ptr, next |-> ptr]]

list_add_tail(ring, new) ==
    LET last == ring[HEAD].prev
    IN  [ring EXCEPT ![HEAD].prev = new,
                     ![new] = [prev |-> last, next |-> HEAD],
                     ![last].next = new]

list_del(ring, entry) ==
    LET prev == ring[entry].prev
        next == ring[entry].next
    IN  INIT_LIST_HEAD([ring EXCEPT ![next].prev = prev, ![prev].next = next], entry)

(* list_for_each_safe: its cursor at the first entry, and the cursor after *)
(* a turn of the loop, whose body may have changed the ring.               *)
for_each_first(ring) ==
    LET pos == ring[HEAD].next IN [pos |-> pos, n |-> ring[pos].next]

for_each_next(ring, cursor) == [pos |-> cursor.n, n |-> ring[cursor.n].next]

===============================================================================
