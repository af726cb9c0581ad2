------------------------------ MODULE Allocator ------------------------------
(***************************************************************************)
(* What the memory managers of src/OS/实验二 promise: used blocks never    *)
(* overlap, a request fails only if no free stretch is long enough, and it *)
(* is served from the stretch the policy names.  Free neighbours are one   *)
(* stretch: nothing stays fragmented that could be joined.                 *)
(***************************************************************************)
EXTENDS Integers

CONSTANTS MemSize,    \* cells managed
          Overhead,   \* cells of a block the user does not get
          Request,    \* sizes that may be asked for
          Policy

VARIABLES used,      \* the used blocks, [at, size]
          policy,
          answer     \* what the last call returned: a block's address, -1
                     \* for none, -2 from a release

allocVars == <<used, policy, answer>>

End(b)   == b.at + b.size + Overhead

(* The free stretches, each bounded by used blocks or the memory's ends.   *)
Gaps ==
    LET blocks == used
        starts == {0} \cup {End(b) : b \in blocks}
        ends   == {MemSize} \cup {b.at : b \in blocks}
        Clear(from, to) == \A b \in blocks : End(b) <= from \/ to <= b.at
    IN  {[at |-> g[1], size |-> g[2] - g[1] - Overhead] :
            g \in {h \in starts \X ends : h[1] < h[2] /\ Clear(h[1], h[2])}}

(* g is the stretch the policy serves a request from, among those that fit. *)
Chosen(g, fitting) ==
    \A h \in fitting :
        CASE policy = "first_fit" -> g.at   <= h.at
          [] policy = "best_fit"  -> g.size <= h.size
          [] policy = "worst_fit" -> g.size >= h.size

AllocatorInit == used = {} /\ policy \in Policy /\ answer = -2

(* A remainder too small to be a block goes to the user.                   *)
Serve(n) ==
    /\ answer' \notin {-1, -2}
    /\ LET fitting == {g \in Gaps : g.size >= n}
       IN  \E g \in fitting :
               /\ Chosen(g, fitting)
               /\ answer' = g.at
               /\ used' = used \cup {[at |-> g.at,
                                      size |-> IF g.size <= n + Overhead THEN g.size ELSE n]}
    /\ UNCHANGED policy

Refuse(n) ==
    /\ answer' = -1
    /\ {g \in Gaps : g.size >= n} = {}
    /\ UNCHANGED <<used, policy>>

Release ==
    /\ answer' = -2
    /\ \E b \in used : used' = used \ {b}
    /\ UNCHANGED policy

AllocatorSpec ==
    /\ AllocatorInit
    /\ [][(\E n \in Request : Serve(n) \/ Refuse(n)) \/ Release]_allocVars
=============================================================================
