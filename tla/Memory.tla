------------------------------- MODULE Memory -------------------------------
(***************************************************************************)
(* The shared memory the two threads of src/OS/实验一 run on.  volatile    *)
(* (project_1 and project_1_1, main.c:7) makes the compiler perform every  *)
(* load and store, in program order, but emits no barrier: on the x86      *)
(* machines the programs were built for, a store waits in its processor's  *)
(* buffer, where only that processor's loads see it.                       *)
(* BufferSize = 0 is a sequentially consistent machine.                    *)
(***************************************************************************)
EXTENDS Integers, Sequences

CONSTANTS Thread,      \* the threads
          Loc,         \* the shared locations
          BufferSize   \* stores a processor can hold back

ASSUME BufferAssumption == BufferSize \in Nat

VARIABLES mem,   \* location -> value
          buf    \* thread -> its pending stores, oldest first

memoryVars == <<mem, buf>>

Drained(t) == buf[t] = <<>>

(* The youngest pending store to x of thread t itself, or else memory.     *)
Load(t, x) ==
    LET own == {i \in DOMAIN buf[t] : buf[t][i].loc = x}
    IN  IF own = {} THEN mem[x]
        ELSE buf[t][CHOOSE i \in own : \A j \in own : j <= i].val

Store(t, x, v) ==
    IF BufferSize = 0
    THEN mem' = [mem EXCEPT ![x] = v] /\ UNCHANGED buf
    ELSE /\ Len(buf[t]) < BufferSize
         /\ buf' = [buf EXCEPT ![t] = Append(@, [loc |-> x, val |-> v])]
         /\ UNCHANGED mem

(* The oldest pending store of t reaches memory.                           *)
Flush(t) ==
    /\ ~Drained(t)
    /\ mem' = [mem EXCEPT ![Head(buf[t]).loc] = Head(buf[t]).val]
    /\ buf' = [buf EXCEPT ![t] = Tail(@)]
=============================================================================
