------------------------------ MODULE Peterson ------------------------------
(***************************************************************************)
(* src/OS/实验一/project_1_1/main.c: the transfer loop of two threads      *)
(* guarded by Peterson's algorithm (c1, c2 and will_wait).  The program    *)
(* has no barrier between raising its own flag and reading the other's.    *)
(***************************************************************************)
EXTENDS TransferLoop

flag(t)  == IF t = 1 THEN "c1" ELSE "c2"
other(t) == 3 - t

ASSUME PetersonAssumption ==
    /\ Thread = {1, 2}
    /\ Loc = Accounts \cup {"c1", "c2", "will_wait"}

vars == <<pc, locals, memoryVars>>

Init ==
    /\ pc = [t \in Thread |-> "lower"]
    /\ mem = [x \in Loc |-> 0]
    /\ buf = [t \in Thread |-> <<>>]
    /\ LoopInit

(* c1 = 0, at the top of every turn.                                       *)
lower(t) ==
    /\ Goto(t, "lower", "raise") /\ Store(t, flag(t), 0) /\ UNCHANGED locals

raise_Missing(t) ==
    /\ Goto(t, "raise", "yield") /\ Store(t, flag(t), 0) /\ UNCHANGED locals

(* c1 = 1                                                                  *)
raise(t) ==
    /\ Goto(t, "raise", "yield") /\ Store(t, flag(t), 1) /\ UNCHANGED locals

(* will_wait = 1                                                           *)
yield(t) ==
    /\ Goto(t, "yield", "spin1") /\ Store(t, "will_wait", t)
    /\ UNCHANGED locals

(* while (c2 && will_wait == 1): the second load only if the first is true *)
spin1(t) ==
    /\ Goto(t, "spin1", IF Load(t, flag(other(t))) = 0 THEN "read1" ELSE "spin2")
    /\ UNCHANGED <<memoryVars, locals>>

spin2_WrongTurn(t) ==
    /\ Goto(t, "spin2", IF Load(t, "will_wait") = t THEN "read1" ELSE "spin1")
    /\ UNCHANGED <<memoryVars, locals>>

spin2(t) ==
    /\ Goto(t, "spin2", IF Load(t, "will_wait") = t THEN "spin1" ELSE "read1")
    /\ UNCHANGED <<memoryVars, locals>>

leave_KeepsFlag(t) == Goto(t, "leave", "done") /\ UNCHANGED <<memoryVars, locals>>

(* c1 = 0, after the loop.                                                 *)
leave(t) ==
    /\ Goto(t, "leave", "done") /\ Store(t, flag(t), 0) /\ UNCHANGED locals

Step(t) ==
    \/ lower(t) \/ raise(t) \/ yield(t) \/ spin1(t) \/ spin2(t)
    \/ BodyStep(t, "lower", "leave")
    \/ leave(t)
    \/ FlushStore(t)

(* Both threads have returned from run and main has joined them.           *)
Joined == (\A t \in Thread : pc[t] = "done" /\ Drained(t)) /\ UNCHANGED vars

Next == (\E t \in Thread : Step(t)) \/ Joined

Spec == Init /\ [][Next]_vars

(* The scheduler runs each thread that can move, and each store eventually *)
(* leaves its buffer.                                                      *)
FairSpec == Spec /\ \A t \in Thread : WF_vars(Step(t))

-----------------------------------------------------------------------------
Pcs == Body \cup {"lower", "raise", "yield", "spin1", "spin2", "leave", "done"}

(* Every variable has the type its declaration gives it; the flags are     *)
(* Booleans and will_wait is a thread or the initial 0.                    *)
TypeOK ==
    /\ pc \in [Thread -> Pcs]
    /\ mem \in [Loc -> Int]
    /\ \A x \in Accounts : mem[x] \in Int_W
    /\ mem["c1"] \in {0, 1} /\ mem["c2"] \in {0, 1}
    /\ mem["will_wait"] \in {0, 1, 2}
    /\ buf \in [Thread -> Seq([loc : Loc, val : Int])]
    /\ tmp1 \in [Thread -> Int_W] /\ tmp2 \in [Thread -> Int_W]
    /\ r \in [Thread -> Int_W] /\ count \in [Thread -> Int]

(* The two threads are never both between the spin loop and the end of the *)
(* turn, where they use the accounts.                                      *)
MutualExclusion == ~(pc[1] \in Body /\ pc[2] \in Body)

(* No thread stops because it saw accounts that do not add up to zero.     *)
NobodySeesImbalance == \A t \in Thread : EndsByCount(t)

(* Seen through the store under way, every turn of a loop is one atomic    *)
(* transfer between the accounts.                                          *)
Atomic == INSTANCE AtomicTransfer
            WITH account1 <- mem["accnt1"], account2 <- SettledAccnt2
TurnsAreAtomic == Atomic!AtomicSpec

(* Each thread finishes its loop: neither starves in the spin loop while   *)
(* the other keeps coming back.                                            *)
BothFinish == \A t \in Thread : <>(pc[t] = "done")
=============================================================================
