---------------------------- MODULE TransferLoop ----------------------------
(***************************************************************************)
(* The loop body the three programs of src/OS/实验一 share: a thread reads *)
(* both accounts, moves a random amount from the second to the first and   *)
(* tests that the accounts still add up to zero.  The programs differ in   *)
(* what surrounds the body; every load and store is a step of its own.     *)
(* int arithmetic wraps modulo W (2^32).                                   *)
(***************************************************************************)
EXTENDS Memory

CONSTANTS W,       \* number of int values
          Count    \* initial count: 10000000 in the code

ASSUME LoopAssumption == W \in Nat \ {0} /\ Count \in Nat

Accounts == {"accnt1", "accnt2"}
ASSUME AccountsAssumption == Accounts \subseteq Loc

VARIABLES pc,               \* thread -> its next step
          tmp1, tmp2, r,    \* thread -> its locals
          count

locals == <<tmp1, tmp2, r, count>>

(* A definition whose name ends in _ and a fault is the one after it with  *)
(* that fault: the properties have to notice each.                         *)

Int_W == 0 .. W - 1
Wrap_None(x) == x
Wrap(x)      == x % W

(* The steps that use the accounts.                                        *)
Body == {"read1", "read2", "write1", "write2", "test1", "test2"}

LoopInit ==
    /\ tmp1  = [t \in Thread |-> 0]
    /\ tmp2  = [t \in Thread |-> 0]
    /\ r     = [t \in Thread |-> 0]
    /\ count = [t \in Thread |-> Count]

Goto(t, from, to) == pc[t] = from /\ pc' = [pc EXCEPT ![t] = to]

read1(t) ==
    /\ Goto(t, "read1", "read2")
    /\ tmp1' = [tmp1 EXCEPT ![t] = Load(t, "accnt1")]
    /\ UNCHANGED <<memoryVars, tmp2, r, count>>

read2(t) ==
    /\ Goto(t, "read2", "write1")
    /\ tmp2' = [tmp2 EXCEPT ![t] = Load(t, "accnt2")]
    /\ UNCHANGED <<memoryVars, tmp1, r, count>>

(* r = rand() and the first store.                                         *)
write1(t) ==
    \E amount \in Int_W :
        /\ Goto(t, "write1", "write2")
        /\ r' = [r EXCEPT ![t] = amount]
        /\ Store(t, "accnt1", Wrap(tmp1[t] + amount))
        /\ UNCHANGED <<tmp1, tmp2, count>>

write2_Adds(t) ==
    /\ Goto(t, "write2", "test1")
    /\ Store(t, "accnt2", Wrap(tmp2[t] + r[t]))
    /\ UNCHANGED locals

write2(t) ==
    /\ Goto(t, "write2", "test1")
    /\ Store(t, "accnt2", Wrap(tmp2[t] - r[t]))
    /\ UNCHANGED locals

(* accnt1 + accnt2 == 0 && count--: two loads; the first lands in tmp1,    *)
(* which is dead here.                                                     *)
test1(t) ==
    /\ Goto(t, "test1", "test2")
    /\ tmp1' = [tmp1 EXCEPT ![t] = Load(t, "accnt1")]
    /\ UNCHANGED <<memoryVars, tmp2, r, count>>

test2(t, again, out) ==
    LET sum == Wrap(tmp1[t] + Load(t, "accnt2"))
    IN  /\ Goto(t, "test2", IF sum = 0 /\ count[t] # 0 THEN again ELSE out)
        /\ count' = [count EXCEPT ![t] = IF sum = 0 THEN @ - 1 ELSE @]
        /\ UNCHANGED <<memoryVars, tmp1, tmp2, r>>

BodyStep(t, again, out) ==
    \/ read1(t) \/ read2(t) \/ write1(t) \/ write2(t)
    \/ test1(t) \/ test2(t, again, out)

FlushStore(t) == Flush(t) /\ UNCHANGED <<pc, locals>>

-----------------------------------------------------------------------------
(* What a program has to achieve.                                          *)

MidTransfer(t) == pc[t] = "write2"

(* What the second account is worth once the store under way is done.      *)
SettledAccnt2 ==
    IF \E t \in Thread : MidTransfer(t)
    THEN LET t == CHOOSE u \in Thread : MidTransfer(u) IN Wrap(tmp2[t] - r[t])
    ELSE mem["accnt2"]

(* No thread ever sees the accounts out of balance: the only way out of a  *)
(* loop is its counter (left at -1 by count--).                            *)
EndsByCount(t) == pc[t] = "done" => count[t] = -1
=============================================================================
