--------------------------- MODULE PetersonProofs ---------------------------
(***************************************************************************)
(* Every variable of project_1_1 keeps its type on any machine.  Without   *)
(* store buffers its flags do guard the accounts, for every int width W    *)
(* and every loop count.                                                   *)
(***************************************************************************)
EXTENDS Peterson, NumberLemmas

-----------------------------------------------------------------------------
(* A transfer keeps the sum of the accounts at zero in an int of W values. *)

LEMMA WrapInRange == \A x \in Int : Wrap(x) \in Int_W
BY LoopAssumption, ModDef DEF Wrap, Int_W

(* Its first store ...                                                     *)
LEMMA WrapSum ==
    ASSUME NEW a \in Int_W, NEW b \in Int_W, NEW x \in Int_W, Wrap(a + b) = 0
    PROVE  Wrap(Wrap(a + x) + (b - x)) = 0
BY LoopAssumption, ModTransfer DEF Wrap, Int_W

(* ... and its second.                                                     *)
LEMMA WrapLast ==
    ASSUME NEW a \in Int_W, NEW d \in Int, Wrap(a + d) = 0
    PROVE  Wrap(a + Wrap(d)) = 0
BY LoopAssumption, ModAddRight DEF Wrap, Int_W

-----------------------------------------------------------------------------
(* The inductive invariant.                                                *)

(* No store waits in a buffer.                                             *)
Unbuffered == \A t \in Thread : Drained(t)

(* A thread's flag is up from raise to the next lower.                     *)
Entering == {"spin1", "spin2"}
FlagsTellPc ==
    \A t \in Thread :
        /\ pc[t] \in Body \cup Entering \cup {"yield", "leave"} => mem[flag(t)] = 1
        /\ pc[t] \in {"raise", "done"} => mem[flag(t)] = 0

(* Past yield, will_wait names a thread; and while t uses the accounts, it *)
(* names the other one if that is past yield too.                          *)
OtherWaits ==
    \A t \in Thread :
        /\ pc[t] \in Body \cup Entering => mem["will_wait"] \in Thread
        /\ pc[t] \in Body /\ pc[other(t)] \in Body \cup Entering
             => mem["will_wait"] = other(t)

(* What the thread in its turn has read is still what the accounts hold.   *)
CopiesAreFresh ==
    \A t \in Thread :
        /\ pc[t] \in {"read2", "write1", "test2"} => tmp1[t] = mem["accnt1"]
        /\ pc[t] = "write1" => tmp2[t] = mem["accnt2"]

(* The accounts add up to zero, through the store under way if there is    *)
(* one.                                                                    *)
Balanced ==
    /\ (\A t \in Thread : ~MidTransfer(t))
         => Wrap(mem["accnt1"] + mem["accnt2"]) = 0
    /\ \A t \in Thread :
         MidTransfer(t) => Wrap(mem["accnt1"] + (tmp2[t] - r[t])) = 0

LeavesByCount == \A t \in Thread : pc[t] \in {"leave", "done"} => count[t] = -1

LockInv == TypeOK /\ Unbuffered /\ FlagsTellPc /\ OtherWaits
IInv    == LockInv /\ CopiesAreFresh /\ Balanced /\ LeavesByCount

-----------------------------------------------------------------------------
(* Without buffers a load reads memory and a store writes it.              *)
LEMMA LoadsMemory ==
    ASSUME Unbuffered, NEW t \in Thread, NEW x
    PROVE  Load(t, x) = mem[x]
BY DEF Unbuffered, Drained, Load

LEMMA StoresMemory ==
    ASSUME BufferSize = 0, NEW t, NEW x, NEW v, Store(t, x, v)
    PROVE  mem' = [mem EXCEPT ![x] = v] /\ buf' = buf
BY DEF Store

LEMMA Threads ==
    /\ Thread = {1, 2} /\ Loc = {"accnt1", "accnt2", "c1", "c2", "will_wait"}
    /\ \A t \in Thread : /\ other(t) \in Thread /\ other(t) # t
                         /\ other(other(t)) = t
                         /\ \A u \in Thread : u = t \/ u = other(t)
                         /\ flag(t) \in {"c1", "c2"} /\ flag(t) # flag(other(t))
BY PetersonAssumption DEF other, flag, Accounts

LEMMA Ints ==
    /\ Int_W \subseteq Int /\ 0 \in Int_W
    /\ \A x, y \in Int_W : x + y \in Int /\ x - y \in Int
BY LoopAssumption DEF Int_W

-----------------------------------------------------------------------------
(* Types, on a machine with store buffers of any size.                     *)

(* What a location may hold, in memory or in a buffer.                     *)
Fit(x) == IF x \in Accounts THEN Int_W ELSE IF x = "will_wait" THEN 0 .. 2 ELSE 0 .. 1

StoresFit ==
    \A t \in Thread : \A i \in DOMAIN buf[t] : buf[t][i].val \in Fit(buf[t][i].loc)

MemoryOK ==
    /\ mem \in [Loc -> Int] /\ \A x \in Loc : mem[x] \in Fit(x)
    /\ buf \in [Thread -> Seq([loc : Loc, val : Int])]
    /\ StoresFit

ThreadsOK ==
    /\ pc \in [Thread -> Pcs]
    /\ tmp1 \in [Thread -> Int_W] /\ tmp2 \in [Thread -> Int_W]
    /\ r \in [Thread -> Int_W] /\ count \in [Thread -> Int]

LEMMA Fits ==
    /\ \A x \in Accounts : Fit(x) = Int_W
    /\ \A t \in Thread : Fit(flag(t)) = 0 .. 1
    /\ Fit("will_wait") = 0 .. 2
    /\ \A x \in Loc : Fit(x) \subseteq Int /\ 0 \in Fit(x)
<1>1. Accounts = {"accnt1", "accnt2"} /\ Int_W \subseteq Int /\ 0 \in Int_W
  BY Ints DEF Accounts
<1>2. \A x : Fit(x) \in {Int_W, 0 .. 2, 0 .. 1}
  BY DEF Fit
<1>3. \A S \in {Int_W, 0 .. 2, 0 .. 1} : S \subseteq Int /\ 0 \in S
  BY <1>1
<1> QED
  BY <1>1, <1>2, <1>3, Threads DEF Fit

LEMMA TypesSplit == TypeOK /\ StoresFit <=> MemoryOK /\ ThreadsOK
<1>1. TypeOK /\ StoresFit => MemoryOK /\ ThreadsOK
  BY Threads DEF TypeOK, MemoryOK, ThreadsOK, Fit, Accounts
<1>2. MemoryOK /\ ThreadsOK => TypeOK /\ StoresFit
  <2> SUFFICES ASSUME MemoryOK, ThreadsOK PROVE TypeOK
    BY DEF MemoryOK
  <2>1. \A x \in Accounts : mem[x] \in Int_W
    BY Threads, Fits DEF MemoryOK, Accounts
  <2>2. /\ mem["c1"] \in {0, 1} /\ mem["c2"] \in {0, 1}
        /\ mem["will_wait"] \in {0, 1, 2}
    <3>1. mem["c1"] \in Fit(flag(1)) /\ mem["c2"] \in Fit(flag(2))
      BY Threads DEF MemoryOK, flag
    <3>2. mem["c1"] \in 0 .. 1 /\ mem["c2"] \in 0 .. 1 /\ mem["will_wait"] \in 0 .. 2
      BY <3>1, Threads, Fits DEF MemoryOK
    <3> QED
      BY <3>2
  <2> QED
    BY <2>1, <2>2 DEF TypeOK, MemoryOK, ThreadsOK
<1> QED
  BY <1>1, <1>2

LEMMA LoadFits ==
    ASSUME MemoryOK, NEW t \in Thread, NEW x \in Loc
    PROVE  Load(t, x) \in Fit(x)
<1> DEFINE own == {i \in DOMAIN buf[t] : buf[t][i].loc = x}
           n   == Len(buf[t])
           Stores == [loc : Loc, val : Int]
<1>1. CASE own = {}
  BY <1>1 DEF Load, MemoryOK
<1>2. CASE own # {}
  <2>1. n \in Nat /\ DOMAIN buf[t] = 1 .. n
    <3>1. buf[t] \in Seq(Stores)
      BY DEF MemoryOK
    <3> HIDE DEF Stores
    <3> QED
      BY <3>1
  <2> HIDE DEF n
  <2>2. own \in SUBSET (0 .. n)
    BY <2>1
  <2>3. \E i \in own : \A j \in own : j <= i
    <3> HIDE DEF own
    <3> QED
      BY <1>2, <2>1, <2>2, GreatestElement
  <2>4. PICK i \in own : i = CHOOSE k \in own : \A j \in own : j <= k
    BY <2>3
  <2>5. Load(t, x) = buf[t][i].val
    BY <1>2, <2>4 DEF Load
  <2> QED
    BY <2>5 DEF MemoryOK, StoresFit
<1> QED
  BY <1>1, <1>2

LEMMA StoreFits ==
    ASSUME MemoryOK, NEW t \in Thread, NEW x \in Loc, NEW v \in Fit(x), Store(t, x, v)
    PROVE  MemoryOK'
<1> DEFINE Stores == [loc : Loc, val : Int]
           e == [loc |-> x, val |-> v]
<1>1. CASE BufferSize = 0
  <2>1. mem' = [mem EXCEPT ![x] = v] /\ buf' = buf
    BY <1>1 DEF Store
  <2>2. mem' \in [Loc -> Int] /\ \A y \in Loc : mem'[y] \in Fit(y)
    BY <2>1, Fits DEF MemoryOK
  <2> QED
    BY <2>1, <2>2 DEF MemoryOK, StoresFit, Fit
<1>2. CASE BufferSize # 0
  <2>1. mem' = mem /\ buf' = [buf EXCEPT ![t] = Append(buf[t], e)]
    BY <1>2 DEF Store
  <2>2. e \in Stores /\ e.loc = x /\ e.val = v
    BY Fits
  <2>3. buf \in [Thread -> Seq(Stores)]
    BY DEF MemoryOK
  <2> HIDE DEF Stores, e
  <2>4. /\ buf' \in [Thread -> Seq(Stores)] /\ buf'[t] = Append(buf[t], e)
        /\ \A u \in Thread : u # t => buf'[u] = buf[u]
    BY <2>1, <2>2, <2>3
  <2>5. \A i \in DOMAIN buf'[t] : \/ i \in DOMAIN buf[t] /\ buf'[t][i] = buf[t][i]
                                  \/ buf'[t][i] = e
    <3>1. buf[t] \in Seq(Stores)
      BY <2>3
    <3>2. DOMAIN Append(buf[t], e) = 1 .. Len(buf[t]) + 1 /\ Len(buf[t]) \in Nat
      BY <2>2, <3>1
    <3> QED
      BY <2>2, <2>4, <3>1, <3>2
  <2>6. StoresFit'
    <3>1. ASSUME NEW u \in Thread, NEW i \in DOMAIN buf'[u]
          PROVE  buf'[u][i].val \in Fit(buf'[u][i].loc)
      <4>1. CASE u = t
        BY <2>2, <2>5, <3>1, <4>1 DEF MemoryOK, StoresFit
      <4>2. CASE u # t
        BY <2>4, <3>1, <4>2 DEF MemoryOK, StoresFit
      <4> QED
        BY <4>1, <4>2
    <3>2. \A y : Fit(y)' = Fit(y)
      BY DEF Fit
    <3> QED
      BY <3>1 DEF StoresFit
  <2> QED
    BY <2>1, <2>4, <2>6 DEF MemoryOK, Stores
<1> QED
  BY <1>1, <1>2

LEMMA FlushFits ==
    ASSUME MemoryOK, NEW t \in Thread, Flush(t)
    PROVE  MemoryOK'
<1> DEFINE Stores == [loc : Loc, val : Int]
           e == buf[t][1]
           b == Tail(buf[t])
           n == Len(buf[t])
<1>1. \A d \in Stores : d.loc \in Loc
  OBVIOUS
<1>2. buf \in [Thread -> Seq(Stores)] /\ buf[t] \in Seq(Stores) /\ buf[t] # <<>>
  BY DEF MemoryOK, Flush, Drained
<1> HIDE DEF Stores
<1>3. /\ n \in Nat /\ n >= 1 /\ DOMAIN buf[t] = 1 .. n /\ e \in Stores
      /\ Head(buf[t]) = e /\ b \in Seq(Stores) /\ DOMAIN b = 1 .. n - 1
      /\ \A i \in 1 .. n - 1 : b[i] = buf[t][i + 1]
  BY <1>2
<1>4. mem' = [mem EXCEPT ![e.loc] = e.val] /\ buf' = [buf EXCEPT ![t] = b]
  BY <1>3 DEF Flush
<1>5. e.loc \in Loc /\ e.val \in Fit(e.loc)
  BY <1>1, <1>3 DEF MemoryOK, StoresFit
<1> HIDE DEF e, b, n
<1>6. mem' \in [Loc -> Int] /\ \A x \in Loc : mem'[x] \in Fit(x)
  BY <1>4, <1>5, Fits DEF MemoryOK
<1>7. /\ buf' \in [Thread -> Seq(Stores)] /\ buf'[t] = b
      /\ \A u \in Thread : u # t => buf'[u] = buf[u]
  BY <1>2, <1>3, <1>4
<1>8. ASSUME NEW u \in Thread, NEW i \in DOMAIN buf'[u]
      PROVE  buf'[u][i].val \in Fit(buf'[u][i].loc)
  <2>1. CASE u = t
    <3>1. i \in 1 .. n - 1 /\ i + 1 \in DOMAIN buf[t] /\ buf'[u][i] = buf[t][i + 1]
      BY <1>3, <1>7, <1>8, <2>1
    <3> QED
      BY <3>1 DEF MemoryOK, StoresFit
  <2>2. CASE u # t
    BY <1>7, <1>8, <2>2 DEF MemoryOK, StoresFit
  <2> QED
    BY <2>1, <2>2
<1>9. StoresFit'
  BY <1>8 DEF StoresFit, Fit
<1> QED
  BY <1>6, <1>7, <1>9 DEF MemoryOK, Stores, Fit

LEMMA TypeStep == TypeOK /\ StoresFit /\ [Next]_vars => (TypeOK /\ StoresFit)'
<1> SUFFICES ASSUME MemoryOK, ThreadsOK, [Next]_vars PROVE MemoryOK' /\ ThreadsOK'
  <2>1. (TypeOK /\ StoresFit <=> MemoryOK /\ ThreadsOK)'
    BY TypesSplit, PTL
  <2> QED
    BY <2>1, TypesSplit
<1> USE Threads, Ints, LoopAssumption
<1>1. \A t \in Thread : \A x \in Accounts : Load(t, x) \in Int_W
  BY Fits, LoadFits DEF Accounts
<1>2. ASSUME NEW t \in Thread, Step(t) PROVE MemoryOK' /\ ThreadsOK'
  <2> USE DEF ThreadsOK, Goto, Pcs, Body, locals, Accounts
  <2>1. CASE lower(t) \/ raise(t) \/ yield(t) \/ leave(t)
    <3>1. PICK x \in Loc, v \in Int : v \in Fit(x) /\ Store(t, x, v)
      BY <2>1, Fits DEF lower, raise, yield, leave
    <3> QED
      BY <2>1, <3>1, StoreFits DEF lower, raise, yield, leave
  <2>2. CASE spin1(t) \/ spin2(t) \/ read1(t) \/ read2(t) \/ test1(t)
             \/ test2(t, "lower", "leave")
    <3>1. UNCHANGED memoryVars
      BY <2>2 DEF spin1, spin2, read1, read2, test1, test2
    <3>2. MemoryOK'
      BY <3>1 DEF MemoryOK, StoresFit, Fit, memoryVars
    <3> QED
      BY <1>1, <2>2, <3>2 DEF spin1, spin2, read1, read2, test1, test2
  <2>3. CASE write1(t)
    <3>1. PICK amount \in Int_W :
            /\ Goto(t, "write1", "write2")
            /\ r' = [r EXCEPT ![t] = amount]
            /\ Store(t, "accnt1", Wrap(tmp1[t] + amount))
            /\ UNCHANGED <<tmp1, tmp2, count>>
      BY <2>3 DEF write1
    <3>2. Wrap(tmp1[t] + amount) \in Int_W
      <4>1. tmp1[t] + amount \in Int
        BY DEF Int_W
      <4> QED
        BY <4>1, WrapInRange
    <3>3. MemoryOK'
      BY <3>1, <3>2, Fits, StoreFits
    <3> QED
      BY <3>1, <3>3
  <2>4. CASE write2(t)
    <3>1. Wrap(tmp2[t] - r[t]) \in Int_W
      <4>1. tmp2[t] - r[t] \in Int
        BY DEF Int_W
      <4> QED
        BY <4>1, WrapInRange
    <3>2. MemoryOK'
      BY <2>4, <3>1, Fits, StoreFits DEF write2
    <3> QED
      BY <2>4, <3>2 DEF write2
  <2>5. CASE FlushStore(t)
    BY <2>5, FlushFits DEF FlushStore
  <2> QED
    BY <1>2, <2>1, <2>2, <2>3, <2>4, <2>5 DEF Step, BodyStep
<1>3. CASE UNCHANGED vars
  BY <1>3 DEF vars, locals, memoryVars, MemoryOK, ThreadsOK, StoresFit, Fit
<1> QED
  BY <1>2, <1>3 DEF Next, Joined

LEMMA TypeInit == Init => TypeOK /\ StoresFit
<1> SUFFICES ASSUME Init PROVE TypeOK /\ StoresFit
  OBVIOUS
<1> USE Threads, Ints DEF Init, LoopInit
<1>1. buf \in [Thread -> Seq([loc : Loc, val : Int])]
  OBVIOUS
<1>2. mem \in [Loc -> Int] /\ \A x \in Loc : mem[x] = 0
  OBVIOUS
<1>3. TypeOK
  BY <1>1, <1>2, LoopAssumption DEF TypeOK, Pcs, Accounts
<1> QED
  BY <1>3 DEF StoresFit

(* Every variable keeps its type whatever the buffers hold back: no        *)
(* delayed store reaches a location it does not fit.                       *)
THEOREM PetersonTypeOK == Spec => []TypeOK
BY TypeInit, TypeStep, PTL DEF Spec

(* Without buffers every store is in memory at once.                       *)
LEMMA UnbufferedStep ==
    ASSUME BufferSize = 0, Unbuffered, [Next]_vars
    PROVE  Unbuffered'
<1>1. UNCHANGED buf
  <2>1. ASSUME NEW t \in Thread, Step(t) PROVE UNCHANGED buf
    <3>1. ~Flush(t)
      BY DEF Unbuffered, Flush
    <3> QED
      BY <2>1, <3>1
      DEF Step, BodyStep, FlushStore, lower, raise, yield, leave, spin1, spin2, read1,
          read2, write1, write2, test1, test2, Store, memoryVars
  <2> QED
    BY <2>1 DEF Next, Joined, vars, memoryVars
<1> QED
  BY <1>1 DEF Unbuffered, Drained

-----------------------------------------------------------------------------
(* Peterson's argument.                                                    *)
LEMMA LockStep ==
    ASSUME BufferSize = 0, LockInv, [Next]_vars
    PROVE  FlagsTellPc' /\ OtherWaits'
<1> USE Threads DEF LockInv
<1>1. ASSUME NEW t \in Thread, Step(t) PROVE FlagsTellPc' /\ OtherWaits'
  <2> USE DEF FlagsTellPc, OtherWaits, TypeOK, Goto, Pcs, Body, Entering,
              locals, memoryVars, flag, other
  <2>0. ~Flush(t)
    BY DEF Unbuffered, Flush
  <2>1. CASE lower(t)
    <3>1. mem' = [mem EXCEPT ![flag(t)] = 0]
      BY <2>1, StoresMemory DEF lower
    <3> QED
      BY <2>1, <3>1 DEF lower
  <2>2. CASE raise(t)
    <3>1. mem' = [mem EXCEPT ![flag(t)] = 1]
      BY <2>2, StoresMemory DEF raise
    <3> QED
      BY <2>2, <3>1 DEF raise
  <2>3. CASE yield(t)
    <3>1. mem' = [mem EXCEPT !["will_wait"] = t]
      BY <2>3, StoresMemory DEF yield
    <3> QED
      BY <2>3, <3>1 DEF yield
  <2>4. CASE spin1(t)
    BY <2>4, LoadsMemory DEF spin1
  <2>5. CASE spin2(t)
    BY <2>5, LoadsMemory DEF spin2
  <2>6. CASE read1(t) \/ read2(t) \/ test1(t)
    BY <2>6 DEF read1, read2, test1
  <2>7. CASE write1(t)
    <3>1. PICK amount \in Int_W :
            /\ Goto(t, "write1", "write2")
            /\ Store(t, "accnt1", Wrap(tmp1[t] + amount))
      BY <2>7 DEF write1
    <3>2. mem' = [mem EXCEPT !["accnt1"] = Wrap(tmp1[t] + amount)]
      BY <3>1, StoresMemory
    <3> QED
      BY <3>1, <3>2
  <2>8. CASE write2(t)
    <3>1. mem' = [mem EXCEPT !["accnt2"] = Wrap(tmp2[t] - r[t])]
      BY <2>8, StoresMemory DEF write2
    <3> QED
      BY <2>8, <3>1 DEF write2
  <2>9. CASE test2(t, "lower", "leave")
    BY <2>9 DEF test2
  <2>10. CASE leave(t)
    <3>1. mem' = [mem EXCEPT ![flag(t)] = 0]
      BY <2>10, StoresMemory DEF leave
    <3> QED
      BY <2>10, <3>1 DEF leave
  <2> QED
    BY <1>1, <2>0, <2>1, <2>2, <2>3, <2>4, <2>5, <2>6, <2>7, <2>8, <2>9,
       <2>10 DEF Step, BodyStep, FlushStore
<1>2. CASE UNCHANGED vars
  BY <1>2 DEF vars, memoryVars, FlagsTellPc, OtherWaits
<1> QED
  BY <1>1, <1>2 DEF Next, Joined

LEMMA LockInvStep == BufferSize = 0 /\ LockInv /\ [Next]_vars => LockInv'
<1>1. LockInv => StoresFit
  BY DEF LockInv, Unbuffered, Drained, StoresFit
<1> QED
  BY <1>1, TypeStep, UnbufferedStep, LockStep DEF LockInv

LEMMA LockInvInit == Init => LockInv
<1> SUFFICES ASSUME Init PROVE LockInv
  OBVIOUS
<1> USE Threads, Ints DEF Init, LoopInit
<1>1. TypeOK
  BY TypeInit
<1>2. Unbuffered
  BY DEF Unbuffered, Drained
<1>3. FlagsTellPc /\ OtherWaits
  BY DEF FlagsTellPc, OtherWaits, Body, Entering
<1> QED
  BY <1>1, <1>2, <1>3 DEF LockInv

LEMMA LockInvExcludes == LockInv => MutualExclusion
BY Threads DEF LockInv, OtherWaits, MutualExclusion, other

(* Without store buffers the two threads never use the accounts together,  *)
(* whatever the loops' length and the width of an int.                     *)
THEOREM PetersonExcludes ==
    ASSUME BufferSize = 0 PROVE Spec => []MutualExclusion
<1>1. Init => LockInv
  BY LockInvInit
<1>2. LockInv /\ [Next]_vars => LockInv'
  BY LockInvStep
<1>3. LockInv => MutualExclusion
  BY LockInvExcludes
<1> QED
  BY <1>1, <1>2, <1>3, PTL DEF Spec

-----------------------------------------------------------------------------
(* The accounts.                                                           *)
LEMMA AccountsStep ==
    ASSUME BufferSize = 0, IInv, [Next]_vars
    PROVE  CopiesAreFresh' /\ Balanced' /\ LeavesByCount'
<1> USE Threads
<1>a. /\ TypeOK /\ Unbuffered
      /\ CopiesAreFresh /\ Balanced /\ LeavesByCount /\ MutualExclusion
  BY LockInvExcludes DEF IInv, LockInv
<1>b. \A u \in Thread : u \in {1, 2}
  OBVIOUS
<1>1. ASSUME NEW t \in Thread, Step(t)
      PROVE CopiesAreFresh' /\ Balanced' /\ LeavesByCount'
  <2> USE DEF TypeOK, MutualExclusion, CopiesAreFresh, Balanced, LeavesByCount,
              MidTransfer, Goto, Pcs, Body, locals, memoryVars, Accounts
  <2>0. ~Flush(t)
    BY <1>a DEF Unbuffered, Flush
  <2>1. CASE lower(t) \/ raise(t) \/ yield(t) \/ leave(t)
    <3>1. /\ mem'["accnt1"] = mem["accnt1"] /\ mem'["accnt2"] = mem["accnt2"]
          /\ UNCHANGED locals
      <4>1. UNCHANGED locals
        BY <2>1 DEF lower, raise, yield, leave
      <4>2. CASE lower(t)
        BY <1>a, <4>2, StoresMemory DEF lower
      <4>3. CASE raise(t)
        BY <1>a, <4>3, StoresMemory DEF raise
      <4>4. CASE yield(t)
        BY <1>a, <4>4, StoresMemory DEF yield
      <4>5. CASE leave(t)
        BY <1>a, <4>5, StoresMemory DEF leave
      <4> QED
        BY <2>1, <4>1, <4>2, <4>3, <4>4, <4>5
    <3>2. pc' = [pc EXCEPT ![t] = pc'[t]] /\ pc'[t] \notin Body
      <4>1. CASE lower(t) \/ raise(t)
        BY <1>a, <4>1 DEF lower, raise
      <4>2. CASE yield(t) \/ leave(t)
        BY <1>a, <4>2 DEF yield, leave
      <4> QED
        BY <2>1, <4>1, <4>2
    <3>3. pc'[t] = "done" => pc[t] = "leave"
      BY <1>a, <2>1 DEF lower, raise, yield, leave
    <3>4. pc'[t] # "leave" /\ pc[t] # "write2"
      BY <1>a, <2>1 DEF lower, raise, yield, leave
    <3> QED
      BY <1>a, <3>1, <3>2, <3>3, <3>4
  <2>2. CASE spin1(t) \/ spin2(t)
    <3>1. UNCHANGED <<mem, locals>>
      BY <2>2 DEF spin1, spin2
    <3>2. /\ pc' = [pc EXCEPT ![t] = pc'[t]]
          /\ pc[t] \in {"spin1", "spin2"}
          /\ pc'[t] \in {"spin1", "spin2", "read1"}
      BY <1>a, <2>2 DEF spin1, spin2
    <3>3. \A s \in Thread : pc'[s] = pc[s] \/ (s = t /\ pc'[s] \in {"spin1", "spin2", "read1"})
      BY <1>a, <3>2
    <3>4. CopiesAreFresh'
      BY <1>a, <3>1, <3>3
    <3>5. \A s \in Thread : MidTransfer(s)' <=> MidTransfer(s)
      BY <1>a, <3>2, <3>3
    <3>6. Balanced'
      BY <1>a, <3>1, <3>5
    <3>7. LeavesByCount'
      BY <1>a, <3>1, <3>3
    <3> QED
      BY <3>4, <3>6, <3>7
  <2>3. CASE read1(t)
    BY <1>a, <2>3, LoadsMemory DEF read1
  <2>4. CASE read2(t)
    BY <1>a, <2>4, LoadsMemory DEF read2
  <2>5. CASE test1(t)
    BY <1>a, <2>5, LoadsMemory DEF test1
  <2> DEFINE u == other(t)
  <2>6. CASE write1(t)
    <3>1. PICK amount \in Int_W :
            /\ Goto(t, "write1", "write2")
            /\ r' = [r EXCEPT ![t] = amount]
            /\ Store(t, "accnt1", Wrap(tmp1[t] + amount))
            /\ UNCHANGED <<tmp1, tmp2, count>>
      BY <2>6 DEF write1
    <3>2. mem' = [mem EXCEPT !["accnt1"] = Wrap(tmp1[t] + amount)]
      BY <3>1, StoresMemory
    <3>3. pc[u] \notin Body
      BY <1>a, <3>1
    <3>4. Wrap(mem["accnt1"] + mem["accnt2"]) = 0
      BY <1>a, <3>1, <3>3
    <3>5. /\ tmp1[t] = mem["accnt1"] /\ tmp2[t] = mem["accnt2"]
          /\ tmp1[t] \in Int_W /\ tmp2[t] \in Int_W
      BY <1>a, <3>1
    <3>6. Wrap(Wrap(tmp1[t] + amount) + (tmp2[t] - amount)) = 0
      BY <3>4, <3>5, WrapSum
    <3>7. /\ mem'["accnt1"] = Wrap(tmp1[t] + amount)
          /\ r'[t] = amount /\ tmp2' = tmp2
      BY <1>a, <3>1, <3>2
    <3>8. Balanced'
      BY <1>a, <3>1, <3>3, <3>6, <3>7
    <3>9. CopiesAreFresh' /\ LeavesByCount'
      BY <1>a, <3>1, <3>3
    <3> QED
      BY <3>8, <3>9
  <2>7. CASE write2(t)
    <3>1. mem' = [mem EXCEPT !["accnt2"] = Wrap(tmp2[t] - r[t])]
      BY <2>7, StoresMemory DEF write2
    <3>2. pc[u] \notin Body
      BY <1>a, <2>7 DEF write2
    <3>3. Wrap(mem["accnt1"] + (tmp2[t] - r[t])) = 0
      BY <1>a, <2>7 DEF write2
    <3>4. mem["accnt1"] \in Int_W /\ tmp2[t] - r[t] \in Int
      <4>1. mem["accnt1"] \in Int_W /\ tmp2[t] \in Int_W /\ r[t] \in Int_W
        BY <1>a
      <4> QED
        BY <4>1, Ints
    <3>5. Wrap(mem["accnt1"] + Wrap(tmp2[t] - r[t])) = 0
      BY <3>3, <3>4, WrapLast
    <3>6. /\ mem'["accnt1"] = mem["accnt1"]
          /\ mem'["accnt2"] = Wrap(tmp2[t] - r[t])
      BY <1>a, <3>1
    <3>7. Balanced'
      BY <1>a, <2>7, <3>2, <3>5, <3>6 DEF write2
    <3>8. CopiesAreFresh' /\ LeavesByCount'
      BY <1>a, <2>7, <3>2 DEF write2
    <3> QED
      BY <3>7, <3>8
  <2>8. CASE test2(t, "lower", "leave")
    <3>1. pc[u] \notin Body
      BY <1>a, <2>8 DEF test2
    <3>2. Wrap(tmp1[t] + Load(t, "accnt2")) = 0
      BY <1>a, <2>8, <3>1, LoadsMemory DEF test2
    <3>3. /\ Goto(t, "test2", IF count[t] # 0 THEN "lower" ELSE "leave")
          /\ count' = [count EXCEPT ![t] = @ - 1]
          /\ UNCHANGED <<memoryVars, tmp1, tmp2, r>>
      BY <2>8, <3>2 DEF test2
    <3> QED
      BY <1>a, <3>1, <3>3
  <2> QED
    BY <1>1, <2>0, <2>1, <2>2, <2>3, <2>4, <2>5, <2>6, <2>7, <2>8
    DEF Step, BodyStep, FlushStore
<1>2. CASE UNCHANGED vars
  BY <1>a, <1>2
  DEF vars, memoryVars, locals, CopiesAreFresh, Balanced, LeavesByCount,
      MidTransfer
<1> QED
  BY <1>1, <1>2 DEF Next, Joined

LEMMA AccountsInit == Init => CopiesAreFresh /\ Balanced /\ LeavesByCount
<1>1. Wrap(0 + 0) = 0
  BY LoopAssumption, ModSmall DEF Wrap
<1> QED
  BY <1>1, Threads
  DEF Init, LoopInit, CopiesAreFresh, Balanced, LeavesByCount, MidTransfer

(* The accounts add up to zero at every test: a thread only ever stops     *)
(* because its counter ran out.                                            *)
THEOREM PetersonBalances ==
    ASSUME BufferSize = 0 PROVE Spec => []NobodySeesImbalance
<1>1. Init => IInv
  BY LockInvInit, AccountsInit DEF IInv
<1>2. IInv /\ [Next]_vars => IInv'
  BY LockInvStep, AccountsStep DEF IInv
<1>3. IInv => NobodySeesImbalance
  BY DEF IInv, LeavesByCount, NobodySeesImbalance, EndsByCount
<1> QED
  BY <1>1, <1>2, <1>3, PTL DEF Spec

-----------------------------------------------------------------------------
(* Each turn as one transfer.                                              *)

(* While a transfer is half done, the second account is worth what the     *)
(* store to come will put there.                                           *)
SecondAccount ==
    /\ (\A t \in Thread : ~MidTransfer(t)) => SettledAccnt2 = mem["accnt2"]
    /\ \A t \in Thread :
         MidTransfer(t) => SettledAccnt2 = Wrap(tmp2[t] - r[t])

LEMMA SettledIs == MutualExclusion => SecondAccount
<1> SUFFICES ASSUME MutualExclusion PROVE SecondAccount
  OBVIOUS
<1>1. ASSUME NEW t \in Thread, MidTransfer(t)
      PROVE  SettledAccnt2 = Wrap(tmp2[t] - r[t])
  <2>1. \A u \in Thread : MidTransfer(u) <=> u = t
    BY <1>1, Threads DEF MidTransfer, MutualExclusion, Body
  <2>2. (CHOOSE u \in Thread : MidTransfer(u)) = t
    BY <2>1
  <2> QED
    BY <1>1, <2>2 DEF SettledAccnt2
<1> QED
  BY <1>1 DEF SecondAccount, SettledAccnt2

LEMMA TurnStep ==
    ASSUME BufferSize = 0, IInv, [Next]_vars
    PROVE  [\E amount \in 0 .. W - 1 : Atomic!Transfer(amount)]_(Atomic!accountVars)
<1> DEFINE OneTurn == [\E amount \in 0 .. W - 1 : Atomic!Transfer(amount)]_(Atomic!accountVars)
<1> USE Threads
<1>a. TypeOK /\ Unbuffered /\ CopiesAreFresh /\ MutualExclusion
  BY LockInvExcludes DEF IInv, LockInv
<1>b. SecondAccount /\ SecondAccount'
  <2>1. LockInv'
    BY LockInvStep DEF IInv
  <2>2. (LockInv => MutualExclusion)' /\ (MutualExclusion => SecondAccount)'
    BY LockInvExcludes, SettledIs, PTL
  <2> QED
    BY <1>a, <2>1, <2>2, SettledIs
<1>c. ASSUME mem'["accnt1"] = mem["accnt1"], mem'["accnt2"] = mem["accnt2"],
             \A u \in Thread : MidTransfer(u)' <=> MidTransfer(u),
             \A u \in Thread : MidTransfer(u) => tmp2'[u] = tmp2[u] /\ r'[u] = r[u]
      PROVE  OneTurn
  <2>1. SettledAccnt2' = SettledAccnt2
    BY <1>b, <1>c DEF SecondAccount
  <2> QED
    BY <1>c, <2>1 DEF Atomic!accountVars
<1>1. ASSUME NEW t \in Thread, Step(t) PROVE OneTurn
  <2> USE DEF TypeOK, Goto, Pcs, Body, MidTransfer, Accounts
  <2>0. ~Flush(t)
    BY <1>a DEF Unbuffered, Flush
  <2>1. CASE lower(t) \/ raise(t) \/ yield(t) \/ leave(t)
    <3>1. /\ mem'["accnt1"] = mem["accnt1"] /\ mem'["accnt2"] = mem["accnt2"]
          /\ UNCHANGED <<tmp2, r>>
      BY <1>a, <2>1, StoresMemory DEF lower, raise, yield, leave, locals
    <3>2. \A u \in Thread : MidTransfer(u)' <=> MidTransfer(u)
      BY <1>a, <2>1 DEF lower, raise, yield, leave
    <3> QED
      BY <1>c, <3>1, <3>2
  <2>2. CASE spin1(t) \/ spin2(t)
    <3>1. UNCHANGED <<mem, tmp2, r>>
      BY <2>2 DEF spin1, spin2, memoryVars, locals
    <3>2. \A u \in Thread : MidTransfer(u)' <=> MidTransfer(u)
      BY <1>a, <2>2 DEF spin1, spin2
    <3> QED
      BY <1>c, <3>1, <3>2
  <2>3. CASE read1(t) \/ read2(t) \/ test1(t) \/ test2(t, "lower", "leave")
    <3>1. /\ UNCHANGED <<mem, r>> /\ \A u \in Thread : u # t => tmp2'[u] = tmp2[u]
          /\ pc[t] # "write2"
      BY <1>a, <2>3 DEF read1, read2, test1, test2, memoryVars
    <3>2. \A u \in Thread : MidTransfer(u)' <=> MidTransfer(u)
      BY <1>a, <2>3 DEF read1, read2, test1, test2
    <3> QED
      BY <1>c, <3>1, <3>2
  <2>4. CASE write1(t)
    <3>1. PICK amount \in Int_W :
            /\ Goto(t, "write1", "write2")
            /\ r' = [r EXCEPT ![t] = amount]
            /\ Store(t, "accnt1", Wrap(tmp1[t] + amount))
            /\ UNCHANGED <<tmp1, tmp2, count>>
      BY <2>4 DEF write1
    <3>2. mem' = [mem EXCEPT !["accnt1"] = Wrap(tmp1[t] + amount)]
      BY <3>1, StoresMemory
    <3>3. /\ mem'["accnt1"] = Wrap(mem["accnt1"] + amount)
          /\ tmp2'[t] = mem["accnt2"] /\ r'[t] = amount
      BY <1>a, <3>1, <3>2 DEF CopiesAreFresh
    <3>4. MidTransfer(t)' /\ \A u \in Thread : ~MidTransfer(u)
      BY <1>a, <3>1 DEF MutualExclusion
    <3>5. SettledAccnt2 = mem["accnt2"] /\ SettledAccnt2' = Wrap(mem["accnt2"] - amount)
      BY <1>b, <3>3, <3>4 DEF SecondAccount
    <3>6. Atomic!Transfer(amount)
      BY <3>3, <3>5 DEF Atomic!Transfer, Wrap
    <3> QED
      BY <3>6 DEF Int_W
  <2>5. CASE write2(t)
    <3>1. mem' = [mem EXCEPT !["accnt2"] = Wrap(tmp2[t] - r[t])]
      BY <2>5, StoresMemory DEF write2
    <3>2. MidTransfer(t) /\ \A u \in Thread : ~MidTransfer(u)'
      BY <1>a, <2>5 DEF write2, MutualExclusion
    <3>3. mem'["accnt1"] = mem["accnt1"] /\ SettledAccnt2' = SettledAccnt2
      BY <1>a, <1>b, <3>1, <3>2 DEF SecondAccount
    <3> QED
      BY <3>3 DEF Atomic!accountVars
  <2> QED
    BY <1>1, <2>0, <2>1, <2>2, <2>3, <2>4, <2>5 DEF Step, BodyStep, FlushStore
<1>2. CASE UNCHANGED vars
  BY <1>2, <1>c DEF vars, memoryVars, locals, MidTransfer
<1> QED
  BY <1>1, <1>2 DEF Next, Joined

(* Without store buffers the program implements the atomic transfers, for  *)
(* every width of an int and every number of turns.                        *)
THEOREM PetersonImplementsAtomicTransfer ==
    ASSUME BufferSize = 0 PROVE Spec => TurnsAreAtomic
<1>1. Init => IInv
  BY LockInvInit, AccountsInit DEF IInv
<1>2. IInv /\ [Next]_vars => IInv'
  BY LockInvStep, AccountsStep DEF IInv
<1>3. Init => Atomic!AtomicInit
  <2> SUFFICES ASSUME Init PROVE Atomic!AtomicInit
    OBVIOUS
  <2>1. \A t \in Thread : ~MidTransfer(t)
    BY Threads DEF Init, MidTransfer
  <2>2. SettledAccnt2 = mem["accnt2"] /\ mem["accnt1"] = 0 /\ mem["accnt2"] = 0
    BY <2>1, Threads DEF Init, SettledAccnt2
  <2> QED
    BY <2>2 DEF Atomic!AtomicInit
<1>4. IInv /\ [Next]_vars =>
        [\E amount \in 0 .. W - 1 : Atomic!Transfer(amount)]_(Atomic!accountVars)
  BY TurnStep
<1> QED
  BY <1>1, <1>2, <1>3, <1>4, PTL DEF Spec, TurnsAreAtomic, Atomic!AtomicSpec
=============================================================================
