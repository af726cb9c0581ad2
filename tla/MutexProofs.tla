---------------------------- MODULE MutexProofs ----------------------------
(***************************************************************************)
(* The mutex of project_1 guards the accounts on a machine with store      *)
(* buffers of any size, for any number of threads, any int width W and any *)
(* loop count: each turn is one atomic transfer.                           *)
(***************************************************************************)
EXTENDS MutexTransfer, NumberLemmas

-----------------------------------------------------------------------------
(* A transfer keeps the sum of the accounts at zero in an int of W values. *)

LEMMA WrapInRange == \A x \in Int : Wrap(x) \in Int_W
BY LoopAssumption, ModDef DEF Wrap, Int_W

(* Its first store ...                                                     *)
LEMMA WrapSum ==
    ASSUME NEW a \in Int_W, NEW b \in Int_W, NEW x \in Int_W, Wrap(a + b) = 0
    PROVE  Wrap(Wrap(a + x) + (b - x)) = 0
BY LoopAssumption, ModTransfer DEF Wrap, Int_W

(* ... and its second.                                                     *)
LEMMA WrapLast ==
    ASSUME NEW a \in Int_W, NEW d \in Int, Wrap(a + d) = 0
    PROVE  Wrap(a + Wrap(d)) = 0
BY LoopAssumption, ModAddRight DEF Wrap, Int_W

-----------------------------------------------------------------------------
(* The inductive invariant.                                                *)

NotPending(t, x) == \A i \in DOMAIN buf[t] : buf[t][i].loc # x

(* A lock or an unlock drains the buffer, so a turn begins with none of    *)
(* its stores pending and never has two to one account.                    *)
PendingOnce ==
    \A t \in Thread :
        /\ pc[t] \in {"lock", "acquire", "read1", "read2", "write1", "done"}
             => Drained(t)
        /\ pc[t] = "write2" => NotPending(t, "accnt2")
        /\ \A i, j \in DOMAIN buf[t] : buf[t][i].loc = buf[t][j].loc => i = j

(* What the owner has read is still what it would read.                    *)
CopiesAreFresh ==
    \A t \in Thread :
        /\ pc[t] \in {"read2", "write1", "test2"} => tmp1[t] = Seen("accnt1")
        /\ pc[t] = "write1" => tmp2[t] = Seen("accnt2")

(* The accounts the owner sees add up to zero, through the store that is   *)
(* still to come if there is one.                                          *)
Balanced ==
    /\ (\A t \in Thread : ~MidTransfer(t))
         => Wrap(Seen("accnt1") + Seen("accnt2")) = 0
    /\ \A t \in Thread :
         MidTransfer(t) => Wrap(Seen("accnt1") + (tmp2[t] - r[t])) = 0

LeavesByCount == \A t \in Thread : pc[t] \in {"unlock", "done"} => count[t] = -1

LockInv == TypeOK /\ OwnerAlone /\ PendingOnce
IInv    == LockInv /\ CopiesAreFresh /\ Balanced /\ LeavesByCount

-----------------------------------------------------------------------------
(* Loads from a buffer that holds at most one store to each location.      *)

LEMMA Constants ==
    /\ Loc = {"accnt1", "accnt2", "mutex"} /\ Accounts = {"accnt1", "accnt2"}
    /\ Thread \cap {0} = {} /\ Int_W \subseteq Int /\ 0 \in Int_W
BY MutexAssumption, LoopAssumption DEF Accounts, Int_W

LEMMA LoadsMemory ==
    ASSUME NEW t, NEW x, NotPending(t, x)
    PROVE  Load(t, x) = mem[x]
<1>1. {i \in DOMAIN buf[t] : buf[t][i].loc = x} = {}
  BY DEF NotPending
<1> QED
  BY <1>1 DEF Load

LEMMA LoadsPending ==
    ASSUME NEW t, NEW n \in Nat, DOMAIN buf[t] = 1 .. n, NEW k \in 1 .. n,
           \A i \in 1 .. n : buf[t][i].loc = buf[t][k].loc => i = k
    PROVE  Load(t, buf[t][k].loc) = buf[t][k].val
<1> DEFINE own == {i \in DOMAIN buf[t] : buf[t][i].loc = buf[t][k].loc}
<1>1. own = {k}
  OBVIOUS
<1>2. (CHOOSE i \in {k} : \A j \in {k} : j <= i) = k
  OBVIOUS
<1> QED
  BY <1>1, <1>2 DEF Load

LEMMA DrainedLoads ==
    ASSUME NEW t, Drained(t) PROVE \A x : NotPending(t, x) /\ Load(t, x) = mem[x]
<1>1. \A x : NotPending(t, x)
  BY DEF Drained, NotPending
<1> QED
  BY <1>1, LoadsMemory

(* The buffers' part of TypeOK, one sequence at a time.                    *)
LEMMA Buffers ==
    ASSUME TypeOK, NEW t \in Thread
    PROVE  /\ buf[t] \in Seq([loc : Accounts, val : Int_W])
           /\ Len(buf[t]) \in Nat /\ DOMAIN buf[t] = 1 .. Len(buf[t])
           /\ \A i \in 1 .. Len(buf[t]) : /\ buf[t][i].loc \in Accounts
                                          /\ buf[t][i].val \in Int_W
<1> DEFINE Stores == [loc : Accounts, val : Int_W]
<1>1. buf[t] \in Seq(Stores)
  BY DEF TypeOK
<1>2. \A e \in Stores : e.loc \in Accounts /\ e.val \in Int_W
  OBVIOUS
<1>3. \A i \in 1 .. Len(buf[t]) : buf[t][i] \in Stores
  <2> HIDE DEF Stores
  <2> QED
    BY <1>1
<1>4. Len(buf[t]) \in Nat /\ DOMAIN buf[t] = 1 .. Len(buf[t])
  <2> HIDE DEF Stores
  <2> QED
    BY <1>1
<1> QED
  BY <1>1, <1>2, <1>3, <1>4

(* Whatever is in t's buffer, t loads an account's value.                  *)
LEMMA LoadInRange ==
    ASSUME TypeOK, PendingOnce, NEW t \in Thread, NEW x \in Accounts
    PROVE  Load(t, x) \in Int_W
<1> DEFINE n == Len(buf[t])
<1>1. n \in Nat /\ DOMAIN buf[t] = 1 .. n /\ \A i \in 1 .. n : buf[t][i].val \in Int_W
  BY Buffers
<1> HIDE DEF n
<1>2. CASE NotPending(t, x)
  BY <1>2, LoadsMemory DEF TypeOK
<1>3. CASE ~NotPending(t, x)
  <2>1. PICK k \in 1 .. n : buf[t][k].loc = x
    BY <1>1, <1>3 DEF NotPending
  <2>2. Load(t, buf[t][k].loc) = buf[t][k].val
    BY <1>1, LoadsPending DEF PendingOnce
  <2> QED
    BY <1>1, <2>1, <2>2
<1> QED
  BY <1>2, <1>3

(* A store to an account of which no store is pending: t sees it at once,  *)
(* and sees nothing else change.                                           *)
LEMMA StoreStep ==
    ASSUME TypeOK, PendingOnce, NEW t \in Thread, NEW x \in Accounts,
           NEW v \in Int_W, NotPending(t, x), Store(t, x, v)
    PROVE  /\ \A u \in Thread : u # t => buf'[u] = buf[u]
           /\ buf' \in [Thread -> Seq([loc : Accounts, val : Int_W])]
           /\ DOMAIN mem' = Loc /\ mem'["mutex"] = mem["mutex"]
           /\ \A y \in Accounts : mem'[y] \in Int_W
           /\ \A i, j \in DOMAIN buf'[t] : buf'[t][i].loc = buf'[t][j].loc => i = j
           /\ \A y : y # x /\ NotPending(t, y) => NotPending(t, y)'
           /\ Load(t, x)' = v
           /\ \A y \in Accounts : y # x => Load(t, y)' = Load(t, y)
<1> USE Constants
<1>1. CASE BufferSize = 0
  <2>1. mem' = [mem EXCEPT ![x] = v] /\ buf' = buf
    BY <1>1 DEF Store
  <2>2. /\ mem'[x] = v /\ DOMAIN mem' = Loc /\ \A y \in Loc : y # x => mem'[y] = mem[y]
    BY <2>1 DEF TypeOK
  <2>3. Load(t, x)' = v
    <3>1. {i \in DOMAIN buf'[t] : buf'[t][i].loc = x} = {}
      BY <2>1 DEF NotPending
    <3> QED
      BY <2>2, <3>1 DEF Load
  <2>4. \A y \in Accounts : y # x => Load(t, y)' = Load(t, y)
    BY <2>1, <2>2 DEF Load
  <2>5. \A y : NotPending(t, y) => NotPending(t, y)'
    BY <2>1 DEF NotPending
  <2> QED
    BY <2>1, <2>2, <2>3, <2>4, <2>5 DEF TypeOK, PendingOnce
<1>2. CASE BufferSize # 0
  <2> DEFINE e == [loc |-> x, val |-> v]
             Stores == [loc : Accounts, val : Int_W]
             n == Len(buf[t])
             b == Append(buf[t], e)
  <2>1. mem' = mem /\ buf' = [buf EXCEPT ![t] = b]
    BY <1>2 DEF Store
  <2>2. buf \in [Thread -> Seq(Stores)] /\ e \in Stores
    BY DEF TypeOK
  <2>3. e.loc = x /\ e.val = v
    OBVIOUS
  <2> HIDE DEF Stores, e
  <2>4. buf' \in [Thread -> Seq(Stores)] /\ buf'[t] = b /\ \A u \in Thread : u # t => buf'[u] = buf[u]
    BY <2>1, <2>2
  <2>5. /\ n \in Nat /\ DOMAIN buf[t] = 1 .. n /\ DOMAIN b = 1 .. n + 1
        /\ b[n + 1] = e /\ \A i \in 1 .. n : b[i] = buf[t][i]
    BY <2>2
  <2> HIDE DEF n, b
  <2>6. \A i \in 1 .. n : buf[t][i].loc # x
    BY <2>5 DEF NotPending
  <2>7. \A i, j \in 1 .. n : buf[t][i].loc = buf[t][j].loc => i = j
    BY <2>5 DEF PendingOnce
  <2>8. \A i, j \in 1 .. n + 1 : b[i].loc = b[j].loc => i = j
    <3>1. \A i \in 1 .. n + 1 : i \in 1 .. n \/ i = n + 1
      BY <2>5
    <3> QED
      BY <2>3, <2>5, <2>6, <2>7, <3>1
  <2>9. {i \in DOMAIN b : b[i].loc = x} = {n + 1}
    BY <2>3, <2>5, <2>8
  <2>10. Load(t, x)' = v
    <3>1. (CHOOSE i \in {n + 1} : \A j \in {n + 1} : j <= i) = n + 1
      BY <2>5
    <3> QED
      BY <2>3, <2>4, <2>5, <2>9, <3>1 DEF Load
  <2>11. \A y : y # x => {i \in DOMAIN b : b[i].loc = y} = {i \in DOMAIN buf[t] : buf[t][i].loc = y}
    BY <2>3, <2>5
  <2>12. \A y \in Accounts : y # x => Load(t, y)' = Load(t, y)
    <3> SUFFICES ASSUME NEW y \in Accounts, y # x PROVE Load(t, y)' = Load(t, y)
      OBVIOUS
    <3> DEFINE own == {i \in DOMAIN buf[t] : buf[t][i].loc = y}
    <3>1. {i \in DOMAIN buf'[t] : buf'[t][i].loc = y} = own
      <4>1. {i \in DOMAIN b : b[i].loc = y} = own
        BY <2>11
      <4> QED
        BY <2>4, <4>1
    <3>2. CASE own = {}
      BY <2>1, <3>1, <3>2 DEF Load
    <3>3. CASE own # {}
      <4>1. PICK k \in 1 .. n : buf[t][k].loc = y
        BY <2>5, <3>3
      <4>2. own = {k}
        BY <2>5, <2>7, <4>1
      <4>3. (CHOOSE i \in {k} : \A j \in {k} : j <= i) = k
        OBVIOUS
      <4>4. Load(t, y)' = b[k].val /\ Load(t, y) = buf[t][k].val
        BY <2>4, <3>1, <4>2, <4>3 DEF Load
      <4> QED
        BY <2>5, <4>4
    <3> QED
      BY <3>2, <3>3
  <2>13. ASSUME NEW y, y # x, NotPending(t, y) PROVE NotPending(t, y)'
    <3>1. \A i \in 1 .. n + 1 : i \in 1 .. n \/ i = n + 1
      BY <2>5
    <3>2. \A i \in DOMAIN b : b[i].loc # y
      BY <2>3, <2>5, <2>13, <3>1 DEF NotPending
    <3> QED
      BY <2>4, <3>2 DEF NotPending
  <2>14. \A i, j \in DOMAIN buf'[t] : buf'[t][i].loc = buf'[t][j].loc => i = j
    BY <2>4, <2>5, <2>8
  <2> QED
    BY <2>1, <2>4, <2>10, <2>12, <2>13, <2>14 DEF TypeOK, Stores
<1> QED
  BY <1>1, <1>2

(* A store that reaches memory changes nothing its own thread can see.     *)
LEMMA FlushStep ==
    ASSUME TypeOK, PendingOnce, NEW t \in Thread, Flush(t)
    PROVE  /\ \A u \in Thread : u # t => buf'[u] = buf[u]
           /\ buf' \in [Thread -> Seq([loc : Accounts, val : Int_W])]
           /\ DOMAIN mem' = Loc /\ mem'["mutex"] = mem["mutex"]
           /\ \A y \in Accounts : mem'[y] \in Int_W
           /\ \A i, j \in DOMAIN buf'[t] : buf'[t][i].loc = buf'[t][j].loc => i = j
           /\ \A y : NotPending(t, y) => NotPending(t, y)'
           /\ \A y \in Accounts : Load(t, y)' = Load(t, y)
<1> USE Constants
<1> DEFINE Stores == [loc : Accounts, val : Int_W]
           n == Len(buf[t])
           b == Tail(buf[t])
           e == buf[t][1]
<1>1. buf \in [Thread -> Seq(Stores)]
  BY DEF TypeOK
<1>2. /\ n \in Nat /\ DOMAIN buf[t] = 1 .. n
      /\ \A i \in 1 .. n : buf[t][i].loc \in Accounts /\ buf[t][i].val \in Int_W
  BY Buffers
<1> HIDE DEF Stores
<1>3. buf[t] \in Seq(Stores) /\ buf[t] # <<>>
  BY <1>1 DEF Flush, Drained
<1>4. /\ n >= 1 /\ Head(buf[t]) = e /\ b \in Seq(Stores) /\ DOMAIN b = 1 .. n - 1
      /\ \A i \in 1 .. n - 1 : b[i] = buf[t][i + 1]
  BY <1>3
<1>5. mem' = [mem EXCEPT ![e.loc] = e.val] /\ buf' = [buf EXCEPT ![t] = b]
  BY <1>4 DEF Flush
<1>6. buf' \in [Thread -> Seq(Stores)] /\ buf'[t] = b /\ \A u \in Thread : u # t => buf'[u] = buf[u]
  BY <1>1, <1>4, <1>5
<1>7. e.loc \in Accounts /\ e.val \in Int_W
  BY <1>2, <1>4
<1> HIDE DEF n, b, e
<1>8. /\ DOMAIN mem' = Loc /\ mem'[e.loc] = e.val
      /\ \A y \in Loc : y # e.loc => mem'[y] = mem[y]
  BY <1>5, <1>7 DEF TypeOK
<1>9. \A i, j \in 1 .. n : buf[t][i].loc = buf[t][j].loc => i = j
  BY <1>2 DEF PendingOnce
<1>10. \A i, j \in 1 .. n - 1 : b[i].loc = b[j].loc => i = j
  <2> SUFFICES ASSUME NEW i \in 1 .. n - 1, NEW j \in 1 .. n - 1, b[i].loc = b[j].loc
               PROVE  i = j
    OBVIOUS
  <2>1. i + 1 \in 1 .. n /\ j + 1 \in 1 .. n
    BY <1>2
  <2>2. i + 1 = j + 1
    BY <1>4, <1>9, <2>1
  <2> QED
    BY <2>2
<1>11. ASSUME NEW y, NotPending(t, y) PROVE NotPending(t, y)'
  <2>1. ASSUME NEW i \in 1 .. n - 1 PROVE b[i].loc # y
    <3>1. i + 1 \in 1 .. n /\ b[i] = buf[t][i + 1]
      BY <1>2, <1>4
    <3> QED
      BY <1>2, <1>11, <3>1 DEF NotPending
  <2> QED
    BY <1>4, <1>6, <2>1 DEF NotPending
<1>12. ASSUME NEW y \in Accounts PROVE Load(t, y)' = Load(t, y)
  <2>1. CASE NotPending(t, y)
    <3>1. mem'[y] = mem[y]
      BY <1>2, <1>4, <1>8, <2>1 DEF NotPending, e
    <3>2. {i \in DOMAIN buf'[t] : buf'[t][i].loc = y} = {}
      BY <1>11, <2>1 DEF NotPending
    <3> QED
      BY <2>1, <3>1, <3>2, LoadsMemory DEF Load
  <2>2. CASE ~NotPending(t, y)
    <3>1. PICK k \in 1 .. n : buf[t][k].loc = y
      BY <1>2, <2>2 DEF NotPending
    <3>2. Load(t, y) = buf[t][k].val
      BY <1>2, <1>9, <3>1, LoadsPending
    <3>3. CASE k = 1
      <4>1. {i \in DOMAIN buf'[t] : buf'[t][i].loc = y} = {}
        <5>1. ASSUME NEW i \in 1 .. n - 1 PROVE b[i].loc # y
          <6>1. i + 1 \in 1 .. n /\ i + 1 # k /\ b[i] = buf[t][i + 1]
            BY <1>2, <1>4, <3>3
          <6> QED
            BY <1>9, <3>1, <6>1
        <5> QED
          BY <1>4, <1>6, <5>1
      <4>2. mem'[y] = e.val
        BY <1>8, <3>1, <3>3 DEF e
      <4> QED
        BY <3>2, <3>3, <4>1, <4>2 DEF Load, e
    <3>4. CASE k # 1
      <4>1. k - 1 \in 1 .. n - 1 /\ b[k - 1] = buf[t][k]
        BY <1>2, <1>4, <3>4
      <4>2. {i \in DOMAIN buf'[t] : buf'[t][i].loc = y} = {k - 1}
        BY <1>4, <1>6, <1>10, <3>1, <4>1
      <4>3. (CHOOSE i \in {k - 1} : \A j \in {k - 1} : j <= i) = k - 1
        BY <4>1
      <4> QED
        BY <1>6, <3>2, <4>1, <4>2, <4>3 DEF Load
    <3> QED
      BY <3>3, <3>4
  <2> QED
    BY <2>1, <2>2
<1> QED
  BY <1>6, <1>7, <1>8, <1>10, <1>4, <1>11, <1>12 DEF TypeOK, Stores

-----------------------------------------------------------------------------
(* The lock.                                                               *)

LEMMA LockInvInit == Init => LockInv
<1> SUFFICES ASSUME Init PROVE LockInv
  OBVIOUS
<1> USE Constants DEF Init, LoopInit
<1>1. buf \in [Thread -> Seq([loc : Accounts, val : Int_W])]
  OBVIOUS
<1>2. DOMAIN mem = Loc /\ \A x \in Loc : mem[x] = 0
  OBVIOUS
<1>3. TypeOK
  BY <1>1, <1>2, LoopAssumption DEF TypeOK, Pcs, mutex
<1>4. \A t \in Thread : Drained(t)
  BY DEF Drained
<1>5. OwnerAlone
  BY <1>4 DEF OwnerAlone, Owning, Body
<1>6. PendingOnce
  <2>1. \A t \in Thread : pc[t] = "lock"
    OBVIOUS
  <2>2. ASSUME NEW t \in Thread PROVE DOMAIN buf[t] = {}
    <3>1. buf[t] = <<>> /\ DOMAIN <<>> = 1 .. 0
      OBVIOUS
    <3> QED
      BY <3>1
  <2> HIDE DEF Init
  <2> QED
    BY <1>4, <2>1, <2>2 DEF PendingOnce
<1> QED
  BY <1>3, <1>5, <1>6 DEF LockInv

(* What the owner's buffer is before each of its two stores.               *)
LEMMA StoresOnce ==
    ASSUME PendingOnce, NEW t \in Thread
    PROVE  /\ pc[t] = "write1" => \A x : NotPending(t, x)
           /\ pc[t] = "write2" => NotPending(t, "accnt2")
BY DrainedLoads DEF PendingOnce

(* The four calls on the mutex.                                            *)
LEMMA MutexCalls ==
    ASSUME NEW t \in Thread, lock(t) \/ release(t) \/ acquire(t) \/ unlock(t)
    PROVE  /\ Drained(t) /\ UNCHANGED <<buf, tmp1, tmp2, r, count>>
           /\ lock(t) \/ acquire(t) =>
                mutex = 0 /\ mem' = [mem EXCEPT !["mutex"] = t]
           /\ release(t) \/ unlock(t) =>
                mutex = t /\ mem' = [mem EXCEPT !["mutex"] = 0]
BY DEF lock, release, acquire, unlock, mutex_lock, mutex_unlock, Locked, locals

LEMMA LockInvStep == LockInv /\ [Next]_vars => LockInv'
<1> SUFFICES ASSUME LockInv, [Next]_vars PROVE LockInv'
  OBVIOUS
<1> USE Constants DEF LockInv
<1>1. ASSUME NEW t \in Thread, Step(t) PROVE LockInv'
  <2> USE DEF TypeOK, OwnerAlone, PendingOnce, Goto, Pcs, Body, Owning, mutex
  <2>1. CASE lock(t) \/ acquire(t)
    <3>1. /\ pc[t] \in {"lock", "acquire"}
          /\ pc' = [pc EXCEPT ![t] = pc'[t]] /\ pc'[t] \in {"release", "read1"}
      BY <2>1 DEF lock, acquire
    <3>2. /\ Drained(t) /\ UNCHANGED <<buf, tmp1, tmp2, r, count>>
          /\ mem["mutex"] = 0 /\ mem' = [mem EXCEPT !["mutex"] = t]
      BY <2>1, MutexCalls
    <3>3. \A u \in Thread : u # t => pc[u] \notin Owning /\ Drained(u)
      BY <3>2
    <3>4. TypeOK'
      <4>1. pc' \in [Thread -> Pcs]
        BY <3>1
      <4>2. DOMAIN mem' = Loc /\ mem'["mutex"] = t /\ \A x \in Accounts : mem'[x] \in Int_W
        BY <3>2 DEF Accounts
      <4> QED
        BY <3>2, <4>1, <4>2
    <3>5. OwnerAlone'
      BY <3>1, <3>2, <3>3 DEF Drained
    <3>6. PendingOnce'
      BY <3>1, <3>2 DEF Drained, NotPending
    <3> QED
      BY <3>4, <3>5, <3>6
  <2>2. CASE release(t) \/ unlock(t)
    <3>1. /\ pc[t] \in {"release", "unlock"}
          /\ pc' = [pc EXCEPT ![t] = pc'[t]] /\ pc'[t] \in {"acquire", "done"}
      BY <2>2 DEF release, unlock
    <3>2. /\ Drained(t) /\ UNCHANGED <<buf, tmp1, tmp2, r, count>>
          /\ mem["mutex"] = t /\ mem' = [mem EXCEPT !["mutex"] = 0]
      BY <2>2, MutexCalls
    <3>3. \A u \in Thread : u # t => pc[u] \notin Owning /\ Drained(u)
      BY <3>2
    <3>4. TypeOK'
      <4>1. pc' \in [Thread -> Pcs]
        BY <3>1
      <4>2. DOMAIN mem' = Loc /\ mem'["mutex"] = 0 /\ \A x \in Accounts : mem'[x] \in Int_W
        BY <3>2 DEF Accounts
      <4> QED
        BY <3>2, <4>1, <4>2
    <3>5. OwnerAlone'
      BY <3>1, <3>2, <3>3 DEF Drained
    <3>6. PendingOnce'
      BY <3>1, <3>2 DEF Drained, NotPending
    <3> QED
      BY <3>4, <3>5, <3>6
  <2>3. CASE read1(t) \/ read2(t) \/ test1(t)
    <3>1. Load(t, "accnt1") \in Int_W /\ Load(t, "accnt2") \in Int_W
      BY LoadInRange
    <3>2. /\ pc[t] \in {"read1", "read2", "test1"}
          /\ pc' = [pc EXCEPT ![t] = pc'[t]] /\ pc'[t] \in {"read2", "write1", "test2"}
          /\ pc'[t] \in {"read2", "write1"} => pc[t] \in {"read1", "read2"}
          /\ UNCHANGED <<mem, buf, r, count>>
          /\ tmp1' = [tmp1 EXCEPT ![t] = tmp1'[t]] /\ tmp1'[t] \in Int_W
          /\ tmp2' = [tmp2 EXCEPT ![t] = tmp2'[t]] /\ tmp2'[t] \in Int_W
      BY <2>3, <3>1 DEF read1, read2, test1, memoryVars
    <3>3. TypeOK'
      <4>1. tmp1' \in [Thread -> Int_W] /\ tmp2' \in [Thread -> Int_W]
        BY <3>2
      <4>2. pc' \in [Thread -> Pcs]
        BY <3>2
      <4> QED
        BY <3>2, <4>1, <4>2
    <3>4. OwnerAlone'
      BY <3>2 DEF Drained
    <3>5. PendingOnce'
      BY <3>2 DEF Drained, NotPending
    <3> QED
      BY <3>3, <3>4, <3>5
  <2>4. CASE test2(t, "release", "unlock")
    <3>1. /\ pc[t] = "test2" /\ pc' = [pc EXCEPT ![t] = pc'[t]]
          /\ pc'[t] \in {"release", "unlock"}
          /\ UNCHANGED <<mem, buf, tmp1, tmp2, r>>
          /\ count' = [count EXCEPT ![t] = count'[t]] /\ count'[t] \in Int
      BY <2>4 DEF test2, memoryVars
    <3>2. TypeOK'
      <4>1. count' \in [Thread -> Int] /\ pc' \in [Thread -> Pcs]
        BY <3>1
      <4> QED
        BY <3>1, <4>1
    <3>3. OwnerAlone'
      BY <3>1 DEF Drained
    <3>4. PendingOnce'
      BY <3>1 DEF Drained, NotPending
    <3> QED
      BY <3>2, <3>3, <3>4
  <2>5. CASE write1(t)
    <3>1. PICK amount \in Int_W :
            /\ Goto(t, "write1", "write2")
            /\ r' = [r EXCEPT ![t] = amount]
            /\ Store(t, "accnt1", Wrap(tmp1[t] + amount))
            /\ UNCHANGED <<tmp1, tmp2, count>>
      BY <2>5 DEF write1
    <3> DEFINE v == Wrap(tmp1[t] + amount)
    <3>2. v \in Int_W
      <4>1. tmp1[t] \in Int /\ amount \in Int
        OBVIOUS
      <4>2. tmp1[t] + amount \in Int
        BY <4>1
      <4> QED
        BY <4>2, WrapInRange
    <3> HIDE DEF v
    <3>3. NotPending(t, "accnt1") /\ NotPending(t, "accnt2")
      BY <3>1, StoresOnce
    <3>3a. Store(t, "accnt1", v)
      BY <3>1 DEF v
    <3>4. /\ \A u \in Thread : u # t => buf'[u] = buf[u]
          /\ buf' \in [Thread -> Seq([loc : Accounts, val : Int_W])]
          /\ DOMAIN mem' = Loc /\ mem'["mutex"] = mem["mutex"]
          /\ \A y \in Accounts : mem'[y] \in Int_W
          /\ \A i, j \in DOMAIN buf'[t] : buf'[t][i].loc = buf'[t][j].loc => i = j
          /\ NotPending(t, "accnt2")'
      BY <3>2, <3>3, <3>3a, StoreStep
    <3>5. TypeOK'
      BY <3>1, <3>4
    <3>6. OwnerAlone'
      BY <3>1, <3>4 DEF Drained
    <3>7. PendingOnce'
      BY <3>1, <3>4 DEF Drained, NotPending
    <3> QED
      BY <3>5, <3>6, <3>7
  <2>6. CASE write2(t)
    <3> DEFINE v == Wrap(tmp2[t] - r[t])
    <3>1. v \in Int_W
      <4>1. tmp2[t] - r[t] \in Int
        BY DEF Int_W
      <4> QED
        BY <4>1, WrapInRange
    <3>2. Goto(t, "write2", "test1") /\ Store(t, "accnt2", v) /\ UNCHANGED locals
      BY <2>6 DEF write2
    <3> HIDE DEF v
    <3>3. NotPending(t, "accnt2")
      BY <3>2, StoresOnce
    <3>4. /\ \A u \in Thread : u # t => buf'[u] = buf[u]
          /\ buf' \in [Thread -> Seq([loc : Accounts, val : Int_W])]
          /\ DOMAIN mem' = Loc /\ mem'["mutex"] = mem["mutex"]
          /\ \A y \in Accounts : mem'[y] \in Int_W
          /\ \A i, j \in DOMAIN buf'[t] : buf'[t][i].loc = buf'[t][j].loc => i = j
      BY <3>1, <3>2, <3>3, StoreStep
    <3>5. TypeOK'
      BY <3>2, <3>4 DEF locals
    <3>6. OwnerAlone'
      BY <3>2, <3>4 DEF Drained
    <3>7. PendingOnce'
      BY <3>2, <3>4 DEF Drained, NotPending
    <3> QED
      BY <3>5, <3>6, <3>7
  <2>7. CASE FlushStore(t)
    <3>1. Flush(t) /\ ~Drained(t) /\ UNCHANGED <<pc, tmp1, tmp2, r, count>>
      BY <2>7 DEF FlushStore, Flush, locals
    <3>2. /\ \A u \in Thread : u # t => buf'[u] = buf[u]
          /\ buf' \in [Thread -> Seq([loc : Accounts, val : Int_W])]
          /\ DOMAIN mem' = Loc /\ mem'["mutex"] = mem["mutex"]
          /\ \A y \in Accounts : mem'[y] \in Int_W
          /\ \A i, j \in DOMAIN buf'[t] : buf'[t][i].loc = buf'[t][j].loc => i = j
          /\ NotPending(t, "accnt2") => NotPending(t, "accnt2")'
      BY <3>1, FlushStep
    <3>3. TypeOK'
      BY <3>1, <3>2
    <3>4. OwnerAlone'
      BY <3>1, <3>2 DEF Drained
    <3>5. PendingOnce'
      BY <3>1, <3>2 DEF Drained, NotPending
    <3> QED
      BY <3>3, <3>4, <3>5
  <2> QED
    BY <1>1, <2>1, <2>2, <2>3, <2>4, <2>5, <2>6, <2>7 DEF Step, BodyStep
<1>2. CASE UNCHANGED vars
  BY <1>2 DEF vars, locals, memoryVars, TypeOK, OwnerAlone, PendingOnce, Drained,
              NotPending, mutex
<1> QED
  BY <1>1, <1>2 DEF Next, Joined

(* Every variable keeps its type: what the buffers still hold is for the   *)
(* accounts only, and is an int.                                           *)
THEOREM MutexTypeOK == Spec => []TypeOK
<1>1. LockInv => TypeOK
  BY DEF LockInv
<1> QED
  BY <1>1, LockInvInit, LockInvStep, PTL DEF Spec

(* One thread at most is in a turn or holds back stores, for any threads   *)
(* and buffers.                                                            *)
THEOREM MutexExcludes == Spec => []OwnerAlone
<1>1. LockInv => OwnerAlone
  BY DEF LockInv
<1> QED
  BY <1>1, LockInvInit, LockInvStep, PTL DEF Spec

-----------------------------------------------------------------------------
(* The accounts.                                                           *)

(* The owner sees what Seen says, and no other thread is in a turn.        *)
LEMMA OwnerSees ==
    ASSUME LockInv, NEW t \in Thread, pc[t] \in Owning \/ ~Drained(t)
    PROVE  /\ mutex = t /\ \A x : Seen(x) = Load(t, x)
           /\ \A u \in Thread : u # t => pc[u] \notin Owning
BY Constants DEF LockInv, OwnerAlone, Seen

LEMMA SeenInRange ==
    ASSUME LockInv, NEW x \in Accounts PROVE Seen(x) \in Int_W
BY LoadInRange DEF LockInv, Seen, TypeOK

(* A store changes what is seen of its account and of no other.            *)
LEMMA SeenStore ==
    ASSUME LockInv, NEW t \in Thread, pc[t] \in Owning, NEW x \in Accounts,
           NEW v \in Int_W, NotPending(t, x), Store(t, x, v)
    PROVE  Seen(x)' = v /\ \A y \in Accounts : y # x => Seen(y)' = Seen(y)
<1>1. /\ mem'["mutex"] = mem["mutex"] /\ Load(t, x)' = v
      /\ \A y \in Accounts : y # x => Load(t, y)' = Load(t, y)
  BY StoreStep DEF LockInv
<1>2. mem["mutex"] = t /\ t # 0
  BY OwnerSees, Constants DEF mutex
<1> QED
  BY <1>1, <1>2 DEF Seen, mutex

(* Every other step leaves what is seen alone.                             *)
LEMMA SeenStays ==
    ASSUME LockInv, NEW t \in Thread, NEW x \in Accounts,
           \/ lock(t) \/ release(t) \/ acquire(t) \/ unlock(t) \/ FlushStore(t)
           \/ UNCHANGED memoryVars
    PROVE  Seen(x)' = Seen(x)
<1> USE Constants
<1>1. CASE lock(t) \/ release(t) \/ acquire(t) \/ unlock(t)
  <2>1. /\ buf' = buf /\ Load(t, x) = mem[x]
        /\ \/ mem["mutex"] = 0 /\ mem' = [mem EXCEPT !["mutex"] = t]
           \/ mem["mutex"] = t /\ mem' = [mem EXCEPT !["mutex"] = 0]
    BY <1>1, MutexCalls, DrainedLoads DEF mutex
  <2>2. mem'[x] = mem[x] /\ Load(t, x)' = Load(t, x)
    <3>1. mem'[x] = mem[x]
      BY <2>1 DEF LockInv, TypeOK
    <3> QED
      BY <2>1, <3>1 DEF Load
  <2>3. {mem["mutex"], mem'["mutex"]} = {0, t} /\ t # 0
    BY <2>1 DEF LockInv, TypeOK
  <2> QED
    BY <2>1, <2>2, <2>3 DEF Seen, mutex
<1>2. CASE FlushStore(t)
  <2>1. ~Drained(t) /\ mem'["mutex"] = mem["mutex"] /\ Load(t, x)' = Load(t, x)
    BY <1>2, FlushStep DEF FlushStore, Flush, LockInv
  <2>2. mem["mutex"] = t
    BY <2>1, OwnerSees DEF mutex
  <2> QED
    BY <2>1, <2>2 DEF Seen, mutex
<1>3. CASE UNCHANGED memoryVars
  BY <1>3 DEF memoryVars, Seen, mutex, Load
<1> QED
  BY <1>1, <1>2, <1>3

-----------------------------------------------------------------------------
(* Each turn as one transfer.                                              *)

(* While a transfer is half done, the second account is worth what the     *)
(* store to come will put there.                                           *)
SecondAccount ==
    /\ (\A t \in Thread : ~MidTransfer(t)) => SeenAccnt2 = Seen("accnt2")
    /\ \A t \in Thread :
         MidTransfer(t) => SeenAccnt2 = Wrap(tmp2[t] - r[t])

LEMMA SettledIs == LockInv => SecondAccount
<1> SUFFICES ASSUME LockInv PROVE SecondAccount
  OBVIOUS
<1>1. ASSUME NEW t \in Thread, MidTransfer(t)
      PROVE  SeenAccnt2 = Wrap(tmp2[t] - r[t])
  <2>1. \A u \in Thread : MidTransfer(u) <=> u = t
    BY <1>1, OwnerSees DEF MidTransfer, Owning, Body
  <2>2. (CHOOSE u \in Thread : MidTransfer(u)) = t
    BY <2>1
  <2> QED
    BY <1>1, <2>2 DEF SeenAccnt2, SettledAccnt2
<1> QED
  BY <1>1 DEF SecondAccount, SeenAccnt2

(* The two stores of a turn.                                               *)
LEMMA Write1 ==
    ASSUME IInv, NEW t \in Thread, write1(t)
    PROVE  \E amount \in Int_W :
             /\ Goto(t, "write1", "write2") /\ r' = [r EXCEPT ![t] = amount]
             /\ UNCHANGED <<tmp1, tmp2, count>>
             /\ Seen("accnt1")' = Wrap(Seen("accnt1") + amount)
             /\ Seen("accnt2")' = Seen("accnt2") /\ tmp2[t] = Seen("accnt2")
<1> USE Constants
<1>1. PICK amount \in Int_W :
        /\ Goto(t, "write1", "write2") /\ r' = [r EXCEPT ![t] = amount]
        /\ Store(t, "accnt1", Wrap(tmp1[t] + amount)) /\ UNCHANGED <<tmp1, tmp2, count>>
  BY DEF write1
<1>2. pc[t] = "write1" /\ pc[t] \in Owning
  BY <1>1 DEF Goto, Owning, Body
<1>3. tmp1[t] = Seen("accnt1") /\ tmp2[t] = Seen("accnt2") /\ NotPending(t, "accnt1")
  BY <1>2, StoresOnce DEF IInv, LockInv, CopiesAreFresh
<1>4. Wrap(tmp1[t] + amount) \in Int_W
  <2>1. tmp1[t] \in Int /\ amount \in Int
    BY <1>3, SeenInRange DEF IInv
  <2>2. tmp1[t] + amount \in Int
    BY <2>1
  <2> QED
    BY <2>2, WrapInRange
<1>5. /\ Seen("accnt1")' = Wrap(tmp1[t] + amount)
      /\ Seen("accnt2")' = Seen("accnt2")
  BY <1>1, <1>2, <1>3, <1>4, SeenStore DEF IInv
<1> QED
  BY <1>1, <1>3, <1>5

LEMMA Write2 ==
    ASSUME IInv, NEW t \in Thread, write2(t)
    PROVE  /\ Goto(t, "write2", "test1") /\ UNCHANGED locals
           /\ Seen("accnt1")' = Seen("accnt1")
           /\ Seen("accnt2")' = Wrap(tmp2[t] - r[t])
<1> USE Constants
<1>1. /\ Goto(t, "write2", "test1") /\ UNCHANGED locals
      /\ Store(t, "accnt2", Wrap(tmp2[t] - r[t]))
  BY DEF write2
<1>2. pc[t] = "write2" /\ pc[t] \in Owning /\ NotPending(t, "accnt2")
  BY <1>1, StoresOnce DEF Goto, Owning, Body, IInv, LockInv
<1>3. Wrap(tmp2[t] - r[t]) \in Int_W
  <2>1. tmp2[t] \in Int /\ r[t] \in Int
    BY DEF IInv, LockInv, TypeOK
  <2>2. tmp2[t] - r[t] \in Int
    BY <2>1
  <2> QED
    BY <2>2, WrapInRange
<1> QED
  BY <1>1, <1>2, <1>3, SeenStore DEF IInv

LEMMA AccountsStep ==
    ASSUME IInv, [Next]_vars
    PROVE  /\ CopiesAreFresh' /\ Balanced' /\ LeavesByCount'
           /\ [\E amount \in 0 .. W - 1 : Atomic!Transfer(amount)]_(Atomic!accountVars)
<1> DEFINE OneTurn == [\E amount \in 0 .. W - 1 : Atomic!Transfer(amount)]_(Atomic!accountVars)
           Kept == CopiesAreFresh' /\ Balanced' /\ LeavesByCount'
<1> USE Constants
<1>a. /\ LockInv /\ TypeOK /\ CopiesAreFresh /\ Balanced /\ LeavesByCount
  BY DEF IInv, LockInv
<1>b. SecondAccount /\ SecondAccount'
  <2>1. LockInv'
    BY <1>a, LockInvStep
  <2>2. (LockInv => SecondAccount)'
    BY SettledIs, PTL
  <2> QED
    BY <1>a, <2>1, <2>2, SettledIs
<1>c. Seen("accnt1") \in Int_W /\ Seen("accnt2") \in Int_W
  BY <1>a, SeenInRange
<1>d. ASSUME Seen("accnt1")' = Seen("accnt1"), Seen("accnt2")' = Seen("accnt2"),
             \A u \in Thread : MidTransfer(u)' <=> MidTransfer(u),
             \A u \in Thread : MidTransfer(u) => tmp2'[u] = tmp2[u] /\ r'[u] = r[u]
      PROVE  OneTurn /\ Balanced'
  <2>1. Balanced'
    BY <1>a, <1>d DEF Balanced
  <2>2. SeenAccnt2' = SeenAccnt2
    BY <1>b, <1>d DEF SecondAccount
  <2> QED
    BY <1>d, <2>1, <2>2 DEF Atomic!accountVars
<1>1. ASSUME NEW t \in Thread, Step(t) PROVE Kept /\ OneTurn
  <2> USE DEF TypeOK, Goto, Pcs, Body, MidTransfer
  <2>1. CASE lock(t) \/ release(t) \/ acquire(t) \/ unlock(t) \/ FlushStore(t)
    <3>1. Seen("accnt1")' = Seen("accnt1") /\ Seen("accnt2")' = Seen("accnt2")
      BY <1>a, <2>1, SeenStays
    <3>2. UNCHANGED <<tmp1, tmp2, r, count>>
      BY <2>1, MutexCalls DEF FlushStore, locals
    <3>3. /\ pc' = [pc EXCEPT ![t] = pc'[t]]
          /\ pc'[t] = pc[t] \/ pc'[t] \in {"release", "acquire", "read1", "done"}
          /\ pc[t] = "write2" => pc'[t] = "write2"
          /\ pc'[t] = "done" => pc[t] \in {"unlock", "done"}
      <4>1. CASE FlushStore(t)
        BY <1>a, <4>1 DEF FlushStore
      <4>2. CASE ~FlushStore(t)
        BY <1>a, <2>1, <4>2 DEF lock, release, acquire, unlock
      <4> QED
        BY <4>1, <4>2
    <3>4. \A u \in Thread : MidTransfer(u)' <=> MidTransfer(u)
      BY <1>a, <3>3
    <3>5. CopiesAreFresh'
      BY <1>a, <3>1, <3>2, <3>3 DEF CopiesAreFresh
    <3>6. LeavesByCount'
      BY <1>a, <3>2, <3>3 DEF LeavesByCount
    <3> QED
      BY <1>d, <3>1, <3>2, <3>4, <3>5, <3>6
  <2>2. ASSUME pc[t] \in Owning PROVE \A u \in Thread : u # t => pc[u] \notin Owning
    BY <1>a, <2>2, OwnerSees
  <2>3. CASE read1(t) \/ read2(t) \/ test1(t)
    <3>1. pc[t] \in Owning /\ UNCHANGED memoryVars
      BY <2>3 DEF read1, read2, test1, Owning
    <3>2. Seen("accnt1")' = Seen("accnt1") /\ Seen("accnt2")' = Seen("accnt2")
      BY <1>a, <3>1, SeenStays
    <3>3. \A x : Seen(x) = Load(t, x)
      BY <1>a, <3>1, OwnerSees
    <3>4. \A u \in Thread : ~MidTransfer(u) /\ ~MidTransfer(u)'
      BY <1>a, <2>2, <2>3, <3>1 DEF read1, read2, test1, Owning
    <3>5. CopiesAreFresh'
      BY <1>a, <2>2, <2>3, <3>1, <3>2, <3>3 DEF CopiesAreFresh, read1, read2, test1, Owning
    <3>6. LeavesByCount'
      BY <1>a, <2>3 DEF LeavesByCount, read1, read2, test1
    <3> QED
      BY <1>d, <3>2, <3>4, <3>5, <3>6
  <2>4. CASE test2(t, "release", "unlock")
    <3>1. pc[t] = "test2" /\ pc[t] \in Owning /\ UNCHANGED <<memoryVars, tmp1, tmp2, r>>
      BY <2>4 DEF test2, Owning
    <3>2. Seen("accnt1")' = Seen("accnt1") /\ Seen("accnt2")' = Seen("accnt2")
      BY <1>a, <3>1, SeenStays
    <3>3. /\ tmp1[t] = Seen("accnt1") /\ Load(t, "accnt2") = Seen("accnt2")
      BY <1>a, <3>1, OwnerSees DEF CopiesAreFresh
    <3>4. \A u \in Thread : ~MidTransfer(u) /\ (u # t => pc[u] \notin Owning)
      BY <2>2, <3>1 DEF Owning
    <3>5. Wrap(tmp1[t] + Load(t, "accnt2")) = 0
      BY <1>a, <3>3, <3>4 DEF Balanced
    <3>6. /\ pc' = [pc EXCEPT ![t] = IF count[t] # 0 THEN "release" ELSE "unlock"]
          /\ count' = [count EXCEPT ![t] = @ - 1]
      BY <2>4, <3>5 DEF test2
    <3>7. \A u \in Thread : ~MidTransfer(u)'
      BY <1>a, <3>4, <3>6
    <3>8. CopiesAreFresh'
      BY <1>a, <3>1, <3>2, <3>6 DEF CopiesAreFresh
    <3>9. LeavesByCount'
      BY <1>a, <3>4, <3>6 DEF LeavesByCount, Owning
    <3> QED
      BY <1>d, <3>2, <3>4, <3>7, <3>8, <3>9
  <2>5. CASE write1(t)
    <3>1. PICK amount \in Int_W :
            /\ Goto(t, "write1", "write2") /\ r' = [r EXCEPT ![t] = amount]
            /\ UNCHANGED <<tmp1, tmp2, count>>
            /\ Seen("accnt1")' = Wrap(Seen("accnt1") + amount)
            /\ Seen("accnt2")' = Seen("accnt2") /\ tmp2[t] = Seen("accnt2")
      BY <2>5, Write1
    <3>2. \A u \in Thread : ~MidTransfer(u) /\ (u # t => pc[u] \notin Owning)
      BY <2>2, <3>1 DEF Owning
    <3>3. /\ pc'[t] = "write2" /\ \A u \in Thread : u # t => pc'[u] = pc[u]
          /\ r'[t] = amount
      BY <1>a, <3>1
    <3>4. Wrap(Seen("accnt1") + Seen("accnt2")) = 0
      BY <1>a, <3>2 DEF Balanced
    <3>5. Wrap(Wrap(Seen("accnt1") + amount) + (Seen("accnt2") - amount)) = 0
      BY <1>c, <3>4, WrapSum
    <3>6. Balanced'
      BY <3>1, <3>2, <3>3, <3>5 DEF Balanced, Owning
    <3>7. CopiesAreFresh' /\ LeavesByCount'
      BY <1>a, <3>1, <3>2, <3>3 DEF CopiesAreFresh, LeavesByCount, Owning
    <3>8. SeenAccnt2 = Seen("accnt2") /\ SeenAccnt2' = Wrap(Seen("accnt2") - amount)
      BY <1>b, <3>1, <3>2, <3>3 DEF SecondAccount
    <3>9. Atomic!Transfer(amount)
      BY <3>1, <3>8 DEF Atomic!Transfer, Wrap
    <3> QED
      BY <3>6, <3>7, <3>9 DEF Int_W
  <2>6. CASE write2(t)
    <3>1. /\ Goto(t, "write2", "test1") /\ UNCHANGED locals
          /\ Seen("accnt1")' = Seen("accnt1")
          /\ Seen("accnt2")' = Wrap(tmp2[t] - r[t])
      BY <2>6, Write2
    <3>2. /\ pc[t] = "write2" /\ pc'[t] = "test1"
          /\ \A u \in Thread : u # t => pc'[u] = pc[u] /\ pc[u] \notin Owning
      BY <1>a, <2>2, <3>1 DEF Owning
    <3>3. \A u \in Thread : ~MidTransfer(u)'
      BY <3>2 DEF Owning
    <3>4. Wrap(Seen("accnt1") + Wrap(tmp2[t] - r[t])) = 0
      <4>1. tmp2[t] - r[t] \in Int
        <5>1. tmp2[t] \in Int /\ r[t] \in Int
          BY <1>a
        <5> QED
          BY <5>1
      <4>2. Wrap(Seen("accnt1") + (tmp2[t] - r[t])) = 0
        BY <1>a, <3>2 DEF Balanced
      <4> QED
        BY <1>c, <4>1, <4>2, WrapLast
    <3>5. Balanced'
      BY <3>1, <3>3, <3>4 DEF Balanced
    <3>6. CopiesAreFresh' /\ LeavesByCount'
      BY <1>a, <3>1, <3>2 DEF CopiesAreFresh, LeavesByCount, Owning, locals
    <3>7. SeenAccnt2' = SeenAccnt2
      BY <1>b, <3>1, <3>2, <3>3 DEF SecondAccount
    <3> QED
      BY <3>1, <3>5, <3>6, <3>7 DEF Atomic!accountVars
  <2> QED
    BY <1>1, <2>1, <2>3, <2>4, <2>5, <2>6 DEF Step, BodyStep
<1>2. CASE UNCHANGED vars
  <2>1. Seen("accnt1")' = Seen("accnt1") /\ Seen("accnt2")' = Seen("accnt2")
    BY <1>2 DEF vars, memoryVars, Seen, mutex, Load
  <2>2. CopiesAreFresh' /\ LeavesByCount'
    BY <1>a, <1>2, <2>1 DEF vars, locals, CopiesAreFresh, LeavesByCount
  <2> QED
    BY <1>2, <1>d, <2>1, <2>2 DEF vars, locals, MidTransfer
<1> QED
  BY <1>1, <1>2 DEF Next, Joined

LEMMA AccountsInit == Init => IInv /\ Atomic!AtomicInit
<1> SUFFICES ASSUME Init PROVE IInv /\ Atomic!AtomicInit
  OBVIOUS
<1>1. Seen("accnt1") = 0 /\ Seen("accnt2") = 0
  BY Constants DEF Init, Seen, mutex
<1>2. \A t \in Thread : pc[t] = "lock"
  BY DEF Init
<1>3. Wrap(0 + 0) = 0
  BY LoopAssumption, ModSmall DEF Wrap
<1>4. CopiesAreFresh /\ Balanced /\ LeavesByCount
  BY <1>1, <1>2, <1>3 DEF CopiesAreFresh, Balanced, LeavesByCount, MidTransfer
<1>5. SeenAccnt2 = 0
  BY <1>1, <1>2 DEF SeenAccnt2, MidTransfer
<1> QED
  BY <1>1, <1>4, <1>5, LockInvInit DEF IInv, Atomic!AtomicInit

LEMMA IInvStep == IInv /\ [Next]_vars => IInv'
BY LockInvStep, AccountsStep DEF IInv

(* The accounts add up to zero at every test of every thread.              *)
THEOREM MutexBalances == Spec => []NobodySeesImbalance
<1>1. IInv => NobodySeesImbalance
  BY DEF IInv, LeavesByCount, NobodySeesImbalance, EndsByCount
<1>2. Init => IInv
  BY AccountsInit
<1> QED
  BY <1>1, <1>2, IInvStep, PTL DEF Spec

(* Whatever the threads, the store buffers, the width of an int and the    *)
(* number of turns, the program implements the atomic transfers.           *)
THEOREM MutexImplementsAtomicTransfer == Spec => TurnsAreAtomic
<1>1. Init => IInv /\ Atomic!AtomicInit
  BY AccountsInit
<1>2. IInv /\ [Next]_vars =>
        [\E amount \in 0 .. W - 1 : Atomic!Transfer(amount)]_(Atomic!accountVars)
  BY AccountsStep
<1> QED
  BY <1>1, <1>2, IInvStep, PTL DEF Spec, TurnsAreAtomic, Atomic!AtomicSpec
=============================================================================
