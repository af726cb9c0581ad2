--------------------------- MODULE MutexTransfer ---------------------------
(***************************************************************************)
(* src/OS/实验一/project_1/main.c: the transfer loop under a pthread mutex *)
(* given up and taken again at the top of every turn, so that the loop's   *)
(* own test runs inside the critical section.                              *)
(***************************************************************************)
EXTENDS TransferLoop

ASSUME MutexAssumption ==
    /\ 0 \notin Thread
    /\ Loc = Accounts \cup {"mutex"}

vars == <<pc, locals, memoryVars>>

(* The mutex is a word of memory too: its owner, or 0.                     *)
mutex == mem["mutex"]

Init ==
    /\ pc = [t \in Thread |-> "lock"]
    /\ mem = [x \in Loc |-> 0]
    /\ buf = [t \in Thread |-> <<>>]
    /\ LoopInit

(* pthread_mutex_lock and _unlock use locked instructions: they wait for   *)
(* the caller's stores to reach memory and act on memory itself.           *)
Locked(t, owner) ==
    Drained(t) /\ mem' = [mem EXCEPT !["mutex"] = owner] /\ UNCHANGED buf

mutex_lock_NoWait(t)  == Locked(t, t)
mutex_lock(t)         == mutex = 0 /\ Locked(t, t)
mutex_unlock_Noop(t)  == mutex = t /\ Drained(t) /\ UNCHANGED memoryVars
mutex_unlock(t)       == mutex = t /\ Locked(t, 0)

(* The lock before the loop.                                               *)
lock(t) == Goto(t, "lock", "release") /\ mutex_lock(t) /\ UNCHANGED locals

(* Every turn starts by letting the other thread in.                       *)
release(t) == Goto(t, "release", "acquire") /\ mutex_unlock(t) /\ UNCHANGED locals

acquire(t) == Goto(t, "acquire", "read1") /\ mutex_lock(t) /\ UNCHANGED locals

(* The unlock after the loop.                                              *)
unlock(t) == Goto(t, "unlock", "done") /\ mutex_unlock(t) /\ UNCHANGED locals

Step(t) ==
    \/ lock(t) \/ release(t) \/ acquire(t) \/ unlock(t)
    \/ BodyStep(t, "release", "unlock")
    \/ FlushStore(t)

(* All threads have returned from run and main has joined them.            *)
Joined == (\A t \in Thread : pc[t] = "done" /\ Drained(t)) /\ UNCHANGED vars

Next == (\E t \in Thread : Step(t)) \/ Joined

Spec == Init /\ [][Next]_vars

(* A thread that can go on moving is scheduled.  Nothing is assumed of the *)
(* order in which a mutex is granted.                                      *)
FairSpec == Spec /\ \A t \in Thread : WF_vars(Step(t))

-----------------------------------------------------------------------------
Pcs == Body \cup {"lock", "release", "acquire", "unlock", "done"}

(* The steps a thread takes while it owns the mutex.                       *)
Owning == Body \cup {"release", "unlock"}

(* Every variable has the type its declaration gives it.                   *)
TypeOK ==
    /\ pc \in [Thread -> Pcs]
    /\ DOMAIN mem = Loc
    /\ \A x \in Accounts : mem[x] \in Int_W
    /\ mutex \in Thread \cup {0}
    /\ buf \in [Thread -> Seq([loc : Accounts, val : Int_W])]
    /\ tmp1 \in [Thread -> Int_W] /\ tmp2 \in [Thread -> Int_W]
    /\ r \in [Thread -> Int_W] /\ count \in [Thread -> Int]

(* At most one thread is anywhere in a turn or holds back stores of one.   *)
OwnerAlone ==
    \A t \in Thread : pc[t] \in Owning \/ ~Drained(t) => mutex = t

(* No thread stops because it saw accounts that do not add up to zero.     *)
NobodySeesImbalance == \A t \in Thread : EndsByCount(t)

(* What thread t, or whoever runs after it, will find in the accounts.     *)
Seen(x) == IF mutex = 0 THEN mem[x] ELSE Load(mutex, x)
SeenAccnt2 == IF \E t \in Thread : MidTransfer(t) THEN SettledAccnt2
              ELSE Seen("accnt2")

(* Seen by the owner of the mutex, every turn of a loop is one atomic      *)
(* transfer between the accounts.                                          *)
Atomic == INSTANCE AtomicTransfer
            WITH account1 <- Seen("accnt1"), account2 <- SeenAccnt2
TurnsAreAtomic == Atomic!AtomicSpec

(* Every thread finishes its loop.                                         *)
AllFinish == \A t \in Thread : <>(pc[t] = "done")
=============================================================================
