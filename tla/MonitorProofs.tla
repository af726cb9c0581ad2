--------------------------- MODULE MonitorProofs ---------------------------
(***************************************************************************)
(* The time service's ring stays one ring under its two threads and the    *)
(* main thread, for any programs, periods and failures; and while each     *)
(* watching thread works on its own command, at most one process executes  *)
(* of a command that no shell waits for and that is watched once, and no   *)
(* healthy one is killed before something fails between its connect and    *)
(* its send.                                                               *)
(***************************************************************************)
EXTENDS Monitor, FiniteSetTheorems, TLAPS

-----------------------------------------------------------------------------
(* Rings of list_head.h.  M are the nodes that are in the ring.            *)

IsRing(M, r) ==
    \A n \in M : /\ r[n].next \in M /\ r[r[n].next].prev = n
                 /\ r[n].prev \in M /\ r[r[n].prev].next = n

(* A rank that grows from each node to the next, up to HEAD: M is one ring *)
(* through HEAD and not several.                                           *)
Ascends(M, r, rank) ==
    \A n \in M : r[n].next # HEAD => rank[r[n].next] > rank[n]

LEMMA AddTailKeepsRing ==
    ASSUME NEW N, HEAD \in N, NEW r \in [N -> [prev : N, next : N]],
           NEW M \in SUBSET N, HEAD \in M, IsRing(M, r), NEW new \in N \ M,
           NEW s, s = list_add_tail(r, new)
    PROVE  /\ s \in [N -> [prev : N, next : N]]
           /\ IsRing(M \cup {new}, s)
           /\ s[new].next = HEAD
           /\ s[r[HEAD].prev].next = new
           /\ \A n \in M : n # r[HEAD].prev => s[n].next = r[n].next
<1>1. PICK last : last = r[HEAD].prev
  OBVIOUS
<1>2. last \in M /\ r[last].next = HEAD
  BY <1>1 DEF IsRing
<1>4. s = [r EXCEPT ![HEAD].prev = new, ![new] = [prev |-> last, next |-> HEAD],
                    ![last].next = new]
  BY <1>1 DEF list_add_tail
<1>5. s \in [N -> [prev : N, next : N]]
  BY <1>1, <1>4
<1>6. /\ s[new].prev = last /\ s[new].next = HEAD
      /\ s[last].next = new /\ s[HEAD].prev = new
  BY <1>2, <1>4
<1>7. \A n \in M : /\ n # last => s[n].next = r[n].next
                   /\ n # HEAD => s[n].prev = r[n].prev
  BY <1>2, <1>4
<1>8. ASSUME NEW n \in M
      PROVE  /\ s[n].next \in M \cup {new} /\ s[s[n].next].prev = n
             /\ s[n].prev \in M \cup {new} /\ s[s[n].prev].next = n
  <2>1. s[n].next \in M \cup {new} /\ s[s[n].next].prev = n
    <3>1. CASE n = last
      BY <1>6, <3>1
    <3>2. CASE n # last
      <4>1. s[n].next = r[n].next /\ r[n].next \in M /\ r[r[n].next].prev = n
        BY <1>7, <3>2 DEF IsRing
      <4>2. r[n].next # HEAD
        BY <1>1, <3>2, <4>1
      <4> QED
        BY <1>7, <4>1, <4>2
    <3> QED
      BY <3>1, <3>2
  <2>2. s[n].prev \in M \cup {new} /\ s[s[n].prev].next = n
    <3>1. CASE n = HEAD
      BY <1>6, <3>1
    <3>2. CASE n # HEAD
      <4>1. s[n].prev = r[n].prev /\ r[n].prev \in M /\ r[r[n].prev].next = n
        BY <1>7, <3>2 DEF IsRing
      <4>2. r[n].prev # last
        BY <1>2, <3>2, <4>1
      <4> QED
        BY <1>7, <4>1, <4>2
    <3> QED
      BY <3>1, <3>2
  <2> QED
    BY <2>1, <2>2
<1>9. /\ s[new].next \in M \cup {new} /\ s[s[new].next].prev = new
      /\ s[new].prev \in M \cup {new} /\ s[s[new].prev].next = new
  BY <1>2, <1>6
<1>10. IsRing(M \cup {new}, s)
  BY <1>8, <1>9 DEF IsRing
<1> QED
  BY <1>1, <1>5, <1>6, <1>7, <1>10

LEMMA DelKeepsRing ==
    ASSUME NEW N, NEW r \in [N -> [prev : N, next : N]], NEW M \in SUBSET N,
           IsRing(M, r), NEW entry \in M, r[entry].next # entry,
           NEW s, s = list_del(r, entry)
    PROVE  /\ s \in [N -> [prev : N, next : N]]
           /\ IsRing(M \ {entry}, s)
           /\ r[entry].prev # entry
           /\ s[r[entry].prev].next = r[entry].next
           /\ \A n \in M \ {entry} : n # r[entry].prev => s[n].next = r[n].next
<1>1. PICK prev, next : prev = r[entry].prev /\ next = r[entry].next
  OBVIOUS
<1>2. /\ prev \in M \ {entry} /\ next \in M \ {entry}
      /\ r[prev].next = entry /\ r[next].prev = entry
  BY <1>1 DEF IsRing
<1>4. s = [[r EXCEPT ![next].prev = prev, ![prev].next = next]
              EXCEPT ![entry] = [prev |-> entry, next |-> entry]]
  BY <1>1 DEF list_del, INIT_LIST_HEAD
<1>5. s \in [N -> [prev : N, next : N]]
  BY <1>2, <1>4
<1>6. s[prev].next = next /\ s[next].prev = prev
  BY <1>2, <1>4
<1>7. \A n \in M \ {entry} : /\ n # prev => s[n].next = r[n].next
                             /\ n # next => s[n].prev = r[n].prev
  BY <1>2, <1>4
<1>8. ASSUME NEW n \in M \ {entry}
      PROVE  /\ s[n].next \in M \ {entry} /\ s[s[n].next].prev = n
             /\ s[n].prev \in M \ {entry} /\ s[s[n].prev].next = n
  <2>1. s[n].next \in M \ {entry} /\ s[s[n].next].prev = n
    <3>1. CASE n = prev
      BY <1>2, <1>6, <3>1
    <3>2. CASE n # prev
      <4>1. s[n].next = r[n].next /\ r[n].next \in M /\ r[r[n].next].prev = n
        BY <1>7, <3>2 DEF IsRing
      <4>2. r[n].next # entry /\ r[n].next # next
        BY <1>1, <1>2, <3>2, <4>1
      <4> QED
        BY <1>7, <4>1, <4>2
    <3> QED
      BY <3>1, <3>2
  <2>2. s[n].prev \in M \ {entry} /\ s[s[n].prev].next = n
    <3>1. CASE n = next
      BY <1>2, <1>6, <3>1
    <3>2. CASE n # next
      <4>1. s[n].prev = r[n].prev /\ r[n].prev \in M /\ r[r[n].prev].next = n
        BY <1>7, <3>2 DEF IsRing
      <4>2. r[n].prev # entry /\ r[n].prev # prev
        BY <1>1, <1>2, <3>2, <4>1
      <4> QED
        BY <1>7, <4>1, <4>2
    <3> QED
      BY <3>1, <3>2
  <2> QED
    BY <2>1, <2>2
<1> QED
  BY <1>1, <1>2, <1>5, <1>6, <1>7, <1>8 DEF IsRing

-----------------------------------------------------------------------------
(* The inductive invariant, first part: whatever the size of an entry.     *)

(* The pids in use are the first ones.                                     *)
PidsInOrder == \E n \in 0 .. MaxPid : \A p \in Pid : proc[p].st # "none" <=> p <= n

(* A pid not in use looks as it did at first.                              *)
StartedOrNot ==
    \A p \in Pid : IF proc[p].st = "none" THEN proc[p] = NotStarted
                                          ELSE proc[p].cmd \in Command

(* Who has connected has been started.                                     *)
SendersStarted == \A i \in 1 .. Len(backlog) : proc[backlog[i].pid].st # "none"

(* The main thread's local variables at each line; and msg, once it has    *)
(* been received, is about a process that has been started.                *)
MainKnows ==
    /\ main.pc = "find"   => main.i > 0
    /\ main.pc = "stamp"  => main.i \in 1 .. Len(list.CONTROLED)
    /\ main.pc = "insert" => main.type = "REQUEST_TIME_SRV"
    /\ main.type \in {"NEW_PROC", "REQUEST_TIME_SRV"} =>
           main.pid \in Pid /\ proc[main.pid].st # "none"

(* A thread about to store a pid has one.                                  *)
NewIsKnown ==
    \A type \in Type : \A k \in 1 .. Len(thread[type]) :
        thread[type][k].pc = "store" => thread[type][k].new \in Pid

(* The ring is one ring of HEAD and the entries in use.                    *)
Linked == {HEAD} \cup {n \in Node : cli[n] # NoPid}

RingIsWhole ==
    /\ IsRing(Linked, ring)
    /\ \E rank \in [{HEAD} \cup Node -> Nat] : Ascends(Linked, ring, rank)

(* Who goes through the ring holds the lock, and its cursor is two         *)
(* neighbours.                                                             *)
CursorsHoldLock ==
    \A t \in Server :
        /\ timesvc[t].pc = "scan" => /\ lock = t
                                     /\ timesvc[t].at.pos \in Linked
                                     /\ timesvc[t].at.n = ring[timesvc[t].at.pos].next
        /\ timesvc[t].pc = "sleep" => lock # t

ServiceInv == /\ TypeOK /\ PidsInOrder /\ StartedOrNot /\ SendersStarted
              /\ MainKnows /\ NewIsKnown /\ RingIsWhole /\ CursorsHoldLock

-----------------------------------------------------------------------------
(* Constants and pids.                                                     *)

LEMMA Constants ==
    /\ MaxPid \in Nat \ {0} /\ MaxSubmitted \in Nat \ {0} /\ MaxFaults \in Nat
    /\ Timeout \in Nat \ {0} /\ HeartbeatPeriod \in Nat \ {0}
    /\ ControlledPeriod \in Nat \ {0} /\ NormalPeriod \in Nat \ {0}
    /\ TimesvcPeriod \in Nat \ {0} /\ WakeupTime \in Nat \ {0}
    /\ ClientSleep \in Nat \ {0} /\ EntrySize \in Nat \ {0}
    /\ HeartbeatPeriod < Timeout
<1>1. {MaxPid, MaxSubmitted} \subseteq Nat \ {0} /\ {MaxFaults, QLEN} \subseteq Nat
  BY MonitorAssumption
<1>2. MaxPid \in Nat \ {0} /\ MaxSubmitted \in Nat \ {0} /\ MaxFaults \in Nat
  BY <1>1
<1> QED
  BY <1>2, MonitorAssumption

LEMMA Pids ==
    /\ Pid \subseteq Nat \ {0} /\ NoPid \notin Pid
    /\ Node \subseteq Nat \ {0} /\ HEAD \notin Node /\ Free \notin Server
  BY Constants DEF Pid, NoPid, Node, HEAD, Free, Server

LEMMA IndexInList ==
    ASSUME NEW k \in Nat \ {0}
    PROVE  INDEX_OF(k) \in 1 .. k
<1>1. PICK a \in Nat : a = k - 1
  OBVIOUS
<1>2. PICK b \in Nat \ {0} : b = EntrySize
  BY Constants
<1>3. a \div b \in Nat /\ a \div b <= a
  <2>1. a \div b \in Int /\ b * (a \div b) <= a /\ a < b * ((a \div b) + 1)
    BY <1>1, <1>2
  <2>2. PICK q \in Int : q = a \div b
    BY <2>1
  <2>3. b * q <= a /\ a < b * (q + 1)
    BY <2>1, <2>2
  <2>4. q >= 0
    <3>1. SUFFICES ASSUME q + 1 <= 0 PROVE FALSE
      OBVIOUS
    <3>2. b * (q + 1) <= 0
      BY <3>1
    <3> QED
      BY <2>3, <3>2
  <2>5. q <= b * q
    BY <2>4
  <2> QED
    BY <2>2, <2>3, <2>4, <2>5
<1> QED
  BY <1>1, <1>2, <1>3 DEF INDEX_OF

(* The next pid is the first that is not in use.                           *)
LEMMA NextPidIs ==
    ASSUME NEW n \in 0 .. MaxPid, \A p \in Pid : proc[p].st # "none" <=> p <= n
    PROVE  NextPid = n + 1
<1>1. {p \in Pid : proc[p].st # "none"} = 1 .. n
  BY Constants DEF Pid
<1>2. Cardinality(1 .. n) = n
  BY FS_Interval, Constants
<1>3. Cardinality({p \in Pid : proc[p].st # "none"}) = n
  BY <1>1, <1>2, Zenon
<1> QED
  BY <1>3 DEF NextPid

LEMMA NextPidIsNew ==
    ASSUME PidsInOrder, NextPid \in Pid
    PROVE  proc[NextPid].st = "none"
<1>1. PICK n \in 0 .. MaxPid : \A p \in Pid : proc[p].st # "none" <=> p <= n
  BY DEF PidsInOrder
<1>2. NextPid = n + 1
  BY <1>1, NextPidIs
<1> QED
  BY <1>1, <1>2, Pids

LEMMA StartedType ==
    ASSUME NEW c \in Command, NEW by \in {"client", "server"}
    PROVE  /\ Started(c, by) \in Process
           /\ Started(c, by).st = "run" /\ Started(c, by).cmd = c
           /\ Started(c, by).req = "send" /\ Started(c, by).beat = 0
<1>1. PICK due \in 0 .. WakeupTime : due = IF c \in Controlled THEN WakeupTime ELSE 0
  BY Constants
<1>2. PICK blank : blank = [st |-> "none", cmd |-> NoPid, by |-> "client", beat |-> 0,
                            due |-> 0, req |-> "send", nap |-> 0]
  OBVIOUS
<1>3. Started(c, by) = [blank EXCEPT !.st = "run", !.cmd = c, !.by = by, !.due = due]
  BY <1>1, <1>2 DEF Started, NotStarted
<1>4. Started(c, by) = [st |-> "run", cmd |-> c, by |-> by, beat |-> 0, due |-> due,
                        req |-> "send", nap |-> 0]
  BY <1>2, <1>3
<1> QED
  BY <1>4, Constants DEF Process

-----------------------------------------------------------------------------
(* The backlog.                                                            *)

LEMMA Queued ==
    ASSUME TypeOK
    PROVE  /\ backlog \in Seq(Connection) /\ Len(backlog) \in Nat
           /\ DOMAIN backlog = 1 .. Len(backlog)
           /\ \A i \in 1 .. Len(backlog) :
                  backlog[i] \in Connection /\ backlog[i].pid \in Pid
<1>1. backlog \in Seq(Connection)
  BY DEF TypeOK
<1>2. \A i \in 1 .. Len(backlog) : backlog[i] \in Connection
  BY <1>1
<1> QED
  BY <1>1, <1>2 DEF Connection

(* The same connections, in whatever state.                                *)
SameSenders(b) ==
    /\ b \in Seq(Connection) /\ Len(b) = Len(backlog)
    /\ \A i \in 1 .. Len(backlog) : /\ b[i].type = backlog[i].type
                                    /\ b[i].pid = backlog[i].pid

LEMMA OneConnects ==
    ASSUME TypeOK, NEW type \in MsgType, NEW p \in Pid,
           NEW b, b = Append(backlog, [type |-> type, pid |-> p, st |-> "open"])
    PROVE  /\ b \in Seq(Connection) /\ Len(b) = Len(backlog) + 1
           /\ \A i \in 1 .. Len(backlog) : b[i] = backlog[i]
           /\ b[Len(backlog) + 1] = [type |-> type, pid |-> p, st |-> "open"]
<1>1. [type |-> type, pid |-> p, st |-> "open"] \in Connection /\ backlog \in Seq(Connection)
  BY DEF Connection, TypeOK
<1> QED
  BY <1>1

LEMMA OneChanges ==
    ASSUME TypeOK, NEW i \in DOMAIN backlog, NEW st \in {"sent", "eof", "stuck"},
           NEW b, b = [backlog EXCEPT ![i].st = st]
    PROVE  /\ SameSenders(b) /\ b[i].st = st
           /\ \A j \in 1 .. Len(backlog) : j # i => b[j] = backlog[j]
<1>1. backlog \in Seq(Connection) /\ i \in 1 .. Len(backlog) /\ backlog[i] \in Connection
  BY Queued
<1>2. PICK c : c = [backlog[i] EXCEPT !.st = st]
  OBVIOUS
<1>3. c \in Connection /\ c.type = backlog[i].type /\ c.pid = backlog[i].pid /\ c.st = st
  BY <1>1, <1>2 DEF Connection
<1>4. b = [backlog EXCEPT ![i] = c]
  BY <1>2
<1>5. /\ b \in Seq(Connection) /\ Len(b) = Len(backlog) /\ b[i] = c
      /\ \A j \in 1 .. Len(backlog) : j # i => b[j] = backlog[j]
  BY <1>1, <1>3, <1>4
<1> QED
  BY <1>3, <1>5 DEF SameSenders

LEMMA LeftIs ==
    ASSUME TypeOK, NEW p \in Pid, NEW st \in {"eof", "stuck"}, NEW b, b = Left(p, st)
    PROVE  /\ SameSenders(b)
           /\ \A i \in 1 .. Len(backlog) :
                  b[i] = backlog[i] \/ (b[i].st = st /\ backlog[i].pid = p)
<1>1. /\ backlog \in Seq(Connection) /\ DOMAIN backlog = 1 .. Len(backlog)
      /\ Len(backlog) \in Nat
  BY Queued
<1>2. ASSUME NEW i \in 1 .. Len(backlog)
      PROVE  /\ b[i] \in Connection /\ b[i].type = backlog[i].type
             /\ b[i].pid = backlog[i].pid
             /\ b[i] = backlog[i] \/ (b[i].st = st /\ backlog[i].pid = p)
  <2>1. PICK old \in Connection : old = backlog[i]
    BY <1>1
  <2>2. PICK c : c = [old EXCEPT !.st = st]
    OBVIOUS
  <2>3. c \in Connection /\ c.type = old.type /\ c.pid = old.pid /\ c.st = st
    BY <2>2 DEF Connection
  <2>4. b[i] = old \/ (b[i] = c /\ old.pid = p)
    BY <1>1, <2>1, <2>2 DEF Left
  <2> QED
    BY <2>1, <2>3, <2>4
<1>3. b \in [1 .. Len(backlog) -> Connection]
  BY <1>1, <1>2 DEF Left
<1>4. b \in Seq(Connection) /\ Len(b) = Len(backlog)
  BY <1>1, <1>3
<1> QED
  BY <1>2, <1>4 DEF SameSenders

(* The main thread's next message: a connection's own, or the one before.  *)
LEMMA Accepting ==
    ASSUME TypeOK, NEW type, Accepts(type)
    PROVE  /\ backlog' \in Seq(Connection) /\ up /\ main.pc = "accept"
           /\ Len(backlog) \in Nat \ {0} /\ Len(backlog') = Len(backlog) - 1
           /\ 1 \in 1 .. Len(backlog)
           /\ \A i \in 1 .. Len(backlog') : /\ i + 1 \in 1 .. Len(backlog)
                                            /\ backlog'[i] = backlog[i + 1]
           /\ faults' \in 0 .. MaxFaults /\ faults' >= faults /\ UNCHANGED <<up, cut>>
           /\ type \in MsgType \cup {"none"} /\ Msg.type = type
           /\ \/ Eof /\ Msg.type = main.type /\ Msg.pid = main.pid
              \/ ~Eof /\ Msg.type = backlog[1].type /\ Msg.pid \in {backlog[1].pid, NoPid}
                      /\ (type # "HEARTBEAT_SIGNAL" => Msg.pid = backlog[1].pid)
<1>1. /\ backlog \in Seq(Connection) /\ backlog # <<>> /\ backlog' = Tail(backlog)
      /\ up /\ main.pc = "accept" /\ UNCHANGED <<up, cut>> /\ Msg.type = type
  BY DEF Accepts, TypeOK
<1>2. Len(backlog) \in Nat \ {0} /\ backlog[1] \in Connection
  BY <1>1
<1>3. faults' \in 0 .. MaxFaults /\ faults' >= faults
  <2>1. faults \in 0 .. MaxFaults /\ MaxFaults \in Nat
    BY Constants DEF TypeOK
  <2>2. faults' = faults \/ (faults < MaxFaults /\ faults' = faults + 1)
    BY DEF Accepts
  <2> QED
    BY <2>1, <2>2
<1>4. CASE Eof
  <2>1. Msg.type = main.type /\ Msg.pid = main.pid
    BY <1>4 DEF Msg
  <2>2. main.type \in MsgType \cup {"none"}
    BY DEF TypeOK
  <2> QED
    BY <1>1, <1>2, <1>3, <1>4, <2>1, <2>2
<1>5. CASE ~Eof
  <2>1. Msg = [type |-> backlog[1].type, pid |-> Says(backlog[1])]
    BY <1>5 DEF Msg
  <2>2. Msg.type = backlog[1].type /\ Msg.pid = Says(backlog[1])
    BY <2>1
  <2>3. /\ Says(backlog[1]) \in {backlog[1].pid, NoPid}
        /\ backlog[1].type # "HEARTBEAT_SIGNAL" => Says(backlog[1]) = backlog[1].pid
    BY DEF Says
  <2>4. backlog[1].type \in MsgType
    BY <1>2 DEF Connection
  <2> QED
    BY <1>1, <1>2, <1>3, <1>5, <2>2, <2>3, <2>4
<1> QED
  BY <1>4, <1>5

(* Of a process that has been started, unless it is a sign of life.        *)
LEMMA MsgIs ==
    ASSUME TypeOK, SendersStarted, MainKnows, NEW type, Accepts(type)
    PROVE  /\ Msg.pid \in Pid \cup {NoPid}
           /\ type \in {"NEW_PROC", "REQUEST_TIME_SRV"} =>
                  Msg.pid \in Pid /\ proc[Msg.pid].st # "none"
<1>1. /\ 1 \in 1 .. Len(backlog) /\ backlog[1].pid \in Pid
      /\ proc[backlog[1].pid].st # "none" /\ main.pid \in Pid \cup {NoPid}
  BY Accepting, Queued DEF SendersStarted, TypeOK
<1>2. /\ Msg.type = type
      /\ \/ Eof /\ Msg.type = main.type /\ Msg.pid = main.pid
         \/ ~Eof /\ Msg.type = backlog[1].type /\ Msg.pid \in {backlog[1].pid, NoPid}
                 /\ (type # "HEARTBEAT_SIGNAL" => Msg.pid = backlog[1].pid)
  BY Accepting
<1> QED
  BY <1>1, <1>2 DEF MainKnows

-----------------------------------------------------------------------------
(* What a step leaves alone.                                               *)

LEMMA RingKept ==
    ASSUME RingIsWhole, CursorsHoldLock, UNCHANGED <<ring, cli, lock, timesvc>>
    PROVE  RingIsWhole' /\ CursorsHoldLock'
<1>1. /\ ring' = ring /\ cli' = cli /\ lock' = lock /\ timesvc' = timesvc
      /\ Linked' = Linked
  BY DEF Linked
<1>2. RingIsWhole'
  BY <1>1 DEF RingIsWhole, IsRing, Ascends
<1>3. CursorsHoldLock'
  BY <1>1 DEF CursorsHoldLock
<1> QED
  BY <1>2, <1>3

StartedStay == \A p \in Pid : proc[p].st # "none" => proc'[p].st # "none"

LEMMA MainKept ==
    ASSUME MainKnows, StartedStay, UNCHANGED main,
           Len(list'.CONTROLED) = Len(list.CONTROLED)
    PROVE  MainKnows'
  BY DEF MainKnows, StartedStay

LEMMA NewKept ==
    ASSUME NewIsKnown, UNCHANGED thread
    PROVE  NewIsKnown'
  BY DEF NewIsKnown

LEMMA SendersKept ==
    ASSUME TypeOK, SendersStarted, StartedStay, backlog' = backlog \/ SameSenders(backlog')
    PROVE  SendersStarted'
<1>1. \A i \in 1 .. Len(backlog) : backlog[i].pid \in Pid
  BY Queued
<1>2. /\ Len(backlog') = Len(backlog)
      /\ \A i \in 1 .. Len(backlog) : backlog'[i].pid = backlog[i].pid
  BY DEF SameSenders
<1> QED
  BY <1>1, <1>2 DEF SendersStarted, StartedStay

LEMMA BacklogType ==
    ASSUME TypeOK, backlog' = backlog \/ SameSenders(backlog')
    PROVE  backlog' \in Seq(Connection)
  BY DEF TypeOK, SameSenders

(* No process begins, and none becomes another.                            *)
NoneBegins == \A p \in Pid : /\ proc'[p].st = "none" <=> proc[p].st = "none"
                             /\ proc'[p].st = "none" => proc'[p] = proc[p]
                             /\ proc'[p].cmd = proc[p].cmd

LEMMA PidsKept ==
    ASSUME PidsInOrder, StartedOrNot, NoneBegins
    PROVE  PidsInOrder' /\ StartedOrNot' /\ StartedStay
<1>1. PICK n \in 0 .. MaxPid : \A p \in Pid : proc[p].st # "none" <=> p <= n
  BY DEF PidsInOrder
<1>2. \A p \in Pid : proc'[p].st # "none" <=> p <= n
  BY <1>1 DEF NoneBegins
<1>3. PidsInOrder'
  BY <1>2 DEF PidsInOrder
<1>4. StartedOrNot' /\ StartedStay
  BY DEF StartedOrNot, NoneBegins, NotStarted, StartedStay
<1> QED
  BY <1>3, <1>4

(* The steps that change processes and connections only.                   *)
LEMMA ProgramStep ==
    ASSUME ServiceInv, proc' \in [Pid -> Process], PidsInOrder', StartedOrNot', StartedStay,
           backlog' \in Seq(Connection), SendersStarted',
           faults' \in 0 .. MaxFaults, cut' \in BOOLEAN,
           UNCHANGED <<main, up, list, thread, ring, cli, hungup, lock, timesvc>>
    PROVE  ServiceInv'
<1> USE DEF ServiceInv
<1>1. TypeOK'
  BY DEF TypeOK
<1>2. MainKnows' /\ NewIsKnown' /\ RingIsWhole' /\ CursorsHoldLock'
  BY MainKept, NewKept, RingKept
<1> QED
  BY <1>1, <1>2

-----------------------------------------------------------------------------
(* The steps.                                                              *)

LEMMA ServiceInit == Init => ServiceInv
<1> SUFFICES ASSUME Init PROVE ServiceInv
  OBVIOUS
<1> USE DEF Init
<1>1. TypeOK
  <2>1. NotStarted \in Process
    BY Constants DEF NotStarted, Process
  <2>2. proc \in [Pid -> Process]
    BY <2>1
  <2>3. /\ backlog \in Seq(Connection)
        /\ list \in [Type -> Seq(ThreadProc)] /\ thread \in [Type -> Seq(ThreadPos)]
        /\ \A type \in Type : Len(thread[type]) = 0 /\ Len(list[type]) = 0
    OBVIOUS
  <2>4. main \in [pc : {"accept", "find", "stamp", "insert"},
                  i : 0 .. Len(list.CONTROLED) + 1, type : MsgType \cup {"none"},
                  pid : Pid \cup {NoPid}, eof : BOOLEAN]
    BY <2>3 DEF Type
  <2>5. /\ ring \in [{HEAD} \cup Node -> Links] /\ cli \in [Node -> Pid \cup {NoPid}]
        /\ hungup \subseteq Node
    BY DEF Links
  <2>6. timesvc \in [Server -> [pc : {"sleep", "scan"}, left : 0 .. TimesvcPeriod,
                                at : Cursor]]
    BY Constants DEF Cursor, NoCursor
  <2>7. faults \in 0 .. MaxFaults
    BY Constants
  <2>8. up \in BOOLEAN /\ lock \in Server \cup {Free} /\ cut \in BOOLEAN
    OBVIOUS
  <2> QED
    BY <2>2, <2>3, <2>4, <2>5, <2>6, <2>7, <2>8 DEF TypeOK
<1>2. PidsInOrder
  <2>1. \A p \in Pid : proc[p].st # "none" <=> p <= 0
    BY Pids DEF NotStarted
  <2> QED
    BY <2>1, Constants DEF PidsInOrder
<1>3. StartedOrNot /\ SendersStarted /\ MainKnows /\ NewIsKnown
  BY DEF StartedOrNot, SendersStarted, MainKnows, NewIsKnown, NotStarted
<1>4. RingIsWhole
  <2>1. Linked = {HEAD} /\ ring[HEAD] = [prev |-> HEAD, next |-> HEAD]
    BY DEF Linked
  <2>2. [n \in {HEAD} \cup Node |-> 0] \in [{HEAD} \cup Node -> Nat]
    OBVIOUS
  <2> QED
    BY <2>1, <2>2 DEF RingIsWhole, IsRing, Ascends
<1>5. CursorsHoldLock
  BY Pids DEF CursorsHoldLock
<1> QED
  BY <1>1, <1>2, <1>3, <1>4, <1>5 DEF ServiceInv

(* A new process, at the next pid.                                         *)
LEMMA ProcessBegins ==
    ASSUME TypeOK, PidsInOrder, StartedOrNot, NEW c \in Command, MayStart(c),
           NEW by \in {"client", "server"}, exec_cmdline(c, by)
    PROVE  /\ proc' \in [Pid -> Process] /\ PidsInOrder' /\ StartedOrNot' /\ StartedStay
           /\ NextPid \in Pid /\ proc[NextPid].st = "none"
           /\ proc'[NextPid].st = "run" /\ proc'[NextPid].cmd = c
           /\ \A p \in Pid \ {NextPid} : proc'[p] = proc[p]
<1>1. PICK n \in 0 .. MaxPid : \A p \in Pid : proc[p].st # "none" <=> p <= n
  BY DEF PidsInOrder
<1>2. PICK new \in Pid : new = NextPid
  BY DEF MayStart
<1>3. new = n + 1
  BY <1>1, <1>2, NextPidIs
<1>4. PICK rec \in Process : /\ rec = Started(c, by)
                             /\ rec.st = "run" /\ rec.cmd = c
  BY StartedType
<1>5. proc \in [Pid -> Process] /\ proc' = [proc EXCEPT ![new] = rec]
  BY <1>2, <1>4 DEF exec_cmdline, TypeOK
<1>6. /\ proc' \in [Pid -> Process] /\ proc'[new] = rec
      /\ \A p \in Pid \ {new} : proc'[p] = proc[p]
  BY <1>5
<1>7. proc[new].st = "none"
  BY <1>1, <1>3, Pids
<1>8. PidsInOrder'
  <2>1. ASSUME NEW p \in Pid PROVE proc'[p].st # "none" <=> p <= n + 1
    <3>1. p \in Nat
      BY Pids
    <3>2. CASE p = new
      BY <1>3, <1>4, <1>6, <3>2
    <3>3. CASE p # new
      <4>1. proc'[p] = proc[p] /\ p # n + 1
        BY <1>3, <1>6, <3>3
      <4>2. proc[p].st # "none" <=> p <= n
        BY <1>1
      <4> QED
        BY <3>1, <4>1, <4>2
    <3> QED
      BY <3>2, <3>3
  <2>2. n + 1 \in 0 .. MaxPid
    BY <1>2, <1>3, Constants DEF Pid
  <2> QED
    BY <2>1, <2>2 DEF PidsInOrder
<1>9. StartedOrNot' /\ StartedStay
  BY <1>4, <1>6 DEF StartedOrNot, StartedStay, NotStarted
<1> QED
  BY <1>2, <1>4, <1>6, <1>7, <1>8, <1>9

LEMMA ProcessChanges ==
    ASSUME TypeOK, NEW p \in Pid, NEW new \in Process, proc' = [proc EXCEPT ![p] = new],
           proc[p].st # "none", new.st # "none", new.cmd = proc[p].cmd
    PROVE  /\ proc' \in [Pid -> Process] /\ NoneBegins /\ proc'[p] = new
           /\ \A q \in Pid \ {p} : proc'[q] = proc[q]
  BY DEF TypeOK, NoneBegins

(* One that ends, or stops.                                                *)
LEMMA StoppedIs ==
    ASSUME TypeOK, NEW p \in Pid, Executes(p), NEW st \in {"zombie", "gone", "hung"},
           proc' = Stopped(p, st)
    PROVE  /\ proc' \in [Pid -> Process] /\ NoneBegins /\ proc'[p].st = st
           /\ \A q \in Pid \ {p} : proc'[q] = proc[q]
<1>1. PICK old \in Process : old = proc[p]
  BY DEF TypeOK
<1>2. 0 \in 0 .. HeartbeatPeriod /\ 0 \in 0 .. ClientSleep
  BY Constants
<1>3. PICK a \in Process : a = [old EXCEPT !.st = st]
  BY DEF Process
<1>4. PICK b \in Process : b = [a EXCEPT !.beat = 0]
  BY <1>2 DEF Process
<1>5. PICK new \in Process : new = [b EXCEPT !.nap = 0]
  BY <1>2 DEF Process
<1>6. new.st = st /\ new.cmd = old.cmd
  BY <1>3, <1>4, <1>5 DEF Process
<1>7. proc' = [proc EXCEPT ![p] = new]
  BY <1>1, <1>3, <1>4, <1>5 DEF Stopped
<1>8. new.st # "none" /\ proc[p].st # "none"
  BY <1>6 DEF Executes
<1> QED
  BY <1>1, <1>6, <1>7, <1>8, ProcessChanges

(* One that beats, sleeps or begins to wait.                               *)
LEMMA ProgramSays ==
    ASSUME TypeOK, NEW p \in Pid, Runs(p),
           \/ proc' = Beaten(p)
           \/ proc' = [proc EXCEPT ![p].nap = ClientSleep]
           \/ proc' = [proc EXCEPT ![p].req = "wait"]
    PROVE  /\ proc' \in [Pid -> Process] /\ NoneBegins /\ proc'[p].st = "run"
           /\ proc' = Beaten(p) => proc'[p].beat = HeartbeatPeriod
           /\ proc'[p].beat \in {proc[p].beat, HeartbeatPeriod}
           /\ \A q \in Pid \ {p} : proc'[q] = proc[q]
<1>1. PICK old \in Process : old = proc[p]
  BY DEF TypeOK
<1>2. HeartbeatPeriod \in 0 .. HeartbeatPeriod /\ ClientSleep \in 0 .. ClientSleep
  BY Constants
<1>3. PICK new : /\ \/ new = [old EXCEPT !.beat = HeartbeatPeriod]
                    \/ new = [old EXCEPT !.nap = ClientSleep] /\ proc' # Beaten(p)
                    \/ new = [old EXCEPT !.req = "wait"] /\ proc' # Beaten(p)
                 /\ proc' = [proc EXCEPT ![p] = new]
  <2>1. CASE proc' = Beaten(p)
    BY <1>1, <2>1 DEF Beaten
  <2>2. CASE proc' # Beaten(p)
    BY <1>1, <2>2
  <2> QED
    BY <2>1, <2>2
<1>4. /\ new \in Process /\ new.st = old.st /\ new.cmd = old.cmd
      /\ proc' = Beaten(p) => new.beat = HeartbeatPeriod
      /\ new.beat \in {old.beat, HeartbeatPeriod}
  BY <1>2, <1>3 DEF Process
<1>5. old.st = "run"
  BY <1>1 DEF Runs
<1>6. proc[p].st # "none" /\ new.st # "none" /\ new.cmd = proc[p].cmd
  BY <1>1, <1>4, <1>5
<1>7. /\ proc' \in [Pid -> Process] /\ NoneBegins /\ proc'[p] = new
      /\ \A q \in Pid \ {p} : proc'[q] = proc[q]
  BY <1>3, <1>4, <1>6, ProcessChanges
<1> QED
  BY <1>1, <1>4, <1>5, <1>7

LEMMA start_clientStep ==
    ASSUME ServiceInv, NEW c \in Command, start_client(c)
    PROVE  ServiceInv'
<1> USE DEF ServiceInv
<1>1. /\ MayStart(c) /\ exec_cmdline(c, "client")
      /\ backlog' = Append(backlog, [type |-> "NEW_PROC", pid |-> NextPid, st |-> "open"])
      /\ UNCHANGED <<main, up, faults, cut, list, thread, ring, cli, hungup, lock, timesvc>>
  BY DEF start_client, system, watches, service
<1>2. /\ proc' \in [Pid -> Process] /\ PidsInOrder' /\ StartedOrNot' /\ StartedStay
      /\ NextPid \in Pid /\ proc'[NextPid].st = "run"
  BY <1>1, ProcessBegins
<1>3. /\ backlog' \in Seq(Connection) /\ Len(backlog') = Len(backlog) + 1
      /\ \A i \in 1 .. Len(backlog) : backlog'[i] = backlog[i]
      /\ backlog'[Len(backlog) + 1].pid = NextPid
  <2>1. PICK new \in Pid : new = NextPid
    BY <1>2
  <2>2. "NEW_PROC" \in MsgType
    BY DEF MsgType
  <2>3. /\ backlog' \in Seq(Connection) /\ Len(backlog') = Len(backlog) + 1
        /\ \A i \in 1 .. Len(backlog) : backlog'[i] = backlog[i]
        /\ backlog'[Len(backlog) + 1] = [type |-> "NEW_PROC", pid |-> new, st |-> "open"]
    BY <1>1, <2>1, <2>2, OneConnects
  <2> QED
    BY <2>1, <2>3
<1>4. SendersStarted'
  BY <1>2, <1>3, Queued DEF SendersStarted, StartedStay
<1>5. faults' \in 0 .. MaxFaults /\ cut' \in BOOLEAN
  BY <1>1 DEF TypeOK
<1> QED
  BY <1>1, <1>2, <1>3, <1>4, <1>5, ProgramStep

(* A program connects, or finds no server.                                 *)
LEMMA ConnectStep ==
    ASSUME ServiceInv, NEW p \in Pid, run_heartbeat(p) \/ run_timesvc_cli(p)
    PROVE  ServiceInv'
<1> USE DEF ServiceInv
<1>1. PICK type, failed :
         /\ cli_conn(type, p, failed) /\ type \in MsgType
         /\ failed \in {Beaten(p), [proc EXCEPT ![p].nap = ClientSleep]}
  BY DEF run_heartbeat, run_timesvc_cli, MsgType
<1>0. type \in MsgType
  BY <1>1
<1>2. /\ Runs(p)
      /\ UNCHANGED <<main, up, faults, cut, list, thread, ring, cli, hungup, lock, timesvc>>
  BY DEF run_heartbeat, run_timesvc_cli, system, watches, service
<1>3. faults' \in 0 .. MaxFaults /\ cut' \in BOOLEAN
  BY <1>2 DEF TypeOK
<1>4. CASE up
  <2>1. /\ proc' = proc
        /\ backlog' = Append(backlog, [type |-> type, pid |-> p, st |-> "open"])
    BY <1>1, <1>4 DEF cli_conn
  <2>2. proc' \in [Pid -> Process] /\ PidsInOrder' /\ StartedOrNot' /\ StartedStay
    BY <2>1, PidsKept DEF TypeOK, NoneBegins
  <2>3. /\ backlog' \in Seq(Connection) /\ Len(backlog') = Len(backlog) + 1
        /\ \A i \in 1 .. Len(backlog) : backlog'[i] = backlog[i]
        /\ backlog'[Len(backlog) + 1] = [type |-> type, pid |-> p, st |-> "open"]
    BY <1>0, <2>1, OneConnects
  <2>4. SendersStarted'
    BY <1>2, <2>1, <2>3, Queued DEF SendersStarted, Runs
  <2> QED
    BY <1>2, <1>3, <2>2, <2>3, <2>4, ProgramStep
<1>5. CASE ~up
  <2>1. backlog' = backlog /\ proc' \in [Pid -> Process] /\ NoneBegins
    <3>1. backlog' = backlog /\ proc' = failed
      BY <1>1, <1>5 DEF cli_conn
    <3>2. proc' = Beaten(p) \/ proc' = [proc EXCEPT ![p].nap = ClientSleep]
      BY <1>1, <3>1
    <3> QED
      BY <1>2, <3>1, <3>2, ProgramSays
  <2>2. PidsInOrder' /\ StartedOrNot' /\ StartedStay
    BY <2>1, PidsKept
  <2>3. backlog' \in Seq(Connection) /\ SendersStarted'
    BY <2>1, <2>2, BacklogType, SendersKept
  <2> QED
    BY <1>2, <1>3, <2>1, <2>2, <2>3, ProgramStep
<1> QED
  BY <1>4, <1>5

(* A program sends its message, or is stopped by SIGPIPE.                  *)
LEMMA Sending ==
    ASSUME TypeOK, NEW type, NEW p \in Pid, NEW sent, cli_send_msg(type, p, sent)
    PROVE  /\ Runs(p) /\ SameSenders(backlog')
           /\ \E i \in 1 .. Len(backlog) :
                  /\ backlog[i] = [type |-> type, pid |-> p, st |-> "open"]
                  /\ up => /\ proc' = sent /\ backlog'[i].st = "sent"
                           /\ \A j \in 1 .. Len(backlog) : j # i => backlog'[j] = backlog[j]
           /\ ~up => proc' = Stopped(p, Dead(p))
<1>1. PICK i \in Open(type, p) :
         IF up THEN backlog' = [backlog EXCEPT ![i].st = "sent"] /\ proc' = sent
               ELSE backlog' = Left(p, "eof") /\ proc' = Stopped(p, Dead(p))
  BY DEF cli_send_msg
<1>2. /\ i \in DOMAIN backlog /\ DOMAIN backlog = 1 .. Len(backlog)
      /\ backlog[i] = [type |-> type, pid |-> p, st |-> "open"]
  BY Queued DEF Open
<1>3. CASE up
  <2>1. backlog' = [backlog EXCEPT ![i].st = "sent"] /\ proc' = sent
    BY <1>1, <1>3
  <2>2. /\ SameSenders(backlog') /\ backlog'[i].st = "sent"
        /\ \A j \in 1 .. Len(backlog) : j # i => backlog'[j] = backlog[j]
    BY <1>2, <2>1, OneChanges
  <2> QED
    BY <1>2, <1>3, <2>1, <2>2 DEF cli_send_msg
<1>4. CASE ~up
  <2>1. backlog' = Left(p, "eof") /\ proc' = Stopped(p, Dead(p))
    BY <1>1, <1>4
  <2>2. SameSenders(backlog')
    BY <2>1, LeftIs
  <2> QED
    BY <1>2, <1>4, <2>1, <2>2 DEF cli_send_msg
<1> QED
  BY <1>3, <1>4

LEMMA SendStep ==
    ASSUME ServiceInv, NEW p \in Pid, run_heartbeat_send(p) \/ run_timesvc_cli_send(p)
    PROVE  ServiceInv'
<1> USE DEF ServiceInv
<1>1. PICK type, sent :
         /\ cli_send_msg(type, p, sent)
         /\ sent \in {Beaten(p), [proc EXCEPT ![p].req = "wait"]}
  BY DEF run_heartbeat_send, run_timesvc_cli_send
<1>2. UNCHANGED <<main, up, faults, cut, list, thread, ring, cli, hungup, lock, timesvc>>
  BY DEF run_heartbeat_send, run_timesvc_cli_send, system, watches, service
<1>3. Runs(p) /\ SameSenders(backlog')
  BY <1>1, Sending
<1>4. \/ proc' = Beaten(p) \/ proc' = [proc EXCEPT ![p].req = "wait"]
      \/ proc' = Stopped(p, Dead(p))
  BY <1>1, Sending
<1>5. proc' \in [Pid -> Process] /\ NoneBegins
  <2>1. CASE proc' = Stopped(p, Dead(p))
    <3>1. Executes(p) /\ Dead(p) \in {"zombie", "gone", "hung"}
      BY <1>3 DEF Runs, Executes, Dead
    <3> QED
      BY <2>1, <3>1, StoppedIs
  <2> QED
    BY <1>3, <1>4, <2>1, ProgramSays
<1>6. PidsInOrder' /\ StartedOrNot' /\ StartedStay
  BY <1>5, PidsKept
<1>7. backlog' \in Seq(Connection) /\ SendersStarted'
  BY <1>3, <1>6, BacklogType, SendersKept
<1>8. faults' \in 0 .. MaxFaults /\ cut' \in BOOLEAN
  BY <1>2 DEF TypeOK
<1> QED
  BY <1>2, <1>5, <1>6, <1>7, <1>8, ProgramStep

(* A client sends its message, or fails.                                   *)
LEMMA ClientStep ==
    ASSUME ServiceInv, NEW p \in Pid, start_client_send(p) \/ client_fault(p)
    PROVE  ServiceInv' /\ SameSenders(backlog')
<1> USE DEF ServiceInv
<1>1. UNCHANGED <<main, proc, up, list, thread, ring, cli, hungup, lock, timesvc>>
  BY DEF start_client_send, client_fault, system, watches, service
<1>2. PICK i \in DOMAIN backlog, st \in {"sent", "eof", "stuck"} :
          backlog' = [backlog EXCEPT ![i].st = st]
  BY DEF start_client_send, client_fault, Open
<1>3. SameSenders(backlog')
  BY <1>2, OneChanges
<1>4. proc' \in [Pid -> Process] /\ PidsInOrder' /\ StartedOrNot' /\ StartedStay
  BY <1>1, PidsKept DEF TypeOK, NoneBegins
<1>5. backlog' \in Seq(Connection) /\ SendersStarted'
  BY <1>3, <1>4, BacklogType, SendersKept
<1>6. faults' \in 0 .. MaxFaults /\ cut' \in BOOLEAN
  <2>1. faults \in 0 .. MaxFaults /\ MaxFaults \in Nat
    BY Constants DEF TypeOK
  <2>2. faults' = faults \/ (faults < MaxFaults /\ faults' = faults + 1)
    BY DEF start_client_send, client_fault, system
  <2>3. faults' \in 0 .. MaxFaults
    BY <2>1, <2>2
  <2>4. cut' \in BOOLEAN
    BY DEF start_client_send, client_fault, system, TypeOK
  <2> QED
    BY <2>3, <2>4
<1> QED
  BY <1>1, <1>3, <1>4, <1>5, <1>6, ProgramStep

LEMMA FaultStep ==
    ASSUME ServiceInv, NEW p \in Pid, crash(p) \/ hang(p)
    PROVE  ServiceInv'
<1> USE DEF ServiceInv
<1>1. PICK st \in {"zombie", "gone", "hung"} : Fault(p, st)
  BY DEF crash, hang, Dead
<1>2. /\ Executes(p) /\ faults < MaxFaults /\ faults' = faults + 1
      /\ proc' = Stopped(p, st) /\ cut' = (cut \/ backlog' # backlog)
      /\ backlog' = Left(p, IF st = "hung" THEN "stuck" ELSE "eof")
      /\ UNCHANGED <<main, up, list, thread, ring, cli, hungup, lock, timesvc>>
  BY <1>1 DEF Fault, crash, hang, watches, service, Executes, Runs
<1>3. proc' \in [Pid -> Process] /\ NoneBegins
  BY <1>2, StoppedIs
<1>4. SameSenders(backlog')
  <2>1. PICK s \in {"eof", "stuck"} : s = IF st = "hung" THEN "stuck" ELSE "eof"
    OBVIOUS
  <2> QED
    BY <1>2, <2>1, LeftIs
<1>5. PidsInOrder' /\ StartedOrNot' /\ StartedStay
  BY <1>3, PidsKept
<1>6. backlog' \in Seq(Connection) /\ SendersStarted'
  BY <1>4, <1>5, BacklogType, SendersKept
<1>7. faults' \in 0 .. MaxFaults /\ cut' \in BOOLEAN
  <2>1. faults \in 0 .. MaxFaults /\ MaxFaults \in Nat
    BY Constants DEF TypeOK
  <2>2. faults < MaxFaults /\ faults' = faults + 1
    BY <1>2
  <2>3. faults' \in 0 .. MaxFaults
    BY <2>1, <2>2
  <2>4. cut' \in BOOLEAN
    <3>1. cut' = (cut \/ backlog' # backlog)
      BY <1>2
    <3> QED
      BY <3>1
  <2> QED
    BY <2>3, <2>4
<1> QED
  BY <1>2, <1>3, <1>5, <1>6, <1>7, ProgramStep

(* One of several sequences gets another element, or has one replaced.     *)
LEMMA OneAppended ==
    ASSUME NEW T, NEW S, NEW f \in [T -> Seq(S)], NEW x \in T, NEW e \in S,
           NEW g, g = [f EXCEPT ![x] = Append(@, e)]
    PROVE  /\ g \in [T -> Seq(S)] /\ Len(f[x]) \in Nat
           /\ Len(g[x]) = Len(f[x]) + 1 /\ g[x][Len(f[x]) + 1] = e
           /\ \A k \in 1 .. Len(f[x]) : g[x][k] = f[x][k]
           /\ \A y \in T \ {x} : g[y] = f[y]
<1>1. PICK s \in Seq(S) : s = f[x]
  OBVIOUS
<1>2. PICK t : t = Append(s, e)
  OBVIOUS
<1>3. /\ t \in Seq(S) /\ Len(s) \in Nat /\ Len(t) = Len(s) + 1 /\ t[Len(s) + 1] = e
      /\ \A k \in 1 .. Len(s) : t[k] = s[k]
  BY <1>2
<1>4. g = [f EXCEPT ![x] = t]
  BY <1>1, <1>2
<1> QED
  BY <1>1, <1>3, <1>4

LEMMA OneReplaced ==
    ASSUME NEW T, NEW S, NEW f \in [T -> Seq(S)], NEW x \in T, NEW i \in 1 .. Len(f[x]),
           NEW e \in S, NEW g, g = [f EXCEPT ![x][i] = e]
    PROVE  /\ g \in [T -> Seq(S)] /\ g[x][i] = e
           /\ \A y \in T : /\ Len(g[y]) = Len(f[y])
                           /\ \A k \in 1 .. Len(f[y]) :
                                  y # x \/ k # i => g[y][k] = f[y][k]
<1>1. PICK s \in Seq(S) : s = f[x]
  OBVIOUS
<1>2. PICK t : t = [s EXCEPT ![i] = e]
  OBVIOUS
<1>3. /\ t \in Seq(S) /\ Len(t) = Len(s) /\ t[i] = e
      /\ \A k \in 1 .. Len(s) : k # i => t[k] = s[k]
  BY <1>1, <1>2
<1>4. g = [f EXCEPT ![x] = t]
  BY <1>1, <1>2
<1>5. g \in [T -> Seq(S)] /\ g[x] = t /\ \A y \in T \ {x} : g[y] = f[y]
  BY <1>3, <1>4
<1> QED
  BY <1>1, <1>3, <1>5

MainPlace(n) == [pc : {"accept", "find", "stamp", "insert"}, i : 0 .. n,
                 type : MsgType \cup {"none"}, pid : Pid \cup {NoPid}, eof : BOOLEAN]

LEMMA MainPlaces ==
    ASSUME TypeOK
    PROVE  /\ Len(list.CONTROLED) \in Nat /\ main \in MainPlace(Len(list.CONTROLED) + 1)
           /\ \A m \in Nat : MainPlace(Len(list.CONTROLED) + 1)
                             \subseteq MainPlace(Len(list.CONTROLED) + 1 + m)
<1>1. Len(list.CONTROLED) \in Nat
  BY DEF TypeOK, Type
<1>2. main \in MainPlace(Len(list.CONTROLED) + 1)
  BY DEF TypeOK, MainPlace
<1>3. PICK n \in Nat : n = Len(list.CONTROLED) + 1
  BY <1>1
<1>4. \A m \in Nat : MainPlace(n) \subseteq MainPlace(n + m)
  <2>1. SUFFICES ASSUME NEW m \in Nat PROVE 0 .. n \subseteq 0 .. n + m
    BY DEF MainPlace
  <2> QED
    OBVIOUS
<1> QED
  BY <1>1, <1>2, <1>3, <1>4

(* The steps of the main thread that change processes or lists not at all. *)
LEMMA MainStep ==
    ASSUME ServiceInv, backlog' \in Seq(Connection), SendersStarted',
           main' \in MainPlace(Len(list.CONTROLED) + 1), MainKnows', faults' \in 0 .. MaxFaults,
           UNCHANGED <<proc, up, cut, list, thread, ring, cli, hungup, lock, timesvc>>
    PROVE  ServiceInv'
<1> USE DEF ServiceInv
<1>1. TypeOK'
  BY DEF TypeOK, MainPlace
<1>2. PidsInOrder' /\ StartedOrNot' /\ NewIsKnown' /\ RingIsWhole' /\ CursorsHoldLock'
  BY PidsKept, RingKept, NewKept DEF NoneBegins
<1> QED
  BY <1>1, <1>2

LEMMA MessageTaken ==
    ASSUME TypeOK, SendersStarted, StartedStay,
           \/ \E type : Accepts(type)
           \/ backlog # <<>> /\ backlog' = Tail(backlog)
    PROVE  backlog' \in Seq(Connection) /\ SendersStarted'
<1>1. backlog \in Seq(Connection) /\ backlog # <<>> /\ backlog' = Tail(backlog)
  BY DEF Accepts, TypeOK
<1>2. /\ backlog' \in Seq(Connection)
      /\ \A i \in 1 .. Len(backlog') : /\ i + 1 \in 1 .. Len(backlog)
                                       /\ backlog'[i] = backlog[i + 1]
  BY <1>1
<1>3. \A i \in 1 .. Len(backlog) : backlog[i].pid \in Pid
  BY Queued
<1> QED
  BY <1>2, <1>3 DEF SendersStarted, StartedStay

LEMMA unknown_msgStep ==
    ASSUME ServiceInv, unknown_msg
    PROVE  ServiceInv'
<1> USE DEF ServiceInv
<1>1. /\ backlog # <<>> /\ backlog' = Tail(backlog)
      /\ UNCHANGED <<main, proc, up, faults, cut, list, thread, ring, cli, hungup, lock, timesvc>>
  BY DEF unknown_msg, system, watches, service
<1>2. StartedStay
  BY <1>1 DEF StartedStay
<1>3. backlog' \in Seq(Connection) /\ SendersStarted'
  BY <1>1, <1>2, MessageTaken
<1>4. main' \in MainPlace(Len(list.CONTROLED) + 1) /\ faults' \in 0 .. MaxFaults
  BY <1>1, MainPlaces DEF TypeOK
<1>5. MainKnows'
  BY <1>1, <1>2, MainKept
<1> QED
  BY <1>1, <1>3, <1>4, <1>5, MainStep

LEMMA process_new_procStep ==
    ASSUME ServiceInv, process_new_proc
    PROVE  ServiceInv'
<1> USE DEF ServiceInv
<1>1. /\ Accepts("NEW_PROC") /\ main.pc = "accept" /\ faults' \in 0 .. MaxFaults
      /\ UNCHANGED <<proc, up, cut, ring, cli, hungup, lock, timesvc>>
  BY Accepting DEF process_new_proc, service
<1>2. PICK p \in Pid : p = Msg.pid /\ proc[p].st # "none"
  BY <1>1, MsgIs
<1>3. proc[p].cmd \in Command
  BY <1>2 DEF StartedOrNot
<1>4. PICK type \in Type : type = IF proc[p].cmd \in Normal THEN "NORMAL" ELSE "CONTROLED"
  BY DEF Type
<1>0. PICK age \in 0 .. Timeout :
         list' = [list EXCEPT ![type] = Append(@, [cmd |-> proc[p].cmd, pid |-> p, age |-> age])]
  <2>1. \A age \in IF type = "NORMAL" THEN 0 .. Timeout ELSE {0} : age \in 0 .. Timeout
    BY Constants
  <2> QED
    BY <1>2, <1>4, <2>1 DEF process_new_proc
<1>5. PICK e \in ThreadProc : e = [cmd |-> proc[p].cmd, pid |-> p, age |-> age]
  <2>1. PICK c \in Command : c = proc[p].cmd
    BY <1>3
  <2>2. [cmd |-> c, pid |-> p, age |-> age] \in ThreadProc
    BY DEF ThreadProc
  <2> QED
    BY <2>1, <2>2
<1>6. PICK w \in ThreadPos : w = [pc |-> "check", left |-> 0, new |-> NoPid]
  BY DEF ThreadPos
<1>7. /\ list' = [list EXCEPT ![type] = Append(@, e)]
      /\ thread' = [thread EXCEPT ![type] = Append(@, w)]
  BY <1>0, <1>2, <1>4, <1>5, <1>6 DEF process_new_proc
<1>8. /\ list' \in [Type -> Seq(ThreadProc)] /\ Len(list[type]) \in Nat
      /\ Len(list'[type]) = Len(list[type]) + 1
      /\ \A ty \in Type \ {type} : list'[ty] = list[ty]
  BY <1>7, OneAppended DEF TypeOK
<1>9. /\ thread' \in [Type -> Seq(ThreadPos)] /\ Len(thread[type]) \in Nat
      /\ Len(thread'[type]) = Len(thread[type]) + 1
      /\ thread'[type][Len(thread[type]) + 1] = w
      /\ \A k \in 1 .. Len(thread[type]) : thread'[type][k] = thread[type][k]
      /\ \A ty \in Type \ {type} : thread'[ty] = thread[ty]
  BY <1>7, OneAppended DEF TypeOK
<1>10. ASSUME NEW ty \in Type
       PROVE  /\ Len(thread'[ty]) = Len(list'[ty]) /\ Len(list'[ty]) >= Len(list[ty])
              /\ \A k \in 1 .. Len(thread'[ty]) :
                     /\ thread'[ty][k].left <= Period(ty)
                     /\ thread'[ty][k].pc = "store" => thread'[ty][k].new \in Pid
  <2>1. /\ Len(thread[ty]) = Len(list[ty]) /\ Len(thread[ty]) \in Nat
        /\ \A k \in 1 .. Len(thread[ty]) :
               /\ thread[ty][k].left <= Period(ty)
               /\ thread[ty][k].pc = "store" => thread[ty][k].new \in Pid
    BY DEF TypeOK, NewIsKnown
  <2>2. 0 <= Period(ty)
    BY Constants DEF Period
  <2>3. CASE ty = type
    <3>1. w.left = 0 /\ w.pc = "check"
      BY <1>6
    <3>2. Len(thread'[ty]) = Len(list'[ty]) /\ Len(list'[ty]) >= Len(list[ty])
      BY <1>8, <1>9, <2>1, <2>3
    <3>3. \A k \in 1 .. Len(thread'[ty]) :
             \/ thread'[ty][k] = w
             \/ k \in 1 .. Len(thread[ty]) /\ thread'[ty][k] = thread[ty][k]
      BY <1>9, <2>3
    <3> QED
      BY <2>1, <2>2, <3>1, <3>2, <3>3
  <2>4. CASE ty # type
    BY <1>8, <1>9, <2>1, <2>4
  <2> QED
    BY <2>3, <2>4
<1>11. "CONTROLED" \in Type /\ Len(list.CONTROLED) \in Nat /\ Len(list'.CONTROLED) \in Nat
  BY <1>8 DEF Type, TypeOK
<1>12. main' = [main EXCEPT !.type = "NEW_PROC", !.pid = p]
  BY <1>2 DEF process_new_proc
<1>13. /\ main' \in MainPlace(Len(list.CONTROLED) + 1)
       /\ main'.type = "NEW_PROC" /\ main'.pid = p /\ main'.pc = "accept"
  BY <1>1, <1>12, MainPlaces DEF MainPlace, MsgType
<1>14. TypeOK'
  <2>1. main' \in MainPlace(Len(list'.CONTROLED) + 1)
    <3>1. PICK a, b \in Nat : a = Len(list.CONTROLED) /\ b = Len(list'.CONTROLED)
      BY <1>11
    <3>2. b >= a
      BY <1>10, <1>11, <3>1
    <3>3. b - a \in Nat /\ b + 1 = a + 1 + (b - a)
      BY <3>2
    <3>4. \A m \in Nat : MainPlace(a + 1) \subseteq MainPlace(a + 1 + m)
      BY <3>1, MainPlaces
    <3>5. MainPlace(a + 1) \subseteq MainPlace(b + 1)
      BY <3>3, <3>4
    <3> QED
      BY <1>13, <3>1, <3>5
  <2>2. backlog' \in Seq(Connection)
    BY <1>1, Accepting
  <2>3. ASSUME NEW ty \in Type
        PROVE  /\ Len(thread'[ty]) = Len(list'[ty])
               /\ \A k \in DOMAIN thread'[ty] : thread'[ty][k].left <= Period(ty)
    <3>1. thread'[ty] \in Seq(ThreadPos)
      BY <1>9
    <3>2. DOMAIN thread'[ty] = 1 .. Len(thread'[ty])
      BY <3>1
    <3> QED
      BY <1>10, <3>2
  <2>4. /\ up' = up /\ proc' = proc /\ ring' = ring /\ cli' = cli /\ lock' = lock
        /\ timesvc' = timesvc /\ faults' \in 0 .. MaxFaults /\ hungup' = hungup /\ cut' = cut
    BY <1>1
  <2> QED
    BY <1>8, <1>9, <2>1, <2>2, <2>3, <2>4 DEF TypeOK, MainPlace
<1>15. NewIsKnown'
  BY <1>10 DEF NewIsKnown
<1>16. MainKnows'
  BY <1>1, <1>2, <1>13 DEF MainKnows
<1>17. SendersStarted'
  BY <1>1, MessageTaken DEF StartedStay
<1>18. PidsInOrder' /\ StartedOrNot' /\ RingIsWhole' /\ CursorsHoldLock'
  BY <1>1, PidsKept, RingKept DEF NoneBegins
<1> QED
  BY <1>14, <1>15, <1>16, <1>17, <1>18

(* A message taken, and nothing but the main thread's place changed.       *)
LEMMA AcceptStep ==
    ASSUME ServiceInv, rcv_heartbeat \/ check_request
    PROVE  ServiceInv'
<1> USE DEF ServiceInv
<1>1. /\ UNCHANGED <<proc, list, thread, ring, cli, hungup, lock, timesvc>>
      /\ Accepts("HEARTBEAT_SIGNAL") \/ Accepts("REQUEST_TIME_SRV")
  BY DEF rcv_heartbeat, check_request, watches, service
<1>2. /\ main.pc = "accept" /\ faults' \in 0 .. MaxFaults /\ up' = up /\ cut' = cut
      /\ Len(list.CONTROLED) \in Nat /\ main \in MainPlace(Len(list.CONTROLED) + 1)
  BY <1>1, Accepting, MainPlaces
<1>3. StartedStay
  BY <1>1 DEF StartedStay
<1>4. backlog' \in Seq(Connection) /\ SendersStarted'
  BY <1>1, <1>3, MessageTaken
<1>5. main' \in MainPlace(Len(list.CONTROLED) + 1) /\ MainKnows'
  <2>1. CASE rcv_heartbeat
    <3>1. Msg.pid \in Pid \cup {NoPid}
      BY <2>1, MsgIs DEF rcv_heartbeat
    <3>2. main' = [main EXCEPT !.pc = "find", !.i = 1,
                               !.type = "HEARTBEAT_SIGNAL", !.pid = Msg.pid]
      BY <2>1 DEF rcv_heartbeat
    <3>3. main' = [pc |-> "find", i |-> 1, type |-> "HEARTBEAT_SIGNAL", pid |-> Msg.pid,
                   eof |-> main.eof]
      BY <1>2, <3>2 DEF MainPlace
    <3>4. main' \in MainPlace(Len(list.CONTROLED) + 1)
      BY <1>2, <3>1, <3>3 DEF MainPlace, MsgType
    <3> QED
      BY <3>3, <3>4 DEF MainKnows
  <2>2. CASE check_request
    <3>1. PICK p \in Pid : p = Msg.pid /\ proc[p].st # "none"
      BY <2>2, MsgIs DEF check_request
    <3>2. PICK got : got = [main EXCEPT !.type = "REQUEST_TIME_SRV", !.pid = p]
      OBVIOUS
    <3>3. main' = [got EXCEPT !.pc = "insert", !.eof = Eof] \/ main' = got
      BY <2>2, <3>1, <3>2 DEF check_request
    <3>4. /\ got \in MainPlace(Len(list.CONTROLED) + 1) /\ got.pc = "accept"
          /\ got.type = "REQUEST_TIME_SRV" /\ got.pid = p
      BY <1>2, <3>2 DEF MainPlace, MsgType
    <3>5. Eof \in BOOLEAN
      BY DEF Eof
    <3>6. /\ main' \in MainPlace(Len(list.CONTROLED) + 1) /\ main'.pc \in {"accept", "insert"}
          /\ main'.type = "REQUEST_TIME_SRV" /\ main'.pid = p
      BY <3>3, <3>4, <3>5 DEF MainPlace
    <3> QED
      BY <1>1, <3>1, <3>6 DEF MainKnows
  <2> QED
    BY <2>1, <2>2
<1> QED
  BY <1>1, <1>2, <1>4, <1>5, MainStep

LEMMA AcceptIs ==
    ASSUME TypeOK
    PROVE  /\ Accept \in MainPlace(Len(list.CONTROLED) + 1)
           /\ Accept.pc = "accept" /\ Accept.type = main.type /\ Accept.pid = main.pid
<1>1. main \in MainPlace(Len(list.CONTROLED) + 1) /\ Len(list.CONTROLED) \in Nat
  BY MainPlaces
<1>2. PICK n \in Nat : n = Len(list.CONTROLED) + 1
  BY <1>1
<1>3. PICK a : a = [main EXCEPT !.pc = "accept"]
  OBVIOUS
<1>4. a \in MainPlace(n) /\ a.pc = "accept" /\ a.type = main.type /\ a.pid = main.pid
  BY <1>1, <1>2, <1>3 DEF MainPlace
<1>5. PICK b : b = [a EXCEPT !.i = 0]
  OBVIOUS
<1>6. b \in MainPlace(n) /\ b.pc = "accept" /\ b.type = main.type /\ b.pid = main.pid
  BY <1>4, <1>5 DEF MainPlace
<1>7. PICK c : c = [b EXCEPT !.eof = FALSE]
  OBVIOUS
<1>8. c \in MainPlace(n) /\ c.pc = "accept" /\ c.type = main.type /\ c.pid = main.pid
  BY <1>6, <1>7 DEF MainPlace
<1>9. c = Accept
  BY <1>3, <1>5, <1>7 DEF Accept
<1> QED
  BY <1>2, <1>8, <1>9

LEMMA find_entryStep ==
    ASSUME ServiceInv, find_entry
    PROVE  ServiceInv'
<1> USE DEF ServiceInv
<1>1. /\ UNCHANGED <<backlog, proc, up, faults, cut, list, thread, ring, cli, hungup, lock, timesvc>>
      /\ main.pc = "find"
  BY DEF find_entry, system, watches, service
<1>2. /\ Len(list.CONTROLED) \in Nat /\ main.i \in Nat \ {0}
      /\ main \in MainPlace(Len(list.CONTROLED) + 1)
  BY <1>1, MainPlaces DEF MainKnows, MainPlace
<1>3. \/ main' = Accept
      \/ main.i <= Len(list.CONTROLED) /\ main' = [main EXCEPT !.pc = "stamp"]
      \/ main.i <= Len(list.CONTROLED) /\ main' = [main EXCEPT !.i = @ + 1]
  BY <1>2 DEF find_entry
<1>4. /\ main' \in MainPlace(Len(list.CONTROLED) + 1)
      /\ main'.pc # "insert" /\ main'.type = main.type /\ main'.pid = main.pid
      /\ main'.pc = "find"   => main'.i > 0
      /\ main'.pc = "stamp"  => main'.i \in 1 .. Len(list.CONTROLED)
  BY <1>1, <1>2, <1>3, AcceptIs DEF MainPlace
<1>5. MainKnows'
  BY <1>1, <1>4 DEF MainKnows
<1>6. backlog' \in Seq(Connection) /\ SendersStarted' /\ faults' \in 0 .. MaxFaults
  BY <1>1, SendersKept DEF TypeOK, StartedStay
<1> QED
  BY <1>1, <1>4, <1>5, <1>6, MainStep

LEMMA stamp_entryStep ==
    ASSUME ServiceInv, stamp_entry
    PROVE  ServiceInv'
<1> USE DEF ServiceInv
<1>1. /\ UNCHANGED <<backlog, proc, up, faults, cut, thread, ring, cli, hungup, lock, timesvc>>
      /\ main.pc = "stamp" /\ "CONTROLED" \in Type
      /\ list' = [list EXCEPT !["CONTROLED"][main.i].age = 0]
      /\ main' = [main EXCEPT !.pc = "find", !.i = @ + 1]
  BY DEF stamp_entry, system, service, Type
<1>2. /\ list \in [Type -> Seq(ThreadProc)] /\ Len(list["CONTROLED"]) \in Nat
      /\ main.i \in 1 .. Len(list["CONTROLED"])
      /\ main \in MainPlace(Len(list.CONTROLED) + 1)
  BY <1>1, MainPlaces DEF TypeOK, MainKnows
<1>3. PICK i \in 1 .. Len(list["CONTROLED"]) : i = main.i
  BY <1>2
<1>4. PICK e \in ThreadProc : e = [list["CONTROLED"][i] EXCEPT !.age = 0]
  <2>1. PICK old \in ThreadProc : old = list["CONTROLED"][i]
    BY <1>1, <1>2
  <2>2. 0 \in 0 .. Timeout
    BY Constants
  <2>3. [old EXCEPT !.age = 0] \in ThreadProc
    BY <2>2 DEF ThreadProc
  <2> QED
    BY <2>1, <2>3
<1>5. list' = [list EXCEPT !["CONTROLED"][i] = e]
  BY <1>1, <1>3, <1>4
<1>6. /\ list' \in [Type -> Seq(ThreadProc)]
      /\ \A ty \in Type : Len(list'[ty]) = Len(list[ty])
  BY <1>1, <1>2, <1>5, OneReplaced
<1>7. /\ main' \in MainPlace(Len(list.CONTROLED) + 1)
      /\ main'.pc = "find" /\ main'.i > 0 /\ main'.type = main.type /\ main'.pid = main.pid
  <2>1. main' = [pc |-> "find", i |-> main.i + 1, type |-> main.type, pid |-> main.pid,
                 eof |-> main.eof]
    BY <1>1, <1>2 DEF MainPlace
  <2> QED
    BY <1>2, <2>1 DEF MainPlace
<1>8. TypeOK'
  BY <1>1, <1>6, <1>7 DEF TypeOK, MainPlace
<1>9. MainKnows'
  BY <1>1, <1>7 DEF MainKnows
<1>10. SendersStarted' /\ PidsInOrder' /\ StartedOrNot'
  BY <1>1, SendersKept, PidsKept DEF NoneBegins, StartedStay
<1>11. NewIsKnown' /\ RingIsWhole' /\ CursorsHoldLock'
  BY <1>1, RingKept, NewKept
<1> QED
  BY <1>8, <1>9, <1>10, <1>11

LEMMA EntryLinked ==
    ASSUME ring \in [{HEAD} \cup Node -> Links], IsRing(Linked, ring), NEW n \in Node \ Linked,
           ring' = list_add_tail(ring, n)
    PROVE  /\ ring' \in [{HEAD} \cup Node -> Links]
           /\ IsRing(Linked \cup {n}, ring')
           /\ ring'[n].next = HEAD /\ ring'[ring[HEAD].prev].next = n
           /\ \A m \in Linked : m # ring[HEAD].prev => ring'[m].next = ring[m].next
<1>1. PICK N, M, r, s : N = {HEAD} \cup Node /\ M = Linked /\ r = ring /\ s = ring'
  OBVIOUS
<1>2. r \in [N -> [prev : N, next : N]] /\ IsRing(M, r)
  BY <1>1 DEF Links
<1>3. HEAD \in N /\ M \in SUBSET N /\ HEAD \in M /\ n \in N \ M
  BY <1>1 DEF Linked
<1>4. s = list_add_tail(r, n)
  BY <1>1
<1>5. /\ s \in [N -> [prev : N, next : N]]
      /\ IsRing(M \cup {n}, s)
      /\ s[n].next = HEAD
      /\ s[r[HEAD].prev].next = n
      /\ \A m \in M : m # r[HEAD].prev => s[m].next = r[m].next
  BY <1>2, <1>3, <1>4, AddTailKeepsRing
<1> QED
  BY <1>1, <1>5 DEF Links

LEMMA insert_requestStep ==
    ASSUME ServiceInv, insert_request
    PROVE  ServiceInv'
<1> USE DEF ServiceInv
<1>1. /\ UNCHANGED <<backlog, proc, up, faults, cut, list, thread, lock, timesvc>>
      /\ up /\ main.pc = "insert" /\ lock = Free /\ main' = Accept
  BY DEF insert_request, system, watches
<1>2. PICK p \in Pid : p = main.pid /\ proc[p].st # "none"
  BY <1>1 DEF MainKnows
<1>3. PICK n \in Node : /\ cli[n] = NoPid
                        /\ cli' = [cli EXCEPT ![n] = p]
                        /\ hungup' \subseteq hungup \cup {n}
                        /\ ring' = list_add_tail(ring, n)
  BY <1>2 DEF insert_request
<1>4. /\ cli' \in [Node -> Pid \cup {NoPid}] /\ cli'[n] = p
      /\ \A m \in Node \ {n} : cli'[m] = cli[m]
      /\ Linked' = Linked \cup {n}
      /\ n \notin Linked /\ HEAD \in Linked /\ Linked \subseteq {HEAD} \cup Node
  <2>1. cli \in [Node -> Pid \cup {NoPid}]
    BY DEF TypeOK
  <2> QED
    BY <1>3, <2>1, Pids DEF Linked
<1>5. /\ ring' \in [{HEAD} \cup Node -> Links]
      /\ IsRing(Linked', ring')
      /\ ring'[n].next = HEAD /\ ring'[ring[HEAD].prev].next = n
      /\ \A m \in Linked : m # ring[HEAD].prev => ring'[m].next = ring[m].next
  <2>1. ring \in [{HEAD} \cup Node -> Links] /\ IsRing(Linked, ring) /\ n \in Node \ Linked
    BY <1>4 DEF TypeOK, RingIsWhole
  <2>2. /\ ring' \in [{HEAD} \cup Node -> Links]
        /\ IsRing(Linked \cup {n}, ring')
        /\ ring'[n].next = HEAD /\ ring'[ring[HEAD].prev].next = n
        /\ \A m \in Linked : m # ring[HEAD].prev => ring'[m].next = ring[m].next
    BY <1>3, <2>1, EntryLinked
  <2>3. IsRing(Linked', ring') <=> IsRing(Linked \cup {n}, ring')
    BY <1>4
  <2> QED
    BY <2>2, <2>3
<1>6. RingIsWhole'
  <2>1. PICK rank \in [{HEAD} \cup Node -> Nat] : Ascends(Linked, ring, rank)
    BY DEF RingIsWhole
  <2>2. PICK last \in Linked : last = ring[HEAD].prev
    BY <1>4 DEF RingIsWhole, IsRing
  <2>3. PICK higher : higher = [rank EXCEPT ![n] = rank[last] + 1]
    OBVIOUS
  <2>4. last \in {HEAD} \cup Node /\ last # n
    BY <1>4, <2>2
  <2>5. /\ higher \in [{HEAD} \cup Node -> Nat] /\ higher[n] > higher[last]
        /\ \A m \in Linked : higher[m] = rank[m]
    BY <1>4, <2>1, <2>3, <2>4
  <2>6. ASSUME NEW m \in Linked', ring'[m].next # HEAD
        PROVE  higher[ring'[m].next] > higher[m]
    <3>1. m \in Linked
      BY <1>4, <1>5, <2>6
    <3>2. CASE m = last
      BY <1>5, <2>2, <2>5, <3>2
    <3>3. CASE m # last
      <4>1. ring'[m].next = ring[m].next /\ ring[m].next \in Linked
        BY <1>5, <2>2, <3>1, <3>3 DEF RingIsWhole, IsRing
      <4> QED
        BY <2>1, <2>5, <2>6, <3>1, <4>1 DEF Ascends
    <3> QED
      BY <3>2, <3>3
  <2>7. Ascends(Linked', ring', higher)
    BY <2>6 DEF Ascends
  <2> QED
    BY <1>5, <2>5, <2>7 DEF RingIsWhole
<1>7. CursorsHoldLock'
  <2>1. \A t \in Server : timesvc[t].pc # "scan"
    BY <1>1, Pids DEF CursorsHoldLock
  <2> QED
    BY <1>1, <2>1 DEF CursorsHoldLock
<1>8. main' \in MainPlace(Len(list.CONTROLED) + 1) /\ main'.pc = "accept"
      /\ main'.type = main.type /\ main'.pid = main.pid
  BY <1>1, AcceptIs
<1>9. TypeOK'
  BY <1>1, <1>3, <1>4, <1>5, <1>8 DEF TypeOK, MainPlace
<1>10. MainKnows'
  BY <1>1, <1>8 DEF MainKnows
<1>11. PidsInOrder' /\ StartedOrNot' /\ NewIsKnown' /\ SendersStarted'
  BY <1>1, PidsKept, NewKept, SendersKept DEF NoneBegins, StartedStay
<1> QED
  BY <1>6, <1>7, <1>9, <1>10, <1>11

LEMMA LinkedFacts ==
    ASSUME TypeOK, RingIsWhole
    PROVE  /\ HEAD \in Linked /\ Linked \subseteq {HEAD} \cup Node
           /\ \A n \in Linked : ring[n].next \in Linked
           /\ \A n \in Linked \ {HEAD} : /\ n \in Node /\ cli[n] \in Pid
                                         /\ ring[n].next # n
<1>1. \A n \in Linked : ring[n].next \in Linked
  BY DEF RingIsWhole, IsRing
<1>2. \A n \in Linked \ {HEAD} : n \in Node /\ cli[n] \in Pid
  BY DEF Linked, TypeOK
<1>3. ASSUME NEW n \in Linked \ {HEAD}, ring[n].next = n
      PROVE  FALSE
  <2>1. PICK rank \in [{HEAD} \cup Node -> Nat] : Ascends(Linked, ring, rank)
    BY DEF RingIsWhole
  <2>2. rank[n] > rank[n] /\ rank[n] \in Nat
    BY <1>2, <1>3, <2>1 DEF Ascends
  <2> QED
    BY <2>2
<1> QED
  BY <1>1, <1>2, <1>3 DEF Linked

(* The lock is taken by a thread, for the beginning of the ring, or given  *)
(* back at its end.                                                        *)
LEMMA LockStep ==
    ASSUME ServiceInv, NEW t \in Server, begin_scan(t) \/ end_scan(t)
    PROVE  ServiceInv'
<1> USE DEF ServiceInv
<1>1. UNCHANGED <<backlog, main, proc, up, faults, cut, list, thread, ring, cli, hungup>>
  BY DEF begin_scan, end_scan, system, watches
<1>2. /\ Linked' = Linked /\ HEAD \in Linked /\ Linked \subseteq {HEAD} \cup Node
      /\ ring[HEAD].next \in Linked /\ ring[ring[HEAD].next].next \in Linked
  BY <1>1, LinkedFacts DEF Linked
<1>3. timesvc \in [Server -> [pc : {"sleep", "scan"}, left : 0 .. TimesvcPeriod, at : Cursor]]
  BY DEF TypeOK
<1>4. PICK c \in Cursor : c = [pos |-> ring[HEAD].next, n |-> ring[ring[HEAD].next].next]
  BY <1>2 DEF Cursor
<1>5. CASE begin_scan(t)
  <2>1. /\ timesvc[t].pc = "sleep" /\ lock = Free /\ lock' = t
        /\ timesvc' = [timesvc EXCEPT ![t].pc = "scan", ![t].at = c]
    BY <1>4, <1>5 DEF begin_scan, for_each_first
  <2>2. /\ timesvc' \in [Server -> [pc : {"sleep", "scan"}, left : 0 .. TimesvcPeriod,
                                   at : Cursor]]
        /\ timesvc'[t].pc = "scan" /\ timesvc'[t].at = c
        /\ \A s \in Server \ {t} : timesvc'[s] = timesvc[s]
    BY <1>3, <2>1
  <2>3. CursorsHoldLock'
    <3>1. \A s \in Server \ {t} : timesvc[s].pc # "scan" /\ s # t
      BY <2>1, Pids DEF CursorsHoldLock
    <3>2. c.pos \in Linked /\ c.n = ring[c.pos].next
      BY <1>2, <1>4
    <3> QED
      BY <1>1, <1>2, <2>1, <2>2, <3>1, <3>2 DEF CursorsHoldLock
  <2>4. TypeOK'
    BY <1>1, <2>1, <2>2 DEF TypeOK
  <2> QED
    BY <1>1, <1>2, <2>3, <2>4, PidsKept, NewKept, SendersKept, MainKept
       DEF NoneBegins, RingIsWhole, StartedStay
<1>6. CASE end_scan(t)
  <2>1. PICK rec \in [pc : {"sleep", "scan"}, left : 0 .. TimesvcPeriod, at : Cursor] :
           rec = [pc |-> "sleep", left |-> TimesvcPeriod, at |-> NoCursor]
    <3>1. NoCursor \in Cursor /\ TimesvcPeriod \in 0 .. TimesvcPeriod
      BY Constants DEF Cursor, NoCursor
    <3> QED
      BY <3>1
  <2>2. /\ timesvc[t].pc = "scan" /\ lock' = Free
        /\ timesvc' = [timesvc EXCEPT ![t] = rec]
    BY <1>6, <2>1 DEF end_scan
  <2>3. /\ timesvc' \in [Server -> [pc : {"sleep", "scan"}, left : 0 .. TimesvcPeriod,
                                   at : Cursor]]
        /\ timesvc'[t].pc = "sleep"
        /\ \A s \in Server \ {t} : timesvc'[s] = timesvc[s]
    BY <1>3, <2>1, <2>2
  <2>4. CursorsHoldLock'
    <3>1. \A s \in Server \ {t} : timesvc[s].pc # "scan"
      BY <2>2 DEF CursorsHoldLock
    <3> QED
      BY <2>2, <2>3, <3>1, Pids DEF CursorsHoldLock
  <2>5. TypeOK'
    BY <1>1, <2>2, <2>3 DEF TypeOK
  <2> QED
    BY <1>1, <1>2, <2>4, <2>5, PidsKept, NewKept, SendersKept, MainKept
       DEF NoneBegins, RingIsWhole, StartedStay
<1> QED
  BY <1>5, <1>6

(* Waking is no beginning of a process.                                    *)
LEMMA Waking ==
    ASSUME TypeOK, StartedOrNot, NEW n, NEW p \in Pid, wakeup_proc(n, p)
    PROVE  /\ proc' \in [Pid -> Process] /\ NoneBegins /\ up' \in BOOLEAN
           /\ \A q \in Pid : proc'[q].st = proc[q].st /\ proc'[q].beat = proc[q].beat
           /\ up' => Executes(p)
<1>1. PICK woken \in SUBSET Pid :
         /\ woken = IF up' THEN {p} ELSE {q \in Pid : proc[q].req = "wait"}
         /\ proc' = [q \in Pid |-> IF q \in woken
                                   THEN [proc[q] EXCEPT !.req = "send", !.nap = ClientSleep]
                                   ELSE proc[q]]
  BY DEF wakeup_proc
<1>2. up' \in BOOLEAN /\ (up' => Executes(p))
  <2>1. up' = (Executes(p) /\ n \notin hungup)
    BY DEF wakeup_proc
  <2> QED
    BY <2>1
<1>3. ASSUME NEW q \in Pid
      PROVE  /\ proc'[q] \in Process /\ proc'[q].st = proc[q].st
             /\ proc'[q].beat = proc[q].beat /\ proc'[q].cmd = proc[q].cmd
             /\ q \notin woken => proc'[q] = proc[q]
  <2>1. PICK old \in Process : old = proc[q]
    BY DEF TypeOK
  <2>2. PICK a : a = [old EXCEPT !.req = "send"]
    OBVIOUS
  <2>3. a \in Process /\ a.st = old.st /\ a.beat = old.beat /\ a.cmd = old.cmd
    BY <2>2 DEF Process
  <2>4. PICK b : b = [a EXCEPT !.nap = ClientSleep]
    OBVIOUS
  <2>5. b \in Process /\ b.st = a.st /\ b.beat = a.beat /\ b.cmd = a.cmd
    <3>1. ClientSleep \in 0 .. ClientSleep
      BY Constants
    <3> QED
      BY <2>3, <2>4, <3>1 DEF Process
  <2>6. proc'[q] = IF q \in woken THEN b ELSE old
    BY <1>1, <2>1, <2>2, <2>4
  <2> QED
    BY <2>1, <2>3, <2>5, <2>6
<1>4. \A q \in woken : proc[q].st # "none"
  <2>1. \A q \in Pid : proc[q].st = "none" => proc[q].req = "send"
    BY DEF StartedOrNot, NotStarted
  <2> QED
    BY <1>1, <1>2, <2>1 DEF Executes
<1>5. proc' \in [Pid -> Process]
  BY <1>1, <1>3
<1>6. NoneBegins
  BY <1>3, <1>4 DEF NoneBegins
<1> QED
  BY <1>2, <1>3, <1>5, <1>6

LEMMA EntryUnlinked ==
    ASSUME ring \in [{HEAD} \cup Node -> Links], IsRing(Linked, ring),
           NEW n \in Linked, n \in Node, ring[n].next # n, ring' = list_del(ring, n)
    PROVE  /\ ring' \in [{HEAD} \cup Node -> Links] /\ IsRing(Linked \ {n}, ring')
           /\ ring[n].prev # n
           /\ ring'[ring[n].prev].next = ring[n].next
           /\ \A m \in Linked \ {n} : m # ring[n].prev => ring'[m].next = ring[m].next
<1>1. PICK N, M, r, s : N = {HEAD} \cup Node /\ M = Linked /\ r = ring /\ s = ring'
  OBVIOUS
<1>2. r \in [N -> [prev : N, next : N]] /\ IsRing(M, r)
  BY <1>1 DEF Links
<1>3. M \in SUBSET N /\ n \in M /\ r[n].next # n
  BY <1>1 DEF Linked
<1>4. s = list_del(r, n)
  BY <1>1
<1>5. /\ s \in [N -> [prev : N, next : N]]
      /\ IsRing(M \ {n}, s)
      /\ r[n].prev # n
      /\ s[r[n].prev].next = r[n].next
      /\ \A m \in M \ {n} : m # r[n].prev => s[m].next = r[m].next
  BY <1>2, <1>3, <1>4, DelKeepsRing, Z3T(30)
<1> QED
  BY <1>1, <1>5 DEF Links

(* An entry that is not due yet, or that is woken and taken out.           *)
LEMMA scan_entryStep ==
    ASSUME ServiceInv, NEW t \in Server, scan_entry(t)
    PROVE  ServiceInv'
<1> USE DEF ServiceInv
<1>1. PICK pos, next : pos = timesvc[t].at.pos /\ next = timesvc[t].at.n
  OBVIOUS
<1>2. /\ timesvc[t].pc = "scan" /\ pos # HEAD /\ up
      /\ UNCHANGED <<backlog, main, faults, cut, list, thread, lock>>
  BY <1>1 DEF scan_entry, watches
<1>3. PICK p : p = cli[pos]
  OBVIOUS
<1>4. /\ lock = t /\ pos \in Linked \ {HEAD} /\ next = ring[pos].next
      /\ next \in Linked \ {pos}
      /\ pos \in Node /\ p \in Pid /\ Linked \subseteq {HEAD} \cup Node /\ HEAD \in Linked
  BY <1>1, <1>2, <1>3, LinkedFacts DEF CursorsHoldLock
<1>5. timesvc \in [Server -> [pc : {"sleep", "scan"}, left : 0 .. TimesvcPeriod, at : Cursor]]
  BY DEF TypeOK
<1>6. /\ proc' \in [Pid -> Process] /\ NoneBegins /\ up' \in BOOLEAN /\ hungup' \subseteq Node
      /\ ring' \in [{HEAD} \cup Node -> Links] /\ cli' \in [Node -> Pid \cup {NoPid}]
      /\ RingIsWhole' /\ next \in Linked'
      /\ Linked' \subseteq {HEAD} \cup Node
  <2>1. CASE Due(p)
    <3>1. /\ wakeup_proc(pos, p) /\ ring' = list_del(ring, pos)
          /\ cli' = [cli EXCEPT ![pos] = NoPid] /\ hungup' = hungup \ {pos}
      BY <1>1, <1>3, <2>1 DEF scan_entry
    <3>2. /\ cli' \in [Node -> Pid \cup {NoPid}] /\ Linked' = Linked \ {pos}
          /\ cli'[pos] = NoPid /\ \A m \in Node \ {pos} : cli'[m] = cli[m]
      <4>1. cli \in [Node -> Pid \cup {NoPid}] /\ NoPid \in Pid \cup {NoPid}
        BY DEF TypeOK
      <4> QED
        BY <1>4, <3>1, <4>1 DEF Linked
    <3>3. /\ ring' \in [{HEAD} \cup Node -> Links] /\ IsRing(Linked \ {pos}, ring')
          /\ ring[pos].prev # pos
          /\ ring'[ring[pos].prev].next = next
          /\ \A n \in Linked \ {pos} : n # ring[pos].prev => ring'[n].next = ring[n].next
      <4>1. ring \in [{HEAD} \cup Node -> Links] /\ IsRing(Linked, ring)
        BY DEF TypeOK, RingIsWhole
      <4>2. pos \in Linked /\ pos \in Node /\ ring[pos].next # pos /\ ring' = list_del(ring, pos)
        BY <1>4, <3>1
      <4>3. /\ ring' \in [{HEAD} \cup Node -> Links] /\ IsRing(Linked \ {pos}, ring')
            /\ ring[pos].prev # pos
            /\ ring'[ring[pos].prev].next = ring[pos].next
            /\ \A m \in Linked \ {pos} : m # ring[pos].prev => ring'[m].next = ring[m].next
        BY <4>1, <4>2, EntryUnlinked
      <4> QED
        BY <1>4, <4>3
    <3>4. RingIsWhole'
      <4>1. PICK rank \in [{HEAD} \cup Node -> Nat] : Ascends(Linked, ring, rank)
        BY DEF RingIsWhole
      <4>2. PICK prev : prev = ring[pos].prev /\ prev \in Linked /\ ring[prev].next = pos
        BY <1>4 DEF RingIsWhole, IsRing
      <4>3. ASSUME NEW n \in Linked \ {pos}, ring'[n].next # HEAD
            PROVE  rank[ring'[n].next] > rank[n]
        <5>1. CASE n = prev
          <6>1. ring'[n].next = next
            BY <3>3, <4>2, <5>1
          <6>2. rank[pos] > rank[prev] /\ rank[next] > rank[pos]
            BY <1>4, <4>1, <4>2, <4>3, <6>1 DEF Ascends
          <6>3. rank[pos] \in Nat /\ rank[prev] \in Nat /\ rank[next] \in Nat
            BY <1>4, <4>1, <4>2
          <6> QED
            BY <5>1, <6>1, <6>2, <6>3
        <5>2. CASE n # prev
          BY <3>3, <4>1, <4>2, <4>3, <5>2 DEF Ascends
        <5> QED
          BY <5>1, <5>2
      <4>4. Ascends(Linked', ring', rank) /\ IsRing(Linked', ring')
        BY <3>2, <3>3, <4>3 DEF Ascends
      <4> QED
        BY <4>1, <4>4 DEF RingIsWhole
    <3>5. proc' \in [Pid -> Process] /\ NoneBegins /\ up' \in BOOLEAN
      BY <1>4, <3>1, Waking
    <3>6. hungup' \subseteq Node
      BY <3>1 DEF TypeOK
    <3> QED
      BY <1>4, <3>2, <3>3, <3>4, <3>5, <3>6
  <2>2. CASE ~Due(p)
    <3>1. UNCHANGED <<up, proc, ring, cli, hungup>>
      BY <1>1, <1>3, <2>2 DEF scan_entry
    <3>2. Linked' = Linked
      BY <3>1 DEF Linked
    <3> QED
      BY <1>4, <3>1, <3>2 DEF RingIsWhole, NoneBegins, TypeOK
  <2> QED
    BY <2>1, <2>2
<1>7. ring'[next].next \in Linked'
  BY <1>6 DEF RingIsWhole, IsRing
<1>8. PICK c \in Cursor : c = [pos |-> next, n |-> ring'[next].next]
  BY <1>6, <1>7 DEF Cursor
<1>9. timesvc' = [timesvc EXCEPT ![t].at = c]
  BY <1>1, <1>8 DEF scan_entry, for_each_next
<1>10. /\ timesvc' \in [Server -> [pc : {"sleep", "scan"}, left : 0 .. TimesvcPeriod,
                                  at : Cursor]]
       /\ timesvc'[t].pc = "scan" /\ timesvc'[t].at = c
       /\ \A s \in Server \ {t} : timesvc'[s] = timesvc[s]
  BY <1>2, <1>5, <1>9
<1>11. CursorsHoldLock'
  <2>1. \A s \in Server \ {t} : timesvc[s].pc # "scan"
    BY <1>4 DEF CursorsHoldLock
  <2>2. c.pos \in Linked' /\ c.n = ring'[c.pos].next
    BY <1>6, <1>8
  <2> QED
    BY <1>2, <1>4, <1>10, <2>1, <2>2 DEF CursorsHoldLock
<1>12. TypeOK'
  BY <1>2, <1>6, <1>10 DEF TypeOK
<1>13. PidsInOrder' /\ StartedOrNot' /\ StartedStay
  BY <1>6, PidsKept
<1>14. SendersStarted' /\ MainKnows' /\ NewIsKnown'
  BY <1>2, <1>13, SendersKept, MainKept, NewKept
<1> QED
  BY <1>6, <1>11, <1>12, <1>13, <1>14

(* A step of watching thread k of a list, which leaves it at w.            *)
LEMMA WatchStep ==
    ASSUME ServiceInv, NEW type \in Type, NEW k \in 1 .. Len(thread[type]),
           NEW w \in ThreadPos, w.left <= Period(type), w.pc = "store" => w.new \in Pid,
           thread' = [thread EXCEPT ![type][k] = w],
           list' \in [Type -> Seq(ThreadProc)],
           \A ty \in Type : Len(list'[ty]) = Len(list[ty]),
           UNCHANGED <<main, up, faults, ring, cli, hungup, lock, timesvc>>,
           backlog' = backlog \/ SameSenders(backlog'), cut' \in BOOLEAN,
           proc' \in [Pid -> Process], PidsInOrder', StartedOrNot', StartedStay
    PROVE  ServiceInv'
<1> USE DEF ServiceInv
<1>1. /\ thread' \in [Type -> Seq(ThreadPos)] /\ thread'[type][k] = w
      /\ \A ty \in Type : /\ Len(thread'[ty]) = Len(thread[ty])
                          /\ \A l \in 1 .. Len(thread[ty]) :
                                 ty # type \/ l # k => thread'[ty][l] = thread[ty][l]
  <2>1. thread \in [Type -> Seq(ThreadPos)]
    BY DEF TypeOK
  <2> QED
    BY <2>1, OneReplaced
<1>2. thread \in [Type -> Seq(ThreadPos)] /\ \A ty \in Type : Len(thread[ty]) \in Nat
  BY DEF TypeOK
<1>3. ASSUME NEW ty \in Type
      PROVE  /\ Len(thread'[ty]) = Len(list'[ty])
             /\ \A l \in 1 .. Len(thread'[ty]) :
                    /\ thread'[ty][l].left <= Period(ty)
                    /\ thread'[ty][l].pc = "store" => thread'[ty][l].new \in Pid
  <2>1. /\ Len(thread[ty]) = Len(list[ty])
        /\ \A l \in 1 .. Len(thread[ty]) :
               /\ thread[ty][l].left <= Period(ty)
               /\ thread[ty][l].pc = "store" => thread[ty][l].new \in Pid
    BY <1>2 DEF TypeOK, NewIsKnown
  <2> QED
    BY <1>1, <1>2, <2>1
<1>4. /\ main' = main /\ "CONTROLED" \in Type
      /\ Len(list'.CONTROLED) = Len(list.CONTROLED)
  BY DEF Type
<1>5. TypeOK'
  <2>1. ASSUME NEW ty \in Type
        PROVE  \A l \in DOMAIN thread'[ty] : thread'[ty][l].left <= Period(ty)
    <3>1. thread'[ty] \in Seq(ThreadPos)
      BY <1>1
    <3>2. DOMAIN thread'[ty] = 1 .. Len(thread'[ty])
      BY <3>1
    <3> QED
      BY <1>3, <3>2
  <2>2. main' \in MainPlace(Len(list'.CONTROLED) + 1)
    BY <1>4, MainPlaces
  <2>3. backlog' \in Seq(Connection)
    BY BacklogType
  <2> QED
    BY <1>1, <1>3, <2>1, <2>2, <2>3 DEF TypeOK, MainPlace
<1>6. NewIsKnown'
  BY <1>3 DEF NewIsKnown
<1>7. MainKnows'
  BY <1>4, MainKept
<1>8. RingIsWhole' /\ CursorsHoldLock'
  BY RingKept
<1>9. SendersStarted'
  BY SendersKept
<1> QED
  BY <1>5, <1>6, <1>7, <1>8, <1>9

(* What a watching thread sees: its entry is there, and so is the one that *)
(* INDEX_OF leads it to.                                                   *)
LEMMA Watching ==
    ASSUME TypeOK, NEW type \in Type, NEW k, NEW pc, At(type, k, pc)
    PROVE  /\ k \in 1 .. Len(thread[type]) /\ thread[type][k] \in ThreadPos
           /\ thread[type][k].pc = pc /\ thread[type][k].left = 0 /\ up
           /\ list \in [Type -> Seq(ThreadProc)] /\ Len(list[type]) = Len(thread[type])
           /\ INDEX_OF(k) \in 1 .. Len(list[type])
           /\ Entry(type, k) = list[type][INDEX_OF(k)] /\ Entry(type, k) \in ThreadProc
           /\ 0 <= Period(type)
<1>1. thread[type] \in Seq(ThreadPos) /\ list[type] \in Seq(ThreadProc)
  BY DEF TypeOK
<1>2. k \in 1 .. Len(thread[type]) /\ k \in Nat \ {0} /\ Len(list[type]) = Len(thread[type])
  BY <1>1 DEF At, TypeOK
<1>3. INDEX_OF(k) \in 1 .. k
  BY <1>2, IndexInList
<1>4. INDEX_OF(k) \in 1 .. Len(list[type])
  BY <1>1, <1>2, <1>3
<1>5. list[type][INDEX_OF(k)] \in ThreadProc
  BY <1>1, <1>4
<1>6. 0 <= Period(type)
  BY Constants DEF Period
<1> QED
  BY <1>1, <1>2, <1>4, <1>5, <1>6 DEF At, Entry, TypeOK

LEMMA SleepIsWatcher ==
    ASSUME NEW type \in Type
    PROVE  /\ [pc |-> "check", left |-> Period(type), new |-> NoPid] \in ThreadPos
           /\ Period(type) \in Nat \ {0}
  BY Constants DEF ThreadPos, Period

LEMMA GotoIsWatcher ==
    ASSUME NEW old \in ThreadPos, NEW pc \in {"check", "kill", "exec", "store"},
           NEW w, w = [old EXCEPT !.pc = pc]
    PROVE  w \in ThreadPos /\ w.pc = pc /\ w.left = old.left /\ w.new = old.new
  BY DEF ThreadPos

(* The steps that leave the processes alone: the thread goes on, and its   *)
(* entry may have been written to.                                         *)
LEMMA QuietWatchStep ==
    ASSUME ServiceInv, NEW type \in Type, NEW k \in 1 .. Len(thread[type]),
           NEW w \in ThreadPos, w.left <= Period(type), w.pc = "store" => w.new \in Pid,
           thread' = [thread EXCEPT ![type][k] = w],
           \/ list' = list
           \/ \E i \in 1 .. Len(list[type]) : \E e \in ThreadProc :
                  list' = [list EXCEPT ![type][i] = e],
           UNCHANGED <<backlog, main, proc, up, faults, cut, ring, cli, hungup, lock, timesvc>>
    PROVE  ServiceInv'
<1> USE DEF ServiceInv
<1>1. list \in [Type -> Seq(ThreadProc)]
  BY DEF TypeOK
<1>2. /\ list' \in [Type -> Seq(ThreadProc)]
      /\ \A ty \in Type : Len(list'[ty]) = Len(list[ty])
  <2>1. CASE list' = list
    BY <1>1, <2>1
  <2>2. ASSUME NEW i \in 1 .. Len(list[type]), NEW e \in ThreadProc,
               list' = [list EXCEPT ![type][i] = e]
        PROVE  /\ list' \in [Type -> Seq(ThreadProc)]
               /\ \A ty \in Type : Len(list'[ty]) = Len(list[ty])
    BY <1>1, <2>2, OneReplaced
  <2> QED
    BY <2>1, <2>2
<1>3. proc' \in [Pid -> Process] /\ PidsInOrder' /\ StartedOrNot' /\ StartedStay
  BY PidsKept DEF TypeOK, NoneBegins
<1>4. cut' \in BOOLEAN
  BY DEF TypeOK
<1> QED
  BY <1>2, <1>3, <1>4, WatchStep

LEMMA run_normalStep ==
    ASSUME ServiceInv, NEW k, run_normal(k)
    PROVE  ServiceInv'
<1> DEFINE i == INDEX_OF(k)
<1>1. /\ At("NORMAL", k, "check") /\ "NORMAL" \in Type
      /\ UNCHANGED <<backlog, main, proc, up, faults, cut, ring, cli, hungup, lock, timesvc>>
  BY DEF run_normal, system, service, Type
<1>2. /\ k \in 1 .. Len(thread["NORMAL"]) /\ thread["NORMAL"][k] \in ThreadPos
      /\ list \in [Type -> Seq(ThreadProc)] /\ i \in 1 .. Len(list["NORMAL"])
      /\ Entry("NORMAL", k) = list["NORMAL"][i] /\ Entry("NORMAL", k) \in ThreadProc
  BY <1>1, Watching DEF ServiceInv
<1>3. PICK w \in ThreadPos : w = [pc |-> "check", left |-> Period("NORMAL"), new |-> NoPid]
  BY <1>1, SleepIsWatcher
<1>4. w.left <= Period("NORMAL") /\ w.pc = "check"
  BY <1>1, <1>3, SleepIsWatcher
<1>5. CASE list' = list /\ SleepAgain("NORMAL", k)
  <2>1. thread' = [thread EXCEPT !["NORMAL"][k] = w]
    BY <1>3, <1>5 DEF SleepAgain
  <2> QED
    BY <1>1, <1>2, <1>4, <1>5, <2>1, QuietWatchStep
<1>6. CASE /\ list' = [list EXCEPT !["NORMAL"][i].age = 0]
           /\ SleepAgain("NORMAL", k)
  <2>1. thread' = [thread EXCEPT !["NORMAL"][k] = w]
    BY <1>3, <1>6 DEF SleepAgain
  <2>2. PICK e \in ThreadProc : e = [list["NORMAL"][i] EXCEPT !.age = 0]
    <3>1. list["NORMAL"][i] \in ThreadProc /\ 0 \in 0 .. Timeout
      BY <1>2, Constants
    <3> QED
      BY <3>1 DEF ThreadProc
  <2>3. list' = [list EXCEPT !["NORMAL"][i] = e]
    BY <1>6, <2>2
  <2> QED
    BY <1>1, <1>2, <1>4, <2>1, <2>3, QuietWatchStep
<1>7. CASE list' = list /\ Goto("NORMAL", k, "exec")
  <2>0. PICK v : v = [thread["NORMAL"][k] EXCEPT !.pc = "exec"]
    OBVIOUS
  <2>1. v \in ThreadPos /\ v.left = thread["NORMAL"][k].left /\ v.pc = "exec"
    BY <1>2, <2>0, GotoIsWatcher
  <2>2. thread' = [thread EXCEPT !["NORMAL"][k] = v]
    BY <1>7, <2>0 DEF Goto
  <2>3. v.left <= Period("NORMAL")
    BY <1>1, <2>1, Watching DEF ServiceInv
  <2> QED
    BY <1>1, <1>2, <1>7, <2>1, <2>2, <2>3, QuietWatchStep
<1> QED
  BY <1>5, <1>6, <1>7 DEF run_normal

LEMMA run_ctrldStep ==
    ASSUME ServiceInv, NEW k, run_ctrld(k)
    PROVE  ServiceInv'
<1>1. /\ At("CONTROLED", k, "check") /\ "CONTROLED" \in Type /\ list' = list
      /\ UNCHANGED <<backlog, main, proc, up, faults, cut, ring, cli, hungup, lock, timesvc>>
  BY DEF run_ctrld, system, service, Type
<1>2. /\ k \in 1 .. Len(thread["CONTROLED"]) /\ thread["CONTROLED"][k] \in ThreadPos
      /\ thread["CONTROLED"][k].left = 0 /\ 0 <= Period("CONTROLED")
  BY <1>1, Watching DEF ServiceInv
<1>3. CASE SleepAgain("CONTROLED", k)
  <2>1. PICK w \in ThreadPos : w = [pc |-> "check", left |-> Period("CONTROLED"), new |-> NoPid]
    BY <1>1, SleepIsWatcher
  <2>2. w.left <= Period("CONTROLED") /\ w.pc = "check"
    BY <1>1, <2>1, SleepIsWatcher
  <2>3. thread' = [thread EXCEPT !["CONTROLED"][k] = w]
    BY <1>3, <2>1 DEF SleepAgain
  <2> QED
    BY <1>1, <1>2, <2>2, <2>3, QuietWatchStep
<1>4. CASE Goto("CONTROLED", k, "kill")
  <2>0. PICK v : v = [thread["CONTROLED"][k] EXCEPT !.pc = "kill"]
    OBVIOUS
  <2>1. v \in ThreadPos /\ v.left = thread["CONTROLED"][k].left /\ v.pc = "kill"
    BY <1>2, <2>0, GotoIsWatcher
  <2>2. thread' = [thread EXCEPT !["CONTROLED"][k] = v]
    BY <1>4, <2>0 DEF Goto
  <2> QED
    BY <1>1, <1>2, <2>1, <2>2, QuietWatchStep
<1> QED
  BY <1>3, <1>4 DEF run_ctrld

(* The kill: of a process that executes, unless there is a shell between.  *)
LEMMA Killing ==
    ASSUME TypeOK, NEW p \in Pid, Killed(p)
    PROVE  /\ proc' \in [Pid -> Process] /\ NoneBegins
           /\ backlog' = backlog \/ SameSenders(backlog')
           /\ cut' \in BOOLEAN /\ (cut => cut') /\ (~cut' => backlog' = backlog)
           /\ \A q \in Pid \ {p} : proc'[q] = proc[q]
           /\ \/ proc' = proc
              \/ proc'[p].st \in {"zombie", "gone"} /\ Executes(p)
           /\ proc[p].cmd \notin Wrapped => ~Executes(p)'
<1>0. backlog \in Seq(Connection) /\ cut \in BOOLEAN /\ proc \in [Pid -> Process]
  BY DEF TypeOK
<1>1. CASE Executes(p) /\ proc[p].cmd \notin Wrapped
  <2>1. proc' = Stopped(p, Dead(p)) /\ backlog' = Left(p, "eof")
    BY <1>1 DEF Killed
  <2>2. Dead(p) \in {"zombie", "gone"}
    BY DEF Dead
  <2>3. /\ proc' \in [Pid -> Process] /\ NoneBegins /\ proc'[p].st = Dead(p)
        /\ \A q \in Pid \ {p} : proc'[q] = proc[q]
    BY <1>1, <2>1, <2>2, StoppedIs
  <2>4. SameSenders(backlog')
    BY <2>1, LeftIs
  <2>5. cut' = (cut \/ backlog' # backlog)
    BY <1>1 DEF Killed
  <2>6. cut' \in BOOLEAN /\ (cut => cut') /\ (~cut' => backlog' = backlog)
    BY <2>5, Zenon
  <2>7. proc'[p].st \in {"zombie", "gone"} /\ ~Executes(p)'
    BY <2>2, <2>3 DEF Executes
  <2> QED
    BY <1>1, <2>3, <2>4, <2>6, <2>7
<1>2. CASE ~(Executes(p) /\ proc[p].cmd \notin Wrapped)
  <2>1. proc' = proc /\ backlog' = backlog /\ cut' = cut
    BY <1>2 DEF Killed
  <2>2. NoneBegins
    BY <2>1 DEF NoneBegins
  <2>3. proc[p].cmd \notin Wrapped => ~Executes(p)'
    BY <1>2, <2>1 DEF Executes
  <2> QED
    BY <1>0, <2>1, <2>2, <2>3
<1> QED
  BY <1>1, <1>2

LEMMA kill_silentStep ==
    ASSUME ServiceInv, NEW k, kill_silent(k)
    PROVE  ServiceInv'
<1>1. PICK p : p = Entry("CONTROLED", k).pid
  OBVIOUS
<1>2. /\ At("CONTROLED", k, "kill") /\ "CONTROLED" \in Type /\ list' = list
      /\ Goto("CONTROLED", k, "exec") /\ Killed(p)
      /\ UNCHANGED <<main, up, faults, ring, cli, hungup, lock, timesvc>>
  BY <1>1 DEF kill_silent, service, Type
<1>3. /\ k \in 1 .. Len(thread["CONTROLED"]) /\ thread["CONTROLED"][k] \in ThreadPos
      /\ thread["CONTROLED"][k].left = 0 /\ 0 <= Period("CONTROLED")
      /\ Entry("CONTROLED", k) \in ThreadProc
  BY <1>2, Watching DEF ServiceInv
<1>4. PICK v : v = [thread["CONTROLED"][k] EXCEPT !.pc = "exec"]
  OBVIOUS
<1>5. v \in ThreadPos /\ v.left = thread["CONTROLED"][k].left /\ v.pc = "exec"
  BY <1>3, <1>4, GotoIsWatcher
<1>6. thread' = [thread EXCEPT !["CONTROLED"][k] = v]
  BY <1>2, <1>4 DEF Goto
<1>7. p \in Pid
  BY <1>1, <1>3 DEF ThreadProc
<1>8. /\ proc' \in [Pid -> Process] /\ NoneBegins /\ cut' \in BOOLEAN
      /\ backlog' = backlog \/ SameSenders(backlog')
  BY <1>2, <1>7, Killing DEF ServiceInv
<1>9. PidsInOrder' /\ StartedOrNot' /\ StartedStay
  BY <1>8, PidsKept DEF ServiceInv
<1>10. /\ list' \in [Type -> Seq(ThreadProc)]
       /\ \A ty \in Type : Len(list'[ty]) = Len(list[ty])
  BY <1>2 DEF ServiceInv, TypeOK
<1>11. v.left <= Period("CONTROLED") /\ (v.pc = "store" => v.new \in Pid)
  BY <1>3, <1>5
<1> QED
  BY <1>2, <1>3, <1>5, <1>6, <1>8, <1>9, <1>10, <1>11, WatchStep

LEMMA restart_execStep ==
    ASSUME ServiceInv, NEW type \in Type, NEW k, restart_exec(type, k)
    PROVE  ServiceInv'
<1>1. /\ At(type, k, "exec") /\ MayStart(Entry(type, k).cmd) /\ list' = list
      /\ exec_cmdline(Entry(type, k).cmd, "server")
      /\ thread' = [thread EXCEPT ![type][k].pc = "store", ![type][k].new = NextPid]
      /\ UNCHANGED <<backlog, main, up, faults, cut, ring, cli, hungup, lock, timesvc>>
  BY DEF restart_exec, system, service
<1>0. NextPid \in Pid
  BY <1>1 DEF MayStart
<1>2. /\ k \in 1 .. Len(thread[type]) /\ thread[type][k] \in ThreadPos
      /\ thread[type][k].left = 0 /\ 0 <= Period(type)
      /\ Entry(type, k) \in ThreadProc
  BY <1>1, Watching DEF ServiceInv
<1>3. PICK w \in ThreadPos :
         /\ w = [thread[type][k] EXCEPT !.pc = "store", !.new = NextPid]
         /\ w.left = 0 /\ w.pc = "store" /\ w.new \in Pid
  <2>1. PICK old \in ThreadPos : old = thread[type][k] /\ old.left = 0
    BY <1>2
  <2>2. PICK new \in Pid : new = NextPid
    BY <1>0
  <2>0. PICK a : a = [old EXCEPT !.pc = "store"]
    OBVIOUS
  <2>3. a \in ThreadPos /\ a.pc = "store" /\ a.left = old.left
    BY <2>0, GotoIsWatcher
  <2>4. PICK w : w = [a EXCEPT !.new = new]
    OBVIOUS
  <2>5. w \in ThreadPos /\ w.pc = "store" /\ w.left = old.left /\ w.new = new
    BY <2>2, <2>3, <2>4 DEF ThreadPos
  <2>6. w = [thread[type][k] EXCEPT !.pc = "store", !.new = NextPid]
    BY <2>0, <2>1, <2>2, <2>4
  <2> QED
    BY <2>1, <2>2, <2>5, <2>6
<1>4. thread' = [thread EXCEPT ![type][k] = w]
  BY <1>1, <1>3
<1>5. PICK c \in Command : c = Entry(type, k).cmd
  BY <1>2 DEF ThreadProc
<1>6. proc' \in [Pid -> Process] /\ PidsInOrder' /\ StartedOrNot' /\ StartedStay
  BY <1>1, <1>5, ProcessBegins DEF ServiceInv
<1>7. cut' \in BOOLEAN
  BY <1>1 DEF ServiceInv, TypeOK
<1>8. /\ list' \in [Type -> Seq(ThreadProc)]
      /\ \A ty \in Type : Len(list'[ty]) = Len(list[ty])
  BY <1>1 DEF ServiceInv, TypeOK
<1>9. w.left <= Period(type) /\ (w.pc = "store" => w.new \in Pid)
  BY <1>2, <1>3
<1> QED
  BY <1>1, <1>2, <1>4, <1>6, <1>7, <1>8, <1>9, WatchStep

LEMMA restart_storeStep ==
    ASSUME ServiceInv, NEW type \in Type, NEW k, restart_store(type, k)
    PROVE  ServiceInv'
<1>1. PICK i : i = INDEX_OF(k)
  OBVIOUS
<1>2. /\ At(type, k, "store") /\ SleepAgain(type, k)
      /\ list' = [list EXCEPT ![type][i].pid = thread[type][k].new, ![type][i].age = 0]
      /\ UNCHANGED <<backlog, main, proc, up, faults, cut, ring, cli, hungup, lock, timesvc>>
  BY <1>1 DEF restart_store, system, service
<1>3. /\ k \in 1 .. Len(thread[type]) /\ thread[type][k].pc = "store"
      /\ list[type][i] \in ThreadProc /\ i \in 1 .. Len(list[type])
  BY <1>1, <1>2, Watching DEF ServiceInv
<1>4. PICK new \in Pid : new = thread[type][k].new
  BY <1>3 DEF ServiceInv, NewIsKnown
<1>5. PICK w \in ThreadPos : w = [pc |-> "check", left |-> Period(type), new |-> NoPid]
  BY SleepIsWatcher
<1>6. w.left <= Period(type) /\ w.pc = "check"
  BY <1>5, SleepIsWatcher
<1>7. thread' = [thread EXCEPT ![type][k] = w]
  BY <1>2, <1>5 DEF SleepAgain
<1>8. PICK old \in ThreadProc : old = list[type][i]
  BY <1>3
<1>9. PICK a \in ThreadProc : a = [old EXCEPT !.pid = new]
  BY DEF ThreadProc
<1>10. PICK e \in ThreadProc : e = [a EXCEPT !.age = 0]
  <2>1. 0 \in 0 .. Timeout
    BY Constants
  <2> QED
    BY <2>1 DEF ThreadProc
<1>11. list' = [list EXCEPT ![type][i] = e]
  BY <1>2, <1>4, <1>8, <1>9, <1>10
<1> QED
  BY <1>2, <1>3, <1>6, <1>7, <1>11, QuietWatchStep

(* Whoever the clock passes over keeps what the invariant speaks of.       *)
LEMMA Counting ==
    /\ \A left \in Nat : Before(left) \in 0 .. left /\ Before(left) \in Nat
    /\ \A m \in Nat : \A left \in 0 .. m : Before(left) \in 0 .. m
    /\ \A age \in 0 .. Timeout : After(age) \in 0 .. Timeout
<1>1. Timeout \in Nat
  BY Constants
<1> QED
  BY <1>1 DEF Before, After

LEMMA TickStep ==
    ASSUME ServiceInv, Tick
    PROVE  ServiceInv'
<1>1. UNCHANGED <<backlog, main, up, faults, cut, ring, cli, hungup, lock>>
  BY DEF Tick, system
<1>2. /\ proc' \in [Pid -> Process] /\ NoneBegins
  <2>1. /\ proc' = [p \in Pid |-> [proc[p] EXCEPT !.beat = Before(@), !.due = Before(@),
                                                 !.nap  = Before(@)]]
        /\ proc \in [Pid -> Process]
    BY DEF Tick, ServiceInv, TypeOK
  <2>2. ASSUME NEW p \in Pid
        PROVE  /\ proc'[p] \in Process /\ proc'[p].req = proc[p].req
               /\ proc'[p].st = proc[p].st /\ proc'[p].cmd = proc[p].cmd
               /\ proc[p].st = "none" => proc'[p] = proc[p]
    <3>1. PICK old \in Process : old = proc[p]
      BY <2>1
    <3>2. /\ Before(old.beat) \in 0 .. HeartbeatPeriod
          /\ Before(old.due) \in 0 .. WakeupTime /\ Before(old.nap) \in 0 .. ClientSleep
      BY Constants, Counting DEF Process
    <3>3. PICK b, d, n : b = Before(old.beat) /\ d = Before(old.due) /\ n = Before(old.nap)
      OBVIOUS
    <3>4. proc'[p] = [old EXCEPT !.beat = b, !.due = d, !.nap = n]
      BY <2>1, <3>1, <3>3
    <3>5. PICK x : x = [old EXCEPT !.beat = b]
      OBVIOUS
    <3>6. /\ x \in Process /\ x.st = old.st /\ x.cmd = old.cmd /\ x.req = old.req
      BY <3>2, <3>3, <3>5 DEF Process
    <3>7. PICK y : y = [x EXCEPT !.due = d]
      OBVIOUS
    <3>8. /\ y \in Process /\ y.st = old.st /\ y.cmd = old.cmd /\ y.req = old.req
      BY <3>2, <3>3, <3>6, <3>7 DEF Process
    <3>9. PICK z : z = [y EXCEPT !.nap = n]
      OBVIOUS
    <3>10. /\ z \in Process /\ z.st = old.st /\ z.cmd = old.cmd /\ z.req = old.req
      BY <3>2, <3>3, <3>8, <3>9 DEF Process
    <3>11. z = proc'[p]
      BY <3>4, <3>5, <3>7, <3>9
    <3>12. ASSUME old.st = "none" PROVE z = old
      <4>1. old = [st |-> "none", cmd |-> NoPid, by |-> "client", beat |-> 0, due |-> 0,
                   req |-> "send", nap |-> 0]
        BY <3>1, <3>12 DEF ServiceInv, StartedOrNot, NotStarted
      <4>2. Before(0) = 0
        BY DEF Before
      <4>3. old.beat = 0 /\ old.due = 0 /\ old.nap = 0
        BY <4>1
      <4>4. b = 0 /\ d = 0 /\ n = 0
        BY <3>3, <4>2, <4>3
      <4>5. x = old
        BY <3>5, <4>1, <4>4
      <4>6. y = old
        BY <3>7, <4>1, <4>4, <4>5
      <4> QED
        BY <3>9, <4>1, <4>4, <4>6
    <3> QED
      BY <3>1, <3>10, <3>11, <3>12
  <2> QED
    BY <2>1, <2>2 DEF NoneBegins
<1>3. /\ list' \in [Type -> Seq(ThreadProc)]
      /\ \A type \in Type : Len(list'[type]) = Len(list[type])
  <2>1. ASSUME NEW type \in Type
        PROVE  list'[type] \in Seq(ThreadProc) /\ Len(list'[type]) = Len(list[type])
    <3>1. PICK s \in Seq(ThreadProc) : s = list[type]
      BY DEF ServiceInv, TypeOK
    <3>2. list'[type] = [i \in DOMAIN s |-> [s[i] EXCEPT !.age = After(@)]]
      BY <3>1 DEF Tick
    <3>3. \A i \in 1 .. Len(s) : [s[i] EXCEPT !.age = After(@)] \in ThreadProc
      <4>1. SUFFICES ASSUME NEW i \in 1 .. Len(s)
                     PROVE  [s[i] EXCEPT !.age = After(s[i].age)] \in ThreadProc
        OBVIOUS
      <4>2. PICK old \in ThreadProc : old = s[i]
        OBVIOUS
      <4>3. After(old.age) \in 0 .. Timeout
        BY Counting DEF ThreadProc
      <4>4. [old EXCEPT !.age = After(old.age)] \in ThreadProc
        BY <4>3 DEF ThreadProc
      <4> QED
        BY <4>2, <4>4
    <3>4. PICK f : f = [i \in 1 .. Len(s) |-> [s[i] EXCEPT !.age = After(@)]]
      OBVIOUS
    <3>5. f \in Seq(ThreadProc) /\ Len(f) = Len(s)
      BY <3>3, <3>4
    <3>6. DOMAIN s = 1 .. Len(s)
      OBVIOUS
    <3>7. list'[type] = f
      BY <3>2, <3>4, <3>6
    <3> QED
      BY <3>1, <3>5, <3>7
  <2> QED
    BY <2>1 DEF Tick
<1>4. /\ thread' \in [Type -> Seq(ThreadPos)]
      /\ \A type \in Type : /\ Len(thread'[type]) = Len(thread[type])
                            /\ \A k \in 1 .. Len(thread[type]) :
                                   /\ thread'[type][k].pc = thread[type][k].pc
                                   /\ thread'[type][k].new = thread[type][k].new
                                   /\ thread'[type][k].left <= thread[type][k].left
  <2>1. ASSUME NEW type \in Type
        PROVE  /\ thread'[type] \in Seq(ThreadPos) /\ Len(thread'[type]) = Len(thread[type])
               /\ \A k \in 1 .. Len(thread[type]) :
                      /\ thread'[type][k].pc = thread[type][k].pc
                      /\ thread'[type][k].new = thread[type][k].new
                      /\ thread'[type][k].left <= thread[type][k].left
    <3>1. PICK s \in Seq(ThreadPos) : s = thread[type]
      BY DEF ServiceInv, TypeOK
    <3>2. thread'[type] = [k \in DOMAIN s |-> [s[k] EXCEPT !.left = Before(@)]]
      BY <3>1 DEF Tick
    <3>3. PICK f : f = [k \in 1 .. Len(s) |-> [s[k] EXCEPT !.left = Before(@)]]
      OBVIOUS
    <3>4. ASSUME NEW k \in 1 .. Len(s)
          PROVE  f[k] \in ThreadPos /\ f[k].pc = s[k].pc /\ f[k].new = s[k].new
                   /\ f[k].left <= s[k].left
      <4>1. PICK old \in ThreadPos : old = s[k]
        OBVIOUS
      <4>2. old.left \in Nat /\ Before(old.left) \in Nat /\ Before(old.left) <= old.left
        BY Counting DEF ThreadPos
      <4>3. PICK b \in Nat : b = Before(old.left)
        BY <4>2
      <4>4. PICK w : w = [old EXCEPT !.left = b]
        OBVIOUS
      <4>5. w \in ThreadPos /\ w.pc = old.pc /\ w.new = old.new /\ w.left = b
        BY <4>4 DEF ThreadPos
      <4>6. f[k] = w
        BY <3>3, <4>1, <4>3, <4>4
      <4> QED
        BY <4>1, <4>2, <4>3, <4>5, <4>6
    <3>5. f \in Seq(ThreadPos) /\ Len(f) = Len(s)
      BY <3>3, <3>4
    <3>6. DOMAIN s = 1 .. Len(s)
      OBVIOUS
    <3>7. thread'[type] = f
      BY <3>2, <3>3, <3>6
    <3> QED
      BY <3>1, <3>4, <3>5, <3>7
  <2> QED
    BY <2>1 DEF Tick
<1>5. /\ timesvc' \in [Server -> [pc : {"sleep", "scan"}, left : 0 .. TimesvcPeriod,
                                 at : Cursor]]
      /\ \A t \in Server : timesvc'[t].pc = timesvc[t].pc /\ timesvc'[t].at = timesvc[t].at
  <2>1. timesvc' = [t \in Server |-> [timesvc[t] EXCEPT !.left = Before(@)]]
    BY DEF Tick
  <2>2. ASSUME NEW t \in Server
        PROVE  /\ timesvc'[t] \in [pc : {"sleep", "scan"}, left : 0 .. TimesvcPeriod,
                                   at : Cursor]
               /\ timesvc'[t].pc = timesvc[t].pc /\ timesvc'[t].at = timesvc[t].at
    <3>1. PICK old \in [pc : {"sleep", "scan"}, left : 0 .. TimesvcPeriod, at : Cursor] :
             old = timesvc[t]
      BY DEF ServiceInv, TypeOK
    <3>2. PICK b \in 0 .. TimesvcPeriod : b = Before(old.left)
      BY Constants, Counting
    <3>3. timesvc'[t] = [old EXCEPT !.left = b]
      BY <2>1, <3>1, <3>2
    <3> QED
      BY <3>1, <3>3
  <2> QED
    BY <2>1, <2>2
<1>6. PidsInOrder' /\ StartedOrNot' /\ StartedStay
  BY <1>2, PidsKept DEF ServiceInv
<1>7. TypeOK'
  <2>1. \A type \in Type :
           /\ Len(thread'[type]) = Len(list'[type])
           /\ \A k \in DOMAIN thread'[type] : thread'[type][k].left <= Period(type)
    <3>1. SUFFICES ASSUME NEW type \in Type
                   PROVE  /\ Len(thread'[type]) = Len(list'[type])
                          /\ \A k \in 1 .. Len(thread'[type]) :
                                 thread'[type][k].left <= Period(type)
      BY <1>4
    <3>2. /\ Len(thread[type]) = Len(list[type]) /\ thread[type] \in Seq(ThreadPos)
          /\ \A k \in 1 .. Len(thread[type]) : thread[type][k].left <= Period(type)
      BY DEF ServiceInv, TypeOK
    <3>3. \A k \in 1 .. Len(thread[type]) :
             thread[type][k].left \in Nat /\ thread'[type][k].left \in Nat
      <4>1. \A w \in ThreadPos : w.left \in Nat
        BY DEF ThreadPos
      <4> QED
        BY <1>4, <3>2, <4>1
    <3>4. Period(type) \in Nat
      BY SleepIsWatcher
    <3>5. Len(thread'[type]) = Len(thread[type]) /\ Len(list'[type]) = Len(list[type])
      BY <1>3, <1>4
    <3>6. \A k \in 1 .. Len(thread[type]) : thread'[type][k].left <= thread[type][k].left
      BY <1>4
    <3>7. \A k \in 1 .. Len(thread[type]) : thread'[type][k].left <= Period(type)
      BY <3>2, <3>3, <3>4, <3>6
    <3> QED
      BY <3>2, <3>5, <3>7
  <2>2. Len(list'.CONTROLED) = Len(list.CONTROLED) /\ main' = main
    BY <1>1, <1>3 DEF Type
  <2> QED
    BY <1>1, <1>2, <1>3, <1>4, <1>5, <2>1, <2>2 DEF TypeOK, ServiceInv
<1>8. NewIsKnown'
  BY <1>4 DEF NewIsKnown, ServiceInv
<1>9. MainKnows' /\ SendersStarted'
  <2>1. Len(list'.CONTROLED) = Len(list.CONTROLED)
    BY <1>3 DEF Type
  <2> QED
    BY <1>1, <1>6, <2>1, MainKept, SendersKept DEF ServiceInv
<1>10. RingIsWhole' /\ CursorsHoldLock'
  <2>1. Linked' = Linked /\ ring' = ring
    BY <1>1 DEF Linked
  <2> QED
    BY <1>1, <1>5, <2>1 DEF ServiceInv, RingIsWhole, CursorsHoldLock
<1> QED
  BY <1>6, <1>7, <1>8, <1>9, <1>10 DEF ServiceInv

LEMMA StutterStep ==
    ASSUME ServiceInv, UNCHANGED vars
    PROVE  ServiceInv'
<1>1. UNCHANGED <<up, backlog, proc, list, thread, main, ring, cli, hungup, lock, timesvc,
                  faults, cut>>
  BY DEF vars, system, watches, service
<1>2. TypeOK /\ PidsInOrder /\ StartedOrNot
  BY DEF ServiceInv
<1>3. proc' \in [Pid -> Process] /\ backlog' \in Seq(Connection)
      /\ faults' \in 0 .. MaxFaults /\ cut' \in BOOLEAN
  BY <1>1, <1>2 DEF TypeOK
<1>4. NoneBegins
  BY <1>1 DEF NoneBegins
<1>5. PidsInOrder' /\ StartedOrNot' /\ StartedStay
  BY <1>2, <1>4, PidsKept
<1>6. SendersStarted'
  BY <1>1, <1>2, <1>5, SendersKept DEF ServiceInv
<1> QED
  BY <1>1, <1>3, <1>5, <1>6, ProgramStep

(* The steps of the next-state relation, one by one.                       *)
LEMMA Steps ==
    ASSUME Next
    PROVE  \/ \E c \in Command : start_client(c)
           \/ \E p \in Pid : run_heartbeat(p) \/ run_timesvc_cli(p)
           \/ \E p \in Pid : run_heartbeat_send(p) \/ run_timesvc_cli_send(p)
           \/ \E p \in Pid : start_client_send(p) \/ client_fault(p)
           \/ \E p \in Pid : crash(p) \/ hang(p)
           \/ unknown_msg \/ process_new_proc \/ (rcv_heartbeat \/ check_request)
           \/ find_entry \/ stamp_entry \/ insert_request
           \/ \E t \in Server : (begin_scan(t) \/ end_scan(t)) \/ scan_entry(t)
           \/ \E k \in Watcher : run_normal(k) \/ run_ctrld(k) \/ kill_silent(k)
           \/ \E type \in Type : \E k \in Watcher :
                  restart_exec(type, k) \/ restart_store(type, k)
           \/ Tick
  BY DEF Next, Goes, Main, TimeSvc, Program, Watch, WatchNormal, WatchControlled, Type

LEMMA ServiceStep ==
    ASSUME ServiceInv, [Next]_vars
    PROVE  ServiceInv'
<1>1. CASE UNCHANGED vars
  BY <1>1, StutterStep
<1>2. CASE Next
  <2>1. \A c \in Command : start_client(c) => ServiceInv'
    BY start_clientStep
  <2>2. \A p \in Pid : run_heartbeat(p) \/ run_timesvc_cli(p) => ServiceInv'
    BY ConnectStep
  <2>3. \A p \in Pid : run_heartbeat_send(p) \/ run_timesvc_cli_send(p) => ServiceInv'
    BY SendStep
  <2>4. \A p \in Pid : start_client_send(p) \/ client_fault(p) => ServiceInv'
    BY ClientStep
  <2>5. \A p \in Pid : crash(p) \/ hang(p) => ServiceInv'
    BY FaultStep
  <2>6. unknown_msg \/ process_new_proc \/ (rcv_heartbeat \/ check_request) => ServiceInv'
    BY unknown_msgStep, process_new_procStep, AcceptStep
  <2>7. find_entry \/ stamp_entry \/ insert_request => ServiceInv'
    BY find_entryStep, stamp_entryStep, insert_requestStep
  <2>8. \A t \in Server : (begin_scan(t) \/ end_scan(t)) \/ scan_entry(t) => ServiceInv'
    BY LockStep, scan_entryStep
  <2>9. \A k : run_normal(k) \/ run_ctrld(k) \/ kill_silent(k) => ServiceInv'
    BY run_normalStep, run_ctrldStep, kill_silentStep
  <2>10. \A type \in Type : \A k : restart_exec(type, k) \/ restart_store(type, k) => ServiceInv'
    BY restart_execStep, restart_storeStep
  <2>11. Tick => ServiceInv'
    BY TickStep
  <2> QED
    BY <1>2, <2>1, <2>2, <2>3, <2>4, <2>5, <2>6, <2>7, <2>8, <2>9, <2>10, <2>11, Steps
<1> QED
  BY <1>1, <1>2

(* The first part of the invariant always holds: whatever the programs,    *)
(* the periods, the failures and the size of an entry.                     *)
THEOREM ServiceInvariant == Spec => []ServiceInv
<1>1. ServiceInv /\ [Next]_vars => ServiceInv'
  BY ServiceStep
<1> QED
  BY <1>1, ServiceInit, PTL DEF Spec

(* Every variable has its type in every reachable state of the monitor:    *)
(* the lists and the threads that watch them stay equally long, and every  *)
(* message, age and pid stays in its range.                                *)
THEOREM MonitorTypeOK == Spec => []TypeOK
<1>1. ServiceInv => TypeOK
  BY DEF ServiceInv
<1> QED
  BY <1>1, ServiceInvariant, PTL

(* No thread of the time service ever stands on, or is about to step on,   *)
(* an entry that has been freed: for any number of requests, and although  *)
(* two threads take entries out and the main thread puts them in.          *)
THEOREM CursorsStayLinked == Spec => []CursorsAreLinked
<1>1. ASSUME ServiceInv
      PROVE  CursorsAreLinked
  <2>1. ASSUME NEW t \in Server, timesvc[t].pc = "scan"
        PROVE  timesvc[t].at.pos \in Linked /\ timesvc[t].at.n \in Linked
    BY <1>1, <2>1, LinkedFacts DEF ServiceInv, CursorsHoldLock
  <2> QED
    BY <2>1 DEF CursorsAreLinked, Linked
<1> QED
  BY <1>1, ServiceInvariant, PTL

-----------------------------------------------------------------------------
(* The inductive invariant, second part: of a command that no shell waits  *)
(* for and that is watched once, while each thread works on an entry of    *)
(* its own command.  That is so if the pointers' difference is not divided *)
(* by the size of an entry a second time, or each list has one command.    *)

Kind(type) == IF type = "NORMAL" THEN Normal ELSE Controlled

Lone == EntrySize = 1 \/ \A type \in Type : \A c, d \in Kind(type) : c = d

Once(c) == c \notin Wrapped /\ ~WatchedTwice(c)

AtMostOne ==
    \A p, q \in Pid :
        Executes(p) /\ Executes(q) /\ proc[p].cmd = proc[q].cmd /\ Once(proc[p].cmd) => p = q

(* The process an entry is about: between restart_exec and restart_store   *)
(* it is the one that only the thread knows.                               *)
Current(type, k) ==
    IF thread[type][k].pc = "store" THEN thread[type][k].new ELSE list[type][k].pid

IsOf(p, c) == p \in Pid /\ proc[p].st # "none" /\ proc[p].cmd = c

(* An entry's processes are its command's, and a thread that is about to   *)
(* restart one knows that it has ended.                                    *)
EntryMatches(type, k) ==
    /\ list[type][k].cmd \in Kind(type)
    /\ IsOf(list[type][k].pid, list[type][k].cmd)
    /\ IsOf(Current(type, k), list[type][k].cmd)
    /\ Once(list[type][k].cmd) /\ thread[type][k].pc = "exec" =>
           ~Executes(list[type][k].pid)

EntriesMatch == \A type \in Type : \A k \in 1 .. Len(list[type]) : EntryMatches(type, k)

HasEntry(c) == \E type \in Type : \E k \in 1 .. Len(list[type]) : list[type][k].cmd = c

Announced(i) == i \in 1 .. Len(backlog) /\ backlog[i].type = "NEW_PROC"

AnnouncedCmd(i) == proc[backlog[i].pid].cmd

(* A command is announced once, before it has an entry.                    *)
AnnouncedDiffer ==
    \A i : Announced(i) =>
        /\ ~HasEntry(AnnouncedCmd(i))
        /\ \A j : Announced(j) /\ AnnouncedCmd(j) = AnnouncedCmd(i) => j = i

(* What executes is what has been announced, or what its entry is about.   *)
Owned ==
    \A p \in Pid : Executes(p) =>
        /\ \A i : Announced(i) /\ AnnouncedCmd(i) = proc[p].cmd => backlog[i].pid = p
        /\ Once(proc[p].cmd) =>
               \A type \in Type : \A k \in 1 .. Len(list[type]) :
                   list[type][k].cmd = proc[p].cmd => Current(type, k) = p

(* The last message, should it be handled again.                           *)
LastHasEntry == main.type = "NEW_PROC" => HasEntry(proc[main.pid].cmd)

EntriesInv == EntriesMatch /\ AnnouncedDiffer /\ Owned /\ LastHasEntry

(* While nothing has failed between its connect and its send: the main     *)
(* thread gets every message, and each of them once.                       *)
AllSend == \A i \in 1 .. Len(backlog) : backlog[i].st \in {"open", "sent"}

EntriesDiffer ==
    \A type \in Type : \A k, l \in 1 .. Len(list[type]) :
        list[type][k].cmd = list[type][l].cmd => k = l

(* A sign of life of p that entry k is still to get.                       *)
Pending(k, p) ==
    \/ \E i \in 1 .. Len(backlog) :
           backlog[i].type = "HEARTBEAT_SIGNAL" /\ backlog[i].pid = p
    \/ main.pc = "find" /\ main.i <= k /\ main.pid = p
    \/ main.pc = "stamp" /\ main.i = k

(* The age of a running process's entry and the time to its next beat make *)
(* up no more than a period, or the beat is on its way.  A thread that is  *)
(* about to kill a process knows that it does not run.                     *)
FreshEntry(k) ==
    LET e == list.CONTROLED[k]
    IN  Runs(e.pid) /\ e.cmd \notin Wrapped =>
            /\ thread.CONTROLED[k].pc # "kill"
            /\ thread.CONTROLED[k].pc = "check" =>
                   /\ e.age <= HeartbeatPeriod
                   /\ e.age + proc[e.pid].beat <= HeartbeatPeriod \/ Pending(k, e.pid)

Fresh == \A k \in 1 .. Len(list.CONTROLED) : FreshEntry(k)

WhileListening == AllSend /\ EntriesDiffer /\ Fresh

CopyInv == AtMostOne /\ (up => EntriesInv /\ (~cut => WhileListening))

(* What HealthyNeverKilled says of a step.                                 *)
NoneKilled ==
    up /\ ~cut => \A p \in Pid : Runs(p) /\ ~Runs(p)' => faults' > faults

-----------------------------------------------------------------------------
(* Steps that begin no process and add no entry.                           *)

ProcessKept(p) ==
    /\ proc'[p].cmd = proc[p].cmd
    /\ proc'[p].st = "none" <=> proc[p].st = "none"
    /\ Executes(p)' => Executes(p)
    /\ Runs(p)' => Runs(p)

EntryKept(type, k) ==
    /\ IsOf(list'[type][k].pid, list[type][k].cmd)
    /\ IsOf(Current(type, k)', list[type][k].cmd)
    /\ Once(list[type][k].cmd) =>
           /\ Current(type, k)' = Current(type, k)
           /\ thread'[type][k].pc = "exec" => ~Executes(list[type][k].pid)'

EntriesKept ==
    \A type \in Type : /\ Len(list'[type]) = Len(list[type])
                       /\ \A k \in 1 .. Len(list[type]) : EntryKept(type, k)

(* No entry is ever taken out or given to another command.                 *)
CmdsKept ==
    \A type \in Type : \A k \in 1 .. Len(list[type]) :
        k \in 1 .. Len(list'[type]) /\ list'[type][k].cmd = list[type][k].cmd

(* What is announced was, s places further on.                             *)
AnnouncedFrom(s) ==
    \A i : Announced(i)' => Announced(i + s) /\ backlog'[i].pid = backlog[i + s].pid

AnnouncedKept == AnnouncedFrom(0) \/ AnnouncedFrom(1)

LastKept == main'.type = "NEW_PROC" => main.type = "NEW_PROC" /\ main'.pid = main.pid

LEMMA ListTypes ==
    ASSUME TypeOK
    PROVE  \A type \in Type :
               /\ Len(list[type]) \in Nat /\ DOMAIN list[type] = 1 .. Len(list[type])
               /\ list[type] \in Seq(ThreadProc)
               /\ Len(thread[type]) = Len(list[type])
               /\ \A k \in 1 .. Len(list[type]) :
                      /\ list[type][k] \in ThreadProc /\ list[type][k].pid \in Pid
                      /\ list[type][k].cmd \in Command
                      /\ thread[type][k] \in ThreadPos
<1>1. ASSUME NEW type \in Type
      PROVE  /\ list[type] \in Seq(ThreadProc) /\ thread[type] \in Seq(ThreadPos)
             /\ Len(thread[type]) = Len(list[type])
  BY DEF TypeOK
<1>2. \A e \in ThreadProc : e.pid \in Pid /\ e.cmd \in Command
  BY DEF ThreadProc
<1> QED
  BY <1>1, <1>2

LEMMA OnceBefore ==
    ASSUME TypeOK, TypeOK', CmdsKept
    PROVE  \A c : Once(c)' => Once(c)
<1>1. \A type \in Type : /\ DOMAIN list[type] = 1 .. Len(list[type])
                         /\ DOMAIN list'[type] = 1 .. Len(list'[type])
  BY DEF TypeOK
<1>2. ASSUME NEW c, WatchedTwice(c)
      PROVE  WatchedTwice(c)'
  <2>1. PICK type \in Type : \E i, j \in DOMAIN list[type] :
           i # j /\ list[type][i].cmd = c /\ list[type][j].cmd = c
    BY <1>2 DEF WatchedTwice
  <2>2. PICK i \in DOMAIN list[type], j \in DOMAIN list[type] :
           i # j /\ list[type][i].cmd = c /\ list[type][j].cmd = c
    BY <2>1
  <2>3. /\ i \in DOMAIN list'[type] /\ j \in DOMAIN list'[type]
        /\ list'[type][i].cmd = c /\ list'[type][j].cmd = c
    BY <1>1, <2>2 DEF CmdsKept
  <2> QED
    BY <2>2, <2>3 DEF WatchedTwice
<1> QED
  BY <1>2 DEF Once

(* Two entries of one command are what watched twice means.                *)
LEMMA OnceIsOne ==
    ASSUME TypeOK, NEW type \in Type, NEW i \in 1 .. Len(list[type]),
           NEW j \in 1 .. Len(list[type]), list[type][i].cmd = list[type][j].cmd,
           Once(list[type][i].cmd)
    PROVE  i = j
<1>1. DOMAIN list[type] = 1 .. Len(list[type])
  BY ListTypes
<1> QED
  BY <1>1 DEF Once, WatchedTwice

LEMMA EntriesStay ==
    ASSUME TypeOK, TypeOK', EntriesMatch, \A p \in Pid : ProcessKept(p), CmdsKept, EntriesKept
    PROVE  EntriesMatch'
<1>1. SUFFICES ASSUME NEW type \in Type, NEW k \in 1 .. Len(list'[type])
               PROVE  EntryMatches(type, k)'
  BY DEF EntriesMatch
<1>2. k \in 1 .. Len(list[type]) /\ EntryKept(type, k)
  BY DEF EntriesKept
<1>3. EntryMatches(type, k)
  BY <1>2 DEF EntriesMatch
<1>4. PICK c : c = list[type][k].cmd /\ c = list'[type][k].cmd
  BY <1>2 DEF CmdsKept
<1>5. c \in Kind(type)
  BY <1>3, <1>4 DEF EntryMatches
<1>6. \A p : IsOf(p, c) => IsOf(p, c)'
  BY DEF IsOf, ProcessKept
<1>7. PICK p, q : p = list'[type][k].pid /\ q = Current(type, k)'
  OBVIOUS
<1>8. IsOf(p, c)' /\ IsOf(q, c)'
  BY <1>2, <1>4, <1>6, <1>7 DEF EntryKept
<1>9. Once(c)' /\ thread'[type][k].pc = "exec" => ~Executes(list[type][k].pid)'
  <2>1. Once(c)' => Once(c)
    BY OnceBefore
  <2> QED
    BY <1>2, <1>4, <2>1 DEF EntryKept
<1> QED
  BY <1>4, <1>5, <1>7, <1>8, <1>9 DEF EntryMatches, Kind

LEMMA AnnouncedStay ==
    ASSUME TypeOK, AnnouncedDiffer, \A p \in Pid : ProcessKept(p), AnnouncedKept,
           \A c : HasEntry(c)' => HasEntry(c)
    PROVE  AnnouncedDiffer'
<1>1. PICK s \in {0, 1} : AnnouncedFrom(s)
  BY DEF AnnouncedKept
<1>2. \A i : Announced(i) => i \in Nat /\ backlog[i].pid \in Pid
  BY Queued DEF Announced
<1>3. \A i : Announced(i)' => /\ i \in Nat /\ Announced(i + s)
                              /\ AnnouncedCmd(i)' = AnnouncedCmd(i + s)
  <2>1. ASSUME NEW i, Announced(i)'
        PROVE  i \in Nat /\ Announced(i + s) /\ AnnouncedCmd(i)' = AnnouncedCmd(i + s)
    <3>1. i \in Nat
      BY <2>1 DEF Announced
    <3>2. Announced(i + s) /\ backlog'[i].pid = backlog[i + s].pid
      BY <1>1, <2>1 DEF AnnouncedFrom
    <3>3. backlog[i + s].pid \in Pid
      BY <1>2, <3>2
    <3> QED
      BY <3>1, <3>2, <3>3 DEF AnnouncedCmd, ProcessKept
  <2> QED
    BY <2>1
<1>4. ASSUME NEW i, Announced(i)'
      PROVE  /\ ~HasEntry(AnnouncedCmd(i))'
             /\ \A j : Announced(j)' /\ AnnouncedCmd(j)' = AnnouncedCmd(i)' => j = i
  <2>1. i \in Nat /\ Announced(i + s) /\ AnnouncedCmd(i)' = AnnouncedCmd(i + s)
    BY <1>3, <1>4
  <2>2. ~HasEntry(AnnouncedCmd(i + s))
    BY <2>1 DEF AnnouncedDiffer
  <2>3. ~HasEntry(AnnouncedCmd(i))'
    <3>1. PICK c : c = AnnouncedCmd(i)' /\ c = AnnouncedCmd(i + s)
      BY <2>1
    <3>2. ~HasEntry(c)'
      BY <2>2, <3>1
    <3> QED
      BY <3>1, <3>2 DEF HasEntry
  <2>4. ASSUME NEW j, Announced(j)', AnnouncedCmd(j)' = AnnouncedCmd(i)'
        PROVE  j = i
    <3>1. j \in Nat /\ Announced(j + s) /\ AnnouncedCmd(j + s) = AnnouncedCmd(i + s)
      BY <1>3, <2>1, <2>4
    <3>2. j + s = i + s
      BY <2>1, <3>1 DEF AnnouncedDiffer
    <3> QED
      BY <2>1, <3>1, <3>2
  <2> QED
    BY <2>3, <2>4
<1> QED
  BY <1>4 DEF AnnouncedDiffer

LEMMA OwnedStay ==
    ASSUME TypeOK, TypeOK', Owned, \A p \in Pid : ProcessKept(p), AnnouncedKept,
           CmdsKept, EntriesKept
    PROVE  Owned'
<1>1. SUFFICES ASSUME NEW p \in Pid, Executes(p)'
               PROVE  /\ \A i : Announced(i)' /\ AnnouncedCmd(i)' = proc'[p].cmd
                                    => backlog'[i].pid = p
                      /\ Once(proc[p].cmd)' =>
                             \A type \in Type : \A k \in 1 .. Len(list'[type]) :
                                 list'[type][k].cmd = proc'[p].cmd => Current(type, k)' = p
  <2>1. \A p \in Pid : Executes(p)' =>
            /\ \A i : Announced(i)' /\ AnnouncedCmd(i)' = proc'[p].cmd
                          => backlog'[i].pid = p
            /\ Once(proc[p].cmd)' =>
                   \A type \in Type : \A k \in 1 .. Len(list'[type]) :
                       list'[type][k].cmd = proc'[p].cmd => Current(type, k)' = p
    BY <1>1
  <2> QED
    BY <2>1 DEF Owned
<1>2. Executes(p) /\ proc'[p].cmd = proc[p].cmd
  BY <1>1 DEF ProcessKept
<1>3. ASSUME NEW i, Announced(i)', AnnouncedCmd(i)' = proc'[p].cmd
      PROVE  backlog'[i].pid = p
  <2>1. PICK s \in {0, 1} : AnnouncedFrom(s)
    BY DEF AnnouncedKept
  <2>2. Announced(i + s) /\ backlog'[i].pid = backlog[i + s].pid
    BY <1>3, <2>1 DEF AnnouncedFrom
  <2>3. backlog[i + s].pid \in Pid
    BY <2>2, Queued DEF Announced
  <2>4. AnnouncedCmd(i)' = AnnouncedCmd(i + s)
    BY <2>2, <2>3 DEF AnnouncedCmd, ProcessKept
  <2> QED
    BY <1>2, <1>3, <2>2, <2>4 DEF Owned
<1>4. ASSUME Once(proc[p].cmd)', NEW type \in Type, NEW k \in 1 .. Len(list'[type]),
             list'[type][k].cmd = proc'[p].cmd
      PROVE  Current(type, k)' = p
  <2>1. PICK c : c = proc[p].cmd /\ c = proc'[p].cmd
    BY <1>2
  <2>2. Once(c)'
    BY <1>4, <2>1 DEF Once, WatchedTwice
  <2>3. Once(c)
    BY <2>2, OnceBefore
  <2>4. k \in 1 .. Len(list[type]) /\ EntryKept(type, k)
    BY DEF EntriesKept
  <2>5. list[type][k].cmd = c
    BY <1>4, <2>1, <2>4 DEF CmdsKept
  <2>6. Current(type, k) = p
    BY <1>2, <2>1, <2>3, <2>4, <2>5 DEF Owned
  <2> QED
    BY <2>3, <2>4, <2>5, <2>6 DEF EntryKept
<1> QED
  BY <1>3, <1>4

LEMMA LastStays ==
    ASSUME ServiceInv, LastHasEntry, \A p \in Pid : ProcessKept(p), CmdsKept, LastKept
    PROVE  LastHasEntry'
<1>1. SUFFICES ASSUME main'.type = "NEW_PROC" PROVE HasEntry(proc[main.pid].cmd)'
  BY DEF LastHasEntry
<1>2. main.type = "NEW_PROC" /\ main'.pid = main.pid
  BY <1>1 DEF LastKept
<1>3. main.pid \in Pid /\ HasEntry(proc[main.pid].cmd)
  BY <1>2 DEF LastHasEntry, ServiceInv, MainKnows
<1>4. PICK c : c = proc[main.pid].cmd /\ c = proc'[main'.pid].cmd
  BY <1>2, <1>3 DEF ProcessKept
<1>5. PICK type \in Type : \E k \in 1 .. Len(list[type]) : list[type][k].cmd = c
  BY <1>3, <1>4 DEF HasEntry
<1>6. PICK k \in 1 .. Len(list[type]) : list[type][k].cmd = c
  BY <1>5
<1>7. k \in 1 .. Len(list'[type]) /\ list'[type][k].cmd = c
  BY <1>6 DEF CmdsKept
<1> QED
  BY <1>4, <1>7 DEF HasEntry

LEMMA EntriesDifferStay ==
    ASSUME EntriesDiffer, CmdsKept, \A type \in Type : Len(list'[type]) = Len(list[type])
    PROVE  EntriesDiffer'
  BY DEF EntriesDiffer, CmdsKept

LEMMA AtMostOneStays ==
    ASSUME TypeOK, TypeOK', AtMostOne, \A p \in Pid : ProcessKept(p), CmdsKept
    PROVE  AtMostOne'
<1>1. SUFFICES ASSUME NEW p \in Pid, NEW q \in Pid, Executes(p)', Executes(q)',
                      proc'[p].cmd = proc'[q].cmd, Once(proc[p].cmd)'
               PROVE  p = q
  BY DEF AtMostOne
<1>2. PICK c : c = proc[p].cmd /\ c = proc'[p].cmd
  BY DEF ProcessKept
<1>3. Once(c)'
  BY <1>1, <1>2 DEF Once, WatchedTwice
<1>4. Once(c)
  BY <1>3, OnceBefore
<1> QED
  BY <1>1, <1>2, <1>4 DEF AtMostOne, ProcessKept

LEMMA CopyKept ==
    ASSUME ServiceInv, ServiceInv', CopyInv, \A p \in Pid : ProcessKept(p),
           up' => up, cut => cut', CmdsKept,
           up /\ up' => EntriesKept /\ AnnouncedKept /\ LastKept,
           up /\ up' /\ ~cut' => AllSend' /\ Fresh'
    PROVE  CopyInv'
<1>1. TypeOK /\ TypeOK'
  BY DEF ServiceInv
<1>2. AtMostOne'
  BY <1>1, AtMostOneStays DEF CopyInv
<1>3. SUFFICES ASSUME up, up' PROVE EntriesInv' /\ (~cut' => WhileListening')
  BY <1>2 DEF CopyInv
<1>4. EntriesMatch /\ AnnouncedDiffer /\ Owned /\ LastHasEntry
  BY <1>3 DEF CopyInv, EntriesInv
<1>5. EntriesKept /\ AnnouncedKept /\ LastKept
  BY <1>3
<1>6. \A type \in Type : Len(list'[type]) = Len(list[type])
  BY <1>5 DEF EntriesKept
<1>7. \A c : HasEntry(c)' => HasEntry(c)
  BY <1>6 DEF HasEntry, CmdsKept
<1>8. EntriesMatch'
  BY <1>1, <1>4, <1>5, EntriesStay
<1>9. AnnouncedDiffer'
  BY <1>1, <1>4, <1>5, <1>7, AnnouncedStay
<1>10. Owned'
  BY <1>1, <1>4, <1>5, OwnedStay
<1>11. LastHasEntry'
  BY <1>4, <1>5, LastStays
<1>12. ASSUME ~cut' PROVE WhileListening'
  <2>1. EntriesDiffer
    BY <1>3, <1>12 DEF CopyInv, WhileListening
  <2>2. EntriesDiffer'
    BY <1>6, <2>1, EntriesDifferStay
  <2> QED
    BY <1>3, <1>12, <2>2 DEF WhileListening
<1> QED
  BY <1>8, <1>9, <1>10, <1>11, <1>12 DEF EntriesInv

(* An entry stays fresh if its process beats, or nothing happens to it.    *)
StaysFresh(k, p) ==
    /\ k \in 1 .. Len(list.CONTROLED)
    /\ p = list.CONTROLED[k].pid /\ Runs(p)
    /\ list'.CONTROLED[k].cmd = list.CONTROLED[k].cmd
    /\ list'.CONTROLED[k].age = list.CONTROLED[k].age
    /\ thread.CONTROLED[k].pc = "check"
    /\ Pending(k, p)' \/ (proc'[p].beat = proc[p].beat /\ ~Pending(k, p))

LEMMA FreshStays ==
    ASSUME TypeOK, TypeOK', Fresh,
           \A k \in 1 .. Len(list'.CONTROLED) : \A p \in Pid :
               /\ p = list'.CONTROLED[k].pid
               /\ list'.CONTROLED[k].cmd \notin Wrapped
               /\ Runs(p)'
               => /\ thread'.CONTROLED[k].pc # "kill"
                  /\ thread'.CONTROLED[k].pc = "check" =>
                         list'.CONTROLED[k].age = 0 \/ StaysFresh(k, p)
    PROVE  Fresh'
<1>1. SUFFICES ASSUME NEW k \in 1 .. Len(list'.CONTROLED) PROVE FreshEntry(k)'
  BY DEF Fresh
<1>2. PICK e \in ThreadProc : e = list'.CONTROLED[k]
  <2>1. list' \in [Type -> Seq(ThreadProc)] /\ "CONTROLED" \in Type
    BY DEF TypeOK, Type
  <2> QED
    BY <2>1
<1>3. PICK p \in Pid : p = e.pid
  BY DEF ThreadProc
<1>4. proc'[p].beat \in 0 .. HeartbeatPeriod /\ HeartbeatPeriod \in Nat
  BY Constants DEF TypeOK, Process
<1>5. ASSUME Runs(p)', e.cmd \notin Wrapped, thread'.CONTROLED[k].pc = "check"
      PROVE  /\ e.age <= HeartbeatPeriod
             /\ e.age + proc'[p].beat <= HeartbeatPeriod \/ Pending(k, p)'
  <2>1. CASE e.age = 0
    BY <1>4, <2>1
  <2>2. CASE StaysFresh(k, p)
    <3>1. FreshEntry(k) /\ list.CONTROLED[k].cmd \notin Wrapped
      BY <1>2, <1>5, <2>2 DEF Fresh, StaysFresh
    <3>2. /\ list.CONTROLED[k].age <= HeartbeatPeriod
          /\ \/ list.CONTROLED[k].age + proc[p].beat <= HeartbeatPeriod
             \/ Pending(k, p)
      BY <2>2, <3>1 DEF FreshEntry, StaysFresh
    <3>3. e.age = list.CONTROLED[k].age
      BY <1>2, <2>2 DEF StaysFresh
    <3>4. Pending(k, p)' \/ (proc'[p].beat = proc[p].beat /\ ~Pending(k, p))
      BY <2>2 DEF StaysFresh
    <3> QED
      BY <3>2, <3>3, <3>4
  <2> QED
    BY <1>2, <1>3, <1>5, <2>1, <2>2
<1>6. Runs(p)' /\ e.cmd \notin Wrapped => thread'.CONTROLED[k].pc # "kill"
  BY <1>2, <1>3
<1>7. Runs(list.CONTROLED[k].pid)' <=> Runs(p)'
  BY <1>2, <1>3 DEF Runs
<1>8. Pending(k, list.CONTROLED[k].pid)' <=> Pending(k, p)'
  BY <1>2, <1>3 DEF Pending
<1> QED
  BY <1>2, <1>3, <1>5, <1>6, <1>7, <1>8 DEF FreshEntry

(* A process that still runs beats, or has nothing pending that is lost.   *)
BeatsKept ==
    \A k \in 1 .. Len(list.CONTROLED) : \A p \in Pid :
        p = list.CONTROLED[k].pid /\ list.CONTROLED[k].cmd \notin Wrapped /\ Runs(p)' =>
            Pending(k, p)' \/ (proc'[p].beat = proc[p].beat /\ ~Pending(k, p))

LEMMA ListsSame ==
    ASSUME ServiceInv, UNCHANGED <<list, thread>>
    PROVE  CmdsKept /\ (up /\ CopyInv /\ (\A p \in Pid : ProcessKept(p)) => EntriesKept)
<1>1. CmdsKept
  BY DEF CmdsKept
<1>2. ASSUME up, CopyInv, \A p \in Pid : ProcessKept(p),
             NEW type \in Type, NEW k \in 1 .. Len(list[type])
      PROVE  EntryKept(type, k)
  <2>1. EntryMatches(type, k)
    BY <1>2 DEF CopyInv, EntriesInv, EntriesMatch
  <2>2. PICK c, p, q : c = list[type][k].cmd /\ p = list[type][k].pid /\ q = Current(type, k)
    OBVIOUS
  <2>3. list'[type][k].pid = p /\ Current(type, k)' = q
    BY <2>2 DEF Current
  <2>4. IsOf(p, c) /\ IsOf(q, c)
    BY <2>1, <2>2 DEF EntryMatches
  <2>5. Once(c) /\ thread'[type][k].pc = "exec" => ~Executes(p)'
    <3>1. Once(c) /\ thread[type][k].pc = "exec" => ~Executes(p)
      BY <2>1, <2>2 DEF EntryMatches
    <3> QED
      BY <1>2, <2>4, <3>1 DEF ProcessKept, IsOf
  <2>6. Once(c) /\ thread'[type][k].pc = "exec" => ~Executes(list[type][k].pid)'
    BY <2>2, <2>5 DEF Executes
  <2> QED
    BY <2>2, <2>3, <2>4, <2>6 DEF EntryKept
<1>3. up /\ CopyInv /\ (\A p \in Pid : ProcessKept(p)) => EntriesKept
  BY <1>2 DEF EntriesKept
<1> QED
  BY <1>1, <1>3

(* Where the entries stay the same.                                        *)
LEMMA QuietCopy ==
    ASSUME ServiceInv, ServiceInv', CopyInv, \A p \in Pid : ProcessKept(p),
           UNCHANGED <<list, thread>>, up' => up, cut => cut',
           up /\ up' => AnnouncedKept /\ LastKept,
           up /\ up' /\ ~cut' => AllSend' /\ BeatsKept
    PROVE  CopyInv'
<1>1. CmdsKept /\ (up => EntriesKept)
  BY ListsSame
<1>2. ASSUME up, up', ~cut'
      PROVE  Fresh'
  <2>1. TypeOK /\ TypeOK' /\ Fresh
    BY <1>2 DEF ServiceInv, CopyInv, WhileListening
  <2>2. ASSUME NEW k \in 1 .. Len(list'.CONTROLED), NEW p \in Pid,
               p = list'.CONTROLED[k].pid, list'.CONTROLED[k].cmd \notin Wrapped, Runs(p)'
        PROVE  /\ thread'.CONTROLED[k].pc # "kill"
               /\ thread'.CONTROLED[k].pc = "check" =>
                      list'.CONTROLED[k].age = 0 \/ StaysFresh(k, p)
    <3>1. /\ k \in 1 .. Len(list.CONTROLED) /\ p = list.CONTROLED[k].pid
          /\ list.CONTROLED[k].cmd \notin Wrapped
      BY <2>2
    <3>2. Runs(p)
      BY <2>2 DEF ProcessKept
    <3>3. thread.CONTROLED[k].pc # "kill"
      BY <2>1, <3>1, <3>2 DEF Fresh, FreshEntry
    <3>4. Pending(k, p)' \/ (proc'[p].beat = proc[p].beat /\ ~Pending(k, p))
      BY <1>2, <2>2, <3>1 DEF BeatsKept
    <3> QED
      BY <3>1, <3>2, <3>3, <3>4 DEF StaysFresh
  <2> QED
    BY <2>1, <2>2, FreshStays
<1> QED
  BY <1>1, <1>2, CopyKept

LEMMA ProcessesSame ==
    ASSUME \A p \in Pid : proc'[p].cmd = proc[p].cmd /\ proc'[p].st = proc[p].st
    PROVE  (\A p \in Pid : ProcessKept(p)) /\ NoneKilled
  BY DEF ProcessKept, NoneKilled, Executes, Runs

LEMMA CopyInit == Init => CopyInv
<1> SUFFICES ASSUME Init PROVE CopyInv
  OBVIOUS
<1>1. \A p \in Pid : ~Executes(p)
  BY DEF Init, Executes, NotStarted
<1>2. \A type \in Type : Len(list[type]) = 0
  BY DEF Init
<1>3. Len(backlog) = 0 /\ \A i : ~Announced(i)
  BY DEF Init, Announced
<1>4. AtMostOne /\ Owned
  BY <1>1 DEF AtMostOne, Owned
<1>5. EntriesMatch /\ EntriesDiffer /\ AnnouncedDiffer
  BY <1>2, <1>3 DEF EntriesMatch, EntriesDiffer, AnnouncedDiffer
<1>6. Fresh /\ AllSend
  BY <1>2, <1>3 DEF Fresh, Type, AllSend
<1>7. LastHasEntry
  BY DEF Init, LastHasEntry
<1> QED
  BY <1>4, <1>5, <1>6, <1>7 DEF CopyInv, EntriesInv, WhileListening

-----------------------------------------------------------------------------
(* The programs' steps: only a client connects to announce its process.    *)

Connected(p) ==
    \E type \in MsgType \ {"NEW_PROC"} :
        backlog' = Append(backlog, [type |-> type, pid |-> p, st |-> "open"])

LEMMA SendersSame ==
    ASSUME TypeOK,
           backlog' = backlog \/ SameSenders(backlog') \/ (\E p \in Pid : Connected(p))
    PROVE  AnnouncedKept /\ (UNCHANGED main => \A k, p : Pending(k, p) => Pending(k, p)')
<1>1. /\ Len(backlog) \in Nat /\ Len(backlog') \in Nat
      /\ \A i \in 1 .. Len(backlog) : /\ i \in 1 .. Len(backlog')
                                      /\ backlog'[i].type = backlog[i].type
                                      /\ backlog'[i].pid = backlog[i].pid
      /\ \A i \in 1 .. Len(backlog') :
             i \in 1 .. Len(backlog) \/ backlog'[i].type # "NEW_PROC"
  <2>1. CASE backlog' = backlog \/ SameSenders(backlog')
    BY <2>1, Queued DEF SameSenders
  <2>2. ASSUME NEW p \in Pid, Connected(p)
        PROVE  <1>1!:
    <3>1. PICK type \in MsgType \ {"NEW_PROC"} :
             backlog' = Append(backlog, [type |-> type, pid |-> p, st |-> "open"])
      BY <2>2 DEF Connected
    <3>2. type \in MsgType /\ type # "NEW_PROC" /\ Len(backlog) \in Nat
      BY Queued
    <3>3. /\ Len(backlog') = Len(backlog) + 1
          /\ \A i \in 1 .. Len(backlog) : backlog'[i] = backlog[i]
          /\ backlog'[Len(backlog) + 1] = [type |-> type, pid |-> p, st |-> "open"]
      BY <3>1, <3>2, OneConnects
    <3> QED
      BY <3>2, <3>3
  <2> QED
    BY <2>1, <2>2
<1>2. AnnouncedFrom(0)
  <2>1. ASSUME NEW i, Announced(i)'
        PROVE  Announced(i) /\ backlog'[i].pid = backlog[i].pid /\ i + 0 = i
    BY <1>1, <2>1 DEF Announced
  <2> QED
    BY <2>1 DEF AnnouncedFrom
<1>3. UNCHANGED main => \A k, p : Pending(k, p) => Pending(k, p)'
  BY <1>1 DEF Pending
<1> QED
  BY <1>2, <1>3 DEF AnnouncedKept

LEMMA ProgramCopy ==
    ASSUME ServiceInv, ServiceInv', CopyInv, \A p \in Pid : ProcessKept(p),
           UNCHANGED <<main, up, list, thread>>, cut => cut',
           backlog' = backlog \/ SameSenders(backlog') \/ (\E p \in Pid : Connected(p)),
           up /\ ~cut' => AllSend',
           up => \A p \in Pid : Runs(p)' =>
                     proc'[p].beat = proc[p].beat \/ (\A k : Pending(k, p)')
    PROVE  CopyInv'
<1>1. AnnouncedKept /\ (\A k, p : Pending(k, p) => Pending(k, p)')
  BY SendersSame DEF ServiceInv
<1>2. LastKept
  BY DEF LastKept
<1>3. up => BeatsKept
  BY <1>1 DEF BeatsKept
<1> QED
  BY <1>1, <1>2, <1>3, QuietCopy

LEMMA ConnectCopy ==
    ASSUME ServiceInv, ServiceInv', CopyInv, NEW p \in Pid, run_heartbeat(p) \/ run_timesvc_cli(p)
    PROVE  CopyInv' /\ NoneKilled
<1>1. PICK type, failed :
         /\ type \in MsgType \ {"NEW_PROC"} /\ cli_conn(type, p, failed)
         /\ failed \in {Beaten(p), [proc EXCEPT ![p].nap = ClientSleep]}
  BY DEF run_heartbeat, run_timesvc_cli, MsgType
<1>2. UNCHANGED <<main, up, cut, list, thread>> /\ Runs(p)
  BY DEF run_heartbeat, run_timesvc_cli, system, watches
<1>3. TypeOK
  BY DEF ServiceInv
<1>4. CASE up
  <2>1. proc' = proc /\ backlog' = Append(backlog, [type |-> type, pid |-> p, st |-> "open"])
    BY <1>1, <1>4 DEF cli_conn
  <2>2. (\A q \in Pid : ProcessKept(q)) /\ NoneKilled
    BY <2>1, ProcessesSame
  <2>3. Connected(p)
    BY <1>1, <2>1 DEF Connected
  <2>4. AllSend => AllSend'
    <3>1. /\ Len(backlog') = Len(backlog) + 1 /\ Len(backlog) \in Nat
          /\ \A i \in 1 .. Len(backlog) : backlog'[i] = backlog[i]
          /\ backlog'[Len(backlog) + 1] = [type |-> type, pid |-> p, st |-> "open"]
      BY <1>3, <2>1, OneConnects, Queued
    <3> QED
      BY <3>1 DEF AllSend
  <2>5. ~cut' => AllSend'
    BY <1>2, <1>4, <2>4 DEF CopyInv, WhileListening
  <2>6. CopyInv'
    BY <1>2, <2>1, <2>2, <2>3, <2>5, ProgramCopy
  <2> QED
    BY <2>2, <2>6
<1>5. CASE ~up
  <2>1. backlog' = backlog /\ proc' = failed
    BY <1>1, <1>5 DEF cli_conn
  <2>2. NoneBegins /\ proc'[p].st = "run" /\ \A q \in Pid \ {p} : proc'[q] = proc[q]
    BY <1>1, <1>2, <1>3, <2>1, ProgramSays
  <2>3. (\A q \in Pid : ProcessKept(q)) /\ NoneKilled
    BY <1>2, <2>2, ProcessesSame DEF NoneBegins, Runs
  <2>4. CopyInv'
    BY <1>2, <1>5, <2>1, <2>3, ProgramCopy
  <2> QED
    BY <2>3, <2>4
<1> QED
  BY <1>4, <1>5

LEMMA SendCopy ==
    ASSUME ServiceInv, ServiceInv', CopyInv, NEW p \in Pid,
           run_heartbeat_send(p) \/ run_timesvc_cli_send(p)
    PROVE  CopyInv' /\ NoneKilled
<1>1. PICK type, sent :
         /\ type \in {"HEARTBEAT_SIGNAL", "REQUEST_TIME_SRV"} /\ cli_send_msg(type, p, sent)
         /\ \/ type = "HEARTBEAT_SIGNAL" /\ sent = Beaten(p)
            \/ sent = [proc EXCEPT ![p].req = "wait"]
  BY DEF run_heartbeat_send, run_timesvc_cli_send
<1>2. UNCHANGED <<main, up, cut, list, thread>>
  BY DEF run_heartbeat_send, run_timesvc_cli_send, system, watches
<1>3. TypeOK
  BY DEF ServiceInv
<1>4. /\ Runs(p) /\ SameSenders(backlog')
      /\ \E i \in 1 .. Len(backlog) :
             /\ backlog[i] = [type |-> type, pid |-> p, st |-> "open"]
             /\ up => /\ proc' = sent /\ backlog'[i].st = "sent"
                      /\ \A j \in 1 .. Len(backlog) : j # i => backlog'[j] = backlog[j]
      /\ ~up => proc' = Stopped(p, Dead(p))
  BY <1>1, <1>3, Sending
<1>5. CASE up
  <2>1. PICK i \in 1 .. Len(backlog) :
           /\ backlog[i] = [type |-> type, pid |-> p, st |-> "open"]
           /\ proc' = sent /\ backlog'[i].st = "sent"
           /\ \A j \in 1 .. Len(backlog) : j # i => backlog'[j] = backlog[j]
    BY <1>4, <1>5
  <2>2. /\ proc' = Beaten(p) \/ proc' = [proc EXCEPT ![p].req = "wait"]
        /\ Runs(p)
    BY <1>1, <1>4, <2>1
  <2>3. NoneBegins /\ proc'[p].st = "run" /\ \A q \in Pid \ {p} : proc'[q] = proc[q]
    BY <1>3, <2>2, ProgramSays
  <2>4. (\A q \in Pid : ProcessKept(q)) /\ NoneKilled
    BY <1>4, <2>3, ProcessesSame DEF NoneBegins, Runs
  <2>5. AllSend => AllSend'
    BY <1>4, <2>1 DEF AllSend, SameSenders
  <2>6. type = "HEARTBEAT_SIGNAL" => \A k : Pending(k, p)'
    <3>1. i \in 1 .. Len(backlog') /\ backlog'[i].type = type /\ backlog'[i].pid = p
      BY <1>4, <2>1 DEF SameSenders
    <3> QED
      BY <3>1 DEF Pending
  <2>7. type # "HEARTBEAT_SIGNAL" => proc'[p].beat = proc[p].beat
    <3>1. PICK old \in Process : old = proc[p]
      BY <1>3 DEF TypeOK
    <3>2. type # "HEARTBEAT_SIGNAL" => proc' = [proc EXCEPT ![p] = [old EXCEPT !.req = "wait"]]
      BY <1>1, <2>1, <3>1
    <3>3. [old EXCEPT !.req = "wait"].beat = old.beat
      BY DEF Process
    <3>4. proc \in [Pid -> Process]
      BY <1>3 DEF TypeOK
    <3> QED
      BY <3>1, <3>2, <3>3, <3>4
  <2>8. \A q \in Pid : proc'[q].beat = proc[q].beat \/ (\A k : Pending(k, q)')
    BY <2>3, <2>6, <2>7
  <2>9. up /\ ~cut' => AllSend'
    BY <1>2, <2>5 DEF CopyInv, WhileListening
  <2>10. CopyInv'
    BY <1>2, <1>4, <2>4, <2>8, <2>9, ProgramCopy
  <2> QED
    BY <2>4, <2>10
<1>6. CASE ~up
  <2>1. proc' = Stopped(p, Dead(p)) /\ Executes(p) /\ Dead(p) \in {"zombie", "gone"}
    BY <1>4, <1>6 DEF Executes, Runs, Dead
  <2>2. NoneBegins /\ proc'[p].st = Dead(p) /\ \A q \in Pid \ {p} : proc'[q] = proc[q]
    BY <1>3, <2>1, StoppedIs
  <2>3. \A q \in Pid : ProcessKept(q)
    BY <2>1, <2>2 DEF NoneBegins, ProcessKept, Executes, Runs
  <2>4. NoneKilled
    BY <1>6 DEF NoneKilled
  <2>5. CopyInv'
    BY <1>2, <1>4, <1>6, <2>3, ProgramCopy
  <2> QED
    BY <2>4, <2>5
<1> QED
  BY <1>5, <1>6

LEMMA ClientCopy ==
    ASSUME ServiceInv, ServiceInv', CopyInv, NEW p \in Pid,
           start_client_send(p) \/ client_fault(p)
    PROVE  CopyInv' /\ NoneKilled
<1>1. UNCHANGED <<main, proc, up, list, thread>> /\ (cut => cut')
  BY DEF start_client_send, client_fault, system, watches
<1>2. SameSenders(backlog')
  BY ClientStep
<1>3. (\A q \in Pid : ProcessKept(q)) /\ NoneKilled
  BY <1>1, ProcessesSame
<1>4. ASSUME up, ~cut' PROVE AllSend'
  <2>0. TypeOK
    BY DEF ServiceInv
  <2>1. AllSend
    BY <1>1, <1>4 DEF CopyInv, WhileListening
  <2>2. PICK i \in DOMAIN backlog : backlog' = [backlog EXCEPT ![i].st = "sent"]
    BY <1>4 DEF start_client_send, client_fault, Open
  <2>3. /\ SameSenders(backlog') /\ backlog'[i].st = "sent"
        /\ \A j \in 1 .. Len(backlog) : j # i => backlog'[j] = backlog[j]
    <3>1. DOMAIN backlog = 1 .. Len(backlog)
      BY <2>0, Queued
    <3> QED
      BY <2>0, <2>2, <3>1, OneChanges
  <2> QED
    BY <2>1, <2>3 DEF AllSend, SameSenders
<1>5. CopyInv'
  BY <1>1, <1>2, <1>3, <1>4, ProgramCopy
<1> QED
  BY <1>3, <1>5

LEMMA FaultCopy ==
    ASSUME ServiceInv, ServiceInv', CopyInv, NEW p \in Pid, crash(p) \/ hang(p)
    PROVE  CopyInv' /\ NoneKilled
<1>1. PICK st \in {"zombie", "gone", "hung"} :
         /\ Fault(p, st) /\ Executes(p) /\ (st = "hung" => Runs(p))
  BY DEF crash, hang, Dead, Runs, Executes
<1>2. TypeOK
  BY DEF ServiceInv
<1>3. UNCHANGED <<main, up, list, thread>> /\ proc' = Stopped(p, st)
  BY <1>1 DEF Fault, watches
<1>4. (cut => cut') /\ (~cut' => backlog' = backlog)
  BY <1>1 DEF Fault
<1>5. SameSenders(backlog')
  <2>1. PICK left \in {"eof", "stuck"} : backlog' = Left(p, left)
    BY <1>1 DEF Fault
  <2> QED
    BY <1>2, <2>1, LeftIs
<1>6. NoneBegins /\ proc'[p].st = st /\ \A q \in Pid \ {p} : proc'[q] = proc[q]
  BY <1>1, <1>2, <1>3, StoppedIs
<1>7. \A q \in Pid : ProcessKept(q)
  BY <1>1, <1>6 DEF NoneBegins, ProcessKept, Executes, Runs
<1>8. NoneKilled
  <2>1. faults' = faults + 1
    BY <1>1 DEF Fault
  <2>2. faults \in Nat
    BY <1>2, Constants DEF TypeOK
  <2> QED
    BY <2>1, <2>2 DEF NoneKilled
<1>9. up /\ ~cut' => AllSend'
  BY <1>3, <1>4 DEF CopyInv, WhileListening, AllSend
<1>10. \A q \in Pid : Runs(q)' => proc'[q].beat = proc[q].beat
  BY <1>1, <1>6 DEF Runs
<1>11. CopyInv'
  BY <1>3, <1>4, <1>5, <1>7, <1>9, <1>10, ProgramCopy
<1> QED
  BY <1>8, <1>11

-----------------------------------------------------------------------------
(* The main thread's steps.                                                *)

(* A connection is taken, but no message that announces a process.         *)
LEMMA OneTaken ==
    ASSUME TypeOK, backlog # <<>>, backlog' = Tail(backlog)
    PROVE  /\ AnnouncedFrom(1) /\ (AllSend => AllSend')
           /\ \A i \in 1 .. Len(backlog) :
                  i # 1 => \E j \in 1 .. Len(backlog') : backlog'[j] = backlog[i] /\ j + 1 = i
           /\ \A i \in 1 .. Len(backlog') : /\ i + 1 \in 1 .. Len(backlog)
                                            /\ backlog'[i] = backlog[i + 1]
<1>1. backlog \in Seq(Connection)
  BY DEF TypeOK
<1>2. Len(backlog) \in Nat \ {0} /\ Len(backlog') = Len(backlog) - 1
  BY <1>1
<1>3. \A i \in 1 .. Len(backlog') : /\ i + 1 \in 1 .. Len(backlog)
                                    /\ backlog'[i] = backlog[i + 1]
  BY <1>1, <1>2
<1>4. ASSUME NEW i \in 1 .. Len(backlog), i # 1
      PROVE  \E j \in 1 .. Len(backlog') : backlog'[j] = backlog[i] /\ j + 1 = i
  <2>1. PICK j : j = i - 1
    OBVIOUS
  <2>2. j \in 1 .. Len(backlog') /\ j + 1 = i
    BY <1>2, <1>4, <2>1
  <2>3. backlog'[j] = backlog[i]
    BY <1>3, <2>2
  <2> QED
    BY <2>2, <2>3
<1>5. AnnouncedFrom(1)
  BY <1>3 DEF AnnouncedFrom, Announced
<1>6. AllSend => AllSend'
  BY <1>3 DEF AllSend
<1> QED
  BY <1>3, <1>4, <1>5, <1>6

LEMMA unknown_msgCopy ==
    ASSUME ServiceInv, ServiceInv', CopyInv, unknown_msg
    PROVE  CopyInv' /\ NoneKilled
<1>1. /\ UNCHANGED <<main, proc, up, cut, list, thread>> /\ up /\ Eof
      /\ backlog # <<>> /\ backlog' = Tail(backlog) /\ TypeOK
  BY DEF unknown_msg, system, watches, ServiceInv
<1>2. (\A q \in Pid : ProcessKept(q)) /\ NoneKilled
  BY <1>1, ProcessesSame
<1>3. AnnouncedKept /\ LastKept
  BY <1>1, OneTaken DEF AnnouncedKept, LastKept
<1>4. cut
  <2>1. 1 \in 1 .. Len(backlog)
    BY <1>1, Queued
  <2>2. ~AllSend
    BY <1>1, <2>1 DEF AllSend, Eof
  <2> QED
    BY <1>1, <2>2 DEF CopyInv, WhileListening
<1>5. CopyInv'
  BY <1>1, <1>2, <1>3, <1>4, QuietCopy
<1> QED
  BY <1>2, <1>5

LEMMA AcceptCopy ==
    ASSUME ServiceInv, ServiceInv', CopyInv, rcv_heartbeat \/ check_request
    PROVE  CopyInv' /\ NoneKilled
<1>1. PICK type \in {"HEARTBEAT_SIGNAL", "REQUEST_TIME_SRV"} :
         /\ Accepts(type)
         /\ type = "REQUEST_TIME_SRV" => check_request
         /\ type = "HEARTBEAT_SIGNAL" => rcv_heartbeat
  BY DEF rcv_heartbeat, check_request
<1>2. /\ UNCHANGED <<proc, up, cut, list, thread>> /\ up /\ main.pc = "accept"
      /\ backlog # <<>> /\ backlog' = Tail(backlog) /\ TypeOK
  BY <1>1 DEF rcv_heartbeat, check_request, watches, Accepts, ServiceInv
<1>3. (\A q \in Pid : ProcessKept(q)) /\ NoneKilled
  BY <1>2, ProcessesSame
<1>4. main'.type = type
  <2>1. PICK n \in Nat : main \in MainPlace(n)
    BY <1>2, MainPlaces
  <2>2. CASE type = "HEARTBEAT_SIGNAL"
    <3>1. PICK pid : pid = Msg.pid
      OBVIOUS
    <3>2. main' = [main EXCEPT !.pc = "find", !.i = 1, !.type = "HEARTBEAT_SIGNAL",
                               !.pid = pid]
      BY <1>1, <2>2, <3>1 DEF rcv_heartbeat
    <3> QED
      BY <2>1, <2>2, <3>2 DEF MainPlace
  <2>3. CASE type = "REQUEST_TIME_SRV"
    <3>1. PICK got : got = [main EXCEPT !.type = "REQUEST_TIME_SRV", !.pid = Msg.pid]
      OBVIOUS
    <3>2. got.type = "REQUEST_TIME_SRV"
      BY <2>1, <3>1 DEF MainPlace
    <3>3. PICK eof : main' = [got EXCEPT !.pc = "insert", !.eof = eof] \/ main' = got
      BY <1>1, <2>3, <3>1 DEF check_request
    <3>4. [got EXCEPT !.pc = "insert", !.eof = eof].type = got.type
      BY <2>1, <3>1 DEF MainPlace
    <3> QED
      BY <2>3, <3>2, <3>3, <3>4
  <2> QED
    BY <2>2, <2>3
<1>5. AnnouncedKept /\ LastKept
  BY <1>1, <1>2, <1>4, OneTaken DEF AnnouncedKept, LastKept
<1>6. ASSUME ~cut'
      PROVE  AllSend' /\ BeatsKept
  <2>1. AllSend /\ AllSend' /\ EntriesMatch
    BY <1>2, <1>6, OneTaken DEF CopyInv, WhileListening, EntriesInv
  <2>2. 1 \in 1 .. Len(backlog)
    BY <1>2, Queued
  <2>3. ~Eof
    BY <2>1, <2>2 DEF AllSend, Eof
  <2>4. ASSUME NEW k \in 1 .. Len(list.CONTROLED), NEW q \in Pid, q = list.CONTROLED[k].pid,
               Pending(k, q), list.CONTROLED[k].cmd \notin Wrapped
        PROVE  Pending(k, q)'
    <3>1. PICK i \in 1 .. Len(backlog) :
             backlog[i].type = "HEARTBEAT_SIGNAL" /\ backlog[i].pid = q
      BY <1>2, <2>4 DEF Pending
    <3>2. CASE i # 1
      BY <1>2, <3>1, <3>2, OneTaken DEF Pending
    <3>3. CASE i = 1
      <4>1. "CONTROLED" \in Type
        BY DEF Type
      <4>2. proc[q].cmd = list.CONTROLED[k].cmd
        BY <2>1, <2>4, <4>1 DEF EntriesMatch, EntryMatches, IsOf
      <4>3. Says(backlog[1]) = q
        BY <2>4, <3>1, <3>3, <4>2 DEF Says
      <4>4. Msg = [type |-> "HEARTBEAT_SIGNAL", pid |-> q]
        BY <2>3, <3>1, <3>3, <4>3 DEF Msg
      <4>5. type = "HEARTBEAT_SIGNAL"
        BY <1>1, <4>4 DEF Accepts
      <4>6. main' = [main EXCEPT !.pc = "find", !.i = 1, !.type = "HEARTBEAT_SIGNAL",
                                 !.pid = q]
        BY <1>1, <4>4, <4>5 DEF rcv_heartbeat
      <4>7. PICK n \in Nat : main \in MainPlace(n)
        BY <1>2, MainPlaces
      <4>8. main'.pc = "find" /\ main'.i = 1 /\ main'.pid = q
        BY <4>6, <4>7 DEF MainPlace
      <4> QED
        BY <2>4, <4>8 DEF Pending
    <3> QED
      BY <3>2, <3>3
  <2> QED
    BY <1>2, <2>1, <2>4 DEF BeatsKept
<1>7. CopyInv'
  BY <1>2, <1>3, <1>5, <1>6, QuietCopy
<1> QED
  BY <1>3, <1>7

(* Two entries of commands watched once are never about the same process.  *)
LEMMA PidsDiffer ==
    ASSUME EntriesMatch, EntriesDiffer, NEW type \in Type,
           NEW k \in 1 .. Len(list[type]), NEW l \in 1 .. Len(list[type]),
           list[type][k].pid = list[type][l].pid
    PROVE  k = l
<1>1. /\ proc[list[type][k].pid].cmd = list[type][k].cmd
      /\ proc[list[type][l].pid].cmd = list[type][l].cmd
  BY DEF EntriesMatch, EntryMatches, IsOf
<1> QED
  BY <1>1 DEF EntriesDiffer

(* The search goes past an entry only if the sign of life is not for it.   *)
LEMMA find_entryCopy ==
    ASSUME ServiceInv, ServiceInv', CopyInv, find_entry
    PROVE  CopyInv' /\ NoneKilled
<1>1. /\ UNCHANGED <<backlog, proc, up, cut, list, thread>> /\ up /\ main.pc = "find"
      /\ TypeOK /\ TypeOK' /\ "CONTROLED" \in Type
  BY DEF find_entry, system, watches, ServiceInv, Type
<1>2. (\A q \in Pid : ProcessKept(q)) /\ NoneKilled
  BY <1>1, ProcessesSame
<1>3. /\ main \in MainPlace(Len(list.CONTROLED) + 1) /\ main.i \in Nat \ {0}
      /\ Len(list.CONTROLED) \in Nat
  <2>1. main \in MainPlace(Len(list.CONTROLED) + 1) /\ Len(list.CONTROLED) \in Nat
    BY <1>1, MainPlaces
  <2>2. main.i \in Nat /\ main.i > 0
    BY <1>1, <2>1 DEF MainPlace, ServiceInv, MainKnows
  <2> QED
    BY <2>1, <2>2
<1>4. main'.type = main.type /\ main'.pid = main.pid
  <2>1. \/ main' = Accept
        \/ main' = [main EXCEPT !.pc = "stamp"]
        \/ main' = [main EXCEPT !.i = @ + 1]
    BY <1>1, <1>3 DEF find_entry
  <2>2. Accept.type = main.type /\ Accept.pid = main.pid
    BY <1>1, AcceptIs
  <2>3. /\ [main EXCEPT !.pc = "stamp"].type = main.type
        /\ [main EXCEPT !.pc = "stamp"].pid = main.pid
        /\ [main EXCEPT !.i = @ + 1].type = main.type
        /\ [main EXCEPT !.i = @ + 1].pid = main.pid
    BY <1>3 DEF MainPlace
  <2> QED
    BY <2>1, <2>2, <2>3
<1>5. AnnouncedKept /\ LastKept
  BY <1>1, <1>4, SendersSame DEF LastKept
<1>6. ASSUME ~cut', NEW k \in 1 .. Len(list.CONTROLED), NEW q \in Pid,
             q = list.CONTROLED[k].pid, Pending(k, q)
      PROVE  Pending(k, q)'
  <2>1. EntriesMatch /\ EntriesDiffer
    BY <1>1, <1>6 DEF CopyInv, EntriesInv, WhileListening
  <2>2. CASE \E i \in 1 .. Len(backlog) :
                backlog[i].type = "HEARTBEAT_SIGNAL" /\ backlog[i].pid = q
    BY <1>1, <2>2 DEF Pending
  <2>3. CASE main.i <= k /\ main.pid = q
    <3>1. CASE main.i = k
      <4>1. main' = [main EXCEPT !.pc = "stamp"]
        BY <1>3, <1>6, <2>3, <3>1 DEF find_entry
      <4>2. main'.pc = "stamp" /\ main'.i = k
        BY <1>3, <3>1, <4>1 DEF MainPlace
      <4> QED
        BY <4>2 DEF Pending
    <3>2. CASE main.i # k
      <4>1. main.i \in 1 .. Len(list.CONTROLED)
        BY <1>3, <2>3
      <4>2. list.CONTROLED[main.i].pid # main.pid
        BY <1>1, <1>6, <2>1, <2>3, <3>2, <4>1, PidsDiffer
      <4>3. main' = [main EXCEPT !.i = @ + 1]
        BY <1>3, <4>1, <4>2 DEF find_entry
      <4>4. main'.pc = "find" /\ main'.i = main.i + 1 /\ main'.pid = q
        BY <1>1, <1>3, <2>3, <4>3 DEF MainPlace
      <4>5. main'.i <= k
        BY <1>3, <2>3, <3>2, <4>4
      <4> QED
        BY <4>4, <4>5 DEF Pending
    <3> QED
      BY <3>1, <3>2
  <2> QED
    BY <1>1, <1>6, <2>2, <2>3 DEF Pending
<1>7. ASSUME ~cut'
      PROVE  AllSend' /\ BeatsKept
  <2>1. AllSend'
    BY <1>1, <1>7 DEF CopyInv, WhileListening, AllSend
  <2> QED
    BY <1>1, <1>6, <1>7, <2>1 DEF BeatsKept
<1>8. CopyInv'
  BY <1>1, <1>2, <1>5, <1>7, QuietCopy
<1> QED
  BY <1>2, <1>8

(* The time service's steps, and the main thread's part in it: no entry    *)
(* and no life of a process is touched.                                    *)
LEMMA TimeServiceCopy ==
    ASSUME ServiceInv, ServiceInv', CopyInv,
           \/ insert_request
           \/ \E t \in Server : (begin_scan(t) \/ end_scan(t)) \/ scan_entry(t)
           \/ UNCHANGED vars
    PROVE  CopyInv' /\ NoneKilled
<1>1. /\ UNCHANGED <<backlog, list, thread, cut>> /\ (up' => up)
      /\ main' = main \/ (main.pc = "insert" /\ main' = Accept)
  <2>1. CASE insert_request
    BY <2>1 DEF insert_request, system, watches
  <2>2. ASSUME NEW t \in Server, begin_scan(t) \/ end_scan(t) \/ scan_entry(t)
        PROVE  UNCHANGED <<backlog, list, thread, cut, main>> /\ up
    BY <2>2 DEF begin_scan, end_scan, scan_entry, watches, system
  <2>3. CASE UNCHANGED vars
    BY <2>3 DEF vars, system, watches
  <2> QED
    BY <2>1, <2>2, <2>3
<1>2. \A q \in Pid : /\ proc'[q].cmd = proc[q].cmd /\ proc'[q].st = proc[q].st
                     /\ proc'[q].beat = proc[q].beat
  <2>1. CASE UNCHANGED proc
    BY <2>1
  <2>2. ASSUME NEW t \in Server, scan_entry(t), proc' # proc
        PROVE  \A q \in Pid : /\ proc'[q].cmd = proc[q].cmd /\ proc'[q].st = proc[q].st
                              /\ proc'[q].beat = proc[q].beat
    <3>1. PICK pos, p : pos = timesvc[t].at.pos /\ p = cli[pos]
      OBVIOUS
    <3>2. wakeup_proc(pos, p) /\ timesvc[t].pc = "scan" /\ pos # HEAD
      BY <2>2, <3>1 DEF scan_entry
    <3>3. pos \in Linked \ {HEAD}
      BY <3>1, <3>2 DEF ServiceInv, CursorsHoldLock
    <3>4. p \in Pid
      BY <3>1, <3>3, LinkedFacts DEF ServiceInv
    <3> QED
      BY <3>2, <3>4, Waking DEF ServiceInv, NoneBegins
  <2> QED
    BY <2>1, <2>2 DEF insert_request, begin_scan, end_scan, vars
<1>3. (\A q \in Pid : ProcessKept(q)) /\ NoneKilled
  BY <1>2, ProcessesSame
<1>4. main'.type = main.type /\ main'.pid = main.pid
  BY <1>1, AcceptIs DEF ServiceInv
<1>5. AnnouncedKept /\ LastKept
  <2>1. AnnouncedKept
    BY <1>1, SendersSame DEF ServiceInv
  <2> QED
    BY <1>4, <2>1 DEF LastKept
<1>6. \A k, q : Pending(k, q) => Pending(k, q)'
  BY <1>1 DEF Pending
<1>7. BeatsKept
  BY <1>2, <1>6 DEF BeatsKept
<1>8. up /\ ~cut' => AllSend'
  BY <1>1 DEF CopyInv, WhileListening, AllSend
<1>9. CopyInv'
  BY <1>1, <1>3, <1>5, <1>7, <1>8, QuietCopy
<1> QED
  BY <1>3, <1>9

(* Where the entries keep their commands and pids.                         *)
SamePids ==
    \A type \in Type :
        /\ Len(list'[type]) = Len(list[type])
        /\ \A k \in 1 .. Len(list[type]) :
               /\ list'[type][k].cmd = list[type][k].cmd
               /\ list'[type][k].pid = list[type][k].pid
               /\ thread'[type][k].pc = thread[type][k].pc
               /\ thread'[type][k].new = thread[type][k].new

LEMMA SamePidsKept ==
    ASSUME SamePids, EntriesMatch, \A p \in Pid : ProcessKept(p)
    PROVE  CmdsKept /\ EntriesKept
<1>1. CmdsKept
  BY DEF SamePids, CmdsKept
<1>2. ASSUME NEW type \in Type, NEW k \in 1 .. Len(list[type])
      PROVE  EntryKept(type, k)
  <2>1. EntryMatches(type, k)
    BY DEF EntriesMatch
  <2>2. PICK c, p, q : c = list[type][k].cmd /\ p = list[type][k].pid /\ q = Current(type, k)
    OBVIOUS
  <2>3. /\ list'[type][k].pid = p /\ Current(type, k)' = q
        /\ thread'[type][k].pc = thread[type][k].pc
    BY <2>2 DEF Current, SamePids
  <2>4. IsOf(p, c) /\ IsOf(q, c)
    BY <2>1, <2>2 DEF EntryMatches
  <2>5. Once(c) /\ thread'[type][k].pc = "exec" => ~Executes(p)'
    <3>1. Once(c) /\ thread[type][k].pc = "exec" => ~Executes(p)
      BY <2>1, <2>2 DEF EntryMatches
    <3> QED
      BY <2>3, <2>4, <3>1 DEF ProcessKept, IsOf
  <2>6. Once(c) /\ thread'[type][k].pc = "exec" => ~Executes(list[type][k].pid)'
    BY <2>3, <2>5 DEF Executes
  <2> QED
    BY <2>2, <2>3, <2>4, <2>6 DEF EntryKept
<1> QED
  BY <1>1, <1>2 DEF SamePids, EntriesKept

LEMMA stamp_entryCopy ==
    ASSUME ServiceInv, ServiceInv', CopyInv, stamp_entry
    PROVE  CopyInv' /\ NoneKilled
<1>1. /\ UNCHANGED <<backlog, proc, up, cut, thread>> /\ up /\ main.pc = "stamp"
      /\ "CONTROLED" \in Type /\ TypeOK /\ TypeOK'
      /\ list' = [list EXCEPT !["CONTROLED"][main.i].age = 0]
      /\ main' = [main EXCEPT !.pc = "find", !.i = @ + 1]
  BY DEF stamp_entry, system, Type, ServiceInv
<1>2. (\A q \in Pid : ProcessKept(q)) /\ NoneKilled
  BY <1>1, ProcessesSame
<1>3. PICK i \in 1 .. Len(list["CONTROLED"]) : i = main.i
  BY <1>1 DEF ServiceInv, MainKnows
<1>4. PICK old \in ThreadProc : old = list["CONTROLED"][i]
  BY <1>1, <1>3, ListTypes
<1>5. PICK e \in ThreadProc : /\ e = [old EXCEPT !.age = 0]
                              /\ e.cmd = old.cmd /\ e.pid = old.pid /\ e.age = 0
  <2>1. 0 \in 0 .. Timeout
    BY Constants
  <2>2. PICK e : e = [old EXCEPT !.age = 0]
    OBVIOUS
  <2>3. e \in ThreadProc /\ e.cmd = old.cmd /\ e.pid = old.pid /\ e.age = 0
    BY <2>1, <2>2 DEF ThreadProc
  <2> QED
    BY <2>2, <2>3
<1>6. /\ list' \in [Type -> Seq(ThreadProc)] /\ list'["CONTROLED"][i] = e
      /\ \A ty \in Type : /\ Len(list'[ty]) = Len(list[ty])
                          /\ \A k \in 1 .. Len(list[ty]) :
                                 ty # "CONTROLED" \/ k # i => list'[ty][k] = list[ty][k]
  <2>1. list' = [list EXCEPT !["CONTROLED"][i] = e]
    BY <1>1, <1>3, <1>4, <1>5
  <2>2. list \in [Type -> Seq(ThreadProc)]
    BY <1>1 DEF TypeOK
  <2> QED
    BY <1>1, <1>3, <2>1, <2>2, OneReplaced
<1>7. SamePids
  <2>1. \A ty \in Type : \A k \in 1 .. Len(list[ty]) :
           list'[ty][k].cmd = list[ty][k].cmd /\ list'[ty][k].pid = list[ty][k].pid
    BY <1>4, <1>5, <1>6
  <2> QED
    BY <1>1, <1>6, <2>1 DEF SamePids
<1>8. EntriesMatch
  BY <1>1 DEF CopyInv, EntriesInv
<1>9. CmdsKept /\ EntriesKept
  BY <1>2, <1>7, <1>8, SamePidsKept
<1>10. AnnouncedKept /\ LastKept
  <2>1. AnnouncedKept
    BY <1>1, SendersSame
  <2>2. main \in MainPlace(Len(list.CONTROLED) + 1)
    BY <1>1, MainPlaces
  <2>3. main'.type = main.type /\ main'.pid = main.pid
    BY <1>1, <2>2 DEF MainPlace
  <2> QED
    BY <2>1, <2>3 DEF LastKept
<1>11. ASSUME ~cut'
       PROVE  AllSend' /\ Fresh'
  <2>1. AllSend /\ Fresh
    BY <1>1, <1>11 DEF CopyInv, WhileListening
  <2>2. AllSend'
    BY <1>1, <2>1 DEF AllSend
  <2>3. ASSUME NEW k \in 1 .. Len(list'.CONTROLED), NEW q \in Pid,
               q = list'.CONTROLED[k].pid, list'.CONTROLED[k].cmd \notin Wrapped, Runs(q)'
        PROVE  /\ thread'.CONTROLED[k].pc # "kill"
               /\ thread'.CONTROLED[k].pc = "check" =>
                      list'.CONTROLED[k].age = 0 \/ StaysFresh(k, q)
    <3>1. /\ k \in 1 .. Len(list.CONTROLED) /\ list.CONTROLED[k].pid = q
          /\ list'.CONTROLED[k].cmd = list.CONTROLED[k].cmd /\ Runs(q)
          /\ thread'.CONTROLED[k].pc = thread.CONTROLED[k].pc
      BY <1>1, <1>7, <2>3 DEF SamePids, Runs
    <3>2. thread.CONTROLED[k].pc # "kill"
      BY <2>1, <2>3, <3>1 DEF Fresh, FreshEntry
    <3>3. CASE k = i
      BY <1>5, <1>6, <3>1, <3>2, <3>3
    <3>4. CASE k # i
      <4>1. list'.CONTROLED[k] = list.CONTROLED[k]
        BY <1>1, <1>6, <3>1, <3>4
      <4>2. Pending(k, q) => Pending(k, q)'
        BY <1>1, <1>3, <3>4 DEF Pending
      <4> QED
        BY <1>1, <3>1, <3>2, <4>1, <4>2 DEF StaysFresh
    <3> QED
      BY <3>3, <3>4
  <2>4. Fresh'
    BY <1>1, <2>1, <2>3, FreshStays
  <2> QED
    BY <2>2, <2>4
<1>12. CopyInv'
  BY <1>1, <1>2, <1>9, <1>10, <1>11, CopyKept
<1> QED
  BY <1>2, <1>12


-----------------------------------------------------------------------------
(* The watching threads' steps.  A thread writes to an entry of its own    *)
(* command, and to its own if the command is watched once.                 *)

LEMMA OwnEntry ==
    ASSUME Lone, TypeOK, EntriesMatch, NEW type \in Type, NEW k \in 1 .. Len(list[type])
    PROVE  /\ INDEX_OF(k) \in 1 .. Len(list[type])
           /\ list[type][INDEX_OF(k)].cmd = list[type][k].cmd
           /\ Once(list[type][k].cmd) => INDEX_OF(k) = k
           /\ EntriesDiffer => INDEX_OF(k) = k
<1>1. k \in Nat \ {0} /\ Len(list[type]) \in Nat
  BY ListTypes
<1>2. PICK i \in 1 .. Len(list[type]) : i = INDEX_OF(k)
  BY <1>1, IndexInList
<1>3. list[type][i].cmd = list[type][k].cmd
  <2>1. CASE EntrySize = 1
    <3>1. i = k
      BY <1>1, <1>2, <2>1 DEF INDEX_OF
    <3> QED
      BY <3>1
  <2>2. CASE \A c, d \in Kind(type) : c = d
    <3>1. list[type][i].cmd \in Kind(type) /\ list[type][k].cmd \in Kind(type)
      BY DEF EntriesMatch, EntryMatches
    <3> QED
      BY <2>2, <3>1
  <2> QED
    BY <2>1, <2>2 DEF Lone
<1>4. Once(list[type][k].cmd) => i = k
  BY <1>3, OnceIsOne
<1>5. EntriesDiffer => i = k
  BY <1>3 DEF EntriesDiffer
<1> QED
  BY <1>2, <1>3, <1>4, <1>5

(* The thread, and at most the entry i, are all that changes.              *)
Watches(type, k, i, w) ==
    /\ thread' = [thread EXCEPT ![type][k] = w]
    /\ \/ list' = list
       \/ \E e \in ThreadProc : /\ list' = [list EXCEPT ![type][i] = e]
                                /\ e.cmd = list[type][k].cmd /\ IsOf(e.pid, e.cmd)

LEMMA WatchChanges ==
    ASSUME TypeOK, NEW type \in Type, NEW k \in 1 .. Len(list[type]),
           NEW i \in 1 .. Len(list[type]), list[type][i].cmd = list[type][k].cmd,
           NEW w \in ThreadPos, Watches(type, k, i, w)
    PROVE  /\ thread'[type][k] = w /\ CmdsKept
           /\ \A ty \in Type :
                  /\ Len(list'[ty]) = Len(list[ty])
                  /\ \A l \in 1 .. Len(list[ty]) :
                         /\ ty # type \/ l # k => thread'[ty][l] = thread[ty][l]
                         /\ ty # type \/ l # i => list'[ty][l] = list[ty][l]
           /\ \/ list'[type][i].pid = list[type][i].pid
              \/ IsOf(list'[type][i].pid, list[type][k].cmd)
<1>1. /\ thread \in [Type -> Seq(ThreadPos)] /\ list \in [Type -> Seq(ThreadProc)]
      /\ \A ty \in Type : Len(thread[ty]) = Len(list[ty])
  BY DEF TypeOK
<1>2. /\ thread'[type][k] = w
      /\ \A ty \in Type : \A l \in 1 .. Len(list[ty]) :
             ty # type \/ l # k => thread'[ty][l] = thread[ty][l]
  <2>1. thread' = [thread EXCEPT ![type][k] = w] /\ k \in 1 .. Len(thread[type])
    BY <1>1 DEF Watches
  <2> QED
    BY <1>1, <2>1, OneReplaced
<1>3. /\ \A ty \in Type :
             /\ Len(list'[ty]) = Len(list[ty])
             /\ \A l \in 1 .. Len(list[ty]) :
                    ty # type \/ l # i => list'[ty][l] = list[ty][l]
      /\ list'[type][i].cmd = list[type][k].cmd
      /\ \/ list'[type][i].pid = list[type][i].pid
         \/ IsOf(list'[type][i].pid, list[type][k].cmd)
  <2>1. CASE list' = list
    BY <2>1
  <2>2. ASSUME NEW e \in ThreadProc, list' = [list EXCEPT ![type][i] = e],
               e.cmd = list[type][k].cmd, IsOf(e.pid, e.cmd)
        PROVE  <1>3!:
    <3>1. /\ list'[type][i] = e
          /\ \A ty \in Type :
                 /\ Len(list'[ty]) = Len(list[ty])
                 /\ \A l \in 1 .. Len(list[ty]) :
                        ty # type \/ l # i => list'[ty][l] = list[ty][l]
      BY <1>1, <2>2, OneReplaced
    <3> QED
      BY <2>2, <3>1
  <2> QED
    BY <2>1, <2>2 DEF Watches
<1>4. CmdsKept
  <2>1. \A ty \in Type : \A l \in 1 .. Len(list[ty]) : list'[ty][l].cmd = list[ty][l].cmd
    BY <1>3
  <2> QED
    BY <1>3, <2>1 DEF CmdsKept
<1> QED
  BY <1>2, <1>3, <1>4

LEMMA WatchKept ==
    ASSUME TypeOK, EntriesMatch, NEW type \in Type, NEW k \in 1 .. Len(list[type]),
           NEW i \in 1 .. Len(list[type]), list[type][i].cmd = list[type][k].cmd,
           Once(list[type][k].cmd) => i = k,
           NEW w \in ThreadPos, Watches(type, k, i, w), \A p \in Pid : ProcessKept(p),
           IsOf(Current(type, k)', list[type][k].cmd),
           Once(list[type][k].cmd) =>
               /\ Current(type, k)' = Current(type, k)
               /\ w.pc = "exec" => ~Executes(list[type][k].pid)'
    PROVE  EntriesKept
<1> DEFINE Other(ty, l) == ty # type \/ l # k
<1>1. /\ thread'[type][k] = w
      /\ \A ty \in Type :
             /\ Len(list'[ty]) = Len(list[ty])
             /\ \A l \in 1 .. Len(list[ty]) :
                    /\ Other(ty, l) => thread'[ty][l] = thread[ty][l]
                    /\ ty # type \/ l # i => list'[ty][l] = list[ty][l]
      /\ \/ list'[type][i].pid = list[type][i].pid
         \/ IsOf(list'[type][i].pid, list[type][k].cmd)
  BY WatchChanges
<1>2. \A ty \in Type : \A l \in 1 .. Len(list[ty]) :
         IsOf(list'[ty][l].pid, list[ty][l].cmd)
  <2>1. SUFFICES ASSUME NEW ty \in Type, NEW l \in 1 .. Len(list[ty])
                 PROVE  IsOf(list'[ty][l].pid, list[ty][l].cmd)
    OBVIOUS
  <2>2. IsOf(list[ty][l].pid, list[ty][l].cmd)
    BY DEF EntriesMatch, EntryMatches
  <2>3. CASE ty = type /\ l = i
    BY <1>1, <2>2, <2>3
  <2>4. CASE ty # type \/ l # i
    BY <1>1, <2>2, <2>4
  <2> QED
    BY <2>3, <2>4
<1>3. ASSUME NEW ty \in Type, NEW l \in 1 .. Len(list[ty]), Other(ty, l)
      PROVE  EntryKept(ty, l)
  <2>1. EntryMatches(ty, l)
    BY DEF EntriesMatch
  <2>2. thread'[ty][l] = thread[ty][l]
    BY <1>1, <1>3
  <2>3. PICK c, p, q : c = list[ty][l].cmd /\ p = list'[ty][l].pid /\ q = Current(ty, l)'
    OBVIOUS
  <2>4. IsOf(q, c)
    <3>1. CASE thread[ty][l].pc = "store"
      BY <2>1, <2>2, <2>3, <3>1 DEF EntryMatches, Current
    <3>2. CASE thread[ty][l].pc # "store"
      BY <1>2, <2>2, <2>3, <3>2 DEF Current
    <3> QED
      BY <3>1, <3>2
  <2>5. ASSUME Once(c)
        PROVE  /\ q = Current(ty, l)
               /\ thread'[ty][l].pc = "exec" => ~Executes(list[ty][l].pid)'
    <3>1. ty # type \/ l # i
      <4>1. SUFFICES ASSUME ty = type, l = i PROVE FALSE
        OBVIOUS
      <4>2. i = k
        BY <2>3, <2>5, <4>1
      <4> QED
        BY <1>3, <4>1, <4>2
    <3>2. list'[ty][l] = list[ty][l]
      BY <1>1, <3>1
    <3>3. q = Current(ty, l)
      BY <2>2, <2>3, <3>2 DEF Current
    <3>4. PICK r : r = list[ty][l].pid
      OBVIOUS
    <3>5. r \in Pid /\ (thread'[ty][l].pc = "exec" => ~Executes(r))
      BY <2>1, <2>2, <2>3, <2>5, <3>4 DEF EntryMatches, IsOf
    <3>6. thread'[ty][l].pc = "exec" => ~Executes(r)'
      BY <3>5 DEF ProcessKept
    <3>7. thread'[ty][l].pc = "exec" => ~Executes(list[ty][l].pid)'
      BY <3>2, <3>4, <3>6 DEF Executes
    <3> QED
      BY <3>3, <3>7
  <2>6. IsOf(p, c)
    BY <1>2, <2>3
  <2> QED
    BY <2>3, <2>4, <2>5, <2>6 DEF EntryKept
<1>4. EntryKept(type, k)
  <2>1. thread'[type][k].pc = w.pc
    BY <1>1
  <2>2. IsOf(list'[type][k].pid, list[type][k].cmd)
    BY <1>2
  <2> QED
    BY <2>1, <2>2 DEF EntryKept
<1>5. \A ty \in Type : \A l \in 1 .. Len(list[ty]) : EntryKept(ty, l)
  BY <1>3, <1>4
<1> QED
  BY <1>1, <1>5 DEF EntriesKept

(* What the thread leaves of its entry is fresh, if each of the commands   *)
(* has one entry.                                                          *)
OwnIsFresh(type, k, w) ==
    \/ type = "NORMAL"
    \/ w.pc \in {"exec", "store"}
    \/ w.pc = "kill" /\ (list'[type][k].cmd \in Wrapped \/ ~Runs(list[type][k].pid)')
    \/ w.pc = "check" /\ list'[type][k].age = 0
    \/ w.pc = "check" /\ thread[type][k].pc = "check" /\ list'[type][k] = list[type][k]

LEMMA OthersFresh ==
    ASSUME TypeOK, TypeOK', Fresh, NEW type \in Type, NEW k \in 1 .. Len(list[type]),
           NEW w \in ThreadPos, Watches(type, k, k, w), UNCHANGED <<backlog, main>>,
           \A p \in Pid : Runs(p)' =>
               proc'[p] = proc[p] \/ (\A l \in 1 .. Len(list.CONTROLED) :
                                          list.CONTROLED[l].pid # p),
           OwnIsFresh(type, k, w)
    PROVE  Fresh'
<1>1. /\ thread'[type][k] = w /\ CmdsKept
      /\ \A ty \in Type :
             /\ Len(list'[ty]) = Len(list[ty])
             /\ \A l \in 1 .. Len(list[ty]) :
                    /\ ty # type \/ l # k => thread'[ty][l] = thread[ty][l]
                    /\ ty # type \/ l # k => list'[ty][l] = list[ty][l]
  BY WatchChanges
<1>2. ASSUME NEW l \in 1 .. Len(list'.CONTROLED), NEW q \in Pid,
             q = list'.CONTROLED[l].pid, list'.CONTROLED[l].cmd \notin Wrapped, Runs(q)'
      PROVE  /\ thread'.CONTROLED[l].pc # "kill"
             /\ thread'.CONTROLED[l].pc = "check" =>
                    list'.CONTROLED[l].age = 0 \/ StaysFresh(l, q)
  <2>1. "CONTROLED" \in Type /\ l \in 1 .. Len(list.CONTROLED)
    BY <1>1 DEF Type
  <2>2. ASSUME list'.CONTROLED[l] = list.CONTROLED[l], thread.CONTROLED[l].pc # "kill"
        PROVE  thread.CONTROLED[l].pc = "check" => StaysFresh(l, q)
    <3>1. proc'[q] = proc[q]
      BY <1>2, <2>1, <2>2
    <3>2. Runs(q) /\ (Pending(l, q)' <=> Pending(l, q))
      BY <1>2, <3>1 DEF Runs, Pending
    <3> QED
      BY <1>2, <2>1, <2>2, <3>1, <3>2 DEF StaysFresh
  <2>3. CASE type # "CONTROLED" \/ l # k
    <3>1. thread'.CONTROLED[l] = thread.CONTROLED[l] /\ list'.CONTROLED[l] = list.CONTROLED[l]
      BY <1>1, <2>1, <2>3
    <3>2. Runs(q)
      BY <1>2, <2>1, <3>1 DEF Runs
    <3>3. thread.CONTROLED[l].pc # "kill"
      BY <1>2, <2>1, <3>1, <3>2 DEF Fresh, FreshEntry
    <3> QED
      BY <2>2, <3>1, <3>3
  <2>4. CASE type = "CONTROLED" /\ l = k
    <3>1. thread'.CONTROLED[l] = w /\ type # "NORMAL"
      BY <1>1, <2>4
    <3>2. Runs(list.CONTROLED[l].pid)'
      BY <1>2 DEF Runs
    <3>3. \/ w.pc \in {"exec", "store"}
          \/ w.pc = "check" /\ list'.CONTROLED[l].age = 0
          \/ /\ w.pc = "check" /\ thread.CONTROLED[l].pc = "check"
             /\ list'.CONTROLED[l] = list.CONTROLED[l]
      BY <1>2, <2>4, <3>1, <3>2 DEF OwnIsFresh
    <3> QED
      BY <2>2, <3>1, <3>3
  <2> QED
    BY <2>3, <2>4
<1> QED
  BY <1>2, FreshStays

(* What a watching thread finds.                                           *)
LEMMA OwnWatch ==
    ASSUME ServiceInv, CopyInv, Lone, NEW type \in Type, NEW k, NEW pc, At(type, k, pc),
           NEW i, i = INDEX_OF(k)
    PROVE  /\ k \in 1 .. Len(list[type]) /\ i \in 1 .. Len(list[type]) /\ up
           /\ thread[type][k] \in ThreadPos /\ thread[type][k].pc = pc
           /\ list[type][i].cmd = list[type][k].cmd
           /\ Once(list[type][k].cmd) => i = k
           /\ ~cut => i = k /\ Fresh
           /\ Entry(type, k) = list[type][i] /\ list[type][i] \in ThreadProc
           /\ list[type][i].pid \in Pid
           /\ EntryMatches(type, i) /\ EntryMatches(type, k) /\ EntriesMatch /\ TypeOK
<1>1. /\ TypeOK /\ up
      /\ k \in 1 .. Len(list[type]) /\ i \in 1 .. Len(list[type])
      /\ thread[type][k] \in ThreadPos /\ thread[type][k].pc = pc
      /\ Entry(type, k) = list[type][i] /\ Entry(type, k) \in ThreadProc
  BY Watching DEF ServiceInv
<1>2. EntriesMatch /\ (~cut => EntriesDiffer /\ Fresh)
  BY <1>1 DEF CopyInv, EntriesInv, WhileListening
<1>3. /\ list[type][i].cmd = list[type][k].cmd
      /\ Once(list[type][k].cmd) => i = k
      /\ EntriesDiffer => i = k
  BY <1>1, <1>2, OwnEntry
<1>4. EntryMatches(type, i) /\ EntryMatches(type, k)
  BY <1>1, <1>2 DEF EntriesMatch
<1>5. list[type][i].pid \in Pid
  BY <1>1 DEF ThreadProc
<1> QED
  BY <1>1, <1>2, <1>3, <1>4, <1>5

LEMMA WatchCopy ==
    ASSUME ServiceInv, ServiceInv', CopyInv, NEW type \in Type,
           NEW k \in 1 .. Len(list[type]), NEW i \in 1 .. Len(list[type]),
           list[type][i].cmd = list[type][k].cmd, Once(list[type][k].cmd) => i = k,
           ~cut => i = k,
           NEW w \in ThreadPos, Watches(type, k, i, w), \A p \in Pid : ProcessKept(p),
           UNCHANGED <<main, up>>, up, cut => cut', ~cut' => backlog' = backlog,
           backlog' = backlog \/ SameSenders(backlog'),
           \A p \in Pid : Runs(p)' => proc'[p] = proc[p],
           IsOf(Current(type, k)', list[type][k].cmd),
           Once(list[type][k].cmd) =>
               /\ Current(type, k)' = Current(type, k)
               /\ w.pc = "exec" => ~Executes(list[type][k].pid)',
           ~cut' => OwnIsFresh(type, k, w)
    PROVE  CopyInv'
<1>1. TypeOK /\ TypeOK' /\ EntriesMatch
  BY DEF ServiceInv, CopyInv, EntriesInv
<1>2. CmdsKept
  BY <1>1, WatchChanges
<1>3. EntriesKept
  BY <1>1, WatchKept
<1>4. AnnouncedKept /\ LastKept
  BY <1>1, SendersSame DEF LastKept
<1>5. ASSUME ~cut'
      PROVE  AllSend' /\ Fresh'
  <2>1. AllSend /\ Fresh /\ i = k /\ backlog' = backlog /\ OwnIsFresh(type, k, w)
    BY <1>5 DEF CopyInv, WhileListening
  <2>2. AllSend'
    BY <2>1 DEF AllSend
  <2>3. Watches(type, k, k, w) /\ UNCHANGED <<backlog, main>>
    BY <2>1
  <2>4. Fresh'
    BY <1>1, <2>1, <2>3, OthersFresh
  <2> QED
    BY <2>2, <2>4
<1> QED
  BY <1>2, <1>3, <1>4, <1>5, CopyKept

(* Where the thread and the age of the entry are all that changes.         *)
LEMMA LooksCopy ==
    ASSUME ServiceInv, ServiceInv', CopyInv, Lone, NEW type \in Type, NEW k, NEW i,
           At(type, k, "check"), i = INDEX_OF(k),
           UNCHANGED <<main, up, cut, backlog, proc>>,
           NEW w \in ThreadPos, w.pc # "store", thread' = [thread EXCEPT ![type][k] = w],
           list' = list \/ (w.pc = "check" /\ list' = [list EXCEPT ![type][i].age = 0]),
           w.pc = "exec" => ~Executes(list[type][i].pid),
           ~cut => \/ type = "NORMAL"
                   \/ w.pc = "check"
                   \/ list[type][k].cmd \in Wrapped \/ ~Runs(list[type][k].pid)
    PROVE  CopyInv' /\ NoneKilled
<1>1. /\ k \in 1 .. Len(list[type]) /\ i \in 1 .. Len(list[type]) /\ up
      /\ thread[type][k].pc = "check"
      /\ list[type][i].cmd = list[type][k].cmd
      /\ Once(list[type][k].cmd) => i = k
      /\ ~cut => i = k /\ Fresh
      /\ list[type][i] \in ThreadProc
      /\ EntryMatches(type, i) /\ EntryMatches(type, k) /\ EntriesMatch /\ TypeOK
  BY OwnWatch
<1>2. PICK old \in ThreadProc : old = list[type][i]
  BY <1>1
<1>3. PICK e \in ThreadProc : e = [old EXCEPT !.age = 0] /\ e.cmd = old.cmd
                              /\ e.pid = old.pid /\ e.age = 0
  <2>1. 0 \in 0 .. Timeout
    BY Constants
  <2>2. PICK e : e = [old EXCEPT !.age = 0]
    OBVIOUS
  <2>3. e \in ThreadProc /\ e.cmd = old.cmd /\ e.pid = old.pid /\ e.age = 0
    BY <2>1, <2>2 DEF ThreadProc
  <2> QED
    BY <2>2, <2>3
<1>4. list' = list \/ (w.pc = "check" /\ list' = [list EXCEPT ![type][i] = e])
  BY <1>2, <1>3
<1>5. IsOf(old.pid, old.cmd)
  BY <1>1, <1>2 DEF EntryMatches
<1>6. Watches(type, k, i, w)
  BY <1>1, <1>2, <1>3, <1>4, <1>5 DEF Watches
<1>7. /\ thread'[type][k] = w
      /\ \A l \in 1 .. Len(list[type]) : l # i => list'[type][l] = list[type][l]
  BY <1>1, <1>6, WatchChanges
<1>8. \/ list'[type][i] = old
      \/ w.pc = "check" /\ list'[type][i] = e
  <2>1. list \in [Type -> Seq(ThreadProc)]
    BY <1>1 DEF TypeOK
  <2>2. list' = [list EXCEPT ![type][i] = e] => list'[type][i] = e
    BY <1>1, <2>1, OneReplaced
  <2> QED
    BY <1>2, <1>4, <2>2
<1>9. list'[type][k].pid = list[type][k].pid
  BY <1>1, <1>2, <1>3, <1>7, <1>8
<1>10. Current(type, k)' = list[type][k].pid /\ Current(type, k) = list[type][k].pid
  BY <1>1, <1>7, <1>9 DEF Current
<1>11. (\A p \in Pid : ProcessKept(p)) /\ NoneKilled
  BY ProcessesSame
<1>12. IsOf(Current(type, k)', list[type][k].cmd)
  BY <1>1, <1>10 DEF EntryMatches
<1>13. Once(list[type][k].cmd) =>
          /\ Current(type, k)' = Current(type, k)
          /\ w.pc = "exec" => ~Executes(list[type][k].pid)'
  <2>1. Once(list[type][k].cmd) /\ w.pc = "exec" => ~Executes(list[type][k].pid)'
    BY <1>1, <1>9 DEF Executes
  <2> QED
    BY <1>10, <2>1
<1>14. ~cut' => OwnIsFresh(type, k, w)
  <2>1. SUFFICES ASSUME ~cut PROVE OwnIsFresh(type, k, w)
    OBVIOUS
  <2>2. i = k
    BY <1>1, <2>1
  <2>3. list[type][k].cmd \in Wrapped => list'[type][k].cmd \in Wrapped
    BY <1>2, <1>3, <1>8, <2>2
  <2>4. ~Runs(list[type][k].pid) => ~Runs(list[type][k].pid)'
    BY <1>9 DEF Runs
  <2>5. w.pc \in {"check", "kill", "exec"}
    BY DEF ThreadPos
  <2>6. w.pc = "check" => list'[type][k].age = 0 \/ list'[type][k] = list[type][k]
    BY <1>2, <1>3, <1>8, <2>2
  <2> QED
    BY <1>1, <2>1, <2>3, <2>4, <2>5, <2>6 DEF OwnIsFresh
<1>15. CopyInv'
  BY <1>1, <1>6, <1>11, <1>12, <1>13, <1>14, WatchCopy
<1> QED
  BY <1>11, <1>15

LEMMA run_normalCopy ==
    ASSUME ServiceInv, ServiceInv', CopyInv, Lone, NEW k, run_normal(k)
    PROVE  CopyInv' /\ NoneKilled
<1>1. PICK i : i = INDEX_OF(k)
  OBVIOUS
<1>2. /\ At("NORMAL", k, "check") /\ "NORMAL" \in Type
      /\ UNCHANGED <<backlog, main, proc, up, cut>>
  BY DEF run_normal, system, Type
<1>3. thread["NORMAL"][k] \in ThreadPos /\ Entry("NORMAL", k) = list["NORMAL"][i]
  BY <1>1, <1>2, OwnWatch
<1>4. PICK w \in ThreadPos :
         /\ thread' = [thread EXCEPT !["NORMAL"][k] = w] /\ w.pc \in {"check", "exec"}
         /\ w.pc = "exec" => ~is_proc_alive(list["NORMAL"][i].pid)
         /\ \/ list' = list
            \/ w.pc = "check" /\ list' = [list EXCEPT !["NORMAL"][i].age = 0]
  <2>1. PICK w \in ThreadPos : w = [pc |-> "check", left |-> Period("NORMAL"), new |-> NoPid]
    BY <1>2, SleepIsWatcher
  <2>2. PICK v : v = [thread["NORMAL"][k] EXCEPT !.pc = "exec"]
    OBVIOUS
  <2>3. v \in ThreadPos /\ v.pc = "exec" /\ w.pc = "check"
    BY <1>3, <2>1, <2>2, GotoIsWatcher
  <2>4. CASE /\ SleepAgain("NORMAL", k)
             /\ list' = list \/ list' = [list EXCEPT !["NORMAL"][i].age = 0]
    <3>1. thread' = [thread EXCEPT !["NORMAL"][k] = w]
      BY <2>1, <2>4 DEF SleepAgain
    <3> QED
      BY <2>3, <2>4, <3>1
  <2>5. CASE /\ Goto("NORMAL", k, "exec") /\ list' = list
             /\ ~is_proc_alive(list["NORMAL"][i].pid)
    <3>1. thread' = [thread EXCEPT !["NORMAL"][k] = v]
      BY <2>2, <2>5 DEF Goto
    <3> QED
      BY <2>3, <2>5, <3>1
  <2> QED
    BY <1>1, <1>3, <2>4, <2>5 DEF run_normal
<1>5. w.pc = "exec" => ~Executes(list["NORMAL"][i].pid)
  BY <1>4 DEF is_proc_alive
<1>6. w.pc # "store"
  BY <1>4
<1> QED
  BY <1>1, <1>2, <1>4, <1>5, <1>6, LooksCopy

(* A process that runs has a fresh entry: its thread does not go and kill  *)
(* it.                                                                     *)
LEMMA run_ctrldCopy ==
    ASSUME ServiceInv, ServiceInv', CopyInv, Lone, NEW k, run_ctrld(k)
    PROVE  CopyInv' /\ NoneKilled
<1>1. PICK i : i = INDEX_OF(k)
  OBVIOUS
<1>2. /\ At("CONTROLED", k, "check") /\ "CONTROLED" \in Type
      /\ UNCHANGED <<backlog, main, proc, up, cut, list>>
  BY DEF run_ctrld, system, Type
<1>3. /\ thread["CONTROLED"][k] \in ThreadPos
      /\ Entry("CONTROLED", k) = list["CONTROLED"][i]
      /\ k \in 1 .. Len(list["CONTROLED"]) /\ list["CONTROLED"][i] \in ThreadProc
      /\ thread["CONTROLED"][k].pc = "check"
      /\ ~cut => i = k /\ Fresh
  BY <1>1, <1>2, OwnWatch
<1>4. PICK w \in ThreadPos :
         /\ thread' = [thread EXCEPT !["CONTROLED"][k] = w] /\ w.pc \in {"check", "kill"}
         /\ w.pc = "kill" => list["CONTROLED"][i].age >= Timeout
  <2>1. PICK w \in ThreadPos : w = [pc |-> "check", left |-> Period("CONTROLED"), new |-> NoPid]
    BY <1>2, SleepIsWatcher
  <2>2. PICK v : v = [thread["CONTROLED"][k] EXCEPT !.pc = "kill"]
    OBVIOUS
  <2>3. v \in ThreadPos /\ v.pc = "kill" /\ w.pc = "check"
    BY <1>3, <2>1, <2>2, GotoIsWatcher
  <2>4. CASE SleepAgain("CONTROLED", k)
    <3>1. thread' = [thread EXCEPT !["CONTROLED"][k] = w]
      BY <2>1, <2>4 DEF SleepAgain
    <3> QED
      BY <2>3, <3>1
  <2>5. CASE Goto("CONTROLED", k, "kill") /\ list["CONTROLED"][i].age >= Timeout
    <3>1. thread' = [thread EXCEPT !["CONTROLED"][k] = v]
      BY <2>2, <2>5 DEF Goto
    <3> QED
      BY <2>3, <2>5, <3>1
  <2> QED
    BY <1>3, <2>4, <2>5 DEF run_ctrld
<1>5. ASSUME ~cut, w.pc = "kill", list["CONTROLED"][k].cmd \notin Wrapped,
             Runs(list["CONTROLED"][k].pid)
      PROVE  FALSE
  <2>1. list["CONTROLED"][k].age <= HeartbeatPeriod
    BY <1>3, <1>5 DEF Fresh, FreshEntry
  <2>2. list["CONTROLED"][k].age >= Timeout /\ list["CONTROLED"][k].age \in Nat
    BY <1>3, <1>4, <1>5 DEF ThreadProc
  <2> QED
    BY <2>1, <2>2, Constants
<1>6. w.pc # "store" /\ w.pc # "exec"
  BY <1>4
<1> QED
  BY <1>1, <1>2, <1>4, <1>5, <1>6, LooksCopy

(* Of a process that is watched once, the kill is the end.                 *)
LEMMA kill_silentCopy ==
    ASSUME ServiceInv, ServiceInv', CopyInv, Lone, NEW k, kill_silent(k)
    PROVE  CopyInv' /\ NoneKilled
<1>1. PICK i : i = INDEX_OF(k)
  OBVIOUS
<1>2. /\ At("CONTROLED", k, "kill") /\ "CONTROLED" \in Type
      /\ UNCHANGED <<main, up, list>> /\ Goto("CONTROLED", k, "exec")
      /\ Killed(Entry("CONTROLED", k).pid)
  BY DEF kill_silent, Type
<1>3. /\ k \in 1 .. Len(list["CONTROLED"]) /\ i \in 1 .. Len(list["CONTROLED"]) /\ up
      /\ thread["CONTROLED"][k] \in ThreadPos /\ thread["CONTROLED"][k].pc = "kill"
      /\ list["CONTROLED"][i].cmd = list["CONTROLED"][k].cmd
      /\ Once(list["CONTROLED"][k].cmd) => i = k
      /\ ~cut => i = k /\ Fresh
      /\ Entry("CONTROLED", k) = list["CONTROLED"][i]
      /\ list["CONTROLED"][i].pid \in Pid
      /\ EntryMatches("CONTROLED", i) /\ EntryMatches("CONTROLED", k) /\ TypeOK
  BY <1>1, <1>2, OwnWatch
<1>4. PICK p \in Pid : p = list["CONTROLED"][i].pid
  BY <1>3
<1>5. Killed(p)
  BY <1>2, <1>3, <1>4
<1>6. /\ NoneBegins
      /\ backlog' = backlog \/ SameSenders(backlog')
      /\ cut => cut'
      /\ ~cut' => backlog' = backlog
      /\ \A q \in Pid \ {p} : proc'[q] = proc[q]
      /\ proc' = proc \/ (proc'[p].st \in {"zombie", "gone"} /\ Executes(p))
      /\ proc[p].cmd \notin Wrapped => ~Executes(p)'
  BY <1>3, <1>5, Killing
<1>7. proc[p].cmd \in Wrapped => proc' = proc
  BY <1>5 DEF Killed
<1>8. proc[p].cmd = list["CONTROLED"][k].cmd
  BY <1>3, <1>4 DEF EntryMatches, IsOf
<1>9. PICK w : w = [thread["CONTROLED"][k] EXCEPT !.pc = "exec"]
  OBVIOUS
<1>10. w \in ThreadPos /\ w.pc = "exec" /\ thread' = [thread EXCEPT !["CONTROLED"][k] = w]
  BY <1>2, <1>3, <1>9, GotoIsWatcher DEF Goto
<1>11. Watches("CONTROLED", k, i, w)
  BY <1>2, <1>10 DEF Watches
<1>12. thread'["CONTROLED"][k] = w
  BY <1>2, <1>3, <1>10, <1>11, WatchChanges
<1>13. \A q \in Pid : ProcessKept(q)
  <2>1. ASSUME NEW q \in Pid PROVE ProcessKept(q)
    <3>1. proc'[q] = proc[q] \/ (proc'[q].st \in {"zombie", "gone"} /\ Executes(q))
      BY <1>6
    <3>2. proc'[q].cmd = proc[q].cmd /\ (proc'[q].st = "none" <=> proc[q].st = "none")
      BY <1>6 DEF NoneBegins
    <3> QED
      BY <3>1, <3>2 DEF ProcessKept, Executes, Runs
  <2> QED
    BY <2>1
<1>14. \A q \in Pid : Runs(q)' => proc'[q] = proc[q]
  BY <1>6 DEF Runs
<1>15. NoneKilled
  <2>1. SUFFICES ASSUME ~cut, NEW q \in Pid, Runs(q), ~Runs(q)' PROVE FALSE
    BY DEF NoneKilled
  <2>2. q = p /\ proc' # proc
    BY <1>6, <2>1 DEF Runs
  <2>3. i = k /\ Fresh /\ proc[p].cmd \notin Wrapped
    BY <1>3, <1>7, <2>1, <2>2
  <2>4. Runs(list.CONTROLED[k].pid) /\ list.CONTROLED[k].cmd \notin Wrapped
    BY <1>4, <1>8, <2>1, <2>2, <2>3
  <2> QED
    BY <1>3, <2>3, <2>4 DEF Fresh, FreshEntry
<1>16. Current("CONTROLED", k) = list["CONTROLED"][k].pid
       /\ Current("CONTROLED", k)' = list["CONTROLED"][k].pid
  BY <1>2, <1>3, <1>10, <1>12 DEF Current
<1>17. IsOf(Current("CONTROLED", k)', list["CONTROLED"][k].cmd)
  BY <1>3, <1>16 DEF EntryMatches
<1>18. Once(list["CONTROLED"][k].cmd) =>
          /\ Current("CONTROLED", k)' = Current("CONTROLED", k)
          /\ w.pc = "exec" => ~Executes(list["CONTROLED"][k].pid)'
  <2>1. SUFFICES ASSUME Once(list["CONTROLED"][k].cmd)
                 PROVE  ~Executes(list["CONTROLED"][k].pid)'
    BY <1>16
  <2>2. i = k /\ proc[p].cmd \notin Wrapped
    BY <1>3, <1>8, <2>1 DEF Once
  <2>3. ~Executes(p)' /\ list'["CONTROLED"][k].pid = p
    BY <1>2, <1>4, <1>6, <2>2
  <2> QED
    BY <2>3 DEF Executes
<1>19. OwnIsFresh("CONTROLED", k, w)
  BY <1>10 DEF OwnIsFresh
<1>20. CopyInv'
  BY <1>2, <1>3, <1>6, <1>10, <1>11, <1>13, <1>14, <1>17, <1>18, <1>19, WatchCopy
<1> QED
  BY <1>15, <1>20

LEMMA restart_storeCopy ==
    ASSUME ServiceInv, ServiceInv', CopyInv, Lone, NEW type \in Type, NEW k,
           restart_store(type, k)
    PROVE  CopyInv' /\ NoneKilled
<1>1. PICK i : i = INDEX_OF(k)
  OBVIOUS
<1>2. /\ At(type, k, "store") /\ SleepAgain(type, k)
      /\ list' = [list EXCEPT ![type][i].pid = thread[type][k].new, ![type][i].age = 0]
      /\ UNCHANGED <<backlog, main, proc, up, cut>>
  BY <1>1 DEF restart_store, system
<1>3. /\ k \in 1 .. Len(list[type]) /\ i \in 1 .. Len(list[type]) /\ up
      /\ thread[type][k] \in ThreadPos /\ thread[type][k].pc = "store"
      /\ list[type][i].cmd = list[type][k].cmd
      /\ Once(list[type][k].cmd) => i = k
      /\ ~cut => i = k /\ Fresh
      /\ list[type][i] \in ThreadProc
      /\ EntryMatches(type, k) /\ TypeOK
  BY <1>1, <1>2, OwnWatch
<1>4. PICK new \in Pid : new = thread[type][k].new
  <2>1. k \in 1 .. Len(thread[type])
    BY <1>3, ListTypes
  <2> QED
    BY <1>3, <2>1 DEF ServiceInv, NewIsKnown
<1>5. Current(type, k) = new /\ IsOf(new, list[type][k].cmd)
  BY <1>3, <1>4 DEF EntryMatches, Current
<1>6. PICK old \in ThreadProc : old = list[type][i]
  BY <1>3
<1>7. PICK e : e = [old EXCEPT !.pid = new, !.age = 0]
  OBVIOUS
<1>8. e \in ThreadProc /\ e.cmd = old.cmd /\ e.pid = new /\ e.age = 0
  <2>1. PICK a : a = [old EXCEPT !.pid = new]
    OBVIOUS
  <2>2. a \in ThreadProc /\ a.cmd = old.cmd /\ a.pid = new
    BY <2>1 DEF ThreadProc
  <2>3. e = [a EXCEPT !.age = 0] /\ 0 \in 0 .. Timeout
    BY <1>7, <2>1, Constants
  <2> QED
    BY <2>2, <2>3 DEF ThreadProc
<1>9. list' = [list EXCEPT ![type][i] = e]
  BY <1>2, <1>4, <1>6, <1>7
<1>10. PICK w \in ThreadPos : w = [pc |-> "check", left |-> Period(type), new |-> NoPid]
  BY SleepIsWatcher
<1>11. thread' = [thread EXCEPT ![type][k] = w] /\ w.pc = "check"
  BY <1>2, <1>10 DEF SleepAgain
<1>12. Watches(type, k, i, w)
  BY <1>3, <1>5, <1>6, <1>8, <1>9, <1>11 DEF Watches
<1>13. /\ thread'[type][k] = w
       /\ \A l \in 1 .. Len(list[type]) : l # i => list'[type][l] = list[type][l]
  BY <1>3, <1>12, WatchChanges
<1>14. list'[type][i] = e
  <2>1. list \in [Type -> Seq(ThreadProc)]
    BY <1>3 DEF TypeOK
  <2> QED
    BY <1>3, <1>8, <1>9, <2>1, OneReplaced
<1>15. (\A q \in Pid : ProcessKept(q)) /\ NoneKilled
  BY <1>2, ProcessesSame
<1>16. Current(type, k)' = list'[type][k].pid
  BY <1>11, <1>13 DEF Current
<1>17. IsOf(Current(type, k)', list[type][k].cmd)
  <2>1. IsOf(list[type][k].pid, list[type][k].cmd)
    BY <1>3 DEF EntryMatches
  <2>2. list'[type][k].pid = new \/ list'[type][k].pid = list[type][k].pid
    BY <1>3, <1>8, <1>13, <1>14
  <2> QED
    BY <1>5, <1>16, <2>1, <2>2
<1>18. Once(list[type][k].cmd) => Current(type, k)' = Current(type, k)
  BY <1>3, <1>5, <1>8, <1>14, <1>16
<1>19. ~cut' => OwnIsFresh(type, k, w)
  BY <1>2, <1>3, <1>8, <1>11, <1>14 DEF OwnIsFresh
<1>20. \A q \in Pid : Runs(q)' => proc'[q] = proc[q]
  BY <1>2
<1>21. w.pc # "exec"
  BY <1>11
<1>22. CopyInv'
  BY <1>2, <1>3, <1>12, <1>15, <1>17, <1>18, <1>19, <1>20, <1>21, WatchCopy
<1> QED
  BY <1>15, <1>22

-----------------------------------------------------------------------------
(* The steps that begin a process.                                         *)

Begins(new, c) ==
    /\ proc[new].st = "none"
    /\ proc'[new].st = "run" /\ proc'[new].cmd = c
    /\ \A p \in Pid \ {new} : proc'[p] = proc[p]

LEMMA OthersLive ==
    ASSUME TypeOK, NEW new \in Pid, NEW c, Begins(new, c)
    PROVE  /\ ~Executes(new) /\ ~Runs(new) /\ Executes(new)' /\ NoneKilled
           /\ \A p \in Pid \ {new} : (Executes(p)' <=> Executes(p)) /\ (Runs(p)' <=> Runs(p))
           /\ \A p, d : IsOf(p, d) => p # new /\ proc'[p] = proc[p] /\ IsOf(p, d)'
<1>1. ~Executes(new) /\ ~Runs(new) /\ Executes(new)'
  BY DEF Begins, Executes, Runs
<1>2. \A p \in Pid \ {new} : (Executes(p)' <=> Executes(p)) /\ (Runs(p)' <=> Runs(p))
  BY DEF Begins, Executes, Runs
<1>3. ASSUME NEW p, NEW d, IsOf(p, d)
      PROVE  p # new /\ proc'[p] = proc[p] /\ IsOf(p, d)'
  <2>1. p \in Pid \ {new}
    BY <1>3 DEF IsOf, Begins
  <2>2. proc'[p] = proc[p]
    BY <2>1 DEF Begins
  <2> QED
    BY <1>3, <2>1, <2>2 DEF IsOf
<1>4. NoneKilled
  BY <1>1, <1>2 DEF NoneKilled
<1> QED
  BY <1>1, <1>2, <1>3, <1>4

LEMMA SameLists ==
    ASSUME list' = list
    PROVE  /\ CmdsKept /\ \A c : (Once(c)' <=> Once(c)) /\ (HasEntry(c)' <=> HasEntry(c))
           /\ EntriesDiffer => EntriesDiffer'
  BY DEF CmdsKept, Once, WatchedTwice, HasEntry, EntriesDiffer

LEMMA BeginsEntry ==
    ASSUME TypeOK, EntriesMatch, NEW new \in Pid, NEW c, Begins(new, c), list' = list,
           NEW type \in Type, NEW k \in 1 .. Len(list[type]), thread'[type][k] = thread[type][k]
    PROVE  EntryMatches(type, k)' /\ Current(type, k)' = Current(type, k)
<1>1. EntryMatches(type, k)
  BY DEF EntriesMatch
<1>2. Current(type, k)' = Current(type, k)
  BY DEF Current
<1>3. PICK d, p, q : d = list[type][k].cmd /\ p = list[type][k].pid /\ q = Current(type, k)
  OBVIOUS
<1>4. /\ IsOf(p, d) /\ IsOf(q, d) /\ d \in Kind(type)
      /\ Once(d) /\ thread[type][k].pc = "exec" => ~Executes(p)
  BY <1>1, <1>3 DEF EntryMatches
<1>5. IsOf(p, d)' /\ IsOf(q, d)' /\ p \in Pid \ {new}
  BY <1>4, OthersLive DEF IsOf
<1>6. (Once(d)' <=> Once(d)) /\ (Executes(p)' <=> Executes(p))
  BY <1>5, OthersLive, SameLists
<1>7. Once(d)' /\ thread'[type][k].pc = "exec" => ~Executes(list[type][k].pid)'
  <2>1. list'[type][k].pid = p /\ thread'[type][k] = thread[type][k]
    BY <1>3
  <2> QED
    BY <1>4, <1>6, <2>1 DEF Executes
<1>8. list'[type][k].cmd = d /\ list'[type][k].pid = p /\ Current(type, k)' = q
  BY <1>2, <1>3
<1>9. Once(list[type][k].cmd)' => Once(d)'
  BY <1>8 DEF Once, WatchedTwice
<1>10. EntryMatches(type, k)'
  BY <1>4, <1>5, <1>7, <1>8, <1>9 DEF EntryMatches, Kind
<1> QED
  BY <1>2, <1>10

LEMMA BeginsLast ==
    ASSUME ServiceInv, LastHasEntry, NEW new \in Pid, NEW c, Begins(new, c),
           UNCHANGED <<list, main>>
    PROVE  LastHasEntry'
<1>1. SUFFICES ASSUME main.type = "NEW_PROC" PROVE HasEntry(proc[main.pid].cmd)'
  BY DEF LastHasEntry
<1>2. /\ main.pid \in Pid /\ proc[main.pid].st # "none" /\ HasEntry(proc[main.pid].cmd)
      /\ main' = main
  BY <1>1 DEF LastHasEntry, ServiceInv, MainKnows
<1>3. proc'[main'.pid] = proc[main.pid]
  BY <1>2 DEF Begins
<1>4. PICK d : d = proc[main.pid].cmd /\ d = proc'[main'.pid].cmd
  BY <1>3
<1>5. HasEntry(d)'
  BY <1>2, <1>4, SameLists
<1> QED
  BY <1>4, <1>5 DEF HasEntry

(* The restarted process is the only one that executes the command: the    *)
(* entry's last one has ended, and no other could have been started.       *)
LEMMA restart_execCopy ==
    ASSUME ServiceInv, ServiceInv', CopyInv, Lone, NEW type \in Type, NEW k,
           restart_exec(type, k)
    PROVE  CopyInv' /\ NoneKilled
<1>1. PICK i : i = INDEX_OF(k)
  OBVIOUS
<1>2. /\ At(type, k, "exec") /\ MayStart(Entry(type, k).cmd)
      /\ exec_cmdline(Entry(type, k).cmd, "server")
      /\ thread' = [thread EXCEPT ![type][k].pc = "store", ![type][k].new = NextPid]
      /\ UNCHANGED <<backlog, main, up, cut, list>>
  BY DEF restart_exec, system
<1>3. /\ k \in 1 .. Len(list[type]) /\ up
      /\ thread[type][k] \in ThreadPos /\ thread[type][k].pc = "exec"
      /\ list[type][i].cmd = list[type][k].cmd
      /\ Entry(type, k) = list[type][i] /\ list[type][i] \in ThreadProc
      /\ EntryMatches(type, k) /\ EntriesMatch /\ TypeOK
  BY <1>1, <1>2, OwnWatch
<1>4. PICK c \in Command : c = list[type][k].cmd /\ c = Entry(type, k).cmd
  BY <1>3 DEF ThreadProc
<1>5. PICK new \in Pid : new = NextPid
  BY <1>2 DEF MayStart
<1>6. Begins(new, c)
  <2>1. PidsInOrder /\ StartedOrNot /\ MayStart(c) /\ exec_cmdline(c, "server")
    BY <1>2, <1>4 DEF ServiceInv
  <2> QED
    BY <1>3, <1>5, <2>1, ProcessBegins DEF Begins
<1>7. AtMostOne /\ AnnouncedDiffer /\ Owned /\ LastHasEntry
  BY <1>3 DEF CopyInv, EntriesInv
<1>8. PICK w \in ThreadPos : /\ thread' = [thread EXCEPT ![type][k] = w]
                             /\ w.pc = "store" /\ w.new = new
  <2>1. PICK old \in ThreadPos : old = thread[type][k]
    BY <1>3
  <2>2. PICK a : a = [old EXCEPT !.pc = "store"]
    OBVIOUS
  <2>3. a \in ThreadPos /\ a.pc = "store"
    BY <2>2, GotoIsWatcher
  <2>4. PICK w : w = [a EXCEPT !.new = new]
    OBVIOUS
  <2>5. w \in ThreadPos /\ w.pc = "store" /\ w.new = new
    BY <2>3, <2>4 DEF ThreadPos
  <2>6. thread' = [thread EXCEPT ![type][k] = w]
    BY <1>2, <1>5, <2>1, <2>2, <2>4
  <2> QED
    BY <2>5, <2>6
<1>9. Watches(type, k, k, w)
  BY <1>2, <1>8 DEF Watches
<1>10. /\ thread'[type][k] = w
       /\ \A ty \in Type : \A l \in 1 .. Len(list[ty]) :
              ty # type \/ l # k => thread'[ty][l] = thread[ty][l]
  BY <1>3, <1>9, WatchChanges
<1>11. Current(type, k)' = new
  BY <1>8, <1>10 DEF Current
(* Nothing executed the command, if it is watched once.                    *)
<1>12. Once(c) => \A q \in Pid : Executes(q) => proc[q].cmd # c
  <2>1. SUFFICES ASSUME Once(c), NEW q \in Pid, Executes(q), proc[q].cmd = c PROVE FALSE
    OBVIOUS
  <2>2. Current(type, k) = q
    BY <1>3, <1>4, <1>7, <2>1 DEF Owned
  <2>3. Current(type, k) = list[type][k].pid
    BY <1>3 DEF Current
  <2>4. ~Executes(list[type][k].pid)
    BY <1>3, <1>4, <2>1 DEF EntryMatches
  <2> QED
    BY <2>1, <2>2, <2>3, <2>4
<1>13. AtMostOne'
  <2>1. SUFFICES ASSUME NEW p \in Pid, NEW q \in Pid, Executes(p)', Executes(q)',
                        proc'[p].cmd = proc'[q].cmd, Once(proc[p].cmd)'
                 PROVE  p = q
    BY DEF AtMostOne
  <2>2. PICK d : d = proc'[p].cmd
    OBVIOUS
  <2>3. Once(d)'
    BY <2>1, <2>2 DEF Once, WatchedTwice
  <2>4. Once(d)
    BY <1>2, <2>3, SameLists
  <2>5. \A r \in {p, q} : r # new => Executes(r) /\ proc[r].cmd = d
    BY <1>3, <1>6, <2>1, <2>2, OthersLive DEF Begins
  <2>6. CASE d = c
    <3>1. p = new /\ q = new
      BY <1>12, <2>4, <2>5, <2>6
    <3> QED
      BY <3>1
  <2>7. CASE d # c
    <3>1. p # new /\ q # new
      BY <1>6, <2>1, <2>2, <2>7 DEF Begins
    <3> QED
      BY <1>7, <2>4, <2>5, <3>1 DEF AtMostOne
  <2> QED
    BY <2>6, <2>7
<1>14. EntriesMatch'
  <2>1. ASSUME NEW ty \in Type, NEW l \in 1 .. Len(list[ty]), ty # type \/ l # k
        PROVE  EntryMatches(ty, l)'
    BY <1>2, <1>3, <1>6, <1>10, <2>1, BeginsEntry
  <2>2. EntryMatches(type, k)'
    <3>1. PICK p : p = list[type][k].pid
      OBVIOUS
    <3>2. IsOf(p, c) /\ c \in Kind(type)
      BY <1>3, <1>4, <3>1 DEF EntryMatches
    <3>3. IsOf(p, c)'
      BY <1>3, <1>6, <3>2, OthersLive
    <3>4. IsOf(new, c)'
      BY <1>6 DEF Begins, IsOf
    <3>5. list'[type][k].pid = p /\ list'[type][k].cmd = c /\ thread'[type][k].pc = "store"
      BY <1>2, <1>4, <1>8, <1>10, <3>1
    <3> QED
      BY <1>11, <3>2, <3>3, <3>4, <3>5 DEF EntryMatches, Kind
  <2> QED
    BY <1>2, <2>1, <2>2 DEF EntriesMatch
<1>15. \A j : /\ Announced(j)' <=> Announced(j)
              /\ Announced(j) => /\ AnnouncedCmd(j)' = AnnouncedCmd(j)
                                 /\ backlog[j].pid # new
  <2>1. ASSUME NEW j, Announced(j)
        PROVE  AnnouncedCmd(j)' = AnnouncedCmd(j) /\ backlog[j].pid # new
    <3>1. backlog[j].pid \in Pid /\ proc[backlog[j].pid].st # "none"
      BY <1>3, <2>1, Queued DEF Announced, ServiceInv, SendersStarted
    <3>2. backlog[j].pid # new /\ proc'[backlog[j].pid] = proc[backlog[j].pid]
      BY <1>6, <3>1 DEF Begins
    <3> QED
      BY <1>2, <3>2 DEF AnnouncedCmd
  <2>2. \A j : Announced(j)' <=> Announced(j)
    BY <1>2 DEF Announced
  <2> QED
    BY <2>1, <2>2
<1>16. AnnouncedDiffer'
  <2>1. ASSUME NEW j, Announced(j)'
        PROVE  /\ ~HasEntry(AnnouncedCmd(j))'
               /\ \A l : Announced(l)' /\ AnnouncedCmd(l)' = AnnouncedCmd(j)' => l = j
    <3>1. PICK d : d = AnnouncedCmd(j)' /\ d = AnnouncedCmd(j)
      BY <1>15, <2>1
    <3>2. ~HasEntry(d)
      BY <1>7, <1>15, <2>1, <3>1 DEF AnnouncedDiffer
    <3>3. ~HasEntry(d)'
      BY <1>2, <3>2, SameLists
    <3>4. ~HasEntry(AnnouncedCmd(j))'
      BY <3>1, <3>3 DEF HasEntry
    <3>5. \A l : Announced(l)' /\ AnnouncedCmd(l)' = AnnouncedCmd(j)' => l = j
      BY <1>7, <1>15, <2>1 DEF AnnouncedDiffer
    <3> QED
      BY <3>4, <3>5
  <2> QED
    BY <2>1 DEF AnnouncedDiffer
<1>17. Owned'
  <2>1. ASSUME NEW q \in Pid, Executes(q)'
        PROVE  /\ \A j : Announced(j)' /\ AnnouncedCmd(j)' = proc'[q].cmd
                             => backlog'[j].pid = q
               /\ Once(proc[q].cmd)' =>
                      \A ty \in Type : \A l \in 1 .. Len(list'[ty]) :
                          list'[ty][l].cmd = proc'[q].cmd => Current(ty, l)' = q
    <3>1. PICK d : d = proc'[q].cmd
      OBVIOUS
    <3>2. Once(proc[q].cmd)' => Once(d)
      <4>1. Once(proc[q].cmd)' => Once(d)'
        BY <3>1 DEF Once, WatchedTwice
      <4> QED
        BY <1>2, <4>1, SameLists
    <3>3. q # new => Executes(q) /\ proc[q].cmd = d
      BY <1>3, <1>6, <2>1, <3>1, OthersLive DEF Begins
    <3>4. ASSUME NEW j, Announced(j)', AnnouncedCmd(j)' = d
          PROVE  backlog'[j].pid = q
      <4>1. Announced(j) /\ AnnouncedCmd(j) = d /\ backlog'[j].pid = backlog[j].pid
        BY <1>2, <1>15, <3>4
      <4>2. d # c
        <5>1. HasEntry(c)
          BY <1>3, <1>4 DEF HasEntry
        <5> QED
          BY <1>7, <4>1, <5>1 DEF AnnouncedDiffer
      <4>3. q # new
        BY <1>6, <3>1, <4>2 DEF Begins
      <4> QED
        BY <1>7, <3>3, <4>1, <4>3 DEF Owned
    <3>5. ASSUME Once(d), NEW ty \in Type, NEW l \in 1 .. Len(list[ty]), list[ty][l].cmd = d
          PROVE  Current(ty, l)' = q
      <4>1. CASE d = c
        <5>1. q = new
          BY <1>12, <3>3, <3>5, <4>1
        <5>2. c \in Kind(ty) /\ c \in Kind(type)
          BY <1>3, <1>4, <3>5, <4>1 DEF EntriesMatch, EntryMatches
        <5>3. ty = type
          BY <5>2, MonitorAssumption DEF Kind, Type
        <5>4. l = k
          BY <1>3, <1>4, <3>5, <4>1, <5>3, OnceIsOne
        <5> QED
          BY <1>11, <5>1, <5>3, <5>4
      <4>2. CASE d # c
        <5>1. q # new
          BY <1>6, <3>1, <4>2 DEF Begins
        <5>2. ty # type \/ l # k
          BY <1>4, <3>5, <4>2
        <5>3. Current(ty, l)' = Current(ty, l)
          BY <1>2, <1>3, <1>6, <1>10, <5>2, BeginsEntry
        <5> QED
          BY <1>7, <3>3, <3>5, <5>1, <5>3 DEF Owned
      <4> QED
        BY <4>1, <4>2
    <3> QED
      BY <1>2, <3>1, <3>2, <3>4, <3>5
  <2> QED
    BY <2>1 DEF Owned
<1>18. LastHasEntry'
  BY <1>2, <1>6, <1>7, BeginsLast
<1>19. ASSUME ~cut'
       PROVE  WhileListening'
  <2>1. AllSend /\ EntriesDiffer /\ Fresh /\ TypeOK'
    BY <1>2, <1>3, <1>19 DEF CopyInv, WhileListening, ServiceInv
  <2>2. AllSend' /\ EntriesDiffer'
    BY <1>2, <2>1, SameLists DEF AllSend
  <2>3. \A p \in Pid : Runs(p)' =>
           proc'[p] = proc[p] \/ (\A l \in 1 .. Len(list.CONTROLED) : list.CONTROLED[l].pid # p)
    <3>1. \A l \in 1 .. Len(list.CONTROLED) : IsOf(list.CONTROLED[l].pid, list.CONTROLED[l].cmd)
      BY <1>3 DEF EntriesMatch, EntryMatches, Type
    <3> QED
      BY <1>3, <1>6, <3>1, OthersLive DEF Begins
  <2>4. OwnIsFresh(type, k, w) /\ UNCHANGED <<backlog, main>>
    BY <1>2, <1>8 DEF OwnIsFresh
  <2>5. Fresh'
    BY <1>3, <1>9, <2>1, <2>3, <2>4, OthersFresh
  <2> QED
    BY <2>2, <2>5 DEF WhileListening
<1>20. NoneKilled
  BY <1>3, <1>6, OthersLive
<1> QED
  BY <1>13, <1>14, <1>16, <1>17, <1>18, <1>19, <1>20 DEF CopyInv, EntriesInv

(* A command submitted: it has no process yet, no entry and no NEW_PROC.   *)
LEMMA start_clientCopy ==
    ASSUME ServiceInv, ServiceInv', CopyInv, NEW c \in Command, start_client(c)
    PROVE  CopyInv' /\ NoneKilled
<1>1. /\ up /\ MayStart(c) /\ exec_cmdline(c, "client")
      /\ backlog' = Append(backlog, [type |-> "NEW_PROC", pid |-> NextPid, st |-> "open"])
      /\ \A p \in Pid : proc[p].cmd # c
      /\ UNCHANGED <<main, up, cut, list, thread>>
  BY DEF start_client, system, watches
<1>2. PICK new \in Pid : new = NextPid
  BY <1>1 DEF MayStart
<1>3. /\ EntriesMatch /\ AnnouncedDiffer /\ Owned /\ LastHasEntry /\ AtMostOne
      /\ TypeOK /\ TypeOK'
  BY <1>1 DEF CopyInv, EntriesInv, ServiceInv
<1>4. Begins(new, c)
  <2>1. PidsInOrder /\ StartedOrNot
    BY DEF ServiceInv
  <2> QED
    BY <1>1, <1>2, <1>3, <2>1, ProcessBegins DEF Begins
<1>5. PICK last \in Nat : /\ last = Len(backlog) + 1 /\ last = Len(backlog')
                          /\ \A i \in 1 .. Len(backlog) : backlog'[i] = backlog[i]
                          /\ backlog'[last] = [type |-> "NEW_PROC", pid |-> new, st |-> "open"]
  <2>1. "NEW_PROC" \in MsgType
    BY DEF MsgType
  <2> QED
    BY <1>1, <1>2, <1>3, <2>1, OneConnects, Queued
<1>6. Len(backlog) \in Nat
  BY <1>3, Queued
<1>7. /\ \A i : Announced(i)' => Announced(i) \/ i = last
      /\ \A i : Announced(i) => Announced(i)' /\ backlog'[i] = backlog[i] /\ i # last
      /\ Announced(last)' /\ backlog'[last].pid = new
  BY <1>5, <1>6 DEF Announced
<1>8. \A i : Announced(i) => /\ backlog[i].pid # new
                             /\ AnnouncedCmd(i)' = AnnouncedCmd(i) /\ AnnouncedCmd(i) # c
  <2>1. SUFFICES ASSUME NEW i, Announced(i)
                 PROVE  /\ backlog[i].pid # new
                        /\ AnnouncedCmd(i)' = AnnouncedCmd(i) /\ AnnouncedCmd(i) # c
    OBVIOUS
  <2>2. backlog[i].pid \in Pid /\ proc[backlog[i].pid].st # "none"
    BY <1>3, <2>1, Queued DEF Announced, ServiceInv, SendersStarted
  <2>3. backlog[i].pid # new /\ proc'[backlog[i].pid] = proc[backlog[i].pid]
    BY <1>4, <2>2 DEF Begins
  <2> QED
    BY <1>1, <1>7, <2>1, <2>2, <2>3 DEF AnnouncedCmd
<1>9. AnnouncedCmd(last)' = c
  BY <1>4, <1>7 DEF AnnouncedCmd, Begins
<1>10. ~HasEntry(c)
  BY <1>1, <1>3 DEF HasEntry, EntriesMatch, EntryMatches, IsOf
<1>11. \A q \in Pid : Executes(q)' /\ q # new => Executes(q) /\ proc'[q] = proc[q]
  BY <1>3, <1>4, OthersLive DEF Begins
<1>12. AtMostOne'
  <2>1. SUFFICES ASSUME NEW p \in Pid, NEW q \in Pid, Executes(p)', Executes(q)',
                        proc'[p].cmd = proc'[q].cmd, Once(proc[p].cmd)'
                 PROVE  p = q
    BY DEF AtMostOne
  <2>2. PICK d : d = proc'[p].cmd
    OBVIOUS
  <2>3. Once(d)'
    BY <2>1, <2>2 DEF Once, WatchedTwice
  <2>4. Once(d)
    BY <1>1, <2>3, SameLists
  <2>5. \A r \in {p, q} : r # new => Executes(r) /\ proc[r].cmd = d /\ d # c
    BY <1>1, <1>11, <2>1, <2>2
  <2>6. \A r \in {p, q} : r = new => d = c
    BY <1>4, <2>1, <2>2 DEF Begins
  <2> QED
    BY <1>3, <2>4, <2>5, <2>6 DEF AtMostOne
<1>13. EntriesMatch'
  <2>1. ASSUME NEW ty \in Type, NEW l \in 1 .. Len(list[ty])
        PROVE  EntryMatches(ty, l)'
    BY <1>1, <1>3, <1>4, BeginsEntry
  <2> QED
    BY <1>1, <2>1 DEF EntriesMatch
<1>14. AnnouncedDiffer'
  <2>1. ASSUME NEW j, Announced(j)'
        PROVE  /\ ~HasEntry(AnnouncedCmd(j))'
               /\ \A l : Announced(l)' /\ AnnouncedCmd(l)' = AnnouncedCmd(j)' => l = j
    <3>1. PICK d : d = AnnouncedCmd(j)'
      OBVIOUS
    <3>2. ~HasEntry(d)
      <4>1. CASE j = last
        BY <1>9, <1>10, <3>1, <4>1
      <4>2. CASE Announced(j)
        BY <1>3, <1>8, <3>1, <4>2 DEF AnnouncedDiffer
      <4> QED
        BY <1>7, <2>1, <4>1, <4>2
    <3>3. ~HasEntry(d)'
      BY <1>1, <3>2, SameLists
    <3>4. ~HasEntry(AnnouncedCmd(j))'
      BY <3>1, <3>3 DEF HasEntry
    <3>5. ASSUME NEW l, Announced(l)', AnnouncedCmd(l)' = AnnouncedCmd(j)'
          PROVE  l = j
      <4>1. CASE j = last \/ l = last
        BY <1>7, <1>8, <1>9, <2>1, <3>5, <4>1
      <4>2. CASE Announced(j) /\ Announced(l)
        BY <1>3, <1>8, <3>5, <4>2 DEF AnnouncedDiffer
      <4> QED
        BY <1>7, <2>1, <3>5, <4>1, <4>2
    <3> QED
      BY <3>4, <3>5
  <2> QED
    BY <2>1 DEF AnnouncedDiffer
<1>15. Owned'
  <2>1. ASSUME NEW q \in Pid, Executes(q)'
        PROVE  /\ \A j : Announced(j)' /\ AnnouncedCmd(j)' = proc'[q].cmd
                             => backlog'[j].pid = q
               /\ Once(proc[q].cmd)' =>
                      \A ty \in Type : \A l \in 1 .. Len(list'[ty]) :
                          list'[ty][l].cmd = proc'[q].cmd => Current(ty, l)' = q
    <3>1. PICK d : d = proc'[q].cmd
      OBVIOUS
    <3>2. Once(proc[q].cmd)' => Once(d)
      <4>1. Once(proc[q].cmd)' => Once(d)'
        BY <3>1 DEF Once, WatchedTwice
      <4> QED
        BY <1>1, <4>1, SameLists
    <3>3. q # new => Executes(q) /\ proc[q].cmd = d /\ d # c
      BY <1>1, <1>11, <2>1, <3>1
    <3>4. q = new => d = c
      BY <1>4, <3>1 DEF Begins
    <3>5. ASSUME NEW j, Announced(j)', AnnouncedCmd(j)' = d
          PROVE  backlog'[j].pid = q
      <4>1. CASE j = last
        BY <1>7, <1>9, <3>3, <3>5, <4>1
      <4>2. CASE Announced(j)
        <5>1. AnnouncedCmd(j) = d /\ d # c /\ backlog'[j].pid = backlog[j].pid
          BY <1>7, <1>8, <3>5, <4>2
        <5> QED
          BY <1>3, <3>3, <3>4, <4>2, <5>1 DEF Owned
      <4> QED
        BY <1>7, <3>5, <4>1, <4>2
    <3>6. ASSUME Once(d), NEW ty \in Type, NEW l \in 1 .. Len(list[ty]), list[ty][l].cmd = d
          PROVE  Current(ty, l)' = q
      <4>1. q # new
        BY <1>10, <3>4, <3>6 DEF HasEntry
      <4>2. Current(ty, l)' = Current(ty, l)
        BY <1>1 DEF Current
      <4> QED
        BY <1>3, <3>3, <3>6, <4>1, <4>2 DEF Owned
    <3> QED
      BY <1>1, <3>1, <3>2, <3>5, <3>6
  <2> QED
    BY <2>1 DEF Owned
<1>16. LastHasEntry'
  BY <1>1, <1>3, <1>4, BeginsLast
<1>17. ASSUME ~cut'
       PROVE  WhileListening'
  <2>1. AllSend /\ EntriesDiffer /\ Fresh
    BY <1>1, <1>17 DEF CopyInv, WhileListening
  <2>2. AllSend'
    BY <1>5, <1>6, <2>1 DEF AllSend
  <2>3. EntriesDiffer'
    BY <1>1, <2>1, SameLists
  <2>4. ASSUME NEW k \in 1 .. Len(list'.CONTROLED), NEW q \in Pid,
               q = list'.CONTROLED[k].pid, list'.CONTROLED[k].cmd \notin Wrapped, Runs(q)'
        PROVE  /\ thread'.CONTROLED[k].pc # "kill"
               /\ thread'.CONTROLED[k].pc = "check" =>
                      list'.CONTROLED[k].age = 0 \/ StaysFresh(k, q)
    <3>1. k \in 1 .. Len(list.CONTROLED) /\ q = list.CONTROLED[k].pid
      BY <1>1, <2>4
    <3>2. IsOf(q, list.CONTROLED[k].cmd)
      BY <1>3, <3>1 DEF EntriesMatch, EntryMatches, Type
    <3>3. q # new /\ proc'[q] = proc[q]
      BY <1>3, <1>4, <3>2, OthersLive
    <3>4. Runs(q)
      BY <2>4, <3>3 DEF Runs
    <3>5. thread.CONTROLED[k].pc # "kill"
      BY <1>1, <2>1, <2>4, <3>1, <3>4 DEF Fresh, FreshEntry
    <3>6. Pending(k, q) => Pending(k, q)'
      BY <1>1, <1>5, <1>6 DEF Pending
    <3> QED
      BY <1>1, <3>1, <3>3, <3>4, <3>5, <3>6 DEF StaysFresh
  <2>5. Fresh'
    BY <1>3, <2>1, <2>4, FreshStays
  <2> QED
    BY <2>2, <2>3, <2>5 DEF WhileListening
<1>18. NoneKilled
  BY <1>3, <1>4, OthersLive
<1> QED
  BY <1>12, <1>13, <1>14, <1>15, <1>16, <1>17, <1>18 DEF CopyInv, EntriesInv

(* The clock goes on only when no sign of life is on its way, and no       *)
(* program that runs has one to give.                                      *)
LEMMA TickFresh ==
    ASSUME ServiceInv, Tick, up, EntriesMatch, AllSend, Fresh, NEW k \in 1 .. Len(list.CONTROLED),
           NEW p \in Pid, p = list.CONTROLED[k].pid, Runs(p), list.CONTROLED[k].cmd \notin Wrapped,
           thread.CONTROLED[k].pc = "check"
    PROVE  /\ After(list.CONTROLED[k].age) <= HeartbeatPeriod
           /\ After(list.CONTROLED[k].age) + Before(proc[p].beat) <= HeartbeatPeriod
<1>1. TypeOK /\ "CONTROLED" \in Type
  BY DEF ServiceInv, Type
<1>2. Len(backlog) = 0 /\ main.pc = "accept"
  <2>1. main.pc = "accept" /\ \A i \in DOMAIN backlog : backlog[1].st = "stuck"
    BY DEF Tick, ServerAsleep
  <2>2. \A i \in DOMAIN backlog : backlog[i].st # "open"
    BY DEF Tick, NobodySends
  <2>3. DOMAIN backlog = 1 .. Len(backlog) /\ Len(backlog) \in Nat
    BY <1>1, Queued
  <2>4. ~(1 \in 1 .. Len(backlog))
    BY <2>1, <2>3 DEF AllSend
  <2> QED
    BY <2>1, <2>3, <2>4
<1>3. PICK e \in ThreadProc : e = list.CONTROLED[k]
  BY <1>1, ListTypes
<1>4. proc[p].cmd \in Controlled
  BY <1>1, <1>3 DEF EntriesMatch, EntryMatches, IsOf, Kind
<1>5. proc[p].beat > 0
  <2>1. Room
    <3>1. QLEN \in Nat
      BY MonitorAssumption
    <3> QED
      BY <1>2, <3>1 DEF Room
  <2> QED
    BY <1>4, <2>1 DEF Tick, ProgramAsleep
<1>6. ~Pending(k, p)
  BY <1>2 DEF Pending
<1>7. e.age + proc[p].beat <= HeartbeatPeriod
  BY <1>3, <1>6 DEF Fresh, FreshEntry
<1>8. e.age \in Nat /\ proc[p].beat \in Nat
  <2>1. e.age \in Nat
    BY Constants DEF ThreadProc
  <2>2. PICK q \in Process : q = proc[p]
    BY <1>1 DEF TypeOK
  <2>3. q.beat \in Nat
    BY Constants DEF Process
  <2> QED
    BY <2>1, <2>2, <2>3
<1>9. PICK a \in Nat, b \in Nat, h \in Nat, t \in Nat :
         a = e.age /\ b = proc[p].beat /\ h = HeartbeatPeriod /\ t = Timeout
  BY <1>8, Constants
<1>10. a + b <= h /\ b > 0 /\ h < t
  BY <1>5, <1>7, <1>9, Constants
<1>11. After(e.age) = a + 1
  <2>1. a < t
    BY <1>10
  <2>2. e.age < Timeout
    BY <1>9, <2>1
  <2>3. After(e.age) = e.age + 1
    BY <2>2 DEF After
  <2> QED
    BY <1>9, <2>3
<1>12. Before(proc[p].beat) = b - 1
  BY <1>9, <1>10 DEF Before
<1>13. a + 1 <= h /\ (a + 1) + (b - 1) <= h
  BY <1>10
<1>14. After(list.CONTROLED[k].age) = a + 1 /\ HeartbeatPeriod = h
  BY <1>3, <1>9, <1>11
<1> QED
  BY <1>12, <1>13, <1>14

LEMMA TickCopy ==
    ASSUME ServiceInv, ServiceInv', CopyInv, Tick
    PROVE  CopyInv' /\ NoneKilled
<1>1. UNCHANGED <<backlog, main, up, cut>> /\ TypeOK
  BY DEF Tick, system, ServiceInv
<1>2. ASSUME NEW p \in Pid
      PROVE  /\ proc'[p].st = proc[p].st /\ proc'[p].cmd = proc[p].cmd
             /\ proc'[p].beat = Before(proc[p].beat)
  <2>1. PICK old \in Process : old = proc[p]
    BY DEF ServiceInv, TypeOK
  <2>2. PICK b, d, n : b = Before(old.beat) /\ d = Before(old.due) /\ n = Before(old.nap)
    OBVIOUS
  <2>3. proc'[p] = [old EXCEPT !.beat = b, !.due = d, !.nap = n]
    BY <2>1, <2>2 DEF Tick
  <2>4. proc'[p].st = old.st /\ proc'[p].cmd = old.cmd /\ proc'[p].beat = b
    BY <2>3 DEF Process
  <2> QED
    BY <2>1, <2>2, <2>4
<1>3. (\A q \in Pid : ProcessKept(q)) /\ NoneKilled
  BY <1>2, ProcessesSame
<1>4. ASSUME NEW type \in Type
      PROVE  /\ Len(list'[type]) = Len(list[type])
             /\ \A k \in 1 .. Len(list[type]) :
                    /\ list'[type][k].cmd = list[type][k].cmd
                    /\ list'[type][k].pid = list[type][k].pid
                    /\ list'[type][k].age = After(list[type][k].age)
                    /\ thread'[type][k].pc = thread[type][k].pc
                    /\ thread'[type][k].new = thread[type][k].new
  <2>1. PICK s \in Seq(ThreadProc) : s = list[type]
    BY DEF ServiceInv, TypeOK
  <2>2. PICK z \in Seq(ThreadPos) : z = thread[type]
    BY DEF ServiceInv, TypeOK
  <2>3. Len(s) = Len(z) /\ DOMAIN s = 1 .. Len(s) /\ DOMAIN z = 1 .. Len(z)
    BY <2>1, <2>2 DEF ServiceInv, TypeOK
  <2>4. /\ list'[type] = [i \in 1 .. Len(s) |-> [s[i] EXCEPT !.age = After(@)]]
        /\ thread'[type] = [k \in 1 .. Len(s) |-> [z[k] EXCEPT !.left = Before(@)]]
    BY <2>1, <2>2, <2>3 DEF Tick
  <2>5. Len(list'[type]) = Len(s)
    <3>1. list'[type] \in Seq(ThreadProc) /\ DOMAIN list'[type] = 1 .. Len(s)
      BY <2>4 DEF ServiceInv, TypeOK
    <3> QED
      BY <3>1
  <2>6. ASSUME NEW k \in 1 .. Len(s)
        PROVE  /\ list'[type][k].cmd = s[k].cmd /\ list'[type][k].pid = s[k].pid
               /\ list'[type][k].age = After(s[k].age)
               /\ thread'[type][k].pc = z[k].pc /\ thread'[type][k].new = z[k].new
    <3>1. PICK e \in ThreadProc : e = s[k]
      BY <2>1
    <3>2. PICK w \in ThreadPos : w = z[k]
      BY <2>2, <2>3
    <3>3. PICK a, b : a = After(e.age) /\ b = Before(w.left)
      OBVIOUS
    <3>4. list'[type][k] = [e EXCEPT !.age = a] /\ thread'[type][k] = [w EXCEPT !.left = b]
      BY <2>4, <3>1, <3>2, <3>3
    <3>5. [e EXCEPT !.age = a].cmd = e.cmd /\ [e EXCEPT !.age = a].pid = e.pid
            /\ [e EXCEPT !.age = a].age = a
      BY DEF ThreadProc
    <3>6. [w EXCEPT !.left = b].pc = w.pc /\ [w EXCEPT !.left = b].new = w.new
      BY DEF ThreadPos
    <3> QED
      BY <3>1, <3>2, <3>3, <3>4, <3>5, <3>6
  <2> QED
    BY <2>1, <2>2, <2>5, <2>6
<1>5. SamePids
  BY <1>4 DEF SamePids
<1>6. CmdsKept /\ (up => EntriesKept)
  <2>1. CmdsKept
    BY <1>5 DEF SamePids, CmdsKept
  <2>2. up => EntriesMatch
    BY DEF CopyInv, EntriesInv
  <2> QED
    BY <1>3, <1>5, <2>1, <2>2, SamePidsKept
<1>7. AnnouncedKept /\ LastKept
  BY <1>1, SendersSame DEF LastKept
<1>8. ASSUME up, ~cut'
      PROVE  AllSend' /\ Fresh'
  <2>1. AllSend /\ Fresh /\ EntriesMatch
    BY <1>1, <1>8 DEF CopyInv, EntriesInv, WhileListening
  <2>2. AllSend'
    BY <1>1, <2>1 DEF AllSend
  <2>3. ASSUME NEW k \in 1 .. Len(list'.CONTROLED)
        PROVE  FreshEntry(k)'
    <3>1. "CONTROLED" \in Type /\ k \in 1 .. Len(list.CONTROLED)
      BY <1>4, <2>3 DEF Type
    <3>2. PICK p \in Pid : p = list.CONTROLED[k].pid
      BY <1>1, <3>1, ListTypes
    <3>3. /\ list'.CONTROLED[k].cmd = list.CONTROLED[k].cmd /\ list'.CONTROLED[k].pid = p
          /\ list'.CONTROLED[k].age = After(list.CONTROLED[k].age)
          /\ thread'.CONTROLED[k].pc = thread.CONTROLED[k].pc
      BY <1>4, <3>1, <3>2
    <3>4. Runs(list.CONTROLED[k].pid)' => Runs(p)
      BY <1>2, <3>2, <3>3 DEF Runs
    <3>5. ASSUME Runs(p), list.CONTROLED[k].cmd \notin Wrapped
          PROVE  /\ thread.CONTROLED[k].pc # "kill"
                 /\ thread.CONTROLED[k].pc = "check" =>
                        /\ After(list.CONTROLED[k].age) <= HeartbeatPeriod
                        /\ After(list.CONTROLED[k].age) + proc'[p].beat <= HeartbeatPeriod
      <4>1. thread.CONTROLED[k].pc # "kill"
        BY <2>1, <3>1, <3>2, <3>5 DEF Fresh, FreshEntry
      <4>2. proc'[p].beat = Before(proc[p].beat)
        BY <1>2
      <4> QED
        BY <1>8, <2>1, <3>1, <3>2, <3>5, <4>1, <4>2, TickFresh
    <3> QED
      BY <3>3, <3>4, <3>5 DEF FreshEntry
  <2>4. Fresh'
    BY <2>3 DEF Fresh
  <2> QED
    BY <2>2, <2>4
<1>9. CopyInv'
  BY <1>1, <1>3, <1>6, <1>7, <1>8, CopyKept
<1> QED
  BY <1>3, <1>9

(* The entry of a NEW_PROC, the last of its list.                          *)
NewEntry(p, c, type, n) ==
    /\ p = Msg.pid /\ IsOf(p, c) /\ c \in Kind(type)
    /\ n = Len(list[type]) + 1 /\ n \in 1 .. Len(list'[type])
    /\ list'[type][n].cmd = c /\ list'[type][n].pid = p
    /\ type = "CONTROLED" => list'[type][n].age = 0
    /\ thread'[type][n].pc = "check"
    /\ main'.type = "NEW_PROC" /\ main'.pid = p
    /\ \A ty \in Type : \A k \in 1 .. Len(list[ty]) :
           /\ k \in 1 .. Len(list'[ty])
           /\ list'[ty][k] = list[ty][k] /\ thread'[ty][k] = thread[ty][k]
    /\ \A ty \in Type : \A k \in 1 .. Len(list'[ty]) :
           k \in 1 .. Len(list[ty]) \/ (ty = type /\ k = n)

LEMMA NewEntryIs ==
    ASSUME ServiceInv, process_new_proc
    PROVE  \E p \in Pid : \E c \in Command : \E type \in Type : \E n \in Nat :
               NewEntry(p, c, type, n)
<1>1. Accepts("NEW_PROC") /\ TypeOK /\ SendersStarted /\ MainKnows /\ StartedOrNot
  BY DEF process_new_proc, ServiceInv
<1>2. PICK p \in Pid : p = Msg.pid /\ proc[p].st # "none"
  BY <1>1, MsgIs
<1>3. PICK c \in Command : c = proc[p].cmd
  BY <1>1, <1>2 DEF StartedOrNot
<1>4. PICK type \in Type : /\ type = IF c \in Normal THEN "NORMAL" ELSE "CONTROLED"
                           /\ c \in Kind(type)
  BY DEF Type, Kind, Command
<1>5. PICK age \in 0 .. Timeout :
         /\ type = "CONTROLED" => age = 0
         /\ list' = [list EXCEPT ![type] = Append(@, [cmd |-> c, pid |-> p, age |-> age])]
  <2>1. \A age \in IF type = "NORMAL" THEN 0 .. Timeout ELSE {0} :
           age \in 0 .. Timeout /\ (type = "CONTROLED" => age = 0)
    BY Constants
  <2> QED
    BY <1>2, <1>3, <1>4, <2>1 DEF process_new_proc
<1>6. PICK e \in ThreadProc : /\ e = [cmd |-> c, pid |-> p, age |-> age]
                              /\ e.cmd = c /\ e.pid = p /\ e.age = age
  <2>1. [cmd |-> c, pid |-> p, age |-> age] \in ThreadProc
    BY DEF ThreadProc
  <2> QED
    BY <2>1
<1>7. PICK w \in ThreadPos : /\ w = [pc |-> "check", left |-> 0, new |-> NoPid]
                             /\ w.pc = "check"
  <2>1. [pc |-> "check", left |-> 0, new |-> NoPid] \in ThreadPos
    BY DEF ThreadPos
  <2> QED
    BY <2>1
<1>8. PICK n \in Nat : n = Len(list[type]) + 1 /\ n = Len(thread[type]) + 1
  <2>1. Len(list[type]) = Len(thread[type]) /\ Len(list[type]) \in Nat
    BY <1>1, ListTypes
  <2> QED
    BY <2>1
<1>9. /\ Len(list'[type]) = n /\ list'[type][n] = e
      /\ \A k \in 1 .. Len(list[type]) : list'[type][k] = list[type][k]
      /\ \A ty \in Type \ {type} : list'[ty] = list[ty]
  <2>1. list' = [list EXCEPT ![type] = Append(@, e)]
    BY <1>5, <1>6
  <2>2. list \in [Type -> Seq(ThreadProc)]
    BY <1>1 DEF TypeOK
  <2> QED
    BY <1>8, <2>1, <2>2, OneAppended
<1>10. /\ thread'[type][n] = w
       /\ \A k \in 1 .. Len(thread[type]) : thread'[type][k] = thread[type][k]
       /\ \A ty \in Type \ {type} : thread'[ty] = thread[ty]
  <2>1. thread' = [thread EXCEPT ![type] = Append(@, w)]
    BY <1>2, <1>3, <1>4, <1>7 DEF process_new_proc
  <2>2. thread \in [Type -> Seq(ThreadPos)]
    BY <1>1 DEF TypeOK
  <2> QED
    BY <1>8, <2>1, <2>2, OneAppended
<1>11. \A ty \in Type : Len(list[ty]) = Len(thread[ty]) /\ Len(list[ty]) \in Nat
  BY <1>1, ListTypes
<1>12. \A ty \in Type : \A k \in 1 .. Len(list[ty]) :
          /\ k \in 1 .. Len(list'[ty])
          /\ list'[ty][k] = list[ty][k] /\ thread'[ty][k] = thread[ty][k]
  <2>1. SUFFICES ASSUME NEW ty \in Type, NEW k \in 1 .. Len(list[ty])
                 PROVE  /\ k \in 1 .. Len(list'[ty])
                        /\ list'[ty][k] = list[ty][k] /\ thread'[ty][k] = thread[ty][k]
    OBVIOUS
  <2>2. CASE ty = type
    <3>1. k \in 1 .. Len(list[type]) /\ Len(list[type]) \in Nat /\ k \in 1 .. Len(thread[type])
      BY <1>11, <2>2
    <3>2. k \in 1 .. Len(list'[type])
      BY <1>8, <1>9, <3>1
    <3> QED
      BY <1>9, <1>10, <2>2, <3>1, <3>2
  <2>3. CASE ty # type
    BY <1>9, <1>10, <2>3
  <2> QED
    BY <2>2, <2>3
<1>13. \A ty \in Type : \A k \in 1 .. Len(list'[ty]) :
          k \in 1 .. Len(list[ty]) \/ (ty = type /\ k = n)
  BY <1>8, <1>9, <1>11
<1>14. main'.type = "NEW_PROC" /\ main'.pid = p
  <2>1. main \in MainPlace(Len(list.CONTROLED) + 1)
    BY <1>1, MainPlaces
  <2>2. main' = [main EXCEPT !.type = "NEW_PROC", !.pid = p]
    BY <1>2 DEF process_new_proc
  <2> QED
    BY <2>1, <2>2 DEF MainPlace
<1>15. n = Len(list[type]) + 1 /\ n \in 1 .. Len(list'[type])
  BY <1>8, <1>9, <1>11
<1>16. IsOf(p, c)
  BY <1>2, <1>3 DEF IsOf
<1>17. NewEntry(p, c, type, n)
  BY <1>2, <1>4, <1>5, <1>6, <1>7, <1>9, <1>10, <1>12, <1>13, <1>14, <1>15, <1>16
     DEF NewEntry
<1> QED
  BY <1>17

(* A NEW_PROC handled: its command had no entry, or, if the message is the *)
(* one before, is watched twice from now on.                               *)
LEMMA process_new_procCopy ==
    ASSUME ServiceInv, ServiceInv', CopyInv, process_new_proc
    PROVE  CopyInv' /\ NoneKilled
<1>1. /\ Accepts("NEW_PROC") /\ up /\ backlog # <<>> /\ backlog' = Tail(backlog)
      /\ UNCHANGED <<proc, up, cut>> /\ main.pc = "accept"
      /\ TypeOK /\ TypeOK'
  BY DEF process_new_proc, Accepts, ServiceInv
<1>2. /\ EntriesMatch /\ AnnouncedDiffer /\ Owned /\ LastHasEntry /\ AtMostOne
  BY <1>1 DEF CopyInv, EntriesInv
<1>3. PICK p \in Pid, c \in Command, type \in Type, n \in Nat : NewEntry(p, c, type, n)
  BY NewEntryIs
<1>4. (\A q \in Pid : ProcessKept(q)) /\ NoneKilled
  BY <1>1, ProcessesSame
<1>5. CmdsKept /\ \A d : Once(d)' => Once(d)
  <2>1. CmdsKept
    BY <1>3 DEF NewEntry, CmdsKept
  <2> QED
    BY <1>1, <2>1, OnceBefore
<1>6. \A d : (HasEntry(d) => HasEntry(d)') /\ (HasEntry(d)' => HasEntry(d) \/ d = c)
  <2>1. ASSUME NEW d, HasEntry(d)
        PROVE  HasEntry(d)'
    BY <1>3, <2>1 DEF NewEntry, HasEntry
  <2>2. ASSUME NEW d, HasEntry(d)', d # c
        PROVE  HasEntry(d)
    <3>1. PICK ty \in Type : \E k \in 1 .. Len(list'[ty]) : list'[ty][k].cmd = d
      BY <2>2 DEF HasEntry
    <3>2. PICK k \in 1 .. Len(list'[ty]) : list'[ty][k].cmd = d
      BY <3>1
    <3>3. k \in 1 .. Len(list[ty]) /\ list'[ty][k] = list[ty][k]
      BY <1>3, <2>2, <3>2 DEF NewEntry
    <3> QED
      BY <3>2, <3>3 DEF HasEntry
  <2> QED
    BY <2>1, <2>2
<1>7. ASSUME ~Eof
      PROVE  Announced(1) /\ backlog[1].pid = p /\ AnnouncedCmd(1) = c /\ ~HasEntry(c)
  <2>1. Announced(1) /\ backlog[1].pid = p
    BY <1>1, <1>3, <1>7, Accepting DEF Announced, NewEntry
  <2>2. AnnouncedCmd(1) = c
    BY <1>3, <2>1 DEF AnnouncedCmd, NewEntry, IsOf
  <2> QED
    BY <1>2, <2>1, <2>2 DEF AnnouncedDiffer
<1>8. ASSUME Eof
      PROVE  HasEntry(c) /\ ~Once(c)' /\ cut
  <2>1. main.type = "NEW_PROC" /\ main.pid = p
    BY <1>1, <1>3, <1>8, Accepting DEF NewEntry
  <2>2. HasEntry(c)
    BY <1>2, <1>3, <2>1 DEF LastHasEntry, NewEntry, IsOf
  <2>0. PICK ty \in Type : \E k \in 1 .. Len(list[ty]) : list[ty][k].cmd = c
    BY <2>2 DEF HasEntry
  <2>3. PICK k \in 1 .. Len(list[ty]) : list[ty][k].cmd = c
    BY <2>0
  <2>4. ty = type
    <3>1. c \in Kind(ty) /\ c \in Kind(type)
      BY <1>2, <1>3, <2>3 DEF EntriesMatch, EntryMatches, NewEntry
    <3> QED
      BY <3>1, MonitorAssumption DEF Kind, Type
  <2>5. /\ k \in 1 .. Len(list'[type]) /\ n \in 1 .. Len(list'[type]) /\ k # n
        /\ list'[type][k].cmd = c /\ list'[type][n].cmd = c
    <3>1. Len(list[type]) \in Nat
      BY <1>1, ListTypes
    <3> QED
      BY <1>3, <2>3, <2>4, <3>1 DEF NewEntry
  <2>6. ~Once(c)'
    BY <1>1, <2>5, ListTypes DEF Once, WatchedTwice
  <2>7. cut
    <3>1. 1 \in 1 .. Len(backlog) /\ backlog[1].st = "eof"
      BY <1>1, <1>8, Accepting DEF Eof
    <3>2. ~AllSend
      BY <3>1 DEF AllSend
    <3> QED
      BY <1>1, <3>2 DEF CopyInv, WhileListening
  <2> QED
    BY <2>2, <2>6, <2>7
<1>9. \A i : Announced(i)' => /\ i \in Nat /\ Announced(i + 1)
                              /\ backlog'[i].pid = backlog[i + 1].pid
                              /\ AnnouncedCmd(i)' = AnnouncedCmd(i + 1)
                              /\ AnnouncedCmd(i + 1) # c
  <2>1. SUFFICES ASSUME NEW i, Announced(i)'
                 PROVE  /\ i \in Nat /\ Announced(i + 1)
                        /\ backlog'[i].pid = backlog[i + 1].pid
                        /\ AnnouncedCmd(i)' = AnnouncedCmd(i + 1)
                        /\ AnnouncedCmd(i + 1) # c
    OBVIOUS
  <2>2. Announced(i + 1) /\ backlog'[i].pid = backlog[i + 1].pid
    BY <1>1, <2>1, OneTaken DEF AnnouncedFrom
  <2>3. i \in Nat /\ i + 1 # 1
    BY <2>1 DEF Announced
  <2>4. AnnouncedCmd(i)' = AnnouncedCmd(i + 1)
    BY <1>1, <2>2 DEF AnnouncedCmd
  <2>5. AnnouncedCmd(i + 1) # c
    BY <1>2, <1>7, <1>8, <2>2, <2>3 DEF AnnouncedDiffer
  <2> QED
    BY <2>2, <2>3, <2>4, <2>5
<1>10. AtMostOne'
  BY <1>1, <1>2, <1>4, <1>5, AtMostOneStays
<1>11. EntriesMatch'
  <2>1. ASSUME NEW ty \in Type, NEW k \in 1 .. Len(list[ty])
        PROVE  EntryMatches(ty, k)'
    <3>1. EntryMatches(ty, k)
      BY <1>2 DEF EntriesMatch
    <3>2. list'[ty][k] = list[ty][k] /\ thread'[ty][k] = thread[ty][k]
      BY <1>3 DEF NewEntry
    <3>3. PICK d, x, y : d = list[ty][k].cmd /\ x = list[ty][k].pid /\ y = Current(ty, k)
      OBVIOUS
    <3>4. Current(ty, k)' = y
      BY <3>2, <3>3 DEF Current
    <3>5. d \in Kind(ty) /\ IsOf(x, d) /\ IsOf(y, d)
      BY <3>1, <3>3 DEF EntryMatches
    <3>6. IsOf(x, d)' /\ IsOf(y, d)' /\ (Executes(x)' => Executes(x))
      BY <1>1, <3>5 DEF IsOf, Executes
    <3>7. IsOf(list[ty][k].pid, list[ty][k].cmd)' /\ IsOf(Current(ty, k), list[ty][k].cmd)'
      BY <3>2, <3>3, <3>4, <3>6 DEF IsOf
    <3>8. Once(d) /\ thread[ty][k].pc = "exec" => ~Executes(x)
      BY <3>1, <3>3 DEF EntryMatches
    <3>9. Once(list[ty][k].cmd)' => Once(d)
      <4>1. Once(list[ty][k].cmd)' => Once(d)'
        BY <3>2, <3>3 DEF Once, WatchedTwice
      <4> QED
        BY <1>5, <4>1
    <3>10. Once(list[ty][k].cmd)' /\ thread'[ty][k].pc = "exec" => ~Executes(list[ty][k].pid)'
      <4>1. Executes(list[ty][k].pid)' => Executes(x)'
        BY <3>2, <3>3 DEF Executes
      <4> QED
        BY <3>2, <3>6, <3>8, <3>9, <4>1
    <3>11. list'[ty][k].cmd \in Kind(ty)
      BY <3>2, <3>3, <3>5
    <3> QED
      BY <3>7, <3>10, <3>11 DEF EntryMatches, Kind
  <2>2. EntryMatches(type, n)'
    <3>1. /\ list'[type][n].cmd = c /\ list'[type][n].pid = p /\ Current(type, n)' = p
          /\ thread'[type][n].pc = "check" /\ c \in Kind(type)
      BY <1>3 DEF NewEntry, Current
    <3>2. IsOf(list[type][n].pid, list[type][n].cmd)' /\ IsOf(Current(type, n), list[type][n].cmd)'
      BY <1>1, <1>3, <3>1 DEF NewEntry, IsOf
    <3> QED
      BY <3>1, <3>2 DEF EntryMatches, Kind
  <2>3. \A ty \in Type : \A k \in 1 .. Len(list'[ty]) :
           k \in 1 .. Len(list[ty]) \/ (ty = type /\ k = n)
    BY <1>3 DEF NewEntry
  <2>4. \A ty \in Type : \A k \in 1 .. Len(list'[ty]) : EntryMatches(ty, k)'
    BY <2>1, <2>2, <2>3
  <2> QED
    BY <2>4 DEF EntriesMatch
<1>12. AnnouncedDiffer'
  <2>1. ASSUME NEW i, Announced(i)'
        PROVE  /\ ~HasEntry(AnnouncedCmd(i))'
               /\ \A j : Announced(j)' /\ AnnouncedCmd(j)' = AnnouncedCmd(i)' => j = i
    <3>1. PICK d : d = AnnouncedCmd(i)'
      OBVIOUS
    <3>2. ~HasEntry(d) /\ d # c
      BY <1>2, <1>9, <2>1, <3>1 DEF AnnouncedDiffer
    <3>3. ~HasEntry(d)'
      BY <1>6, <3>2
    <3>4. ~HasEntry(AnnouncedCmd(i))'
      BY <3>1, <3>3 DEF HasEntry
    <3>5. \A j : Announced(j)' /\ AnnouncedCmd(j)' = AnnouncedCmd(i)' => j + 1 = i + 1
      BY <1>2, <1>9, <2>1 DEF AnnouncedDiffer
    <3>6. \A j : Announced(j)' /\ AnnouncedCmd(j)' = AnnouncedCmd(i)' => j = i
      BY <1>9, <2>1, <3>5
    <3> QED
      BY <3>4, <3>6
  <2> QED
    BY <2>1 DEF AnnouncedDiffer
<1>13. Owned'
  <2>1. ASSUME NEW q \in Pid, Executes(q)'
        PROVE  /\ \A i : Announced(i)' /\ AnnouncedCmd(i)' = proc'[q].cmd
                             => backlog'[i].pid = q
               /\ Once(proc[q].cmd)' =>
                      \A ty \in Type : \A k \in 1 .. Len(list'[ty]) :
                          list'[ty][k].cmd = proc'[q].cmd => Current(ty, k)' = q
    <3>1. PICK d : d = proc[q].cmd
      OBVIOUS
    <3>2. Executes(q) /\ proc'[q].cmd = d
      BY <1>1, <2>1, <3>1 DEF Executes
    <3>3. \A i : Announced(i)' /\ AnnouncedCmd(i)' = d => backlog'[i].pid = q
      BY <1>2, <1>9, <3>1, <3>2 DEF Owned
    <3>4. Once(proc[q].cmd)' => Once(d)'
      BY <1>1, <3>1 DEF Once, WatchedTwice
    <3>5. ASSUME Once(d)', NEW ty \in Type, NEW k \in 1 .. Len(list'[ty]), list'[ty][k].cmd = d
          PROVE  Current(ty, k)' = q
      <4>1. CASE k \in 1 .. Len(list[ty])
        <5>1. list'[ty][k] = list[ty][k] /\ thread'[ty][k] = thread[ty][k]
          BY <1>3, <4>1 DEF NewEntry
        <5>2. Current(ty, k)' = Current(ty, k)
          BY <5>1 DEF Current
        <5>3. Once(d)
          BY <1>5, <3>5
        <5> QED
          BY <1>2, <3>1, <3>2, <3>5, <4>1, <5>1, <5>2, <5>3 DEF Owned
      <4>2. CASE ty = type /\ k = n
        <5>1. d = c /\ Current(ty, k)' = p
          BY <1>3, <3>5, <4>2 DEF NewEntry, Current
        <5>2. ~Eof
          BY <1>8, <3>5, <5>1
        <5>3. Announced(1) /\ backlog[1].pid = p /\ AnnouncedCmd(1) = proc[q].cmd
          BY <1>7, <3>1, <5>1, <5>2
        <5>4. p = q
          BY <1>2, <3>2, <5>3 DEF Owned
        <5> QED
          BY <5>1, <5>4
      <4> QED
        BY <1>3, <4>1, <4>2 DEF NewEntry
    <3> QED
      BY <3>2, <3>3, <3>4, <3>5
  <2> QED
    BY <2>1 DEF Owned
<1>14. LastHasEntry'
  <2>1. HasEntry(c)'
    BY <1>3 DEF NewEntry, HasEntry
  <2>2. proc'[main'.pid].cmd = c
    BY <1>1, <1>3 DEF NewEntry, IsOf
  <2>3. HasEntry(proc[main.pid].cmd)'
    BY <2>1, <2>2 DEF HasEntry
  <2> QED
    BY <2>3 DEF LastHasEntry
<1>15. ASSUME ~cut'
       PROVE  WhileListening'
  <2>1. AllSend /\ EntriesDiffer /\ Fresh /\ ~Eof
    BY <1>1, <1>8, <1>15 DEF CopyInv, WhileListening
  <2>2. AllSend'
    BY <1>1, <2>1, OneTaken
  <2>3. ~HasEntry(c)
    BY <1>7, <2>1
  <2>4. EntriesDiffer'
    <3>1. SUFFICES ASSUME NEW ty \in Type, NEW k \in 1 .. Len(list'[ty]),
                          NEW l \in 1 .. Len(list'[ty]),
                          list'[ty][k].cmd = list'[ty][l].cmd
                   PROVE  k = l
      BY DEF EntriesDiffer
    <3>2. \A m \in 1 .. Len(list[ty]) : list[ty][m].cmd # c
      BY <2>3 DEF HasEntry
    <3>3. /\ \A m \in 1 .. Len(list[ty]) : list'[ty][m].cmd = list[ty][m].cmd
          /\ \A m \in {k, l} : m \in 1 .. Len(list[ty]) \/ (ty = type /\ m = n)
          /\ list'[type][n].cmd = c
      BY <1>3 DEF NewEntry
    <3>4. CASE k \in 1 .. Len(list[ty]) /\ l \in 1 .. Len(list[ty])
      BY <2>1, <3>1, <3>3, <3>4 DEF EntriesDiffer
    <3> QED
      BY <3>1, <3>2, <3>3, <3>4
  <2>5. ASSUME NEW k \in 1 .. Len(list'.CONTROLED), NEW q \in Pid,
               q = list'.CONTROLED[k].pid, list'.CONTROLED[k].cmd \notin Wrapped, Runs(q)'
        PROVE  /\ thread'.CONTROLED[k].pc # "kill"
               /\ thread'.CONTROLED[k].pc = "check" =>
                      list'.CONTROLED[k].age = 0 \/ StaysFresh(k, q)
    <3>1. "CONTROLED" \in Type
      BY DEF Type
    <3>2. CASE type = "CONTROLED" /\ k = n
      BY <1>3, <3>2 DEF NewEntry
    <3>3. CASE k \in 1 .. Len(list.CONTROLED)
      <4>1. /\ list'.CONTROLED[k] = list.CONTROLED[k]
            /\ thread'.CONTROLED[k] = thread.CONTROLED[k]
        BY <1>3, <3>1, <3>3 DEF NewEntry
      <4>2. Runs(q) /\ proc'[q] = proc[q]
        BY <1>1, <2>5 DEF Runs
      <4>3. thread.CONTROLED[k].pc # "kill"
        BY <2>1, <2>5, <3>3, <4>1, <4>2 DEF Fresh, FreshEntry
      <4>4. Pending(k, q) => Pending(k, q)'
        <5>1. SUFFICES ASSUME NEW i \in 1 .. Len(backlog),
                              backlog[i].type = "HEARTBEAT_SIGNAL", backlog[i].pid = q
                       PROVE  Pending(k, q)'
          BY <1>1 DEF Pending
        <5>2. i # 1
          BY <1>7, <2>1, <5>1 DEF Announced
        <5>3. \E j \in 1 .. Len(backlog') : backlog'[j] = backlog[i] /\ j + 1 = i
          BY <1>1, <5>2, OneTaken
        <5> QED
          BY <5>1, <5>3 DEF Pending
      <4> QED
        BY <2>5, <3>3, <4>1, <4>2, <4>3, <4>4 DEF StaysFresh
    <3> QED
      BY <1>3, <3>1, <3>2, <3>3 DEF NewEntry
  <2>6. Fresh'
    BY <1>1, <2>1, <2>5, FreshStays
  <2> QED
    BY <2>2, <2>4, <2>6 DEF WhileListening
<1> QED
  BY <1>4, <1>10, <1>11, <1>12, <1>13, <1>14, <1>15 DEF CopyInv, EntriesInv

LEMMA CopyStep ==
    ASSUME Lone, ServiceInv, CopyInv, [Next]_vars
    PROVE  CopyInv' /\ NoneKilled
<1>0. ServiceInv'
  BY ServiceStep
<1>1. CASE UNCHANGED vars
  BY <1>0, <1>1, TimeServiceCopy
<1>2. CASE Next
  <2> DEFINE Q == CopyInv' /\ NoneKilled
  <2>1. \A c \in Command : start_client(c) => Q
    BY <1>0, start_clientCopy
  <2>2. \A p \in Pid : run_heartbeat(p) \/ run_timesvc_cli(p) => Q
    BY <1>0, ConnectCopy
  <2>3. \A p \in Pid : run_heartbeat_send(p) \/ run_timesvc_cli_send(p) => Q
    BY <1>0, SendCopy
  <2>4. \A p \in Pid : start_client_send(p) \/ client_fault(p) => Q
    BY <1>0, ClientCopy
  <2>5. \A p \in Pid : crash(p) \/ hang(p) => Q
    BY <1>0, FaultCopy
  <2>6. unknown_msg \/ process_new_proc \/ (rcv_heartbeat \/ check_request) => Q
    BY <1>0, unknown_msgCopy, process_new_procCopy, AcceptCopy
  <2>7. find_entry \/ stamp_entry => Q
    BY <1>0, find_entryCopy, stamp_entryCopy
  <2>8. insert_request => Q
    BY <1>0, TimeServiceCopy
  <2>9. \A t \in Server : (begin_scan(t) \/ end_scan(t)) \/ scan_entry(t) => Q
    BY <1>0, TimeServiceCopy
  <2>10. \A k : run_normal(k) \/ run_ctrld(k) \/ kill_silent(k) => Q
    BY <1>0, run_normalCopy, run_ctrldCopy, kill_silentCopy
  <2>11. \A type \in Type : \A k : restart_exec(type, k) \/ restart_store(type, k) => Q
    BY <1>0, restart_execCopy, restart_storeCopy
  <2>12. Tick => Q
    BY <1>0, TickCopy
  <2> HIDE DEF Q
  <2>13. Q
    BY <1>2, <2>1, <2>2, <2>3, <2>4, <2>5, <2>6, <2>7, <2>8, <2>9, <2>10, <2>11, <2>12, Steps
  <2> QED
    BY <2>13 DEF Q
<1> QED
  BY <1>1, <1>2

LEMMA CopyInvariant == Lone => (Spec => [](ServiceInv /\ CopyInv))
<1> SUFFICES ASSUME Lone PROVE Spec => [](ServiceInv /\ CopyInv)
  OBVIOUS
<1>1. Init => ServiceInv /\ CopyInv
  BY ServiceInit, CopyInit
<1>2. ServiceInv /\ CopyInv /\ [Next]_vars => ServiceInv' /\ CopyInv'
  BY ServiceStep, CopyStep
<1> QED
  BY <1>1, <1>2, PTL DEF Spec

(* Of every command that no shell waits for and that is not watched twice  *)
(* at most one process executes, hung ones included: for any programs,     *)
(* periods and failures, also those between a connect and its send, while  *)
(* each thread works on its own command.                                   *)
THEOREM AtMostOneCopy == Lone => (Spec => []OneCopy)
<1> SUFFICES ASSUME Lone PROVE Spec => []OneCopy
  OBVIOUS
<1>1. ASSUME CopyInv
      PROVE  OneCopy
  <2>1. SUFFICES ASSUME NEW c \in Command \ Wrapped, ~WatchedTwice(c)
                 PROVE  Cardinality({p \in Pid : proc[p].cmd = c /\ Executes(p)}) <= 1
    BY DEF OneCopy
  <2>2. PICK S \in SUBSET Pid : S = {p \in Pid : proc[p].cmd = c /\ Executes(p)}
    OBVIOUS
  <2>3. \A p, q \in S : p = q
    BY <1>1, <2>1, <2>2 DEF CopyInv, AtMostOne, Once
  <2>4. CASE S = {}
    BY <2>2, <2>4, FS_EmptySet
  <2>5. ASSUME NEW p \in S
        PROVE  Cardinality(S) = 1
    <3>1. S = {p}
      BY <2>3
    <3> QED
      BY <3>1, FS_Singleton
  <2> QED
    BY <2>2, <2>4, <2>5
<1> QED
  BY <1>1, CopyInvariant, PTL

(* No process that has not failed is ever killed while the server is up    *)
(* and nothing has failed between its connect and its send: for any        *)
(* heartbeat period below the timeout, while each thread works on its own  *)
(* command.                                                                *)
THEOREM HealthySurvive == Lone => (Spec => HealthyNeverKilled)
<1> SUFFICES ASSUME Lone PROVE Spec => HealthyNeverKilled
  OBVIOUS
<1>1. ServiceInv /\ CopyInv /\ [Next]_vars =>
          [\A p \in Pid : up /\ ~cut /\ Runs(p) /\ ~Runs(p)' => faults' > faults]_vars
  BY CopyStep DEF NoneKilled
<1> QED
  BY <1>1, CopyInvariant, PTL DEF Spec, HealthyNeverKilled

-----------------------------------------------------------------------------
(* Who writes the pids of the entries.                                     *)

PidKept(type, k) == list'[type][k].pid = list[type][k].pid

(* What EntryIsItsThreads says of a step.                                  *)
PidsAreTheirThreads ==
    \A type \in Type : \A k \in DOMAIN list[type] :
        PidKept(type, k) \/ thread'[type][k] # thread[type][k]

LEMMA AgeReset ==
    ASSUME TypeOK, NEW type \in Type, NEW i \in 1 .. Len(list[type]),
           list' = [list EXCEPT ![type][i].age = 0]
    PROVE  PidsAreTheirThreads
<1>1. list \in [Type -> Seq(ThreadProc)]
  BY DEF TypeOK
<1>2. PICK old \in ThreadProc : old = list[type][i]
  BY <1>1
<1>3. PICK e : e = [old EXCEPT !.age = 0]
  OBVIOUS
<1>4. e \in ThreadProc /\ e.pid = old.pid
  <2>1. 0 \in 0 .. Timeout
    BY Constants
  <2> QED
    BY <1>3, <2>1 DEF ThreadProc
<1>5. list' = [list EXCEPT ![type][i] = e]
  BY <1>2, <1>3
<1>6. ASSUME NEW ty \in Type, NEW k \in DOMAIN list[ty]
      PROVE  PidKept(ty, k)
  <2>1. k \in 1 .. Len(list[ty])
    BY <1>1
  <2>2. list'[type][i] = e /\ (ty # type \/ k # i => list'[ty][k] = list[ty][k])
    BY <1>1, <1>4, <1>5, <2>1, OneReplaced
  <2> QED
    BY <1>2, <1>4, <2>2 DEF PidKept
<1> QED
  BY <1>6 DEF PidsAreTheirThreads

LEMMA restart_storePids ==
    ASSUME ServiceInv, EntrySize = 1, NEW type \in Type, NEW k, restart_store(type, k)
    PROVE  PidsAreTheirThreads
<1>1. At(type, k, "store") /\ SleepAgain(type, k) /\ TypeOK
  BY DEF restart_store, ServiceInv
<1>2. /\ k \in 1 .. Len(thread[type]) /\ k \in 1 .. Len(list[type])
      /\ thread[type][k].pc = "store" /\ list \in [Type -> Seq(ThreadProc)]
  BY <1>1, Watching
<1>3. INDEX_OF(k) = k /\ thread \in [Type -> Seq(ThreadPos)]
  <2>1. Len(list[type]) \in Nat /\ k \in Nat
    BY <1>2
  <2> QED
    BY <1>1, <2>1 DEF INDEX_OF, TypeOK
<1>4. PICK new \in Pid : new = thread[type][k].new
  BY <1>2 DEF ServiceInv, NewIsKnown
<1>5. PICK old \in ThreadProc : old = list[type][k]
  BY <1>2
<1>6. PICK e : e = [old EXCEPT !.pid = new, !.age = 0]
  OBVIOUS
<1>7. e \in ThreadProc
  <2>1. 0 \in 0 .. Timeout
    BY Constants
  <2> QED
    BY <1>6, <2>1 DEF ThreadProc
<1>8. list' = [list EXCEPT ![type][k] = e]
  BY <1>2, <1>3, <1>4, <1>5, <1>6 DEF restart_store
<1>9. thread'[type][k].pc = "check"
  <2>1. PICK w \in ThreadPos : /\ w = [pc |-> "check", left |-> Period(type), new |-> NoPid]
                               /\ w.pc = "check"
    <3>1. Period(type) \in Nat
      BY Constants DEF Period
    <3>2. [pc |-> "check", left |-> Period(type), new |-> NoPid] \in ThreadPos
      BY <3>1 DEF ThreadPos
    <3> QED
      BY <3>2
  <2>2. thread' = [thread EXCEPT ![type][k] = w]
    BY <1>1, <2>1 DEF SleepAgain
  <2>3. thread'[type][k] = w
    BY <1>2, <1>3, <2>2, OneReplaced
  <2> QED
    BY <2>1, <2>3
<1>10. ASSUME NEW ty \in Type, NEW l \in DOMAIN list[ty], ty # type \/ l # k
       PROVE  PidKept(ty, l)
  <2>1. l \in 1 .. Len(list[ty])
    BY <1>2
  <2>2. list'[ty][l] = list[ty][l]
    BY <1>2, <1>7, <1>8, <1>10, <2>1, OneReplaced
  <2> QED
    BY <2>2 DEF PidKept
<1>11. thread'[type][k] # thread[type][k]
  BY <1>2, <1>9
<1> QED
  BY <1>10, <1>11 DEF PidsAreTheirThreads

LEMMA ListWritersPids ==
    ASSUME ServiceInv,
           process_new_proc \/ stamp_entry \/ (\E k : run_normal(k)) \/ Tick
    PROVE  PidsAreTheirThreads
<1>0. /\ TypeOK /\ "NORMAL" \in Type /\ "CONTROLED" \in Type
      /\ list \in [Type -> Seq(ThreadProc)]
  BY DEF ServiceInv, TypeOK, Type
<1>1. CASE process_new_proc
  <2>1. \E p \in Pid : \E c \in Command : \E type \in Type : \E n \in Nat :
            NewEntry(p, c, type, n)
    BY <1>1, NewEntryIs
  <2>2. \A ty \in Type : \A k \in 1 .. Len(list[ty]) : list'[ty][k] = list[ty][k]
    BY <2>1 DEF NewEntry
  <2>3. \A ty \in Type : DOMAIN list[ty] = 1 .. Len(list[ty])
    BY <1>0
  <2> QED
    BY <2>2, <2>3 DEF PidsAreTheirThreads, PidKept
<1>2. CASE stamp_entry
  <2>1. main.i \in 1 .. Len(list["CONTROLED"])
    BY <1>2 DEF stamp_entry, ServiceInv, MainKnows
  <2>2. list' = [list EXCEPT !["CONTROLED"][main.i].age = 0]
    BY <1>2 DEF stamp_entry
  <2> QED
    BY <1>0, <2>1, <2>2, AgeReset
<1>3. ASSUME NEW k, run_normal(k)
      PROVE  PidsAreTheirThreads
  <2>1. INDEX_OF(k) \in 1 .. Len(list["NORMAL"])
    BY <1>0, <1>3, Watching DEF run_normal
  <2>2. list' = list \/ list' = [list EXCEPT !["NORMAL"][INDEX_OF(k)].age = 0]
    BY <1>3 DEF run_normal
  <2> QED
    BY <1>0, <2>1, <2>2, AgeReset DEF PidsAreTheirThreads, PidKept
<1>4. CASE Tick
  <2>1. ASSUME NEW ty \in Type, NEW k \in DOMAIN list[ty]
        PROVE  PidKept(ty, k)
    <3>1. PICK e \in ThreadProc : e = list[ty][k]
      BY <1>0, <2>1
    <3>2. PICK a : a = After(e.age)
      OBVIOUS
    <3>3. list'[ty][k] = [e EXCEPT !.age = a]
      BY <1>4, <2>1, <3>1, <3>2 DEF Tick
    <3>4. list'[ty][k].pid = e.pid
      BY <3>3 DEF ThreadProc
    <3> QED
      BY <3>1, <3>4 DEF PidKept
  <2> QED
    BY <2>1 DEF PidsAreTheirThreads
<1> QED
  BY <1>1, <1>2, <1>3, <1>4

LEMMA PidStep ==
    ASSUME EntrySize = 1, ServiceInv, [Next]_vars
    PROVE  PidsAreTheirThreads
<1> DEFINE Writes == \/ process_new_proc \/ stamp_entry \/ (\E k : run_normal(k)) \/ Tick
                     \/ \E type \in Type : \E k : restart_store(type, k)
<1>1. Writes \/ UNCHANGED list
  <2>1. CASE UNCHANGED vars
    BY <2>1 DEF vars, watches
  <2>2. CASE Next
    <3>1. /\ \A c \in Command : start_client(c) => UNCHANGED list
          /\ \A p \in Pid : run_heartbeat(p) \/ run_timesvc_cli(p) => UNCHANGED list
          /\ \A p \in Pid : run_heartbeat_send(p) \/ run_timesvc_cli_send(p) => UNCHANGED list
      BY DEF start_client, run_heartbeat, run_timesvc_cli, run_heartbeat_send,
             run_timesvc_cli_send, watches
    <3>2. /\ \A p \in Pid : start_client_send(p) \/ client_fault(p) => UNCHANGED list
          /\ \A p \in Pid : crash(p) \/ hang(p) => UNCHANGED list
      BY DEF start_client_send, client_fault, crash, hang, Fault, watches
    <3>3. /\ unknown_msg \/ (rcv_heartbeat \/ check_request) => UNCHANGED list
          /\ find_entry \/ insert_request => UNCHANGED list
          /\ \A t \in Server : (begin_scan(t) \/ end_scan(t)) \/ scan_entry(t) => UNCHANGED list
      BY DEF unknown_msg, rcv_heartbeat, check_request, find_entry, insert_request, begin_scan,
             end_scan, scan_entry, watches
    <3>4. /\ \A k : run_ctrld(k) \/ kill_silent(k) => UNCHANGED list
          /\ \A type \in Type : \A k : restart_exec(type, k) => UNCHANGED list
      BY DEF run_ctrld, kill_silent, restart_exec
    <3> HIDE DEF Writes
    <3>5. process_new_proc \/ stamp_entry \/ Tick => Writes
      BY DEF Writes
    <3>6. /\ \A k : run_normal(k) => Writes
          /\ \A type \in Type : \A k : restart_store(type, k) => Writes
      BY DEF Writes
    <3> QED
      BY <2>2, <3>1, <3>2, <3>3, <3>4, <3>5, <3>6, Steps
  <2> QED
    BY <2>1, <2>2
<1>2. CASE UNCHANGED list
  BY <1>2 DEF PidsAreTheirThreads, PidKept
<1> QED
  BY <1>1, <1>2, ListWritersPids, restart_storePids

(* The pid in an entry is changed by the entry's own thread only, for any  *)
(* programs, periods and failures, if the difference of the pointers is    *)
(* not divided by the size of an entry.  Where it is, the run monitor_two  *)
(* refutes it.                                                             *)
THEOREM PidsChangedByTheirThreads == EntrySize = 1 => (Spec => EntryIsItsThreads)
<1> SUFFICES ASSUME EntrySize = 1 PROVE Spec => EntryIsItsThreads
  OBVIOUS
<1>1. ServiceInv /\ [Next]_vars =>
          [\A type \in Type : \A i \in DOMAIN list[type] :
               list'[type][i].pid # list[type][i].pid
                   => thread'[type][i] # thread[type][i]]_vars
  BY PidStep DEF PidsAreTheirThreads, PidKept
<1> QED
  BY <1>1, ServiceInvariant, PTL DEF Spec, EntryIsItsThreads

===============================================================================
