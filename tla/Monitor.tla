------------------------------- MODULE Monitor -------------------------------
(***************************************************************************)
(* simplemonitor: a server (monitor_server.c) that restarts the programs   *)
(* submitted to it and wakes those that ask for it, the client that        *)
(* submits them (main.c) and the controlled program (controled_proc).      *)
(*                                                                         *)
(* Time is counted in ticks.  The times the code compares with the clock   *)
(* are kept as ticks since (age) or ticks until (left, due).  A thread     *)
(* that can run does so before the clock ticks: what the programs do       *)
(* between two sleeps takes no time worth counting.  A process may fail    *)
(* anywhere, so also between the connect and the send of a message: the    *)
(* server then waits, or takes the message before for the one missing.     *)
(***************************************************************************)
EXTENDS ListHead, Sequences, FiniteSets

CONSTANTS
    Controlled, Normal,     \* the commands submitted as -t 1 and as -t 0
    Sleepers,               \* those that use the time service
    Wrapped,                \* those for which sh -c forks, and waits, once more
    MaxPid, MaxStarts,      \* bounds: processes started, those of each command
    MaxSubmitted,           \* bound: clients that submit a command
    MaxFaults,              \* bound: crashes, hangs and messages taken twice
    QLEN,                   \* connections that may wait to be accepted
    Timeout,                \* the 10 s without sign of life
    HeartbeatPeriod,        \* the controlled program's sleep(2)
    ControlledPeriod,       \* run_ctrld's sleep(2)
    NormalPeriod,           \* run_normal's sleep(10)
    TimesvcPeriod,          \* run_timesvc's sleep(1)
    WakeupTime,             \* the 10 s the controlled program asks for
    ClientSleep,            \* its sleep(500) between two requests
    EntrySize               \* sizeof(struct thread_proc_t)

(* A definition whose name ends in _ and a fault is the one after it with  *)
(* that fault: the properties have to notice each.                         *)

Command == Controlled \cup Normal
Pid     == 1 .. MaxPid

ASSUME MonitorAssumption ==
    /\ Controlled \cap Normal = {}
    /\ Wrapped \subseteq Command /\ Sleepers \subseteq Controlled
    /\ \A n \in {Timeout, HeartbeatPeriod, ControlledPeriod, NormalPeriod,
                 TimesvcPeriod, WakeupTime, ClientSleep, EntrySize} :
           n \in Nat \ {0}
    /\ HeartbeatPeriod < Timeout
    /\ {MaxPid, MaxSubmitted} \subseteq Nat \ {0}
    /\ MaxStarts \in [Command -> Nat]
    /\ {MaxFaults, QLEN} \subseteq Nat

VARIABLES
    up,          \* the server process exists
    backlog,     \* the connections nobody has read yet, with their messages
    proc,        \* the submitted programs' processes, by pid
    list,        \* list.NORMAL is normal_list, list.CONTROLED is ctrld_list
    thread,      \* the threads that watch them, in the order of creation
    main,        \* the main thread, and the message it had last
    ring, cli,   \* timesvc_cli_list: its links and what its entries say
    hungup,      \* those of its entries whose connection the other side closed
    lock,        \* timesvc_rwlock: the writer, or Free
    timesvc,     \* the two time service threads
    faults,      \* how often a process has failed or a message was taken twice
    cut          \* history: one of them did between its connect and its send

system  == <<up, faults, cut>>
watches == <<list, thread>>
service == <<ring, cli, hungup, lock, timesvc>>
vars    == <<backlog, main, proc, system, watches, service>>

Type   == {"NORMAL", "CONTROLED"}
Node   == 1 .. MaxPid + MaxFaults    \* addresses of list entries
Server == {1, 2}         \* start_time_svc creates two threads
Free   == 0
NoPid  == 0

Period(type) == IF type = "NORMAL" THEN NormalPeriod ELSE ControlledPeriod

-----------------------------------------------------------------------------
(* Processes.                                                              *)

NotStarted ==
    [st |-> "none", cmd |-> NoPid, by |-> "client", beat |-> 0, due |-> 0,
     req |-> "send", nap |-> 0]

Started(c, by) ==
    [NotStarted EXCEPT !.st = "run", !.cmd = c, !.by = by,
                       !.due = IF c \in Controlled THEN WakeupTime ELSE 0]

NextPid == 1 + Cardinality({p \in Pid : proc[p].st # "none"})

MayStart(c) ==
    NextPid \in Pid /\ Cardinality({p \in Pid : proc[p].cmd = c}) < MaxStarts[c]

(* fork and sh -c: for most commands the shell becomes the program; for    *)
(* those of Wrapped the pid is a shell's that waits for it.                *)
exec_cmdline(c, by) == proc' = [proc EXCEPT ![NextPid] = Started(c, by)]

Runs(p)     == proc[p].st = "run"
Executes(p) == proc[p].st \in {"run", "hung"}

(* The server never waits for its children: they stay behind as zombies.   *)
(* What the client started is init's child once the client has exited.     *)
Dead(p) == IF proc[p].by = "server" THEN "zombie" ELSE "gone"

(* kill(pid, 0) succeeds.                                                  *)
is_proc_alive(p) == Executes(p) \/ proc[p].st = "zombie"

(* Local variables that hold nothing of use.                               *)
Accept   == [main EXCEPT !.pc = "accept", !.i = 0, !.eof = FALSE]
NoCursor == [pos |-> HEAD, n |-> HEAD]

Init ==
    /\ up = TRUE
    /\ backlog = <<>>
    /\ proc = [p \in Pid |-> NotStarted]
    /\ list = [type \in Type |-> <<>>]
    /\ thread = [type \in Type |-> <<>>]
    /\ main = [pc |-> "accept", i |-> 0, type |-> "none", pid |-> NoPid, eof |-> FALSE]
    /\ ring = [n \in {HEAD} \cup Node |-> [prev |-> n, next |-> n]]
    /\ cli = [n \in Node |-> NoPid]
    /\ hungup = {}
    /\ lock = Free
    /\ timesvc = [t \in Server |-> [pc |-> "sleep", left |-> 0, at |-> NoCursor]]
    /\ faults = 0
    /\ cut = FALSE

-----------------------------------------------------------------------------
(* The programs.  A connection is open until its message has been sent; it *)
(* is stuck, or ends without one (eof), when its process hangs or dies     *)
(* before.                                                                 *)

Open(type, p) ==
    {i \in DOMAIN backlog : backlog[i] = [type |-> type, pid |-> p, st |-> "open"]}

(* connect waits while the queue of the server is full, and fails at once, *)
(* which nobody looks at, when there is none: the process is then in state *)
(* failed.                                                                 *)
Room == Len(backlog) <= QLEN

cli_conn(type, p, failed) ==
    /\ Open(type, p) = {}
    /\ IF up THEN /\ Room
                  /\ backlog' = Append(backlog, [type |-> type, pid |-> p, st |-> "open"])
                  /\ UNCHANGED proc
             ELSE proc' = failed /\ UNCHANGED backlog

Stopped(p, st) == [proc EXCEPT ![p].st = st, ![p].beat = 0, ![p].nap = 0]

(* The connections p has not sent anything over.  (The first, over which   *)
(* it was submitted, is its client's.)                                     *)
Left(p, st) ==
    [i \in DOMAIN backlog |->
        IF /\ backlog[i].pid = p /\ backlog[i].type # "NEW_PROC"
           /\ backlog[i].st \in {"open", "stuck"}
        THEN [backlog[i] EXCEPT !.st = st] ELSE backlog[i]]

(* Over the connection to a server that has ended since, SIGPIPE.          *)
cli_send_msg(type, p, sent) ==
    /\ Runs(p)
    /\ \E i \in Open(type, p) :
           IF up THEN backlog' = [backlog EXCEPT ![i].st = "sent"] /\ proc' = sent
                 ELSE backlog' = Left(p, "eof") /\ proc' = Stopped(p, Dead(p))

(* start_client: -c c -t type.  It connects before the new process can,    *)
(* and sends its message when it has started it.                           *)
start_client(c) ==
    /\ up /\ Room
    /\ \A p \in Pid : proc[p].cmd # c
    /\ MayStart(c)
    /\ Cardinality({p \in Pid : proc[p].by = "client" /\ proc[p].st # "none"}) < MaxSubmitted
    /\ exec_cmdline(c, "client")
    /\ backlog' = Append(backlog, [type |-> "NEW_PROC", pid |-> NextPid, st |-> "open"])
    /\ UNCHANGED <<main, system, watches, service>>

start_client_send(p) ==
    /\ \E i \in Open("NEW_PROC", p) :
           backlog' = [backlog EXCEPT ![i].st = IF up THEN "sent" ELSE "eof"]
    /\ UNCHANGED <<main, proc, system, watches, service>>

Beaten(p) == [proc EXCEPT ![p].beat = HeartbeatPeriod]

run_heartbeat(p) ==
    /\ Runs(p) /\ proc[p].cmd \in Controlled
    /\ proc[p].beat = 0
    /\ cli_conn("HEARTBEAT_SIGNAL", p, Beaten(p))
    /\ UNCHANGED <<main, system, watches, service>>

run_heartbeat_send(p) ==
    /\ cli_send_msg("HEARTBEAT_SIGNAL", p, Beaten(p))
    /\ UNCHANGED <<main, system, watches, service>>

run_timesvc_cli(p) ==
    /\ Runs(p) /\ proc[p].cmd \in Sleepers
    /\ proc[p].req = "send" /\ proc[p].nap = 0
    /\ cli_conn("REQUEST_TIME_SRV", p, [proc EXCEPT ![p].nap = ClientSleep])
    /\ UNCHANGED <<main, system, watches, service>>

run_timesvc_cli_send(p) ==
    /\ cli_send_msg("REQUEST_TIME_SRV", p, [proc EXCEPT ![p].req = "wait"])
    /\ UNCHANGED <<main, system, watches, service>>

(* A process comes to its end, or stops doing anything.                    *)
Fault(p, st) ==
    /\ faults < MaxFaults
    /\ faults' = faults + 1
    /\ proc' = Stopped(p, st)
    /\ backlog' = Left(p, IF st = "hung" THEN "stuck" ELSE "eof")
    /\ cut' = (cut \/ backlog' # backlog)
    /\ UNCHANGED <<main, up, watches, service>>

crash(p) == Executes(p) /\ Fault(p, Dead(p))
hang(p)  == Runs(p) /\ proc[p].cmd \in Controlled /\ Fault(p, "hung")

(* So does a client that has not sent its message.  (Before its fork there *)
(* is no program yet, behind it the program keeps the connection open: an  *)
(* end of it while the program runs is one unwatched program more.)        *)
client_fault(p) ==
    /\ faults < MaxFaults
    /\ faults' = faults + 1
    /\ cut' = TRUE
    /\ \E i \in Open("NEW_PROC", p), st \in {"stuck", "eof"} :
           backlog' = [backlog EXCEPT ![i].st = st]
    /\ UNCHANGED <<main, proc, up, watches, service>>

-----------------------------------------------------------------------------
(* The main thread: serv_accept and serv_rcv_action.                       *)

(* Nobody looks at what recvfrom returns: at the end of a connection msg   *)
(* still has the message before.                                           *)
Says(conn) ==
    IF conn.type = "HEARTBEAT_SIGNAL" /\ proc[conn.pid].cmd \in Wrapped THEN NoPid ELSE conn.pid

Eof == backlog[1].st = "eof"
Msg == IF Eof THEN [type |-> main.type, pid |-> main.pid]
              ELSE [type |-> backlog[1].type, pid |-> Says(backlog[1])]

Accepts(type) ==
    /\ up /\ main.pc = "accept"
    /\ backlog # <<>> /\ backlog[1].st \in {"sent", "eof"}
    /\ Msg.type = type
    /\ backlog' = Tail(backlog)
    /\ Eof => faults < MaxFaults
    /\ faults' = IF Eof THEN faults + 1 ELSE faults
    /\ UNCHANGED <<up, cut>>

(* Or msg, never initialised, has something else by then.  The connection  *)
(* stays open.                                                             *)
unknown_msg ==
    /\ up /\ main.pc = "accept"
    /\ backlog # <<>> /\ Eof
    /\ backlog' = Tail(backlog)
    /\ UNCHANGED <<main, proc, system, watches, service>>

(* The time of a controlled program is now, that of a normal one is what   *)
(* the client wrote, however long ago.                                     *)
process_new_proc ==
    /\ Accepts("NEW_PROC")
    /\ LET p    == Msg.pid
           type == IF proc[p].cmd \in Normal THEN "NORMAL" ELSE "CONTROLED"
       IN  /\ \E age \in IF type = "NORMAL" THEN 0 .. Timeout ELSE {0} :
                  list' = [list EXCEPT ![type] =
                      Append(@, [cmd |-> proc[p].cmd, pid |-> p, age |-> age])]
           /\ thread' = [thread EXCEPT ![type] =
                  Append(@, [pc |-> "check", left |-> 0, new |-> NoPid])]
           /\ main' = [main EXCEPT !.type = "NEW_PROC", !.pid = p]
    /\ UNCHANGED <<proc, service>>

rcv_heartbeat ==
    /\ Accepts("HEARTBEAT_SIGNAL")
    /\ main' = [main EXCEPT !.pc = "find", !.i = 1,
                            !.type = "HEARTBEAT_SIGNAL", !.pid = Msg.pid]
    /\ UNCHANGED <<proc, watches, service>>

(* The pid is compared without the lock that the time is set under.        *)
find_entry ==
    /\ up /\ main.pc = "find"
    /\ main' = CASE main.i > Len(list.CONTROLED)               -> Accept
                 [] main.i <= Len(list.CONTROLED)
                    /\ list.CONTROLED[main.i].pid = main.pid   -> [main EXCEPT !.pc = "stamp"]
                 [] OTHER                                      -> [main EXCEPT !.i = @ + 1]
    /\ UNCHANGED <<backlog, proc, system, watches, service>>

stamp_entry ==
    /\ up /\ main.pc = "stamp"
    /\ list' = [list EXCEPT !.CONTROLED[main.i].age = 0]
    /\ main' = [main EXCEPT !.pc = "find", !.i = @ + 1]
    /\ UNCHANGED <<backlog, proc, system, thread, service>>

(* process_new_time_request, up to the unlock and from the lock on.  The   *)
(* thread numbers it compares were never written into the entries: equal   *)
(* or not as it happens.  A duplicate is left unanswered.                  *)
check_request ==
    /\ Accepts("REQUEST_TIME_SRV")
    /\ lock = Free
    /\ LET got == [main EXCEPT !.type = "REQUEST_TIME_SRV", !.pid = Msg.pid]
       IN  main' \in {[got EXCEPT !.pc = "insert", !.eof = Eof]}
                        \cup {got : n \in {n \in Node : cli[n] = Msg.pid}}
    /\ UNCHANGED <<proc, watches, service>>

insert_request ==
    /\ up /\ main.pc = "insert"
    /\ lock = Free
    /\ \E n \in Node :
           /\ cli[n] = NoPid /\ \A m \in 1 .. n - 1 : cli[m] # NoPid
           /\ cli' = [cli EXCEPT ![n] = main.pid]
           /\ hungup' = IF main.eof THEN hungup \cup {n} ELSE hungup
           /\ ring' = list_add_tail(ring, n)
    /\ main' = Accept
    /\ UNCHANGED <<backlog, proc, system, watches, lock, timesvc>>

-----------------------------------------------------------------------------
(* The time service threads: run_timesvc.                                  *)

begin_scan_ReadLock(t) ==
    /\ up /\ timesvc[t].pc = "sleep" /\ timesvc[t].left = 0
    /\ lock' = t
    /\ timesvc' = [timesvc EXCEPT ![t].pc = "scan", ![t].at = for_each_first(ring)]
    /\ UNCHANGED <<backlog, main, proc, system, watches, ring, cli, hungup>>

begin_scan(t) ==
    /\ up /\ timesvc[t].pc = "sleep" /\ timesvc[t].left = 0
    /\ lock = Free
    /\ lock' = t
    /\ timesvc' = [timesvc EXCEPT ![t].pc = "scan", ![t].at = for_each_first(ring)]
    /\ UNCHANGED <<backlog, main, proc, system, watches, ring, cli, hungup>>

Due(p) == proc[p].due = 0

(* wakeup_proc and close.  Nobody listens to a dead process's connection:  *)
(* the sendto raises SIGPIPE, which the server neither ignores nor handles.*)
(* The server's end closes the connections of all that wait, and they go   *)
(* on as if woken.                                                         *)
wakeup_proc(n, p) ==
    /\ up' = (Executes(p) /\ n \notin hungup)
    /\ LET woken == IF up' THEN {p} ELSE {q \in Pid : proc[q].req = "wait"}
       IN  proc' = [q \in Pid |-> IF q \in woken
                                  THEN [proc[q] EXCEPT !.req = "send", !.nap = ClientSleep]
                                  ELSE proc[q]]

scan_entry(t) ==
    LET pos == timesvc[t].at.pos
        p   == cli[pos]
    IN  /\ up /\ timesvc[t].pc = "scan" /\ pos # HEAD
        /\ IF Due(p)
           THEN /\ wakeup_proc(pos, p)
                /\ ring' = list_del(ring, pos)
                /\ cli' = [cli EXCEPT ![pos] = NoPid]
                /\ hungup' = hungup \ {pos}
           ELSE UNCHANGED <<up, proc, ring, cli, hungup>>
        /\ timesvc' = [timesvc EXCEPT ![t].at = for_each_next(ring', @)]
        /\ UNCHANGED <<backlog, main, faults, cut, watches, lock>>

end_scan_KeepsLock(t) ==
    /\ up /\ timesvc[t].pc = "scan" /\ timesvc[t].at.pos = HEAD
    /\ timesvc' = [timesvc EXCEPT ![t] = [pc |-> "sleep", left |-> TimesvcPeriod, at |-> NoCursor]]
    /\ UNCHANGED <<backlog, main, proc, system, watches, ring, cli, hungup, lock>>

end_scan(t) ==
    /\ up /\ timesvc[t].pc = "scan" /\ timesvc[t].at.pos = HEAD
    /\ lock' = Free
    /\ timesvc' = [timesvc EXCEPT ![t] = [pc |-> "sleep", left |-> TimesvcPeriod, at |-> NoCursor]]
    /\ UNCHANGED <<backlog, main, proc, system, watches, ring, cli, hungup>>

-----------------------------------------------------------------------------
(* The watching threads.  Thread k of a list was given its k-th entry and  *)
(* computes the index back from the pointer: the difference of the two     *)
(* pointers, which C counts in entries, divided by the size of an entry.   *)
INDEX_OF(k) == ((k - 1) \div EntrySize) + 1

Entry(type, k) == list[type][INDEX_OF(k)]

At(type, k, pc) ==
    /\ up
    /\ k \in DOMAIN thread[type]
    /\ thread[type][k].pc = pc
    /\ thread[type][k].left = 0

Goto(type, k, pc)   == thread' = [thread EXCEPT ![type][k].pc = pc]
SleepAgain(type, k) ==
    thread' = [thread EXCEPT ![type][k] =
                  [pc |-> "check", left |-> Period(type), new |-> NoPid]]

run_normal(k) ==
    /\ At("NORMAL", k, "check")
    /\ CASE is_proc_alive(Entry("NORMAL", k).pid) ->
                /\ list' = [list EXCEPT !.NORMAL[INDEX_OF(k)].age = 0]
                /\ SleepAgain("NORMAL", k)
         [] ~is_proc_alive(Entry("NORMAL", k).pid) /\ Entry("NORMAL", k).age >= Timeout ->
                Goto("NORMAL", k, "exec") /\ UNCHANGED list
         [] OTHER -> SleepAgain("NORMAL", k) /\ UNCHANGED list
    /\ UNCHANGED <<backlog, main, proc, system, service>>

run_ctrld(k) ==
    /\ At("CONTROLED", k, "check")
    /\ IF Entry("CONTROLED", k).age >= Timeout
       THEN Goto("CONTROLED", k, "kill")
       ELSE SleepAgain("CONTROLED", k)
    /\ UNCHANGED <<backlog, main, proc, system, list, service>>

(* The pid is killed: the program, or the shell that waits for it, which   *)
(* the program survives.  One that is not alive any more is logged only.   *)
Killed(p) ==
    IF Executes(p) /\ proc[p].cmd \notin Wrapped
    THEN /\ proc' = Stopped(p, Dead(p))
         /\ backlog' = Left(p, "eof")
         /\ cut' = (cut \/ backlog' # backlog)
    ELSE UNCHANGED <<proc, backlog, cut>>

kill_silent_LogsOnly(k) ==
    /\ At("CONTROLED", k, "kill")
    /\ Goto("CONTROLED", k, "exec")
    /\ UNCHANGED <<backlog, main, proc, system, list, service>>

kill_silent_NoRestartOfAlive(k) ==
    LET p == Entry("CONTROLED", k).pid
    IN  /\ At("CONTROLED", k, "kill")
        /\ Killed(p)
        /\ IF is_proc_alive(p) THEN SleepAgain("CONTROLED", k)
                               ELSE Goto("CONTROLED", k, "exec")
        /\ UNCHANGED <<main, up, faults, list, service>>

kill_silent(k) ==
    LET p == Entry("CONTROLED", k).pid
    IN  /\ At("CONTROLED", k, "kill")
        /\ Killed(p)
        /\ Goto("CONTROLED", k, "exec")
        /\ UNCHANGED <<main, up, faults, list, service>>

(* restart_proc: the new process runs before the entry knows it.           *)
restart_exec_PidLost(type, k) ==
    /\ At(type, k, "exec")
    /\ MayStart(Entry(type, k).cmd)
    /\ exec_cmdline(Entry(type, k).cmd, "server")
    /\ Goto(type, k, "store")
    /\ UNCHANGED <<backlog, main, system, list, service>>

restart_exec(type, k) ==
    /\ At(type, k, "exec")
    /\ MayStart(Entry(type, k).cmd)
    /\ exec_cmdline(Entry(type, k).cmd, "server")
    /\ thread' = [thread EXCEPT ![type][k].pc = "store", ![type][k].new = NextPid]
    /\ UNCHANGED <<backlog, main, system, list, service>>

restart_store_OldTime(type, k) ==
    /\ At(type, k, "store")
    /\ list' = [list EXCEPT ![type][INDEX_OF(k)].pid = thread[type][k].new]
    /\ SleepAgain(type, k)
    /\ UNCHANGED <<backlog, main, proc, system, service>>

restart_store(type, k) ==
    /\ At(type, k, "store")
    /\ list' = [list EXCEPT ![type][INDEX_OF(k)].pid = thread[type][k].new,
                            ![type][INDEX_OF(k)].age = 0]
    /\ SleepAgain(type, k)
    /\ UNCHANGED <<backlog, main, proc, system, service>>

-----------------------------------------------------------------------------
(* The clock.                                                              *)

Asleep(timer) == timer.left > 0

(* A restart beyond the bound on processes never comes.                    *)
BeyondBound(type, k) == thread[type][k].pc = "exec" /\ ~MayStart(Entry(type, k).cmd)

ServerAsleep ==
    /\ main.pc = "accept" /\ \A i \in DOMAIN backlog : backlog[1].st = "stuck"
    /\ \A type \in Type : \A k \in DOMAIN thread[type] :
           Asleep(thread[type][k]) \/ BeyondBound(type, k)
    /\ \A t \in Server : Asleep(timesvc[t])

NobodySends == \A i \in DOMAIN backlog : backlog[i].st # "open"

ProgramAsleep(p) ==
    Runs(p) /\ proc[p].cmd \in Controlled =>
        \/ up /\ ~Room
        \/ /\ proc[p].beat > 0
           /\ proc[p].cmd \in Sleepers => proc[p].req = "wait" \/ proc[p].nap > 0

Before(left) == IF left > 0 THEN left - 1 ELSE 0
After(age)   == IF age < Timeout THEN age + 1 ELSE Timeout

Tick ==
    /\ up => ServerAsleep
    /\ NobodySends /\ \A p \in Pid : ProgramAsleep(p)
    /\ proc' = [p \in Pid |-> [proc[p] EXCEPT !.beat = Before(@), !.due = Before(@),
                                              !.nap  = Before(@)]]
    /\ list' = [type \in Type |-> [i \in DOMAIN list[type] |->
                   [list[type][i] EXCEPT !.age = After(@)]]]
    /\ thread' = [type \in Type |-> [k \in DOMAIN thread[type] |->
                     [thread[type][k] EXCEPT !.left = Before(@)]]]
    /\ timesvc' = [t \in Server |-> [timesvc[t] EXCEPT !.left = Before(@)]]
    /\ UNCHANGED <<backlog, main, system, ring, cli, hungup, lock>>

-----------------------------------------------------------------------------
Main       == unknown_msg \/ process_new_proc \/ rcv_heartbeat \/ find_entry \/ stamp_entry
                \/ check_request \/ insert_request
TimeSvc(t) == begin_scan(t) \/ scan_entry(t) \/ end_scan(t)
Program(p) == run_heartbeat(p) \/ run_heartbeat_send(p)
                \/ run_timesvc_cli(p) \/ run_timesvc_cli_send(p)
Watch(type, k) == restart_exec(type, k) \/ restart_store(type, k)
WatchNormal(k)     == run_normal(k) \/ Watch("NORMAL", k)
WatchControlled(k) == run_ctrld(k) \/ kill_silent(k) \/ Watch("CONTROLED", k)
Watcher            == 1 .. MaxSubmitted + MaxFaults

(* What goes on by itself.  Nothing makes a client submit, or a process    *)
(* fail.                                                                   *)
Goes ==
    \/ Main
    \/ \E t \in Server : TimeSvc(t)
    \/ \E p \in Pid : Program(p) \/ start_client_send(p)
    \/ \E k \in Watcher : WatchNormal(k) \/ WatchControlled(k)
    \/ Tick

Next ==
    \/ Goes
    \/ \E c \in Command : start_client(c)
    \/ \E p \in Pid : crash(p) \/ hang(p) \/ client_fault(p)

Spec == Init /\ [][Next]_vars

(* Something goes on while it can.  As the clock waits for every thread    *)
(* that can run, each of them gets its turn.                               *)
FairSpec == Spec /\ WF_vars(Goes)

-----------------------------------------------------------------------------
MsgType    == {"NEW_PROC", "HEARTBEAT_SIGNAL", "REQUEST_TIME_SRV"}
Connection == [type : MsgType, pid : Pid, st : {"open", "sent", "eof", "stuck"}]
Process    == [st : {"none", "run", "hung", "zombie", "gone"},
               cmd : Command \cup {NoPid}, by : {"client", "server"},
               beat : 0 .. HeartbeatPeriod, due : 0 .. WakeupTime,
               req : {"send", "wait"}, nap : 0 .. ClientSleep]
ThreadProc == [cmd : Command, pid : Pid, age : 0 .. Timeout]
ThreadPos  == [pc : {"check", "kill", "exec", "store"}, left : Nat, new : Pid \cup {NoPid}]
Links      == [prev : {HEAD} \cup Node, next : {HEAD} \cup Node]
Cursor     == [pos : {HEAD} \cup Node, n : {HEAD} \cup Node]

TypeOK ==
    /\ up \in BOOLEAN
    /\ backlog \in Seq(Connection)
    /\ proc \in [Pid -> Process]
    /\ list \in [Type -> Seq(ThreadProc)]
    /\ thread \in [Type -> Seq(ThreadPos)]
    /\ \A type \in Type :
           /\ Len(thread[type]) = Len(list[type])
           /\ \A k \in DOMAIN thread[type] : thread[type][k].left <= Period(type)
    /\ main \in [pc : {"accept", "find", "stamp", "insert"},
                 i : 0 .. Len(list.CONTROLED) + 1, type : MsgType \cup {"none"},
                 pid : Pid \cup {NoPid}, eof : BOOLEAN]
    /\ ring \in [{HEAD} \cup Node -> Links]
    /\ cli \in [Node -> Pid \cup {NoPid}] /\ hungup \subseteq Node
    /\ lock \in Server \cup {Free}
    /\ timesvc \in [Server -> [pc : {"sleep", "scan"}, left : 0 .. TimesvcPeriod, at : Cursor]]
    /\ faults \in 0 .. MaxFaults /\ cut \in BOOLEAN

(* A client's message was handled a second time, in place of one that      *)
(* never came: two threads watch one command.                              *)
WatchedTwice(c) ==
    \E type \in Type : \E i, j \in DOMAIN list[type] :
        i # j /\ list[type][i].cmd = c /\ list[type][j].cmd = c

(* At most one process of a submitted command executes, hung ones          *)
(* included, unless the command is watched twice: a watching thread puts   *)
(* an end to the silent process before it starts the next.  (Of a command  *)
(* that a shell waits for, it only puts an end to the shell.)              *)
OneCopy ==
    \A c \in Command \ Wrapped :
        ~WatchedTwice(c) =>
            Cardinality({p \in Pid : proc[p].cmd = c /\ Executes(p)}) <= 1

(* No thread that goes through the ring stands on, or is about to step on, *)
(* an entry that has been freed, although two threads free them and the    *)
(* main thread adds to the ring.                                           *)
CursorsAreLinked ==
    \A t \in Server : timesvc[t].pc = "scan" =>
        \A n \in {timesvc[t].at.pos, timesvc[t].at.n} : n = HEAD \/ cli[n] # NoPid

(* A process that has not failed is never killed: it has beaten, been      *)
(* registered or been restarted less than Timeout ago.  That is, while the *)
(* server is up and no process has failed between its connect and its      *)
(* send, which keeps the server from listening to the others.              *)
HealthyNeverKilled ==
    [][\A p \in Pid : up /\ ~cut /\ Runs(p) /\ ~Runs(p)' => faults' > faults]_vars

Watched(p) == \E type \in Type : \E i \in DOMAIN list[type] : list[type][i].pid = p

(* A watched process that has ended, or a controlled one that hangs, is    *)
(* replaced in its entry, for all that the server's own children look      *)
(* alive as zombies.  (A normal process that the server has restarted is   *)
(* the exception.)  Only the server's own end prevents it, or a command    *)
(* watched twice, or here the bound on processes.                          *)
Lost(p) ==
    /\ Watched(p)
    /\ ~Runs(p)
    /\ proc[p].cmd \in Controlled \/ proc[p].st = "gone"

LostIsReplaced ==
    \A p \in Pid : Lost(p) ~> \/ ~Watched(p) \/ ~up
                              \/ WatchedTwice(proc[p].cmd) \/ ~MayStart(proc[p].cmd)

(* A process that asks to be woken is woken, unless the server ends or     *)
(* some process has failed between its connect and its send, for which the *)
(* main thread may wait for ever.                                          *)
Waits(p) == Runs(p) /\ proc[p].req = "wait"

SleeperIsWoken == \A p \in Pid : Waits(p) ~> (~Waits(p) \/ ~up \/ cut)

(* The pid in an entry is changed by the entry's own thread and by no      *)
(* other.  monitor_def.h:115 says so: besides the thread it belongs to,    *)
(* only the log thread (which reads) and the main thread (for the time of  *)
(* a heartbeat) come near an entry.                                        *)
EntryIsItsThreads ==
    [][\A type \in Type : \A i \in DOMAIN list[type] :
           list'[type][i].pid # list[type][i].pid
               => thread'[type][i] # thread[type][i]]_vars

===============================================================================
