----------------------------- MODULE SimpleLog -----------------------------
(***************************************************************************)
(* libsimplelog: processes append records to a log file and to its index,  *)
(* and others view the records of a time range.  Each writing process is   *)
(* single-threaded and owns the library's static buffers; what they share  *)
(* are the two files and fcntl's locks on the index, which the kernel      *)
(* drops when a process closes the file or dies.                           *)
(*                                                                         *)
(* A unit takes one cell in the description part of a record and one in    *)
(* its content, and an index record is four fields written one by one.     *)
(***************************************************************************)
EXTENDS Integers, Sequences, FiniteSets

CONSTANTS
    Writer, Reader,
    MaxUnits,      \* bound: units of a record
    MaxRecords,    \* bound: records a writer writes
    MaxTime,       \* bound: the clock
    MaxCrashes     \* bound: writers killed

ASSUME LogAssumption ==
    /\ Writer \cap Reader = {}
    /\ MaxUnits \in Nat /\ MaxRecords \in Nat /\ MaxTime \in Nat /\ MaxCrashes \in Nat

VARIABLES
    log, index,              \* the files' contents
    logExists, indexExists,
    lock,                    \* process -> the lock it holds on the index
    now,                     \* time(NULL)
    pc,
    unit_count, serial,      \* writer -> units buffered, records begun
    pos,                     \* writer -> static off_t pos
    range, at, ct, shown,    \* reader -> log_view's times, place in the index,
                             \* time field and output
    records, torn            \* history: what was committed; a killed writer
                             \* left part of an index record

files      == <<log, index, logExists, indexExists>>
writerVars == <<unit_count, serial, pos>>
readerVars == <<range, at, ct, shown>>
history    == <<records, torn>>
vars == <<files, lock, now, pc, writerVars, readerVars, history>>

Process == Writer \cup Reader
Time    == 0 .. MaxTime
Fields  == 4    \* INDEX_RECORD_SIZE: time, position, desc_len, total_len

Init ==
    /\ log = <<>> /\ index = <<>> /\ logExists = FALSE /\ indexExists = FALSE
    /\ lock = [p \in Process |-> "none"]
    /\ now = 0
    /\ pc = [p \in Process |-> "idle"]
    /\ unit_count = [w \in Writer |-> 0]
    /\ serial = [w \in Writer |-> 0]
    /\ pos = [w \in Writer |-> 0]
    /\ range = [v \in Reader |-> <<0, 0>>]
    /\ at = [v \in Reader |-> 0]
    /\ ct = [v \in Reader |-> 0]
    /\ shown = [v \in Reader |-> <<>>]
    /\ records = <<>> /\ torn = FALSE

(* A definition whose name ends in _ and a fault is the one after it with  *)
(* that fault: the properties have to notice each.                         *)

Goto(p, from, to) == pc[p] = from /\ pc' = [pc EXCEPT ![p] = to]

-----------------------------------------------------------------------------
(* fcntl on the index file.  The code's "unlock" asks for l_type F_ULOCK,  *)
(* lockf()'s constant 0, which fcntl reads as F_RDLCK.                     *)

CanLock(p, type) ==
    \A q \in Process \ {p} : lock[q] = "none" \/ (type = "read" /\ lock[q] = "read")

F_SETLKW(p, type) == CanLock(p, type) /\ lock' = [lock EXCEPT ![p] = type]

(* A read lock needs a descriptor open for reading: EBADF on a writer's.   *)
F_SETLK_ULOCK(p) ==
    lock' = [lock EXCEPT ![p] = IF p \in Reader THEN "read" ELSE @]

Close_ReleasesNothing(p) == UNCHANGED lock

Close(p) == lock' = [lock EXCEPT ![p] = "none"]

-----------------------------------------------------------------------------
(* log_write                                                               *)

log_add_unit(w) ==
    /\ pc[w] = "idle" /\ serial[w] < MaxRecords /\ unit_count[w] < MaxUnits
    /\ unit_count' = [unit_count EXCEPT ![w] = @ + 1]
    /\ UNCHANGED <<files, lock, now, pc, serial, pos, readerVars, history>>

open_index_file(w) ==
    /\ Goto(w, "idle", "lock") /\ unit_count[w] > 0
    /\ serial' = [serial EXCEPT ![w] = @ + 1]
    /\ indexExists' = TRUE
    /\ UNCHANGED <<log, index, logExists, lock, now, unit_count, pos,
                   readerVars, history>>

lock_index_file_w_Shared(w) ==
    /\ Goto(w, "lock", "open") /\ F_SETLKW(w, "read")
    /\ UNCHANGED <<files, now, writerVars, readerVars, history>>

lock_index_file_w(w) ==
    /\ Goto(w, "lock", "open") /\ F_SETLKW(w, "write")
    /\ UNCHANGED <<files, now, writerVars, readerVars, history>>

open_log_file_NoCreate(w) ==
    /\ Goto(w, "open", "desc")
    /\ UNCHANGED <<files, lock, now, writerVars, readerVars, history>>

open_log_file(w) ==
    /\ Goto(w, "open", "desc")
    /\ logExists' = TRUE
    /\ UNCHANGED <<log, index, indexExists, lock, now, writerVars, readerVars,
                   history>>

Cells(w, part) ==
    [i \in 1 .. unit_count[w] |->
        [by |-> w, serial |-> serial[w], part |-> part, unit |-> i]]

write_desc_EndOfWrite(w) ==
    /\ Goto(w, "desc", "data")
    /\ log' = log \o Cells(w, "desc")
    /\ pos' = [pos EXCEPT ![w] = Len(log) + unit_count[w]]
    /\ UNCHANGED <<index, logExists, indexExists, lock, now, unit_count, serial,
                   readerVars, history>>

write_desc_OffsetBefore(w) ==
    /\ Goto(w, "desc", "data")
    /\ log' = log \o Cells(w, "desc")
    /\ pos' = [pos EXCEPT ![w] = Len(log) - unit_count[w]]
    /\ UNCHANGED <<index, logExists, indexExists, lock, now, unit_count, serial,
                   readerVars, history>>

(* O_APPEND: the write is atomic and leaves the offset at its own end, so  *)
(* offset - len is where this description starts (counted from 0).         *)
write_desc(w) ==
    /\ Goto(w, "desc", "data")
    /\ log' = log \o Cells(w, "desc")
    /\ pos' = [pos EXCEPT ![w] = Len(log)]
    /\ UNCHANGED <<index, logExists, indexExists, lock, now, unit_count, serial,
                   readerVars, history>>

write_data(w) ==
    /\ Goto(w, "data", "time")
    /\ log' = log \o Cells(w, "data")
    /\ UNCHANGED <<index, logExists, indexExists, lock, now, writerVars,
                   readerVars, history>>

write_index(w, from, to, value) ==
    /\ Goto(w, from, to)
    /\ index' = Append(index, value)
    /\ UNCHANGED <<log, logExists, indexExists, lock, now, writerVars,
                   readerVars, torn>>

write_time(w)     == write_index(w, "time", "pos", now) /\ UNCHANGED records
write_pos(w)      == write_index(w, "pos", "desc_len", pos[w]) /\ UNCHANGED records
write_desc_len(w) ==
    write_index(w, "desc_len", "total_len", 2 * unit_count[w]) /\ UNCHANGED records

(* With its last field the record is committed.                            *)
write_total_len(w) ==
    /\ write_index(w, "total_len", "unlock", 3 * unit_count[w])
    /\ records' = Append(records,
                    [time |-> index[Len(index) - 2],
                     cells |-> Cells(w, "desc") \o Cells(w, "data")])

unlock_index_file_w(w) ==
    /\ Goto(w, "unlock", "close") /\ F_SETLK_ULOCK(w)
    /\ UNCHANGED <<files, now, writerVars, readerVars, history>>

close_index_file(w) ==
    /\ Goto(w, "close", "idle") /\ Close(w)
    /\ unit_count' = [unit_count EXCEPT ![w] = 0]
    /\ UNCHANGED <<files, now, serial, pos, readerVars, history>>

(* The process is killed; the kernel closes its files.                     *)
Crash(w) ==
    /\ pc[w] \notin {"idle", "dead"}
    /\ Cardinality({x \in Writer : pc[x] = "dead"}) < MaxCrashes
    /\ pc' = [pc EXCEPT ![w] = "dead"]
    /\ Close(w)
    /\ torn' = (torn \/ pc[w] \in {"pos", "desc_len", "total_len"})
    /\ UNCHANGED <<files, now, writerVars, readerVars, records>>

-----------------------------------------------------------------------------
(* log_view                                                                *)

open_view(v, begin, end) ==
    /\ Goto(v, "idle", IF indexExists THEN "rlock" ELSE "failed")
    /\ range' = [range EXCEPT ![v] = <<begin, end>>]
    /\ UNCHANGED <<files, lock, now, writerVars, at, ct, shown, history>>

lock_index_file_r(v) ==
    /\ Goto(v, "rlock", "ropen") /\ F_SETLKW(v, "read")
    /\ UNCHANGED <<files, now, writerVars, readerVars, history>>

(* Without a log file the view unlocks, closes and exits.                  *)
open_log_r(v) ==
    /\ Goto(v, "ropen", IF logExists THEN "skip" ELSE "failed")
    /\ IF logExists THEN UNCHANGED lock ELSE Close(v)
    /\ UNCHANGED <<files, now, writerVars, readerVars, history>>

(* Reading the next time field; log_view ends at the end of the index.     *)
read_time(v, from, to) ==
    /\ pc[v] = from
    /\ IF at[v] < Len(index)
       THEN /\ Goto(v, from, to)
            /\ ct' = [ct EXCEPT ![v] = index[at[v] + 1]]
            /\ at' = [at EXCEPT ![v] = @ + 1]
            /\ UNCHANGED lock
       ELSE Goto(v, from, "done") /\ Close(v) /\ UNCHANGED <<ct, at>>
    /\ UNCHANGED <<files, now, writerVars, range, shown, history>>

(* Skipping the records before begin_time.                                 *)
skip_record(v) ==
    /\ ct[v] < range[v][1]
    /\ Goto(v, "skipping", "skip")
    /\ at' = [at EXCEPT ![v] = @ + Fields - 1]
    /\ UNCHANGED <<files, lock, now, writerVars, range, ct, shown, history>>

(* A read past the end of a torn index leaves the static variable as it    *)
(* was; what it holds does not matter.                                     *)
Field(i) == IF i \in DOMAIN index THEN index[i] ELSE 0

(* The units of the record that starts at offset p of the log: as many     *)
(* descriptions as desc_len announces, then as many contents; a torn index *)
(* may lead past the end of the log.                                       *)
Stored(p, desc_len) ==
    LET last == p + 2 * (desc_len \div 2)
    IN  SubSeq(log, p + 1, IF last <= Len(log) THEN last ELSE Len(log))

(* At the head of the second loop, where the first one has let go.         *)
Taking(v) == pc[v] = "taking" \/ (pc[v] = "skipping" /\ ct[v] >= range[v][1])

take_record(v) ==
    /\ Taking(v) /\ ct[v] <= range[v][2]
    /\ pc' = [pc EXCEPT ![v] = "take"]
    /\ shown' = [shown EXCEPT ![v] = Append(@,
                    [time  |-> ct[v],
                     cells |-> Stored(Field(at[v] + 1), Field(at[v] + 2))])]
    /\ at' = [at EXCEPT ![v] = @ + Fields - 1]
    /\ UNCHANGED <<files, lock, now, writerVars, range, ct, history>>

(* The first record after end_time ends the view.                          *)
stop_view(v) ==
    /\ Taking(v) /\ ct[v] > range[v][2]
    /\ pc' = [pc EXCEPT ![v] = "done"]
    /\ Close(v)
    /\ UNCHANGED <<files, now, writerVars, readerVars, history>>

-----------------------------------------------------------------------------
Tick ==
    /\ now < MaxTime /\ now' = now + 1
    /\ UNCHANGED <<files, lock, pc, writerVars, readerVars, history>>

WriterStep(w) ==
    \/ log_add_unit(w) \/ open_index_file(w) \/ lock_index_file_w(w)
    \/ open_log_file(w) \/ write_desc(w) \/ write_data(w)
    \/ write_time(w) \/ write_pos(w) \/ write_desc_len(w) \/ write_total_len(w)
    \/ unlock_index_file_w(w) \/ close_index_file(w)

ViewStep(v) ==
    \/ lock_index_file_r(v) \/ open_log_r(v)
    \/ read_time(v, "skip", "skipping") \/ read_time(v, "take", "taking")
    \/ skip_record(v) \/ take_record(v) \/ stop_view(v)

(* Every process has come to its end.                                      *)
Finished ==
    /\ \A v \in Reader : pc[v] \in {"done", "failed"}
    /\ \A w \in Writer : pc[w] = "dead" \/ (pc[w] = "idle" /\ serial[w] = MaxRecords)
    /\ UNCHANGED vars

Next ==
    \/ \E w \in Writer : WriterStep(w) \/ Crash(w)
    \/ \E v \in Reader : \/ \E begin, end \in Time : open_view(v, begin, end)
                         \/ ViewStep(v)
    \/ Tick
    \/ Finished

Spec == Init /\ [][Next]_vars

(* Processes run by themselves and F_SETLKW grants a lock that stays free. *)
FairSpec ==
    /\ Spec
    /\ \A w \in Writer : WF_vars(WriterStep(w))
    /\ \A v \in Reader : WF_vars(ViewStep(v))

-----------------------------------------------------------------------------
Cell == [by : Writer, serial : 1 .. MaxRecords, part : {"desc", "data"},
         unit : 1 .. MaxUnits]

WriterPcs == {"idle", "lock", "open", "desc", "data", "time", "pos", "desc_len",
              "total_len", "unlock", "close", "dead"}
ReaderPcs == {"idle", "rlock", "ropen", "skip", "skipping", "take", "taking",
              "done", "failed"}

(* Every variable has the type its declaration gives it; offsets and index *)
(* fields are never negative.                                              *)
TypeOK ==
    /\ log \in Seq(Cell) /\ index \in Seq(Nat)
    /\ logExists \in BOOLEAN /\ indexExists \in BOOLEAN
    /\ lock \in [Process -> {"none", "read", "write"}]
    /\ now \in Time
    /\ \A w \in Writer : pc[w] \in WriterPcs
    /\ \A v \in Reader : pc[v] \in ReaderPcs
    /\ unit_count \in [Writer -> 0 .. MaxUnits]
    /\ serial \in [Writer -> 0 .. MaxRecords]
    /\ pos \in [Writer -> Nat]
    /\ range \in [Reader -> Time \X Time]
    /\ at \in [Reader -> Nat] /\ ct \in [Reader -> Nat]
    /\ torn \in BOOLEAN

(* As long as no writer was killed inside an index record, the k-th record *)
(* of the index leads to the k-th committed record's own units, complete   *)
(* and in order, however the writers' appends to the log interleave and    *)
(* whatever killed writers left in it.                                     *)
IndexLeadsToRecords ==
    ~torn =>
        \A k \in DOMAIN records :
            LET first == Fields * (k - 1) + 1
            IN  /\ index[first] = records[k].time
                /\ Stored(index[first + 1], index[first + 2]) = records[k].cells

(* Writers commit whole records in the order of their times, and a view is *)
(* exactly the records of its range at one instant, until a killed writer  *)
(* tears the index.                                                        *)
Abstract ==
    INSTANCE AtomicLog
      WITH view <- [v \in Reader |-> IF pc[v] = "done" THEN shown[v] ELSE <<>>]
ImplementsAtomicLog == Abstract!AtomicLogSpec

(* log_view gives up on a missing file only while nothing was ever logged. *)
ViewFailsOnlyBeforeFirstRecord ==
    [][\A v \in Reader :
          pc[v] # "failed" /\ pc'[v] = "failed" => records = <<>>]_vars

(* Whoever starts to write or to view comes to an end, although "unlock"   *)
(* unlocks nothing and writers are killed while they hold the lock.        *)
NobodyWaitsForever ==
    /\ \A w \in Writer : pc[w] # "idle" ~> pc[w] \in {"idle", "dead"}
    /\ \A v \in Reader : pc[v] # "idle" ~> pc[v] \in {"done", "failed"}

(* log_def.h:35 says the index consists of records of INDEX_RECORD_SIZE:   *)
(* whenever nobody is writing, it is a whole number of them.               *)
IndexIsWholeRecords ==
    (\A w \in Writer : lock[w] # "write") => Len(index) % Fields = 0
=============================================================================
