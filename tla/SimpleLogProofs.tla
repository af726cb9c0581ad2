-------------------------- MODULE SimpleLogProofs --------------------------
(***************************************************************************)
(* simplelog for any number of processes, of records and of units: the     *)
(* index leads to the records, whoever writes, views or is killed, and     *)
(* writers and views are those of AtomicLog.                               *)
(***************************************************************************)
EXTENDS SimpleLog, SequenceTheorems, TLAPS

-----------------------------------------------------------------------------
(* The inductive invariant.                                                *)

(* The steps of log_write that hold the lock, and the last of those that   *)
(* leave a record of the index unfinished.                                 *)
Holding  == {"open", "desc", "data", "time", "pos", "desc_len", "total_len",
             "unlock", "close"}
InRecord == {"pos", "desc_len", "total_len"}

Record == [time : Nat, cells : Seq(Cell)]

(* What TypeOK does not say: log_write begins with a unit at least, and an *)
(* index record begins with its first field.                               *)
Begun ==
    /\ pc \in [Process -> WriterPcs \cup ReaderPcs]
    /\ records \in Seq(Record)
    /\ \A w \in Writer :
         /\ pc[w] \notin {"idle", "dead"} => serial[w] >= 1 /\ unit_count[w] >= 1
         /\ pc[w] = "idle" /\ unit_count[w] > 0 => serial[w] < MaxRecords
         /\ pc[w] = "pos" => Len(index) >= 1
         /\ pc[w] = "desc_len" => Len(index) >= 2
         /\ pc[w] = "total_len" => Len(index) >= 3

(* The index is locked for writing by one process, or for reading by some. *)
LocksExclude ==
    /\ \A w \in Writer : lock[w] = IF pc[w] \in Holding THEN "write" ELSE "none"
    /\ \A v \in Reader : lock[v] # "write"
    /\ \A p, q \in Process : p # q /\ lock[p] = "write" => lock[q] = "none"

FilesExist ==
    /\ \A w \in Writer : pc[w] \in Holding \cup {"lock"} => indexExists
    /\ \A w \in Writer : pc[w] \in Holding \ {"open"} => logExists
    /\ records # <<>> => indexExists /\ logExists

(* What the writer at work has appended to the index ...                   *)
base == Fields * Len(records)
IndexShape ==
    ~torn =>
      /\ (\A w \in Writer : pc[w] \notin InRecord) => Len(index) = base
      /\ \A w \in Writer :
           /\ pc[w] = "pos" => Len(index) = base + 1
           /\ pc[w] = "desc_len" => Len(index) = base + 2 /\ index[base + 2] = pos[w]
           /\ pc[w] = "total_len" => /\ Len(index) = base + 3
                                     /\ index[base + 2] = pos[w]
                                     /\ index[base + 3] = 2 * unit_count[w]

(* ... and to the log.                                                     *)
LogShape ==
    \A w \in Writer :
      /\ pc[w] = "data" =>
           /\ Len(log) = pos[w] + unit_count[w]
           /\ SubSeq(log, pos[w] + 1, pos[w] + unit_count[w]) = Cells(w, "desc")
      /\ pc[w] \in InRecord \cup {"time"} =>
           /\ pos[w] + 2 * unit_count[w] <= Len(log)
           /\ SubSeq(log, pos[w] + 1, pos[w] + 2 * unit_count[w])
                = Cells(w, "desc") \o Cells(w, "data")

(* A committed record is in the log, whole.                                *)
Leads(k) ==
    LET first == Fields * (k - 1) + 1
        p     == index[first + 1]
        last  == p + 2 * (index[first + 2] \div 2)
    IN  /\ index[first] = records[k].time
        /\ last <= Len(log)
        /\ SubSeq(log, p + 1, last) = records[k].cells
Committed == ~torn => \A k \in 1 .. Len(records) : Leads(k)

IInv == /\ TypeOK /\ Begun /\ LocksExclude /\ FilesExist
        /\ IndexShape /\ LogShape /\ Committed

-----------------------------------------------------------------------------
(* Sequences that only grow.                                               *)

LEMMA SubSeqIs ==
    ASSUME NEW S, NEW s \in Seq(S), NEW m \in Nat, NEW n \in Nat, n <= Len(s),
           NEW t \in Seq(S), Len(t) = IF m < n THEN n - m ELSE 0,
           \A i \in 1 .. Len(t) : s[m + i] = t[i]
    PROVE  SubSeq(s, m + 1, n) = t
<1>1. PICK a \in Int : a = m + 1
  OBVIOUS
<1>2. \A i \in a .. n : s[i] \in S
  BY <1>1, ElementOfSeq
<1>3. /\ SubSeq(s, a, n) \in Seq(S)
      /\ Len(SubSeq(s, a, n)) = IF a <= n THEN n - a + 1 ELSE 0
      /\ \A i \in 1 .. n - a + 1 : SubSeq(s, a, n)[i] = s[a + i - 1]
  BY <1>2, SubSeqProperties
<1>4. Len(SubSeq(s, a, n)) = Len(t)
  BY <1>1, <1>3
<1>5. \A i \in 1 .. Len(t) : i \in 1 .. n - a + 1 /\ a + i - 1 = m + i
  BY <1>1
<1>6. \A i \in 1 .. Len(t) : SubSeq(s, a, n)[i] = t[i]
  BY <1>3, <1>5
<1>7. SubSeq(s, a, n) = t
  BY <1>3, <1>4, <1>6, SeqEqual
<1> QED
  BY <1>1, <1>7

LEMMA SubSeqAt ==
    ASSUME NEW S, NEW s \in Seq(S), NEW m \in Nat, NEW n \in Nat, n <= Len(s)
    PROVE  LET t == SubSeq(s, m + 1, n)
           IN  /\ t \in Seq(S) /\ Len(t) = IF m < n THEN n - m ELSE 0
               /\ \A i \in 1 .. Len(t) : s[m + i] = t[i]
<1>1. PICK a \in Int : a = m + 1
  OBVIOUS
<1>2. \A i \in a .. n : s[i] \in S
  BY <1>1, ElementOfSeq
<1>3. /\ SubSeq(s, a, n) \in Seq(S)
      /\ Len(SubSeq(s, a, n)) = IF a <= n THEN n - a + 1 ELSE 0
      /\ \A i \in 1 .. n - a + 1 : SubSeq(s, a, n)[i] = s[a + i - 1]
  BY <1>2, SubSeqProperties
<1>4. \A i \in 1 .. Len(SubSeq(s, a, n)) :
        i \in 1 .. n - a + 1 /\ a + i - 1 = m + i
  BY <1>1, <1>3
<1>5. /\ SubSeq(s, a, n) \in Seq(S)
      /\ Len(SubSeq(s, a, n)) = IF m < n THEN n - m ELSE 0
      /\ \A i \in 1 .. Len(SubSeq(s, a, n)) : s[m + i] = SubSeq(s, a, n)[i]
  BY <1>1, <1>3, <1>4
<1> QED
  BY <1>1, <1>5

(* What is appended leaves what was there where it was ...                 *)
LEMMA SubSeqOfPrefix ==
    ASSUME NEW S, NEW s \in Seq(S), NEW t \in Seq(S),
           NEW m \in Nat, NEW n \in Nat, n <= Len(s)
    PROVE  SubSeq(s \o t, m + 1, n) = SubSeq(s, m + 1, n)
<1> DEFINE u == SubSeq(s, m + 1, n)
<1>1. /\ s \o t \in Seq(S) /\ Len(s \o t) = Len(s) + Len(t)
      /\ \A i \in 1 .. Len(s) : (s \o t)[i] = s[i]
      /\ Len(s) \in Nat /\ Len(t) \in Nat
  BY ConcatProperties, LenProperties
<1>2. /\ u \in Seq(S) /\ Len(u) = IF m < n THEN n - m ELSE 0
      /\ \A i \in 1 .. Len(u) : s[m + i] = u[i]
  BY SubSeqAt
<1>3. \A i \in 1 .. Len(u) : m + i \in 1 .. Len(s) /\ (s \o t)[m + i] = u[i]
  BY <1>1, <1>2
<1> HIDE DEF u
<1>4. SubSeq(s \o t, m + 1, n) = u
  BY <1>1, <1>2, <1>3, SubSeqIs
<1> QED
  BY <1>4 DEF u

(* ... and is found after it.                                              *)
LEMMA SubSeqOfSuffix ==
    ASSUME NEW S, NEW s \in Seq(S), NEW t \in Seq(S)
    PROVE  SubSeq(s \o t, Len(s) + 1, Len(s) + Len(t)) = t
<1>1. /\ s \o t \in Seq(S) /\ Len(s) \in Nat /\ Len(t) \in Nat
      /\ Len(s \o t) = Len(s) + Len(t)
      /\ \A i \in 1 .. Len(t) : (s \o t)[Len(s) + i] = t[i]
  BY ConcatProperties, LenProperties
<1>2. PICK m \in Nat : m = Len(s)
  BY <1>1
<1>3. PICK n \in Nat : n = Len(s) + Len(t)
  BY <1>1
<1>4. SubSeq(s \o t, m + 1, n) = t
  BY <1>1, <1>2, <1>3, SubSeqIs
<1> QED
  BY <1>2, <1>3, <1>4

(* A piece that grows at its end.                                          *)
LEMMA SubSeqGrows ==
    ASSUME NEW S, NEW s \in Seq(S), NEW t \in Seq(S), NEW m \in Nat, m <= Len(s)
    PROVE  SubSeq(s \o t, m + 1, Len(s) + Len(t)) = SubSeq(s, m + 1, Len(s)) \o t
<1> DEFINE u == SubSeq(s, m + 1, Len(s))
<1>1. /\ s \o t \in Seq(S) /\ Len(s) \in Nat /\ Len(t) \in Nat
      /\ Len(s \o t) = Len(s) + Len(t)
      /\ \A i \in 1 .. Len(s) + Len(t) :
           (s \o t)[i] = IF i <= Len(s) THEN s[i] ELSE t[i - Len(s)]
  BY ConcatProperties, LenProperties
<1>2. /\ u \in Seq(S) /\ Len(u) = Len(s) - m
      /\ \A i \in 1 .. Len(u) : s[m + i] = u[i]
  BY <1>1, SubSeqAt
<1> HIDE DEF u
<1>3. /\ u \o t \in Seq(S) /\ Len(u \o t) = Len(u) + Len(t)
      /\ \A i \in 1 .. Len(u) + Len(t) :
           (u \o t)[i] = IF i <= Len(u) THEN u[i] ELSE t[i - Len(u)]
  BY <1>2, ConcatProperties
<1>4. \A i \in 1 .. Len(u \o t) : (s \o t)[m + i] = (u \o t)[i]
  BY <1>1, <1>2, <1>3
<1>5. PICK n \in Nat : n = Len(s) + Len(t)
  BY <1>1
<1>6. Len(u \o t) = IF m < n THEN n - m ELSE 0
  BY <1>1, <1>2, <1>3, <1>5
<1>7. SubSeq(s \o t, m + 1, n) = u \o t
  <2>1. PICK w \in Seq(S) : w = u \o t
    BY <1>3
  <2>2. Len(w) = (IF m < n THEN n - m ELSE 0) /\ n <= Len(s \o t)
    BY <1>1, <1>5, <1>6, <2>1
  <2>3. \A i \in 1 .. Len(w) : (s \o t)[m + i] = w[i]
    BY <1>4, <2>1
  <2>4. SubSeq(s \o t, m + 1, n) = w
    BY <1>1, <2>2, <2>3, SubSeqIs
  <2> QED
    BY <2>1, <2>4
<1> QED
  BY <1>5, <1>7 DEF u

-----------------------------------------------------------------------------
(* Types, and who holds the lock.                                          *)

LEMMA CellsTyped ==
    ASSUME NEW w \in Writer, NEW part \in {"desc", "data"},
           serial[w] \in 1 .. MaxRecords, unit_count[w] \in 0 .. MaxUnits
    PROVE  Cells(w, part) \in Seq(Cell) /\ Len(Cells(w, part)) = unit_count[w]
<1>1. PICK n \in Nat : n = unit_count[w] /\ n <= MaxUnits
  BY LogAssumption
<1>2. Cells(w, part) =
        [i \in 1 .. n |-> [by |-> w, serial |-> serial[w], part |-> part, unit |-> i]]
  BY <1>1 DEF Cells
<1>3. \A i \in 1 .. n :
        [by |-> w, serial |-> serial[w], part |-> part, unit |-> i] \in Cell
  BY <1>1, LogAssumption DEF Cell
<1>4. Cells(w, part) \in [1 .. n -> Cell]
  BY <1>2, <1>3
<1> QED
  BY <1>1, <1>4

LEMMA AtWork ==
    ASSUME TypeOK, Begun, NEW w \in Writer, pc[w] \notin {"idle", "dead"}
    PROVE  /\ unit_count[w] \in Nat /\ unit_count[w] >= 1
           /\ \A part \in {"desc", "data"} :
                Cells(w, part) \in Seq(Cell) /\ Len(Cells(w, part)) = unit_count[w]
           /\ Cells(w, "desc") \o Cells(w, "data") \in Seq(Cell)
<1>1. serial[w] \in 1 .. MaxRecords /\ unit_count[w] \in 0 .. MaxUnits
  BY LogAssumption DEF TypeOK, Begun
<1>2. unit_count[w] \in Nat /\ unit_count[w] >= 1
  BY <1>1, LogAssumption DEF Begun
<1>3. \A part \in {"desc", "data"} :
        Cells(w, part) \in Seq(Cell) /\ Len(Cells(w, part)) = unit_count[w]
  BY <1>1, CellsTyped
<1> QED
  BY <1>2, <1>3, ConcatProperties

(* A step moves one process.                                               *)
LEMMA Goes ==
    ASSUME Begun, NEW p \in Process, NEW from, NEW to \in WriterPcs \cup ReaderPcs,
           Goto(p, from, to)
    PROVE  /\ pc' \in [Process -> WriterPcs \cup ReaderPcs]
           /\ pc[p] = from /\ pc'[p] = to
           /\ \A q \in Process : q # p => pc'[q] = pc[q]
BY DEF Begun, Goto

(* A step of log_write on the index appends one number.                    *)
LEMMA IndexGrows ==
    ASSUME TypeOK, Begun, NEW w \in Writer, NEW from, NEW to, NEW value \in Nat,
           write_index(w, from, to, value)
    PROVE  /\ index' \in Seq(Nat) /\ Len(index) \in Nat
           /\ Len(index') = Len(index) + 1 /\ index'[Len(index) + 1] = value
           /\ \A i \in 1 .. Len(index) : index'[i] = index[i]
BY AppendProperties, LenProperties DEF TypeOK, write_index

(* A reader's step, the clock's and the last one leave the files, the      *)
(* writers and what was committed alone.                                   *)
WritersRest == /\ UNCHANGED <<files, writerVars, history>>
               /\ \A w \in Writer : pc'[w] = pc[w] /\ lock'[w] = lock[w]

ReaderStep(v) == ViewStep(v) \/ \E begin, end \in Time : open_view(v, begin, end)

LEMMA ReadersLeaveWriters ==
    ASSUME TypeOK, Begun, NEW v \in Reader, ReaderStep(v)
    PROVE  WritersRest
<1> USE LogAssumption DEF WritersRest, Process
<1>1. CASE ViewStep(v)
  BY <1>1 DEF TypeOK, Begun, ViewStep, lock_index_file_r, F_SETLKW, open_log_r, Close,
     read_time, skip_record, take_record, stop_view, Goto, files, writerVars, history
<1>2. CASE \E begin, end \in Time : open_view(v, begin, end)
  BY <1>2 DEF TypeOK, Begun, open_view, Goto, files, writerVars, history
<1> QED
  BY <1>1, <1>2 DEF ReaderStep

LEMMA Begins == Init => IInv
<1> SUFFICES ASSUME Init
             PROVE  IInv
  OBVIOUS
<1>1. TypeOK
  <2>1. 0 \in Time /\ 0 \in 0 .. MaxUnits /\ 0 \in 0 .. MaxRecords
    BY LogAssumption DEF Time
  <2>2. range \in [Reader -> Time \X Time]
    BY <2>1 DEF Init
  <2>3. log \in Seq(Cell) /\ index \in Seq(Nat)
    BY DEF Init
  <2> QED
    BY <2>1, <2>2, <2>3 DEF Init, TypeOK, Process, WriterPcs, ReaderPcs
<1>2. Begun
  BY LogAssumption DEF Init, Begun, Process, WriterPcs
<1>3. LocksExclude
  BY DEF Init, LocksExclude, Process, Holding
<1>4. FilesExist
  BY DEF Init, FilesExist, Process, Holding
<1>5. IndexShape /\ Committed
  BY DEF Init, IndexShape, Committed, InRecord, base, Fields, Process
<1>6. LogShape
  BY DEF Init, LogShape, InRecord, Process
<1> QED
  BY <1>1, <1>2, <1>3, <1>4, <1>5, <1>6 DEF IInv

LEMMA TypeStep ==
    ASSUME TypeOK, Begun, [Next]_vars
    PROVE  TypeOK' /\ Begun'
<1>1. ASSUME NEW w \in Writer, WriterStep(w)
      PROVE  TypeOK' /\ Begun'
  <2>1. CASE log_add_unit(w)
    BY <2>1, LogAssumption DEF TypeOK, Begun, log_add_unit, files, readerVars, history
  <2>2. CASE open_index_file(w)
    BY <2>2, LogAssumption DEF TypeOK, Begun, open_index_file, Goto, files, readerVars,
       history, Process, WriterPcs
  <2>3. CASE lock_index_file_w(w)
    BY <2>3, LogAssumption DEF TypeOK, Begun, lock_index_file_w, F_SETLKW, Goto, files,
       writerVars, readerVars, history, Process, WriterPcs
  <2>4. CASE open_log_file(w)
    BY <2>4, LogAssumption DEF TypeOK, Begun, open_log_file, Goto, writerVars,
       readerVars, history, Process, WriterPcs
  <2>5. CASE write_desc(w)
    <3>1. Cells(w, "desc") \in Seq(Cell)
      BY <2>5, AtWork DEF write_desc, Goto
    <3>2. log' \in Seq(Cell) /\ Len(log) \in Nat
      BY <2>5, <3>1, ConcatProperties, LenProperties DEF TypeOK, write_desc
    <3> QED
      BY <2>5, <3>2, LogAssumption DEF TypeOK, Begun, write_desc, Goto, readerVars,
         history, Process, WriterPcs
  <2>6. CASE write_data(w)
    <3>1. Cells(w, "data") \in Seq(Cell)
      BY <2>6, AtWork DEF write_data, Goto
    <3>2. log' \in Seq(Cell)
      BY <2>6, <3>1, ConcatProperties DEF TypeOK, write_data
    <3> QED
      BY <2>6, <3>2, LogAssumption DEF TypeOK, Begun, write_data, Goto, writerVars,
         readerVars, history, Process, WriterPcs
  <2>7. CASE write_time(w) \/ write_pos(w) \/ write_desc_len(w) \/ write_total_len(w)
    <3>0. w \in Process /\ WriterPcs \subseteq WriterPcs \cup ReaderPcs
      BY DEF Process
    <3>1. CASE write_time(w)
      <4>1. now \in Nat
        BY LogAssumption DEF TypeOK, Time
      <4>2. index' \in Seq(Nat) /\ Len(index') = Len(index) + 1 /\ Len(index) \in Nat
        BY <3>1, <4>1, IndexGrows DEF write_time
      <4>3. Goto(w, "time", "pos")
        BY <3>1 DEF write_time, write_index
      <4> QED
        <5>1. /\ pc' \in [Process -> WriterPcs \cup ReaderPcs]
              /\ pc[w] = "time" /\ pc'[w] = "pos"
              /\ \A q \in Process : q # w => pc'[q] = pc[q]
          BY <3>0, <4>3, Goes DEF WriterPcs
        <5>2. TypeOK'
          BY <3>1, <4>2, <5>1, LogAssumption DEF TypeOK, write_time, write_index, writerVars,
             readerVars, WriterPcs, Process
        <5>3. records' \in Seq(Record)
          BY <3>1 DEF Begun, write_time
        <5>4. UNCHANGED <<serial, unit_count>>
          BY <3>1 DEF write_time, write_index, writerVars
        <5> QED
          BY <4>2, <5>1, <5>2, <5>3, <5>4 DEF Begun, Process
    <3>2. CASE write_pos(w)
      <4>1. pos[w] \in Nat
        BY DEF TypeOK
      <4>2. index' \in Seq(Nat) /\ Len(index') = Len(index) + 1 /\ Len(index) \in Nat
        BY <3>2, <4>1, IndexGrows DEF write_pos
      <4>3. Goto(w, "pos", "desc_len")
        BY <3>2 DEF write_pos, write_index
      <4> QED
        <5>1. /\ pc' \in [Process -> WriterPcs \cup ReaderPcs]
              /\ pc[w] = "pos" /\ pc'[w] = "desc_len"
              /\ \A q \in Process : q # w => pc'[q] = pc[q]
          BY <3>0, <4>3, Goes DEF WriterPcs
        <5>2. TypeOK'
          BY <3>2, <4>2, <5>1, LogAssumption DEF TypeOK, write_pos, write_index, writerVars,
             readerVars, WriterPcs, Process
        <5>3. records' \in Seq(Record)
          BY <3>2 DEF Begun, write_pos
        <5>4. UNCHANGED <<serial, unit_count>>
          BY <3>2 DEF write_pos, write_index, writerVars
        <5> QED
          BY <4>2, <5>1, <5>2, <5>3, <5>4 DEF Begun, Process
    <3>3. CASE write_desc_len(w)
      <4>3. Goto(w, "desc_len", "total_len")
        BY <3>3 DEF write_desc_len, write_index
      <4>1. 2 * unit_count[w] \in Nat
        BY <4>3, AtWork DEF Goto
      <4>2. index' \in Seq(Nat) /\ Len(index') = Len(index) + 1 /\ Len(index) \in Nat
        BY <3>3, <4>1, IndexGrows DEF write_desc_len
      <4> QED
        <5>1. /\ pc' \in [Process -> WriterPcs \cup ReaderPcs]
              /\ pc[w] = "desc_len" /\ pc'[w] = "total_len"
              /\ \A q \in Process : q # w => pc'[q] = pc[q]
          BY <3>0, <4>3, Goes DEF WriterPcs
        <5>2. TypeOK'
          BY <3>3, <4>2, <5>1, LogAssumption DEF TypeOK, write_desc_len, write_index, writerVars,
             readerVars, WriterPcs, Process
        <5>3. records' \in Seq(Record)
          BY <3>3 DEF Begun, write_desc_len
        <5>4. UNCHANGED <<serial, unit_count>>
          BY <3>3 DEF write_desc_len, write_index, writerVars
        <5>5. Len(index') >= 3
          BY <4>2, <5>1 DEF Begun
        <5> QED
          BY <5>1, <5>2, <5>3, <5>4, <5>5 DEF Begun, Process
    <3>4. CASE write_total_len(w)
      <4>3. Goto(w, "total_len", "unlock")
        BY <3>4 DEF write_total_len, write_index
      <4>1. 3 * unit_count[w] \in Nat
        BY <4>3, AtWork DEF Goto
      <4>2. index' \in Seq(Nat) /\ Len(index') = Len(index) + 1 /\ Len(index) \in Nat
        BY <3>4, <4>1, IndexGrows DEF write_total_len
      <4>4. Len(index) >= 3
        BY <4>3 DEF Goto, Begun
      <4>5. index[Len(index) - 2] \in Nat
        <5>1. index \in Seq(Nat) /\ Len(index) - 2 \in 1 .. Len(index)
          BY <4>2, <4>4 DEF TypeOK
        <5> QED
          BY ONLY <5>1, ElementOfSeq
      <4>6. Cells(w, "desc") \o Cells(w, "data") \in Seq(Cell)
        BY <4>3, AtWork DEF Goto
      <4>7. [time |-> index[Len(index) - 2],
             cells |-> Cells(w, "desc") \o Cells(w, "data")] \in Record
        BY <4>5, <4>6 DEF Record
      <4>8. records' \in Seq(Record)
        BY <3>4, <4>7, AppendProperties DEF Begun, write_total_len
      <4> QED
        <5>1. /\ pc' \in [Process -> WriterPcs \cup ReaderPcs]
              /\ pc[w] = "total_len" /\ pc'[w] = "unlock"
              /\ \A q \in Process : q # w => pc'[q] = pc[q]
          BY <3>0, <4>3, Goes DEF WriterPcs
        <5>2. TypeOK'
          BY <3>4, <4>2, <5>1, LogAssumption DEF TypeOK, write_total_len, write_index, writerVars,
             readerVars, WriterPcs, Process
        <5>3. records' \in Seq(Record)
          BY <4>8
        <5>4. UNCHANGED <<serial, unit_count>>
          BY <3>4 DEF write_total_len, write_index, writerVars
        <5>5. \A u \in Writer : pc'[u] \notin {"idle", "dead"}
                => serial'[u] >= 1 /\ unit_count'[u] >= 1
          BY <5>1, <5>4 DEF Begun, Process
        <5>6. \A u \in Writer : pc'[u] = "idle" /\ unit_count'[u] > 0
                => serial'[u] < MaxRecords
          BY <5>1, <5>4 DEF Begun, Process
        <5>7. \A u \in Writer : /\ pc'[u] = "pos" => Len(index') >= 1
                                /\ pc'[u] = "desc_len" => Len(index') >= 2
                                /\ pc'[u] = "total_len" => Len(index') >= 3
          BY <4>2, <5>1 DEF Begun, Process
        <5> QED
          BY <5>1, <5>2, <5>3, <5>5, <5>6, <5>7 DEF Begun
    <3> QED
      BY <2>7, <3>1, <3>2, <3>3, <3>4
  <2>8. CASE unlock_index_file_w(w)
    BY <2>8, LogAssumption DEF TypeOK, Begun, unlock_index_file_w, F_SETLK_ULOCK, Goto,
       files, writerVars, readerVars, history, Process, WriterPcs
  <2>9. CASE close_index_file(w)
    BY <2>9, LogAssumption DEF TypeOK, Begun, close_index_file, Close, Goto, files,
       readerVars, history, Process, WriterPcs
  <2> QED
    BY <1>1, <2>1, <2>2, <2>3, <2>4, <2>5, <2>6, <2>7, <2>8, <2>9 DEF WriterStep
<1>2. ASSUME NEW w \in Writer, Crash(w)
      PROVE  TypeOK' /\ Begun'
  BY <1>2, LogAssumption DEF TypeOK, Begun, Crash, Close, Process, WriterPcs, ReaderPcs, files, writerVars, readerVars
<1>3. ASSUME NEW v \in Reader, ReaderStep(v)
      PROVE  TypeOK' /\ Begun'
  <2>0. WritersRest
    BY <1>3, ReadersLeaveWriters
  <2>1. CASE ViewStep(v)
    <3>1. CASE lock_index_file_r(v)
      BY <2>0, <3>1, LogAssumption DEF WritersRest, TypeOK, Begun, lock_index_file_r,
         F_SETLKW, Goto, files, writerVars, readerVars, history, Process, ReaderPcs
    <3>2. CASE open_log_r(v)
      BY <2>0, <3>2, LogAssumption DEF WritersRest, TypeOK, Begun, open_log_r, Close,
         Goto, files, writerVars, readerVars, history, Process, ReaderPcs
    <3>3. ASSUME NEW from, NEW to \in {"skipping", "taking"}, read_time(v, from, to)
          PROVE  TypeOK' /\ Begun'
      <4>1. CASE at[v] < Len(index)
        <5>1. index[at[v] + 1] \in Nat
          <6>1. at[v] + 1 \in 1 .. Len(index)
            BY <4>1, LenProperties DEF TypeOK
          <6> QED
            BY <6>1, ElementOfSeq DEF TypeOK
        <5>2. /\ Goto(v, from, to)
              /\ ct' = [ct EXCEPT ![v] = index[at[v] + 1]]
              /\ at' = [at EXCEPT ![v] = @ + 1]
              /\ UNCHANGED lock
          BY <3>3, <4>1 DEF read_time
        <5>3. ct' \in [Reader -> Nat] /\ at' \in [Reader -> Nat]
          BY <5>1, <5>2 DEF TypeOK
        <5> QED
          BY <2>0, <3>3, <5>2, <5>3, LogAssumption DEF WritersRest, TypeOK, Begun,
             read_time, Goto, files, writerVars, history, Process, ReaderPcs
      <4>2. CASE ~(at[v] < Len(index))
        BY <2>0, <3>3, <4>2, LogAssumption DEF WritersRest, TypeOK, Begun, read_time,
           Close, Goto, files, writerVars, history, Process, ReaderPcs
      <4> QED
        BY <4>1, <4>2
    <3>4. CASE skip_record(v)
      BY <2>0, <3>4, LogAssumption DEF WritersRest, TypeOK, Begun, skip_record, Goto,
         files, writerVars, history, Process, Fields, ReaderPcs
    <3>5. CASE take_record(v)
      BY <2>0, <3>5, LogAssumption DEF WritersRest, TypeOK, Begun, take_record, files,
         writerVars, history, Process, Fields, ReaderPcs
    <3>6. CASE stop_view(v)
      BY <2>0, <3>6, LogAssumption DEF WritersRest, TypeOK, Begun, stop_view, Close,
         files, writerVars, readerVars, history, Process, ReaderPcs
    <3> QED
      BY <2>1, <3>1, <3>2, <3>3, <3>4, <3>5, <3>6 DEF ViewStep
  <2>2. CASE \E begin, end \in Time : open_view(v, begin, end)
    BY <2>0, <2>2, LogAssumption DEF WritersRest, TypeOK, Begun, open_view, Goto, files, writerVars, history, Process, ReaderPcs
  <2> QED
    BY <1>3, <2>1, <2>2 DEF ReaderStep
<1>4. ASSUME Tick \/ Finished \/ UNCHANGED vars
      PROVE  TypeOK' /\ Begun'
  BY <1>4, LogAssumption DEF TypeOK, Begun, Tick, Finished, Time, vars, files, writerVars, readerVars, history
<1> QED
  BY <1>1, <1>2, <1>3, <1>4 DEF Next, ReaderStep

LEMMA ReaderReleases ==
    ASSUME TypeOK, LocksExclude, NEW v \in Reader, \A w \in Writer : pc'[w] = pc[w],
           UNCHANGED lock \/ lock' = [lock EXCEPT ![v] = "none"]
    PROVE  LocksExclude'
<1>1. lock \in [Process -> {"none", "read", "write"}] /\ v \in Process
  BY DEF TypeOK, Process
<1>2. \A p \in Process : lock'[p] = lock[p] \/ (p = v /\ lock'[p] = "none")
  BY <1>1
<1>3. \A w \in Writer : w \in Process /\ w # v
  BY LogAssumption DEF Process
<1>4. \A u \in Reader : u \in Process
  BY DEF Process
<1> QED
  BY <1>2, <1>3, <1>4 DEF LocksExclude

LEMMA LockStep ==
    ASSUME TypeOK, Begun, LocksExclude, [Next]_vars
    PROVE  LocksExclude'
<1> USE LogAssumption DEF Process, Holding
<1>0. Begun'
  BY TypeStep
<1>1. ASSUME NEW w \in Writer, WriterStep(w)
      PROVE  LocksExclude'
  <2>1. CASE log_add_unit(w) \/ write_desc(w) \/ write_data(w)
    BY <1>0, <2>1 DEF Begun, LocksExclude, log_add_unit, write_desc, write_data, Goto
  <2>2. CASE open_index_file(w) \/ open_log_file(w)
    BY <1>0, <2>2 DEF Begun, LocksExclude, open_index_file, open_log_file, Goto
  <2>3. CASE lock_index_file_w(w)
    BY <1>0, <2>3 DEF TypeOK, Begun, LocksExclude, lock_index_file_w, F_SETLKW, CanLock,
       Goto
  <2>4. CASE write_time(w) \/ write_pos(w) \/ write_desc_len(w) \/ write_total_len(w)
    BY <1>0, <2>4 DEF Begun, LocksExclude, write_time, write_pos, write_desc_len,
       write_total_len, write_index, Goto
  <2>5. CASE unlock_index_file_w(w)
    BY <1>0, <2>5 DEF TypeOK, Begun, LocksExclude, unlock_index_file_w, F_SETLK_ULOCK,
       Goto
  <2>6. CASE close_index_file(w)
    BY <1>0, <2>6 DEF TypeOK, Begun, LocksExclude, close_index_file, Close, Goto
  <2> QED
    BY <1>1, <2>1, <2>2, <2>3, <2>4, <2>5, <2>6 DEF WriterStep
<1>2. ASSUME NEW w \in Writer, Crash(w)
      PROVE  LocksExclude'
  BY <1>2 DEF TypeOK, Begun, LocksExclude, Crash, Close
<1>3. ASSUME NEW v \in Reader, ReaderStep(v)
      PROVE  LocksExclude'
  <2>1. CASE lock_index_file_r(v)
    BY <2>1 DEF TypeOK, Begun, LocksExclude, lock_index_file_r, F_SETLKW, CanLock, Goto
  <2>2. CASE open_log_r(v)
    <3>1. \A w \in Writer : pc'[w] = pc[w]
      BY <2>2 DEF Begun, open_log_r, Goto
    <3>2. UNCHANGED lock \/ lock' = [lock EXCEPT ![v] = "none"]
      BY <2>2 DEF open_log_r, Close
    <3> QED
      BY ONLY <3>1, <3>2, ReaderReleases, v \in Reader, TypeOK, LocksExclude
  <2>3. ASSUME NEW from, NEW to, read_time(v, from, to)
        PROVE  LocksExclude'
    <3>1. \A w \in Writer : pc'[w] = pc[w]
      BY <2>3 DEF Begun, read_time, Goto
    <3>2. UNCHANGED lock \/ lock' = [lock EXCEPT ![v] = "none"]
      BY <2>3 DEF read_time, Close
    <3> QED
      BY ONLY <3>1, <3>2, ReaderReleases, v \in Reader, TypeOK, LocksExclude
  <2>4. CASE skip_record(v) \/ take_record(v)
    BY <2>4 DEF TypeOK, Begun, LocksExclude, skip_record, take_record, Goto
  <2>5. CASE stop_view(v)
    BY <2>5 DEF TypeOK, Begun, LocksExclude, stop_view, Close
  <2>6. CASE \E begin, end \in Time : open_view(v, begin, end)
    BY <2>6 DEF Begun, LocksExclude, open_view, Goto
  <2> QED
    BY <1>3, <2>1, <2>2, <2>3, <2>4, <2>5, <2>6 DEF ReaderStep, ViewStep
<1>4. ASSUME Tick \/ Finished \/ UNCHANGED vars
      PROVE  LocksExclude'
  BY <1>4 DEF LocksExclude, Tick, Finished, vars
<1> QED
  BY <1>1, <1>2, <1>3, <1>4 DEF Next, ReaderStep

(* Two writers are never both between the lock and the close.              *)
LEMMA OneHolds ==
    ASSUME LocksExclude, NEW w \in Writer, NEW u \in Writer, u # w,
           pc[w] \in Holding
    PROVE  pc[u] \notin Holding
BY DEF LocksExclude, Process

LEMMA FilesStep ==
    ASSUME TypeOK, Begun, FilesExist, [Next]_vars
    PROVE  FilesExist'
<1> USE LogAssumption DEF Process, Holding
<1>1. ASSUME NEW w \in Writer, WriterStep(w)
      PROVE  FilesExist'
  <2>1. CASE log_add_unit(w) \/ write_desc(w) \/ write_data(w)
    BY <2>1 DEF Begun, FilesExist, log_add_unit, write_desc, write_data, Goto, files,
       history
  <2>2. CASE open_index_file(w) \/ open_log_file(w)
    BY <2>2 DEF Begun, FilesExist, open_index_file, open_log_file, Goto, history
  <2>3. CASE lock_index_file_w(w)
    BY <2>3 DEF Begun, FilesExist, lock_index_file_w, Goto, files, history
  <2>4. CASE write_time(w) \/ write_pos(w) \/ write_desc_len(w) \/ write_total_len(w)
    BY <2>4 DEF Begun, FilesExist, write_time, write_pos, write_desc_len,
       write_total_len, write_index, Goto
  <2>5. CASE unlock_index_file_w(w) \/ close_index_file(w)
    BY <2>5 DEF Begun, FilesExist, unlock_index_file_w, close_index_file, Goto, files,
       history
  <2> QED
    BY <1>1, <2>1, <2>2, <2>3, <2>4, <2>5 DEF WriterStep
<1>2. ASSUME NEW w \in Writer, Crash(w)
      PROVE  FilesExist'
  BY <1>2 DEF Begun, FilesExist, Crash, files
<1>3. ASSUME NEW v \in Reader, ReaderStep(v)
      PROVE  FilesExist'
  <2>1. UNCHANGED <<files, history>> /\ \A w \in Writer : pc'[w] = pc[w]
    BY <1>3, ReadersLeaveWriters DEF WritersRest
  <2> QED
    BY <2>1 DEF FilesExist, files, history
<1>4. ASSUME Tick \/ Finished \/ UNCHANGED vars
      PROVE  FilesExist'
  BY <1>4 DEF FilesExist, Tick, Finished, vars, files, history
<1> QED
  BY <1>1, <1>2, <1>3, <1>4 DEF Next, ReaderStep

-----------------------------------------------------------------------------
(* The contents of the files.                                              *)

LEMMA IndexLong ==
    ASSUME Begun, IndexShape, ~torn
    PROVE  Fields * Len(records) \in Nat /\ Fields * Len(records) <= Len(index)
<1>1. Len(records) \in Nat
  BY LenProperties DEF Begun
<1>2. CASE \E w \in Writer : pc[w] \in InRecord
  BY <1>1, <1>2 DEF IndexShape, base, Fields, InRecord
<1>3. CASE \A w \in Writer : pc[w] \notin InRecord
  BY <1>1, <1>3 DEF IndexShape, base, Fields
<1> QED
  BY <1>2, <1>3

LEMMA IndexStep ==
    ASSUME TypeOK, Begun, LocksExclude, IndexShape, [Next]_vars
    PROVE  IndexShape'
<1> USE LogAssumption DEF Process
<1>0. Begun'
  BY TypeStep
<1>. SUFFICES ASSUME ~torn'
             PROVE  IndexShape'
  BY DEF IndexShape
<1>1. ASSUME NEW w \in Writer, WriterStep(w)
      PROVE  IndexShape'
  <2>0. ~torn /\ (pc[w] \in Holding => \A u \in Writer : u # w => pc[u] \notin InRecord)
    BY <1>1, OneHolds DEF Holding, InRecord, WriterStep, log_add_unit, open_index_file,
       lock_index_file_w, open_log_file, write_desc, write_data, write_time, write_pos,
       write_desc_len, write_total_len, write_index, unlock_index_file_w,
       close_index_file, history
  <2>1. CASE log_add_unit(w)
    BY <2>0, <2>1 DEF IndexShape, log_add_unit, InRecord, base, files, history, TypeOK
  <2>2. CASE open_index_file(w) \/ lock_index_file_w(w) \/ open_log_file(w)
    BY <2>0, <2>2 DEF Begun, IndexShape, open_index_file, lock_index_file_w,
       open_log_file, Goto, InRecord, base, files, history, writerVars
  <2>3. CASE write_desc(w) \/ write_data(w)
    <3>1. /\ pc[w] \notin InRecord /\ pc'[w] \notin InRecord
          /\ \A u \in Writer : u # w => pc'[u] = pc[u]
      BY <2>3 DEF Begun, write_desc, write_data, Goto, InRecord, Process
    <3>2. UNCHANGED <<index, records, torn, unit_count>>
      BY <2>3 DEF write_desc, write_data, history, writerVars
    <3>3. \A u \in Writer : u # w => pos'[u] = pos[u]
      BY <2>3 DEF TypeOK, write_desc, write_data, writerVars
    <3> QED
      BY <2>0, <3>1, <3>2, <3>3 DEF IndexShape, InRecord, base
  <2>4. CASE unlock_index_file_w(w) \/ close_index_file(w)
    BY <2>0, <2>4 DEF TypeOK, Begun, IndexShape, unlock_index_file_w,
       close_index_file, Goto, InRecord, base, files, history, writerVars
  <2>5. CASE write_time(w)
    <3>1. /\ pc[w] = "time" /\ pc'[w] = "pos"
          /\ \A u \in Writer : u # w => pc[u] \notin InRecord /\ pc'[u] = pc[u]
      <4>1. Goto(w, "time", "pos")
        BY <2>5 DEF write_time, write_index
      <4> QED
        BY <2>0, <4>1, Goes DEF Holding, WriterPcs
    <3>2. now \in Nat
      BY DEF TypeOK, Time
    <3>3. /\ Len(index) \in Nat /\ Len(index') = Len(index) + 1
          /\ index'[Len(index) + 1] = now
          /\ \A i \in 1 .. Len(index) : index'[i] = index[i]
      BY <2>5, <3>2, IndexGrows DEF write_time
    <3>4. UNCHANGED <<records, pos, unit_count>>
      BY <2>5 DEF write_time, write_index, writerVars
    <3>5. Len(index) = base
      BY <2>0, <3>1 DEF IndexShape, InRecord
    <3> QED
      BY <3>1, <3>3, <3>4, <3>5 DEF IndexShape, InRecord, base
  <2>6. CASE write_pos(w)
    <3>1. /\ pc[w] = "pos" /\ pc'[w] = "desc_len"
          /\ \A u \in Writer : u # w => pc[u] \notin InRecord /\ pc'[u] = pc[u]
      <4>1. Goto(w, "pos", "desc_len")
        BY <2>6 DEF write_pos, write_index
      <4> QED
        BY <2>0, <4>1, Goes DEF Holding, WriterPcs
    <3>2. pos[w] \in Nat
      BY DEF TypeOK
    <3>3. /\ Len(index) \in Nat /\ Len(index') = Len(index) + 1
          /\ index'[Len(index) + 1] = pos[w]
          /\ \A i \in 1 .. Len(index) : index'[i] = index[i]
      BY <2>6, <3>2, IndexGrows DEF write_pos
    <3>4. UNCHANGED <<records, pos, unit_count>>
      BY <2>6 DEF write_pos, write_index, writerVars
    <3>5. Len(index) = base + 1
      BY <2>0, <3>1 DEF IndexShape
    <3>6. base \in Nat
      BY LenProperties DEF base, Fields, Begun
    <3> QED
      BY <3>1, <3>3, <3>4, <3>5, <3>6 DEF IndexShape, InRecord, base
  <2>7. CASE write_desc_len(w)
    <3>1. /\ pc[w] = "desc_len" /\ pc'[w] = "total_len"
          /\ \A u \in Writer : u # w => pc[u] \notin InRecord /\ pc'[u] = pc[u]
      <4>1. Goto(w, "desc_len", "total_len")
        BY <2>7 DEF write_desc_len, write_index
      <4> QED
        BY <2>0, <4>1, Goes DEF Holding, WriterPcs
    <3>2. 2 * unit_count[w] \in Nat
      BY <3>1, AtWork
    <3>3. /\ Len(index) \in Nat /\ Len(index') = Len(index) + 1
          /\ index'[Len(index) + 1] = 2 * unit_count[w]
          /\ \A i \in 1 .. Len(index) : index'[i] = index[i]
      BY <2>7, <3>2, IndexGrows DEF write_desc_len
    <3>4. UNCHANGED <<records, pos, unit_count>>
      BY <2>7 DEF write_desc_len, write_index, writerVars
    <3>5. Len(index) = base + 2 /\ index[base + 2] = pos[w]
      BY <2>0, <3>1 DEF IndexShape
    <3>6. base \in Nat
      BY LenProperties DEF base, Fields, Begun
    <3>7. Len(index') = base + 3 /\ index'[base + 2] = pos[w]
          /\ index'[base + 3] = 2 * unit_count[w]
      BY <3>3, <3>5, <3>6
    <3> QED
      BY <3>1, <3>4, <3>7 DEF IndexShape, InRecord, base
  <2>8. CASE write_total_len(w)
    <3>1. /\ pc[w] = "total_len" /\ pc'[w] = "unlock"
          /\ \A u \in Writer : u # w => pc[u] \notin InRecord /\ pc'[u] = pc[u]
      <4>1. Goto(w, "total_len", "unlock")
        BY <2>8 DEF write_total_len, write_index
      <4> QED
        BY <2>0, <4>1, Goes DEF Holding, WriterPcs
    <3>2. 3 * unit_count[w] \in Nat
      BY <3>1, AtWork
    <3>3. /\ Len(index) \in Nat /\ Len(index') = Len(index) + 1
          /\ index'[Len(index) + 1] = 3 * unit_count[w]
          /\ \A i \in 1 .. Len(index) : index'[i] = index[i]
      BY <2>8, <3>2, IndexGrows DEF write_total_len
    <3>4. Len(records) \in Nat /\ Len(records') = Len(records) + 1
      BY <1>0, <2>8, LenProperties DEF Begun, write_total_len
    <3>5. Len(index) = base + 3
      BY <2>0, <3>1 DEF IndexShape
    <3>6. Len(index') = base'
      BY <3>3, <3>4, <3>5 DEF base, Fields
    <3> QED
      BY <3>1, <3>6 DEF IndexShape, InRecord
  <2> QED
    BY <1>1, <2>1, <2>2, <2>3, <2>4, <2>5, <2>6, <2>7, <2>8 DEF WriterStep
<1>2. ASSUME NEW w \in Writer, Crash(w)
      PROVE  IndexShape'
  BY <1>2 DEF Begun, IndexShape, Crash, InRecord, base, files, writerVars
<1>3. ASSUME NEW v \in Reader, ReaderStep(v)
      PROVE  IndexShape'
  <2>1. UNCHANGED <<files, writerVars, history>> /\ \A w \in Writer : pc'[w] = pc[w]
    BY <1>3, ReadersLeaveWriters DEF WritersRest
  <2> QED
    BY <2>1 DEF IndexShape, base, files, writerVars, history
<1>4. ASSUME Tick \/ Finished \/ UNCHANGED vars
      PROVE  IndexShape'
  BY <1>4 DEF IndexShape, base, Tick, Finished, vars, files, writerVars, history
<1> QED
  BY <1>1, <1>2, <1>3, <1>4 DEF Next, ReaderStep

(* A step that does not write to the log.                                  *)
InLog == {"data", "time"} \cup InRecord

LEMMA LogKept ==
    ASSUME LogShape, log' = log,
           \A w \in Writer : pc'[w] \in InLog =>
             /\ pc[w] \in InLog /\ (pc'[w] = "data" <=> pc[w] = "data")
             /\ pos'[w] = pos[w] /\ unit_count'[w] = unit_count[w]
             /\ serial'[w] = serial[w]
    PROVE  LogShape'
<1> SUFFICES ASSUME NEW w \in Writer, pc'[w] \in InLog
             PROVE  LogShape!(w)'
  BY DEF LogShape, InLog
<1>1. Cells(w, "desc")' = Cells(w, "desc") /\ Cells(w, "data")' = Cells(w, "data")
  BY DEF Cells
<1> QED
  BY <1>1 DEF LogShape, InLog

LEMMA LogStep ==
    ASSUME TypeOK, Begun, LocksExclude, LogShape, [Next]_vars
    PROVE  LogShape'
<1> USE LogAssumption DEF Process
<1>1. ASSUME NEW w \in Writer, WriterStep(w)
      PROVE  LogShape'
  <2>0. pc[w] \in Holding => \A u \in Writer : u # w => pc[u] \notin Holding
    BY OneHolds
  <2>1. CASE log_add_unit(w)
    BY <2>1, LogKept DEF TypeOK, log_add_unit, InLog, InRecord, files
  <2>2. CASE open_index_file(w)
    BY <2>2, LogKept DEF TypeOK, Begun, open_index_file, Goto, InLog, InRecord
  <2>3. CASE lock_index_file_w(w) \/ open_log_file(w) \/ unlock_index_file_w(w)
    BY <2>3, LogKept DEF Begun, lock_index_file_w, open_log_file,
       unlock_index_file_w, Goto, InLog, InRecord, files, writerVars
  <2>4. CASE write_desc(w)
    <3>1. /\ pc'[w] = "data"
          /\ \A u \in Writer : u # w => pc'[u] \notin {"data", "time"} \cup InRecord
      BY <2>0, <2>4 DEF Begun, write_desc, Goto, Holding, InRecord
    <3>2. Cells(w, "desc") \in Seq(Cell) /\ Len(Cells(w, "desc")) = unit_count[w]
      BY <2>4, AtWork DEF write_desc, Goto
    <3>3. /\ log' = log \o Cells(w, "desc") /\ pos'[w] = Len(log)
          /\ UNCHANGED <<unit_count, serial>>
      BY <2>4 DEF TypeOK, write_desc
    <3>4. Len(log') = Len(log) + unit_count[w]
      BY <3>2, <3>3, ConcatProperties DEF TypeOK
    <3>5. SubSeq(log', Len(log) + 1, Len(log) + unit_count[w]) = Cells(w, "desc")
      BY <3>2, <3>3, SubSeqOfSuffix DEF TypeOK
    <3> QED
      BY <3>1, <3>3, <3>4, <3>5 DEF LogShape, Cells, InRecord
  <2>5. CASE write_data(w)
    <3>1. /\ pc[w] = "data" /\ pc'[w] = "time"
          /\ \A u \in Writer : u # w => pc'[u] \notin {"data", "time"} \cup InRecord
      BY <2>0, <2>5 DEF Begun, write_data, Goto, Holding, InRecord
    <3>2. Cells(w, "data") \in Seq(Cell) /\ Len(Cells(w, "data")) = unit_count[w]
          /\ unit_count[w] \in Nat
      BY <3>1, AtWork
    <3>3. /\ log' = log \o Cells(w, "data")
          /\ UNCHANGED <<unit_count, serial, pos>>
      BY <2>5 DEF write_data, writerVars
    <3>4. /\ Len(log) = pos[w] + unit_count[w] /\ pos[w] \in Nat
          /\ SubSeq(log, pos[w] + 1, pos[w] + unit_count[w]) = Cells(w, "desc")
      BY <3>1 DEF LogShape, TypeOK
    <3>5. Len(log') = pos[w] + 2 * unit_count[w]
      <4>1. Len(log') = Len(log) + unit_count[w]
        <5>1. log \in Seq(Cell)
          BY DEF TypeOK
        <5> QED
          BY ONLY <3>2, <3>3, <5>1
      <4> QED
        BY <3>2, <3>4, <4>1
    <3>6. SubSeq(log', pos[w] + 1, Len(log) + unit_count[w])
            = SubSeq(log, pos[w] + 1, Len(log)) \o Cells(w, "data")
      <4>1. pos[w] <= Len(log) /\ log \in Seq(Cell)
        BY <3>2, <3>4 DEF TypeOK
      <4> QED
        BY <3>2, <3>3, <3>4, <4>1, SubSeqGrows
    <3>7. SubSeq(log', pos[w] + 1, pos[w] + 2 * unit_count[w])
            = Cells(w, "desc") \o Cells(w, "data")
      <4>1. Len(log) + unit_count[w] = pos[w] + 2 * unit_count[w]
        BY <3>2, <3>4
      <4> QED
        BY <3>4, <3>6, <4>1
    <3>8. /\ pos[w] + 2 * unit_count[w] <= Len(log')
      BY <3>2, <3>4, <3>5
    <3> QED
      BY <3>1, <3>3, <3>7, <3>8 DEF LogShape, Cells, InRecord
  <2>6. CASE write_time(w) \/ write_pos(w) \/ write_desc_len(w) \/ write_total_len(w)
    BY <2>6, LogKept DEF Begun, write_time, write_pos, write_desc_len,
       write_total_len, write_index, Goto, InLog, InRecord, writerVars
  <2>7. CASE close_index_file(w)
    BY <2>7, LogKept DEF TypeOK, Begun, close_index_file, Goto, InLog, InRecord, files
  <2> QED
    BY <1>1, <2>1, <2>2, <2>3, <2>4, <2>5, <2>6, <2>7 DEF WriterStep
<1>2. ASSUME NEW w \in Writer, Crash(w)
      PROVE  LogShape'
  BY <1>2, LogKept DEF Begun, Crash, InLog, InRecord, files, writerVars
<1>3. ASSUME NEW v \in Reader, ReaderStep(v)
      PROVE  LogShape'
  <2>1. UNCHANGED <<files, writerVars, history>> /\ \A w \in Writer : pc'[w] = pc[w]
    BY <1>3, ReadersLeaveWriters DEF WritersRest
  <2> QED
    BY <2>1, LogKept DEF files, writerVars
<1>4. ASSUME Tick \/ Finished \/ UNCHANGED vars
      PROVE  LogShape'
  BY <1>4, LogKept DEF Tick, Finished, vars, files, writerVars
<1> QED
  BY <1>1, <1>2, <1>3, <1>4 DEF Next, ReaderStep

(* A committed record stays where the index leads, whatever is appended.   *)
LEMMA LeadsKept ==
    ASSUME TypeOK, NEW t \in Seq(Cell), log' = log \o t,
           NEW k \in Nat \ {0}, Fields * k <= Len(index), Len(index) \in Nat,
           \A i \in 1 .. Len(index) : index'[i] = index[i],
           records'[k] = records[k], Leads(k)
    PROVE  Leads(k)'
<1> DEFINE first == Fields * (k - 1) + 1
           p     == index[first + 1]
           last  == p + 2 * (index[first + 2] \div 2)
<1>1. /\ first \in 1 .. Len(index) /\ first + 1 \in 1 .. Len(index)
      /\ first + 2 \in 1 .. Len(index)
  BY DEF Fields
<1>2. p \in Nat /\ index[first + 2] \in Nat
  BY <1>1, ElementOfSeq DEF TypeOK
<1>3. last \in Nat
  <2> HIDE DEF first, p
  <2>1. PICK half \in Nat : half = index[first + 2] \div 2
    BY <1>2
  <2> QED
    BY ONLY <1>2, <2>1, half \in Nat
<1>4. /\ index[first] = records[k].time /\ last <= Len(log)
      /\ SubSeq(log, p + 1, last) = records[k].cells
  BY DEF Leads
<1>5. /\ index'[first] = index[first] /\ index'[first + 1] = p
      /\ index'[first + 2] = index[first + 2]
  BY <1>1
<1> HIDE DEF last
<1>6. Len(log) <= Len(log')
  BY ConcatProperties, LenProperties DEF TypeOK
<1>7. SubSeq(log', p + 1, last) = SubSeq(log, p + 1, last) /\ last <= Len(log')
  <2>1. Len(log) \in Nat /\ Len(log') \in Nat
    BY ConcatProperties, LenProperties DEF TypeOK
  <2> QED
    <3>1. PICK m \in Nat : m = p
      BY <1>2
    <3>2. SubSeq(log \o t, m + 1, last) = SubSeq(log, m + 1, last)
      BY <1>3, <1>4, SubSeqOfPrefix DEF TypeOK
    <3>3. last <= Len(log')
      BY <1>3, <1>4, <1>6, <2>1
    <3> QED
      BY <3>1, <3>2, <3>3
<1> QED
  BY <1>4, <1>5, <1>7 DEF Leads, last

LEMMA CommitStep ==
    ASSUME IInv, [Next]_vars
    PROVE  Committed'
<1> USE LogAssumption DEF Process
<1>0. TypeOK /\ Begun /\ IndexShape /\ LogShape /\ Committed /\ TypeOK' /\ Begun'
  BY TypeStep DEF IInv
<1> SUFFICES ASSUME ~torn'
             PROVE  Committed'
  BY DEF Committed
<1>1. CASE UNCHANGED <<log, index, records>> /\ ~torn
  BY <1>0, <1>1 DEF Committed, Leads
<1>2. ASSUME NEW w \in Writer, WriterStep(w)
      PROVE  Committed'
  <2>1. CASE \/ log_add_unit(w) \/ open_index_file(w) \/ lock_index_file_w(w)
             \/ open_log_file(w) \/ unlock_index_file_w(w) \/ close_index_file(w)
    BY <1>1, <2>1 DEF log_add_unit, open_index_file, lock_index_file_w, open_log_file,
       unlock_index_file_w, close_index_file, files, history
  <2>2. CASE write_desc(w) \/ write_data(w)
    <3>1. PICK t \in Seq(Cell) : log' = log \o t
      BY <1>0, <2>2, AtWork DEF write_desc, write_data, Goto
    <3>2. UNCHANGED <<index, records>> /\ ~torn
      BY <2>2 DEF write_desc, write_data, history
    <3>3. Fields * Len(records) <= Len(index) /\ Len(records) \in Nat
          /\ Len(index) \in Nat
      BY <1>0, <3>2, IndexLong, LenProperties DEF TypeOK, Begun
    <3>4. ASSUME NEW k \in 1 .. Len(records)
          PROVE  Leads(k)'
      <4>1. Fields * k <= Len(index) /\ k \in Nat \ {0}
        BY <3>3 DEF Fields
      <4>2. Leads(k)
        BY <1>0, <3>2 DEF Committed
      <4> QED
        BY <1>0, <3>1, <3>2, <3>3, <4>1, <4>2, LeadsKept
    <3> QED
      BY <3>2, <3>4 DEF Committed
  <2>3. CASE write_time(w) \/ write_pos(w) \/ write_desc_len(w) \/ write_total_len(w)
    <3>1. /\ ~torn /\ log' = log
      BY <2>3 DEF write_time, write_pos, write_desc_len, write_total_len, write_index
    <3>2. Fields * Len(records) <= Len(index) /\ Len(records) \in Nat
          /\ Len(index) \in Nat
      BY <1>0, <3>1, IndexLong, LenProperties DEF TypeOK, Begun
    <3>3. \A i \in 1 .. Len(index) : index'[i] = index[i]
      <4>1. PICK value \in Nat : index' = Append(index, value)
        <5>1. CASE write_time(w)
          BY <1>0, <5>1 DEF TypeOK, Time, write_time, write_index
        <5>2. CASE write_pos(w)
          BY <1>0, <5>2 DEF TypeOK, write_pos, write_index
        <5>3. CASE write_desc_len(w) \/ write_total_len(w)
          <6>1. unit_count[w] \in Nat
            BY <1>0 DEF TypeOK
          <6> QED
            BY <5>3, <6>1 DEF write_desc_len, write_total_len, write_index
        <5> QED
          BY <2>3, <5>1, <5>2, <5>3
      <4> QED
        BY <1>0, <4>1, AppendProperties DEF TypeOK
    <3>4. ASSUME NEW k \in 1 .. Len(records), records'[k] = records[k]
          PROVE  Leads(k)'
      <4>1. Fields * k <= Len(index) /\ k \in Nat \ {0}
        BY <3>2 DEF Fields
      <4>2. Leads(k)
        BY <1>0, <3>1 DEF Committed
      <4>3. log' = log \o <<>> /\ <<>> \in Seq(Cell)
        BY <1>0, <3>1, ConcatEmptySeq DEF TypeOK
      <4> QED
        BY <1>0, <3>2, <3>3, <3>4, <4>1, <4>2, <4>3, LeadsKept
    <3>5. CASE write_total_len(w)
      <4>1. pc[w] = "total_len"
        BY <3>5 DEF write_total_len, write_index, Goto
      <4>2. /\ \E n \in Nat : n = Len(records)
            /\ \E u \in Nat : u = unit_count[w]
            /\ pos[w] \in Nat
            /\ \E cells \in Seq(Cell) : cells = Cells(w, "desc") \o Cells(w, "data")
        BY <1>0, <3>2, <4>1, AtWork DEF TypeOK
      <4> PICK n \in Nat : n = Len(records)
        BY <4>2
      <4> PICK u \in Nat : u = unit_count[w]
        BY <4>2
      <4> PICK cells \in Seq(Cell) : cells = Cells(w, "desc") \o Cells(w, "data")
        BY <4>2
      <4>3. /\ Len(index) = Fields * n + 3 /\ index[Fields * n + 2] = pos[w]
            /\ index[Fields * n + 3] = 2 * u
        BY <1>0, <3>1, <4>1 DEF IndexShape, base
      <4>4. /\ pos[w] + 2 * u <= Len(log)
            /\ SubSeq(log, pos[w] + 1, pos[w] + 2 * u) = cells
        BY <1>0, <4>1 DEF LogShape, InRecord
      <4>5. /\ Len(records') = n + 1
            /\ \A k \in 1 .. n : records'[k] = records[k]
            /\ records'[n + 1].time = index[Len(index) - 2]
            /\ records'[n + 1].cells = cells
        <5>1. PICK rec \in Record : /\ records' = Append(records, rec)
                                   /\ rec.time = index[Len(index) - 2]
                                   /\ rec.cells = cells
          <6>1. Len(index) - 2 \in 1 .. Len(index)
            BY <3>2, <4>3 DEF Fields
          <6>2. index[Len(index) - 2] \in Nat
            BY <1>0, <6>1, ElementOfSeq DEF TypeOK
          <6>3. [time |-> index[Len(index) - 2], cells |-> cells] \in Record
            BY <6>2 DEF Record
          <6>4. records' = Append(records, [time |-> index[Len(index) - 2], cells |-> cells])
            BY <3>5 DEF write_total_len
          <6> QED
            BY <6>3, <6>4
        <5> QED
          BY <1>0, <5>1, AppendProperties DEF Begun
      <4>6. Leads(n + 1)'
        <5>1. PICK f \in Nat : f = Fields * n + 1
          BY <3>2 DEF Fields
        <5>2. /\ index'[f] = records'[n + 1].time /\ index'[f + 1] = pos[w]
              /\ index'[f + 2] = 2 * u
          <6>1. /\ Len(index) - 2 = f /\ f + 1 = Fields * n + 2 /\ f + 2 = Fields * n + 3
                /\ f \in 1 .. Len(index) /\ f + 1 \in 1 .. Len(index)
                /\ f + 2 \in 1 .. Len(index)
            BY <3>2, <4>3, <5>1 DEF Fields
          <6>2. /\ index[f] = records'[n + 1].time /\ index[f + 1] = pos[w]
                /\ index[f + 2] = 2 * u
            BY <4>3, <4>5, <6>1
          <6> QED
            BY <3>3, <6>1, <6>2
        <5>3. pos[w] + 2 * ((2 * u) \div 2) = pos[w] + 2 * u
          BY <4>2
        <5>4. Fields * ((n + 1) - 1) + 1 = f
          BY <3>2, <5>1 DEF Fields
        <5> QED
          BY <3>1, <4>4, <4>5, <5>2, <5>3, <5>4 DEF Leads
      <4>7. ASSUME NEW k \in 1 .. Len(records')
            PROVE  Leads(k)'
        <5>1. k \in 1 .. n \/ k = n + 1
          BY <3>2, <4>5
        <5> QED
          BY <3>4, <4>5, <4>6, <5>1
      <4> QED
        BY <4>7 DEF Committed
    <3> QED
      BY <2>3, <3>4, <3>5 DEF Committed, write_time, write_pos, write_desc_len
  <2> QED
    BY <1>2, <2>1, <2>2, <2>3 DEF WriterStep
<1>3. ASSUME NEW w \in Writer, Crash(w)
      PROVE  Committed'
  BY <1>1, <1>3 DEF Crash, files
<1>4. ASSUME NEW v \in Reader, ReaderStep(v)
      PROVE  Committed'
  BY <1>0, <1>1, <1>4, ReadersLeaveWriters DEF WritersRest, files, history
<1>5. ASSUME Tick \/ Finished \/ UNCHANGED vars
      PROVE  Committed'
  BY <1>1, <1>5 DEF Tick, Finished, vars, files, history
<1> QED
  BY <1>2, <1>3, <1>4, <1>5 DEF Next, ReaderStep

-----------------------------------------------------------------------------
(* The theorems.                                                           *)

LEMMA Invariance == Spec => []IInv
<1>1. ASSUME IInv, [Next]_vars
      PROVE  IInv'
  BY <1>1, TypeStep, LockStep, FilesStep, IndexStep, LogStep, CommitStep DEF IInv
<1> QED
  BY <1>1, Begins, PTL DEF Spec

(* The variables keep their types, and the index is locked by one writer   *)
(* or by viewers, although the code never succeeds in unlocking it.        *)
THEOREM LockExcludes == Spec => [](TypeOK /\ LocksExclude)
<1>1. IInv => TypeOK /\ LocksExclude
  BY DEF IInv
<1> QED
  BY <1>1, Invariance, PTL

(* The k-th record of the index leads to the units of the k-th committed   *)
(* record: log_write's appends (libsimplelog.c:56-64) under the write lock.*)
THEOREM IndexLeads == Spec => []IndexLeadsToRecords
<1>1. ASSUME IInv
      PROVE  IndexLeadsToRecords
  <2>1. SUFFICES ASSUME ~torn, NEW k \in DOMAIN records
                 PROVE  /\ index[Fields * (k - 1) + 1] = records[k].time
                        /\ Stored(index[Fields * (k - 1) + 1 + 1],
                                  index[Fields * (k - 1) + 1 + 2])
                             = records[k].cells
    BY DEF IndexLeadsToRecords
  <2>2. Leads(k)
    BY <1>1, <2>1, LenProperties DEF IInv, Committed, Begun
  <2> QED
    BY <2>2 DEF Leads, Stored
<1> QED
  BY <1>1, Invariance, PTL

(* A view that fails for a missing file (libsimplelog.c:134, 138) began    *)
(* before the first record was committed.                                  *)
THEOREM ViewFailsEarly == Spec => ViewFailsOnlyBeforeFirstRecord
<1> DEFINE A == \A v \in Reader :
                  pc[v] # "failed" /\ pc'[v] = "failed" => records = <<>>
<1>1. ASSUME IInv, [Next]_vars
      PROVE  [A]_vars
  <2>1. TypeOK /\ Begun /\ FilesExist
    BY <1>1 DEF IInv
  <2>2. SUFFICES ASSUME NEW v \in Reader, pc[v] # "failed", pc'[v] = "failed"
                 PROVE  records = <<>>
    OBVIOUS
  <2>3. v \in Process /\ v \notin Writer
    BY LogAssumption DEF Process
  <2>4. ~indexExists \/ ~logExists
    <3>1. ASSUME NEW w \in Writer, WriterStep(w) \/ Crash(w)
          PROVE  pc'[v] = pc[v]
      BY <2>1, <2>3, <3>1 DEF Begun, WriterStep, Crash, log_add_unit, open_index_file,
         lock_index_file_w, open_log_file, write_desc, write_data, write_time,
         write_pos, write_desc_len, write_total_len, write_index,
         unlock_index_file_w, close_index_file, Goto
    <3>2. ASSUME NEW u \in Reader, u # v, ReaderStep(u)
          PROVE  pc'[v] = pc[v]
      BY <2>1, <2>3, <3>2 DEF Begun, ReaderStep, ViewStep, open_view,
         lock_index_file_r, open_log_r, read_time, skip_record, take_record, stop_view,
         Goto
    <3>3. CASE ReaderStep(v)
      <4>1. CASE \E begin, end \in Time : open_view(v, begin, end)
        BY <2>1, <2>2, <2>3, <4>1 DEF Begun, open_view, Goto
      <4>2. CASE ViewStep(v)
        BY <2>1, <2>2, <2>3, <4>2 DEF Begun, ViewStep, lock_index_file_r, open_log_r,
           read_time, skip_record, take_record, stop_view, Goto
      <4> QED
        BY <3>3, <4>1, <4>2 DEF ReaderStep
    <3>4. ASSUME Tick \/ Finished \/ UNCHANGED vars
          PROVE  pc'[v] = pc[v]
      BY <3>4 DEF Tick, Finished, vars
    <3> QED
      BY <1>1, <2>2, <3>1, <3>2, <3>3, <3>4 DEF Next, ReaderStep
  <2> QED
    BY <2>1, <2>4 DEF FilesExist
<1>2. IInv /\ [Next]_vars => [A]_vars
  BY <1>1
<1> QED
  BY <1>2, Invariance, PTL DEF Spec, ViewFailsOnlyBeforeFirstRecord

-----------------------------------------------------------------------------
(* For the abstract log: times grow along the records, the record at work  *)
(* and the clock included ...                                              *)
TimesGrow ==
    ~torn =>
      /\ \A j, k \in 1 .. Len(records) : j <= k => records[j].time <= records[k].time
      /\ \A k \in 1 .. Len(records) : records[k].time <= now
      /\ \A w \in Writer : pc[w] \in InRecord =>
           /\ index[base + 1] <= now
           /\ \A k \in 1 .. Len(records) : records[k].time <= index[base + 1]

(* ... a view holds its lock from the opening of the log to its end ...    *)
Viewing == {"ropen", "skip", "skipping", "take", "taking"}
ViewLocks == \A v \in Reader : pc[v] \in Viewing => lock[v] = "read"

(* ... and has skipped the records 1 .. m, all before its range, and shown *)
(* m + 1 .. n, all in it; at[v] is before or inside the next one.          *)
Seen(v, m, n) ==
    /\ shown[v] = SubSeq(records, m + 1, n)
    /\ \A k \in 1 .. m : records[k].time < range[v][1]
    /\ \A k \in m + 1 .. n : records[k].time \in range[v][1] .. range[v][2]
Before(v, n) == at[v] = Fields * n
Inside(v, n) ==
    n < Len(records) /\ at[v] = Fields * n + 1 /\ ct[v] = records[n + 1].time
ViewOf(v) ==
    /\ pc[v] \in {"idle", "rlock", "ropen"} => shown[v] = <<>> /\ at[v] = 0
    /\ pc[v] \in {"skip", "skipping"} => \E m \in 0 .. Len(records) :
         Seen(v, m, m) /\ IF pc[v] = "skip" THEN Before(v, m) ELSE Inside(v, m)
    /\ pc[v] \in {"take", "taking"} => \E m, n \in 0 .. Len(records) :
         /\ m < n /\ Seen(v, m, n)
         /\ IF pc[v] = "take" THEN Before(v, n) ELSE Inside(v, n)
ViewShape == ~torn => \A v \in Reader : ViewOf(v)
VInv == DOMAIN shown = Reader /\ TimesGrow /\ ViewLocks /\ ViewShape

LEMMA ViewBegins == Init => VInv
<1> SUFFICES ASSUME Init
             PROVE  VInv
  OBVIOUS
<1>1. records = <<>> /\ pc = [p \in Process |-> "idle"]
  BY DEF Init
<1>2. TimesGrow /\ ViewLocks
  BY <1>1 DEF TimesGrow, ViewLocks, Viewing, InRecord, Process
<1>3. ViewShape /\ DOMAIN shown = Reader
  BY DEF Init, ViewShape, ViewOf, Process
<1> QED
  BY <1>2, <1>3 DEF VInv

(* The record at work is one writer's, under its lock.                     *)
LEMMA OneInRecord ==
    ASSUME LocksExclude, NEW w \in Writer, pc[w] \in Holding
    PROVE  \A u \in Writer : u # w => pc[u] \notin InRecord
BY OneHolds DEF Holding, InRecord

LEMMA TimesTyped ==
    ASSUME TypeOK, Begun
    PROVE  /\ now \in Nat /\ Len(records) \in Nat /\ Len(index) \in Nat
           /\ \A k \in 1 .. Len(records) : records[k].time \in Nat
           /\ \A i \in 1 .. Len(index) : index[i] \in Nat
<1>1. now \in Nat
  BY LogAssumption DEF TypeOK, Time
<1>2. Len(records) \in Nat /\ Len(index) \in Nat
  BY LenProperties DEF TypeOK, Begun
<1>3. \A k \in 1 .. Len(records) : records[k] \in Record
  BY ElementOfSeq DEF Begun
<1>4. \A i \in 1 .. Len(index) : index[i] \in Nat
  BY ElementOfSeq DEF TypeOK
<1> QED
  BY <1>1, <1>2, <1>3, <1>4 DEF Record

(* What a step that neither commits nor writes the index leaves.           *)
LEMMA TimesKept ==
    ASSUME TypeOK, Begun, TimesGrow, UNCHANGED <<index, records>>, now' \in Nat, now <= now',
           torn \/ torn' \/ \A w \in Writer : pc'[w] \in InRecord => pc[w] \in InRecord,
           torn => torn', ~torn => IndexShape
    PROVE  TimesGrow'
<1> SUFFICES ASSUME ~torn'
             PROVE  TimesGrow'
  BY DEF TimesGrow
<1>1. ~torn /\ \A w \in Writer : pc'[w] \in InRecord => pc[w] \in InRecord
  OBVIOUS
<1>2. /\ now \in Nat /\ Len(records) \in Nat /\ Len(index) \in Nat
      /\ \A k \in 1 .. Len(records) : records[k].time \in Nat
      /\ \A i \in 1 .. Len(index) : index[i] \in Nat
  BY TimesTyped
<1>3. base' = base /\ base \in Nat
  BY <1>2 DEF base, Fields
<1>4. \A k \in 1 .. Len(records) : records[k].time <= now'
  BY <1>1, <1>2 DEF TimesGrow
<1>5. ASSUME NEW w \in Writer, pc'[w] \in InRecord
      PROVE  /\ index[base + 1] <= now'
             /\ \A k \in 1 .. Len(records) : records[k].time <= index[base + 1]
  <2>1. pc[w] \in InRecord
    BY <1>1, <1>5
  <2>2. base + 1 \in 1 .. Len(index)
    BY <1>1, <1>2, <1>3, <2>1 DEF IndexShape, InRecord
  <2>3. index[base + 1] \in Nat /\ index[base + 1] <= now
    BY <1>1, <1>2, <2>1, <2>2 DEF TimesGrow
  <2> QED
    BY <1>1, <1>2, <2>1, <2>3 DEF TimesGrow
<1> QED
  BY <1>1, <1>3, <1>4, <1>5 DEF TimesGrow

LEMMA TimesStep ==
    ASSUME IInv, TimesGrow, [Next]_vars
    PROVE  TimesGrow'
<1> USE LogAssumption DEF Process
<1>0. /\ TypeOK /\ Begun /\ LocksExclude /\ IndexShape
      /\ /\ now \in Nat /\ Len(records) \in Nat /\ Len(index) \in Nat
         /\ \A k \in 1 .. Len(records) : records[k].time \in Nat
         /\ \A i \in 1 .. Len(index) : index[i] \in Nat
  BY TimesTyped DEF IInv
<1>1. ASSUME NEW w \in Writer, WriterStep(w)
      PROVE  TimesGrow'
  <2>1. CASE \/ log_add_unit(w) \/ open_index_file(w) \/ lock_index_file_w(w)
             \/ open_log_file(w) \/ write_desc(w) \/ write_data(w)
             \/ unlock_index_file_w(w) \/ close_index_file(w)
    <3>1. UNCHANGED <<index, now, history>>
      BY <2>1 DEF log_add_unit, open_index_file, lock_index_file_w, open_log_file,
         write_desc, write_data, unlock_index_file_w, close_index_file, files
    <3>2. \A u \in Writer : pc'[u] \in InRecord => pc[u] \in InRecord
      BY <1>0, <2>1 DEF Begun, InRecord, log_add_unit, open_index_file, lock_index_file_w,
         open_log_file, write_desc, write_data, unlock_index_file_w, close_index_file, Goto
    <3> QED
      BY <1>0, <3>1, <3>2, TimesKept DEF history
  <2>2. CASE write_time(w)
    <3>1. /\ pc[w] = "time" /\ pc'[w] = "pos"
          /\ \A u \in Writer : u # w => pc'[u] = pc[u]
      <4>1. Goto(w, "time", "pos")
        BY <2>2 DEF write_time, write_index
      <4> QED
        BY <1>0, <4>1, Goes DEF WriterPcs
    <3>2. \A u \in Writer : u # w => pc[u] \notin InRecord
      BY <1>0, <3>1, OneInRecord DEF Holding
    <3>3. UNCHANGED <<records, now, torn>>
      BY <2>2 DEF write_time, write_index
    <3>4. index'[Len(index) + 1] = now
      BY <1>0, <2>2, IndexGrows DEF write_time
    <3>5. ~torn => Len(index) = base
      BY <1>0, <3>1, <3>2 DEF IndexShape, InRecord
    <3>6. base' = base
      BY <3>3 DEF base
    <3> QED
      BY <1>0, <3>1, <3>2, <3>3, <3>4, <3>5, <3>6 DEF TimesGrow
  <2>3. CASE write_pos(w) \/ write_desc_len(w)
    <3>1. /\ pc[w] \in InRecord /\ \A u \in Writer : u # w => pc'[u] = pc[u]
      BY <1>0, <2>3 DEF Begun, write_pos, write_desc_len, write_index, Goto, InRecord
    <3>2. \A u \in Writer : u # w => pc'[u] \notin InRecord
      BY <1>0, <3>1, OneInRecord DEF Holding, InRecord
    <3>3. UNCHANGED <<records, now, torn>>
      BY <2>3 DEF write_pos, write_desc_len, write_index
    <3>4. \A i \in 1 .. Len(index) : index'[i] = index[i]
      <4>1. pos[w] \in Nat /\ 2 * unit_count[w] \in Nat
        BY <1>0 DEF TypeOK
      <4> QED
        BY <1>0, <2>3, <4>1, IndexGrows DEF write_pos, write_desc_len
    <3>5. ~torn => base + 1 \in 1 .. Len(index)
      BY <1>0, <3>1 DEF IndexShape, InRecord, base, Fields
    <3>6. base' = base
      BY <3>3 DEF base
    <3> QED
      BY <1>0, <3>1, <3>2, <3>3, <3>4, <3>5, <3>6 DEF TimesGrow
  <2>4. CASE write_total_len(w)
    <3>1. /\ pc[w] = "total_len" /\ pc'[w] = "unlock"
          /\ \A u \in Writer : u # w => pc'[u] = pc[u]
      <4>1. Goto(w, "total_len", "unlock")
        BY <2>4 DEF write_total_len, write_index
      <4> QED
        BY <1>0, <4>1, Goes DEF WriterPcs
    <3>2. \A u \in Writer : pc'[u] \notin InRecord
      BY <1>0, <3>1, OneInRecord DEF Holding, InRecord
    <3>3. UNCHANGED <<now, torn>>
      BY <2>4 DEF write_total_len, write_index
    <3>4. PICK n \in Nat : n = Len(records)
      BY <1>0
    <3>5. ~torn => Len(index) - 2 = base + 1 /\ base + 1 \in 1 .. Len(index)
      BY <1>0, <3>1 DEF IndexShape, base, Fields
    <3>6. ~torn => /\ Len(records') = n + 1 /\ \A k \in 1 .. n : records'[k] = records[k]
                   /\ records'[n + 1].time = index[base + 1]
      <4>1. SUFFICES ASSUME ~torn
                     PROVE  /\ Len(records') = n + 1
                            /\ \A k \in 1 .. n : records'[k] = records[k]
                            /\ records'[n + 1].time = index[base + 1]
        OBVIOUS
      <4>2. PICK cells \in Seq(Cell) : cells = Cells(w, "desc") \o Cells(w, "data")
        BY <1>0, <3>1, AtWork
      <4>3. PICK rec \in Record : /\ records' = Append(records, rec)
                                  /\ rec.time = index[base + 1]
        <5>1. records' = Append(records, [time |-> index[base + 1], cells |-> cells])
          BY <2>4, <3>5, <4>1, <4>2 DEF write_total_len
        <5>2. [time |-> index[base + 1], cells |-> cells] \in Record
          BY <1>0, <3>5, <4>1 DEF Record
        <5> QED
          BY <5>1, <5>2
      <4> QED
        BY <1>0, <3>4, <4>3, AppendProperties DEF Begun
    <3>7. ~torn => /\ index[base + 1] \in Nat /\ index[base + 1] <= now
                   /\ \A k \in 1 .. n : records[k].time <= index[base + 1]
      BY <1>0, <3>1, <3>4, <3>5 DEF TimesGrow, InRecord
    <3>8. ~torn => \A k \in 1 .. n + 1 : k \in 1 .. n \/ k = n + 1
      BY <3>4
    <3>9. ~torn => \A j, k \in 1 .. n + 1 :
            /\ records'[k].time <= now
            /\ j <= k => records'[j].time <= records'[k].time
      <4>1. SUFFICES ASSUME ~torn, NEW j \in 1 .. n + 1, NEW k \in 1 .. n + 1
                     PROVE  /\ records'[k].time <= now
                            /\ j <= k => records'[j].time <= records'[k].time
        OBVIOUS
      <4>2. CASE k \in 1 .. n
        BY <1>0, <3>4, <3>6, <4>1, <4>2 DEF TimesGrow
      <4>3. CASE k = n + 1
        <5>1. CASE j = n + 1
          BY <3>6, <3>7, <4>1, <4>3, <5>1
        <5>2. CASE j \in 1 .. n
          BY <3>6, <3>7, <4>1, <4>3, <5>2
        <5> QED
          BY <3>8, <4>1, <5>1, <5>2
      <4> QED
        BY <3>8, <4>1, <4>2, <4>3
    <3> QED
      BY <3>2, <3>3, <3>6, <3>9 DEF TimesGrow
  <2> QED
    BY <1>1, <2>1, <2>2, <2>3, <2>4 DEF WriterStep
<1>2. ASSUME NEW w \in Writer, Crash(w)
      PROVE  TimesGrow'
  <2>1. UNCHANGED <<index, records, now>> /\ (torn => torn')
    BY <1>2 DEF Crash, files
  <2>2. \A u \in Writer : pc'[u] \in InRecord => pc[u] \in InRecord
    BY <1>0, <1>2 DEF Begun, Crash, InRecord
  <2> QED
    BY <1>0, <2>1, <2>2, TimesKept
<1>3. ASSUME NEW v \in Reader, ReaderStep(v)
      PROVE  TimesGrow'
  <2>1. WritersRest /\ UNCHANGED now
    BY <1>0, <1>3, ReadersLeaveWriters DEF ReaderStep, ViewStep, open_view, lock_index_file_r,
       open_log_r, read_time, skip_record, take_record, stop_view
  <2> QED
    BY <1>0, <2>1, TimesKept DEF WritersRest, files, history
<1>4. ASSUME Tick \/ Finished \/ UNCHANGED vars
      PROVE  TimesGrow'
  <2>1. UNCHANGED <<index, records, torn, pc>> /\ now' \in Nat /\ now <= now'
    BY <1>0, <1>4 DEF Tick, Finished, vars, files, history
  <2> QED
    BY <1>0, <2>1, TimesKept
<1> QED
  BY <1>1, <1>2, <1>3, <1>4 DEF Next, ReaderStep

LEMMA ViewLocksStep ==
    ASSUME TypeOK, Begun, LocksExclude, ViewLocks, [Next]_vars
    PROVE  ViewLocks'
<1> USE LogAssumption DEF Process, Viewing
<1>1. ASSUME NEW w \in Writer, WriterStep(w) \/ Crash(w)
      PROVE  ViewLocks'
  <2>1. \A v \in Reader : pc'[v] = pc[v]
    BY <1>1 DEF Begun, WriterStep, Crash, log_add_unit, open_index_file,
       lock_index_file_w, open_log_file, write_desc, write_data, write_time,
       write_pos, write_desc_len, write_total_len, write_index,
       unlock_index_file_w, close_index_file, Goto
  <2>2. \A v \in Reader : lock'[v] = lock[v]
    BY <1>1 DEF TypeOK, WriterStep, Crash, log_add_unit, open_index_file,
       lock_index_file_w, open_log_file, write_desc, write_data, write_time,
       write_pos, write_desc_len, write_total_len, write_index,
       unlock_index_file_w, close_index_file, F_SETLKW, F_SETLK_ULOCK, Close
  <2> QED
    BY <2>1, <2>2 DEF ViewLocks
<1>2. ASSUME NEW v \in Reader, ReaderStep(v)
      PROVE  ViewLocks'
  <2>1. \A u \in Reader : u # v => pc'[u] = pc[u] /\ lock'[u] = lock[u]
    BY <1>2 DEF TypeOK, Begun, ReaderStep, ViewStep, open_view, lock_index_file_r,
       open_log_r, read_time, skip_record, take_record, stop_view, F_SETLKW, Close, Goto
  <2>2. pc'[v] \in Viewing => lock'[v] = "read"
    <3>1. CASE \E begin, end \in Time : open_view(v, begin, end)
      BY <3>1 DEF Begun, open_view, Goto
    <3>2. CASE lock_index_file_r(v)
      BY <3>2 DEF TypeOK, lock_index_file_r, F_SETLKW
    <3>3. CASE open_log_r(v)
      BY <3>3 DEF Begun, ViewLocks, open_log_r, Goto
    <3>4. CASE read_time(v, "skip", "skipping") \/ read_time(v, "take", "taking")
      BY <3>4 DEF Begun, ViewLocks, read_time, Goto
    <3>5. CASE skip_record(v) \/ take_record(v) \/ stop_view(v)
      BY <3>5 DEF Begun, ViewLocks, skip_record, take_record, stop_view, Taking, Goto
    <3> QED
      BY <1>2, <3>1, <3>2, <3>3, <3>4, <3>5 DEF ReaderStep, ViewStep
  <2> QED
    BY <2>1, <2>2 DEF ViewLocks
<1>3. ASSUME Tick \/ Finished \/ UNCHANGED vars
      PROVE  ViewLocks'
  BY <1>3 DEF Tick, Finished, vars, ViewLocks
<1> QED
  BY <1>1, <1>2, <1>3 DEF Next, ReaderStep

(* While a view holds its lock nobody is at work in the index.             *)
LEMMA ViewExcludes ==
    ASSUME Begun, LocksExclude, IndexShape, ViewLocks, NEW v \in Reader, pc[v] \in Viewing
    PROVE  /\ \A w \in Writer : pc[w] \notin Holding
           /\ ~torn => Len(index) = base
<1>1. \A w \in Writer : pc[w] \notin Holding
  BY LogAssumption DEF ViewLocks, LocksExclude, Process
<1> QED
  BY <1>1 DEF IndexShape, InRecord, Holding

LEMMA ViewKept ==
    ASSUME NEW v \in Reader, ViewOf(v), pc'[v] = pc[v], records' = records,
           UNCHANGED <<range[v], at[v], ct[v], shown[v]>>
    PROVE  ViewOf(v)'
BY DEF ViewOf, Seen, Before, Inside

(* The record before or in which a view stands, as it reads it.            *)
LEMMA NextRecord ==
    ASSUME IInv, ~torn, NEW n \in 0 .. Len(records), Len(index) = base
    PROVE  /\ Fields * n < Len(index) <=> n < Len(records)
           /\ n < Len(records) =>
                /\ index[Fields * n + 1] = records[n + 1].time
                /\ Stored(Field(Fields * n + 2), Field(Fields * n + 3)) = records[n + 1].cells
<1>1. /\ TypeOK /\ Begun /\ Committed
      /\ Len(records) \in Nat /\ Len(index) = Fields * Len(records)
  BY TimesTyped DEF IInv, base
<1>2. Fields * n < Len(index) <=> n < Len(records)
  BY <1>1 DEF Fields
<1>3. ASSUME n < Len(records)
      PROVE  /\ index[Fields * n + 1] = records[n + 1].time
             /\ Stored(Field(Fields * n + 2), Field(Fields * n + 3)) = records[n + 1].cells
  <2>1. n + 1 \in 1 .. Len(records) /\ Fields * (n + 1 - 1) + 1 = Fields * n + 1
        /\ Fields * n + 1 + 1 = Fields * n + 2 /\ Fields * n + 1 + 2 = Fields * n + 3
    BY <1>1, <1>3 DEF Fields
  <2>2. Leads(n + 1)
    BY <1>1, <2>1 DEF Committed
  <2>3. /\ index[Fields * n + 1] = records[n + 1].time
        /\ index[Fields * n + 2] + 2 * (index[Fields * n + 3] \div 2) <= Len(log)
        /\ SubSeq(log, index[Fields * n + 2] + 1,
                  index[Fields * n + 2] + 2 * (index[Fields * n + 3] \div 2))
             = records[n + 1].cells
    BY <2>1, <2>2 DEF Leads
  <2>4. Fields * n + 2 \in DOMAIN index /\ Fields * n + 3 \in DOMAIN index
    <3>1. Fields * n + 2 \in 1 .. Len(index) /\ Fields * n + 3 \in 1 .. Len(index)
      BY <1>1, <1>3 DEF Fields
    <3> QED
      BY <1>1, <3>1, LenProperties DEF TypeOK
  <2> QED
    BY <2>3, <2>4 DEF Stored, Field
<1> QED
  BY <1>2, <1>3

LEMMA SubSeqAppends ==
    ASSUME NEW S, NEW s \in Seq(S), NEW m \in Nat, NEW n \in Nat, m <= n, n < Len(s)
    PROVE  Append(SubSeq(s, m + 1, n), s[n + 1]) = SubSeq(s, m + 1, n + 1)
<1> DEFINE u == SubSeq(s, m + 1, n)
<1>1. Len(s) \in Nat /\ n + 1 \in 1 .. Len(s) /\ n + 1 \in Nat /\ n + 1 <= Len(s)
  BY LenProperties
<1>2. s[n + 1] \in S
  BY <1>1, ElementOfSeq
<1>3. u \in Seq(S) /\ Len(u) = n - m /\ \A i \in 1 .. Len(u) : s[m + i] = u[i]
  BY <1>1, SubSeqAt
<1> HIDE DEF u
<1>4. PICK t \in Seq(S) : t = Append(u, s[n + 1])
  BY <1>2, <1>3, AppendProperties
<1>5. /\ Len(t) = n + 1 - m /\ t[n + 1 - m] = s[n + 1]
      /\ \A i \in 1 .. n - m : t[i] = s[m + i]
  <2>1. Len(t) = Len(u) + 1 /\ t[Len(u) + 1] = s[n + 1]
        /\ \A i \in 1 .. Len(u) : t[i] = u[i]
    <3>1. PICK e \in S : e = s[n + 1]
      BY <1>2
    <3>2. t = Append(u, e)
      BY <1>4, <3>1
    <3> QED
      BY <1>3, <3>1, <3>2, AppendProperties
  <2>2. Len(u) + 1 = n + 1 - m
    BY <1>3
  <2> QED
    BY <1>3, <2>1, <2>2
<1>6. \A i \in 1 .. Len(t) : s[m + i] = t[i]
  <2>1. SUFFICES ASSUME NEW i \in 1 .. n + 1 - m PROVE s[m + i] = t[i]
    BY <1>5
  <2>2. CASE i \in 1 .. n - m
    BY <1>5, <2>2
  <2>3. CASE i = n + 1 - m
    BY <1>5, <2>3
  <2> QED
    BY <2>2, <2>3
<1>7. Len(t) = IF m < n + 1 THEN n + 1 - m ELSE 0
  BY <1>5
<1>8. SubSeq(s, m + 1, n + 1) = t
  <2>1. PICK k \in Nat : k = n + 1
    BY <1>1
  <2> QED
    BY <1>1, <1>6, <1>7, <2>1, SubSeqIs
<1> QED
  BY <1>4, <1>8 DEF u

LEMMA NothingTaken ==
    ASSUME NEW S, NEW s \in Seq(S), NEW m \in 0 .. Len(s)
    PROVE  SubSeq(s, m + 1, m) = <<>>
<1>1. m \in Nat /\ m <= Len(s)
  BY LenProperties
<1>2. /\ SubSeq(s, m + 1, m) \in Seq(S) /\ Len(SubSeq(s, m + 1, m)) = 0
  BY <1>1, SubSeqAt
<1> QED
  BY <1>2, EmptySeq

(* A view in the middle of a record takes it or ends; the records up to it *)
(* are as ViewOf says.                                                     *)
LEMMA AtTaking ==
    ASSUME IInv, VInv, ~torn, NEW v \in Reader, Taking(v)
    PROVE  /\ Len(index) = base
           /\ \E m, n \in 0 .. Len(records) :
                /\ m <= n /\ Seen(v, m, n) /\ Inside(v, n)
                /\ ct[v] >= range[v][1]
<1>1. /\ TypeOK /\ Begun /\ LocksExclude /\ IndexShape
      /\ ViewLocks /\ ViewOf(v) /\ TimesGrow
      /\ range[v][1] \in Nat /\ ct[v] \in Nat
  BY LogAssumption DEF IInv, VInv, ViewShape, TypeOK, Time
<1>2. Len(index) = base
  BY <1>1, ViewExcludes DEF Taking, Viewing
<1>3. CASE pc[v] = "skipping" /\ ct[v] >= range[v][1]
  BY <1>1, <1>2, <1>3 DEF ViewOf
<1>4. CASE pc[v] = "taking"
  <2>1. PICK m, n \in 0 .. Len(records) : m < n /\ Seen(v, m, n) /\ Inside(v, n)
    BY <1>1, <1>4 DEF ViewOf
  <2>2. /\ Len(records) \in Nat
        /\ \A k \in 1 .. Len(records) : records[k].time \in Nat
    BY <1>1, TimesTyped
  <2>3. n \in m + 1 .. n /\ n \in 1 .. Len(records) /\ n + 1 \in 1 .. Len(records)
    BY <2>1, <2>2 DEF Inside
  <2>4. records[n].time >= range[v][1] /\ records[n].time <= records[n + 1].time
    BY <1>1, <2>1, <2>2, <2>3 DEF Seen, TimesGrow
  <2>5. ct[v] >= range[v][1]
    BY <1>1, <2>1, <2>2, <2>3, <2>4 DEF Inside
  <2> QED
    BY <1>2, <2>1, <2>2, <2>5
<1> QED
  BY <1>3, <1>4 DEF Taking

LEMMA ReaderSees ==
    ASSUME IInv, VInv, ~torn, NEW v \in Reader, ReaderStep(v)
    PROVE  ViewOf(v)'
<1> USE LogAssumption DEF Process
<1>1. /\ TypeOK /\ Begun /\ LocksExclude /\ IndexShape
      /\ ViewLocks /\ ViewOf(v) /\ TimesGrow /\ v \in Process
      /\ records \in Seq(Record) /\ Len(records) \in Nat /\ DOMAIN shown = Reader
  BY TimesTyped DEF IInv, VInv, ViewShape, Begun
<1>2. records' = records
  BY <1>1, ReadersLeaveWriters DEF WritersRest, history
<1>3. CASE \E begin, end \in Time : open_view(v, begin, end)
  <2>1. pc[v] = "idle" /\ pc'[v] \in {"rlock", "failed"} /\ UNCHANGED <<at, shown>>
    BY <1>1, <1>3 DEF Begun, open_view, Goto
  <2> QED
    BY <1>1, <2>1 DEF ViewOf
<1>4. CASE lock_index_file_r(v)
  <2>1. pc[v] = "rlock" /\ pc'[v] = "ropen" /\ UNCHANGED <<at, shown>>
    BY <1>1, <1>4 DEF Begun, lock_index_file_r, readerVars, Goto
  <2> QED
    BY <1>1, <2>1 DEF ViewOf
<1>5. CASE open_log_r(v)
  <2>1. pc[v] = "ropen" /\ pc'[v] \in {"skip", "failed"} /\ UNCHANGED <<at, shown, range>>
    BY <1>1, <1>5 DEF Begun, open_log_r, readerVars, Goto
  <2>2. shown[v] = <<>> /\ at[v] = 0
    BY <1>1, <2>1 DEF ViewOf
  <2>3. SubSeq(records, 0 + 1, 0) = <<>>
    BY <1>1, NothingTaken
  <2>4. Seen(v, 0, 0)' /\ Before(v, 0)' /\ 0 \in 0 .. Len(records)
    BY <1>1, <1>2, <2>1, <2>2, <2>3 DEF Seen, Before, Fields
  <2> QED
    BY <1>2, <2>1, <2>4 DEF ViewOf
<1>6. ASSUME NEW from, NEW to, read_time(v, from, to), NEW n \in 0 .. Len(records),
             pc[v] = from, from \in {"skip", "take"}, to \in {"skipping", "taking"},
             Before(v, n)
      PROVE  /\ UNCHANGED <<range, shown>>
             /\ (pc'[v] = to /\ Inside(v, n)') \/ pc'[v] = "done"
  <2>1. Len(index) = base
    BY <1>1, <1>6, ViewExcludes DEF Viewing
  <2>2. at[v] = Fields * n /\ at[v] \in Nat
    BY <1>6 DEF Before, Fields
  <2>3. CASE at[v] < Len(index)
    <3>1. n < Len(records) /\ index[Fields * n + 1] = records[n + 1].time
      BY <2>1, <2>2, <2>3, NextRecord
    <3>2. /\ ct'[v] = index[at[v] + 1] /\ at'[v] = at[v] + 1 /\ pc'[v] = to
      BY <1>1, <1>6, <2>3 DEF TypeOK, Begun, read_time, Goto
    <3> QED
      BY <1>2, <1>6, <2>2, <3>1, <3>2 DEF Inside, read_time
  <2>4. CASE ~(at[v] < Len(index))
    BY <1>1, <1>6, <2>4 DEF Begun, read_time, Goto
  <2> QED
    BY <2>3, <2>4
<1>7. CASE read_time(v, "skip", "skipping")
  <2>1. pc[v] = "skip"
    BY <1>7 DEF read_time
  <2>2. PICK m \in 0 .. Len(records) : Seen(v, m, m) /\ Before(v, m)
    BY <1>1, <2>1 DEF ViewOf
  <2>3. /\ UNCHANGED <<range, shown>>
        /\ (pc'[v] = "skipping" /\ Inside(v, m)') \/ pc'[v] = "done"
    BY <1>6, <1>7, <2>1, <2>2
  <2> QED
    BY <1>2, <2>2, <2>3 DEF ViewOf, Seen
<1>8. CASE read_time(v, "take", "taking")
  <2>1. pc[v] = "take"
    BY <1>8 DEF read_time
  <2>2. PICK m, n \in 0 .. Len(records) : m < n /\ Seen(v, m, n) /\ Before(v, n)
    BY <1>1, <2>1 DEF ViewOf
  <2>3. /\ UNCHANGED <<range, shown>>
        /\ (pc'[v] = "taking" /\ Inside(v, n)') \/ pc'[v] = "done"
    BY <1>6, <1>8, <2>1, <2>2
  <2> QED
    BY <1>2, <2>2, <2>3 DEF ViewOf, Seen
<1>9. CASE skip_record(v)
  <2>1. pc[v] = "skipping" /\ pc'[v] = "skip" /\ ct[v] < range[v][1]
    BY <1>1, <1>9 DEF Begun, skip_record, Goto
  <2>2. PICK m \in 0 .. Len(records) : Seen(v, m, m) /\ Inside(v, m)
    BY <1>1, <2>1 DEF ViewOf
  <2>3. at'[v] = at[v] + 3 /\ UNCHANGED <<range, shown>>
    BY <1>1, <1>9 DEF TypeOK, skip_record, Fields
  <2>4. PICK k \in 0 .. Len(records) : k = m + 1
    BY <1>1, <2>2 DEF Inside
  <2>5. SubSeq(records, m + 1, m) = <<>> /\ SubSeq(records, k + 1, k) = <<>>
    BY <1>1, NothingTaken
  <2>6. \A j \in 1 .. k : records[j].time < range[v][1]
    <3>1. \A j \in 1 .. k : j \in 1 .. m \/ j = m + 1
      BY <1>1, <2>4
    <3> QED
      BY <2>1, <2>2, <3>1 DEF Seen, Inside
  <2>7. Seen(v, k, k)'
    BY <1>1, <1>2, <2>2, <2>3, <2>4, <2>5, <2>6 DEF Seen
  <2>8. Before(v, k)'
    BY <1>1, <2>2, <2>3, <2>4 DEF Before, Inside, Fields
  <2> QED
    BY <1>2, <2>1, <2>7, <2>8 DEF ViewOf
<1>10. CASE take_record(v)
  <2>1. Taking(v) /\ ct[v] <= range[v][2] /\ pc'[v] = "take" /\ UNCHANGED range
    BY <1>1, <1>10 DEF Begun, take_record
  <2>2. PICK m, n \in 0 .. Len(records) :
          m <= n /\ Seen(v, m, n) /\ Inside(v, n) /\ ct[v] >= range[v][1]
    BY <2>1, AtTaking
  <2>3. PICK k \in 0 .. Len(records) : k = n + 1
    BY <1>1, <2>2 DEF Inside
  <2>4. /\ n < Len(records) /\ at[v] = Fields * n + 1 /\ ct[v] = records[n + 1].time
    BY <2>2 DEF Inside
  <2>5. Stored(Field(at[v] + 1), Field(at[v] + 2)) = records[n + 1].cells
    <3>1. at[v] + 1 = Fields * n + 2 /\ at[v] + 2 = Fields * n + 3
      BY <2>4 DEF Fields
    <3>2. Len(index) = base
      BY <2>1, AtTaking
    <3> QED
      BY <2>4, <3>1, <3>2, NextRecord
  <2>6. shown'[v] = Append(shown[v], records[n + 1])
    <3>1. records[n + 1] \in Record
      BY <1>1, <2>4, ElementOfSeq
    <3>2. records[n + 1] = [time |-> records[n + 1].time, cells |-> records[n + 1].cells]
      BY <3>1 DEF Record
    <3>3. shown'[v] = Append(shown[v], [time |-> ct[v],
                        cells |-> Stored(Field(at[v] + 1), Field(at[v] + 2))])
      BY <1>1, <1>10 DEF take_record
    <3> QED
      BY <2>4, <2>5, <3>2, <3>3
  <2>7. shown'[v] = SubSeq(records, m + 1, k)
    <3>1. m \in Nat /\ n \in Nat
      BY <1>1
    <3>2. Append(SubSeq(records, m + 1, n), records[n + 1]) = SubSeq(records, m + 1, n + 1)
      BY <1>1, <2>2, <2>4, <3>1, SubSeqAppends
    <3> QED
      BY <2>2, <2>3, <2>6, <3>2 DEF Seen
  <2>8. \A j \in m + 1 .. k : records[j].time \in range[v][1] .. range[v][2]
    <3>1. \A j \in m + 1 .. k : j \in m + 1 .. n \/ j = n + 1
      BY <1>1, <2>2, <2>3
    <3>2. ct[v] \in range[v][1] .. range[v][2]
      BY <1>1, <2>1, <2>2 DEF TypeOK, Time
    <3> QED
      BY <2>2, <2>4, <3>1, <3>2 DEF Seen
  <2>9. at'[v] = Fields * k
    <3>1. at'[v] = at[v] + 3
      BY <1>1, <1>10 DEF TypeOK, take_record, Fields
    <3> QED
      BY <1>1, <2>3, <2>4, <3>1 DEF Fields
  <2>10. m < k
    BY <1>1, <2>2, <2>3
  <2> QED
    BY <1>2, <2>1, <2>2, <2>7, <2>8, <2>9, <2>10 DEF ViewOf, Seen, Before
<1>11. CASE stop_view(v)
  BY <1>1, <1>11 DEF Begun, ViewOf, stop_view
<1> QED
  BY <1>3, <1>4, <1>5, <1>7, <1>8, <1>9, <1>10, <1>11 DEF ReaderStep, ViewStep

LEMMA ViewStepKeeps ==
    ASSUME IInv, VInv, [Next]_vars
    PROVE  VInv'
<1> USE LogAssumption DEF Process
<1>0. /\ TypeOK /\ Begun /\ LocksExclude /\ IndexShape
      /\ ViewLocks /\ TimesGrow /\ DOMAIN shown = Reader
  BY DEF IInv, VInv
<1>1. TimesGrow' /\ ViewLocks'
  BY <1>0, TimesStep, ViewLocksStep
<1>2. DOMAIN shown' = Reader
  BY <1>0 DEF Next, WriterStep, Crash, ViewStep, Tick, Finished, log_add_unit,
     open_index_file, lock_index_file_w, open_log_file, write_desc, write_data, write_time,
     write_pos, write_desc_len, write_total_len, write_index, unlock_index_file_w,
     close_index_file, open_view, lock_index_file_r, open_log_r, read_time, skip_record,
     take_record, stop_view, readerVars, vars
<1>3. SUFFICES ASSUME ~torn', NEW v \in Reader
               PROVE  ViewOf(v)'
  BY <1>1, <1>2 DEF VInv, ViewShape
<1>4. ASSUME NEW w \in Writer, WriterStep(w) \/ Crash(w)
      PROVE  ViewOf(v)'
  <2>1. pc'[v] = pc[v] /\ UNCHANGED readerVars /\ ~torn
    <3>1. pc'[v] = pc[v]
      BY <1>0, <1>4 DEF Begun, WriterStep, Crash, log_add_unit, open_index_file,
         lock_index_file_w, open_log_file, write_desc, write_data, write_time,
         write_pos, write_desc_len, write_total_len, write_index,
         unlock_index_file_w, close_index_file, Goto
    <3>2. UNCHANGED readerVars
      BY <1>4 DEF WriterStep, Crash, log_add_unit, open_index_file,
         lock_index_file_w, open_log_file, write_desc, write_data, write_time,
         write_pos, write_desc_len, write_total_len, write_index,
         unlock_index_file_w, close_index_file
    <3>3. torn => torn'
      BY <1>4 DEF WriterStep, Crash, log_add_unit, open_index_file,
         lock_index_file_w, open_log_file, write_desc, write_data, write_time,
         write_pos, write_desc_len, write_total_len, write_index,
         unlock_index_file_w, close_index_file, history
    <3> QED
      BY <1>3, <3>1, <3>2, <3>3
  <2>2. ViewOf(v)
    BY <2>1 DEF VInv, ViewShape
  <2>3. CASE write_total_len(w)
    <3>1. pc[w] \in Holding
      BY <2>3 DEF write_total_len, write_index, Goto, Holding
    <3>2. pc[v] \notin Viewing
      BY <1>0, <3>1, ViewExcludes
    <3> QED
      BY <2>1, <2>2, <3>2 DEF ViewOf, Viewing, readerVars
  <2>4. CASE ~write_total_len(w)
    <3>1. records' = records
      BY <1>4, <2>4 DEF WriterStep, Crash, log_add_unit, open_index_file,
         lock_index_file_w, open_log_file, write_desc, write_data, write_time,
         write_pos, write_desc_len, unlock_index_file_w, close_index_file, history
    <3> QED
      BY <2>1, <2>2, <3>1, ViewKept DEF readerVars
  <2> QED
    BY <2>3, <2>4
<1>5. ASSUME NEW u \in Reader, ReaderStep(u)
      PROVE  ViewOf(v)'
  <2>1. UNCHANGED <<records, torn>>
    BY <1>0, <1>5, ReadersLeaveWriters DEF WritersRest, history
  <2>2. CASE u = v
    BY <1>3, <1>5, <2>1, <2>2, ReaderSees
  <2>3. CASE u # v
    <3>1. pc'[v] = pc[v] /\ UNCHANGED <<range[v], at[v], ct[v], shown[v]>>
      BY <1>0, <1>5, <2>3 DEF TypeOK, Begun, ReaderStep, ViewStep, open_view,
         lock_index_file_r, open_log_r, read_time, skip_record, take_record, stop_view,
         Goto, readerVars
    <3>2. ViewOf(v)
      BY <1>3, <2>1 DEF VInv, ViewShape
    <3> QED
      BY <2>1, <3>1, <3>2, ViewKept
  <2> QED
    BY <2>2, <2>3
<1>6. ASSUME Tick \/ Finished \/ UNCHANGED vars
      PROVE  ViewOf(v)'
  <2>1. UNCHANGED <<pc, readerVars, records, torn>>
    BY <1>6 DEF Tick, Finished, vars, history
  <2> QED
    BY <1>3, <2>1, ViewKept DEF VInv, ViewShape, readerVars
<1> QED
  BY <1>4, <1>5, <1>6 DEF Next, ReaderStep

-----------------------------------------------------------------------------
(* The abstract log.                                                       *)

AbstractView == [v \in Reader |-> IF pc[v] = "done" THEN shown[v] ELSE <<>>]
AbstractStep ==
    \/ Abstract!Write \/ Abstract!Tear \/ Abstract!Anything
    \/ \E v \in Reader, begin, end \in Time : Abstract!View(v, begin, end)

(* A step that commits nothing and ends no view.                           *)
LEMMA AbstractStutters ==
    ASSUME UNCHANGED <<records, torn>>,
           \A v \in Reader : (pc[v] = "done" \/ pc'[v] = "done") =>
                               pc'[v] = pc[v] /\ shown'[v] = shown[v]
    PROVE  UNCHANGED Abstract!logVars
BY DEF Abstract!logVars

(* A record is committed with its last field.                              *)
LEMMA CommitIsWrite ==
    ASSUME IInv, VInv, ~torn, NEW w \in Writer, write_total_len(w)
    PROVE  Abstract!Write
<1>1. /\ TypeOK /\ Begun /\ IndexShape /\ TimesGrow
      /\ Len(records) \in Nat /\ Len(index) \in Nat /\ records \in Seq(Record)
      /\ \A i \in 1 .. Len(index) : index[i] \in Nat
  BY TimesTyped DEF IInv, VInv, Begun
<1>2. pc[w] = "total_len" /\ UNCHANGED <<torn, readerVars>>
  BY <1>1 DEF write_total_len, write_index, Goto
<1>3. Len(index) - 2 = base + 1 /\ base + 1 \in 1 .. Len(index)
  BY <1>1, <1>2 DEF IndexShape, base, Fields
<1>4. PICK cells \in Seq(Cell) : cells = Cells(w, "desc") \o Cells(w, "data")
  BY <1>1, <1>2, AtWork
<1>5. PICK rec \in Record : records' = Append(records, rec) /\ rec.time = index[base + 1]
  <2>1. records' = Append(records, [time |-> index[base + 1], cells |-> cells])
    BY <1>3, <1>4 DEF write_total_len
  <2>2. [time |-> index[base + 1], cells |-> cells] \in Record
    BY <1>1, <1>3 DEF Record
  <2> QED
    BY <2>1, <2>2
<1>6. PICK n \in Nat : n = Len(records)
  BY <1>1
<1>7. /\ records' \in Seq(Record) /\ Len(records') = n + 1
      /\ \A k \in 1 .. n : records'[k] = records[k]
      /\ records'[n + 1] = rec
  BY <1>1, <1>5, <1>6, AppendProperties
<1>8. SubSeq(records', 1, Len(records)) = records
  <2>1. Len(records) = IF 0 < n THEN n - 0 ELSE 0
    BY <1>6
  <2>2. \A i \in 1 .. Len(records) : records'[0 + i] = records[i]
    BY <1>6, <1>7
  <2>3. n <= Len(records')
    BY <1>7
  <2>4. SubSeq(records', 0 + 1, n) = records
    BY <1>1, <1>7, <2>1, <2>2, <2>3, SubSeqIs
  <2> QED
    BY <1>6, <2>4
<1>9. records # <<>> => records[Len(records)].time <= records'[Len(records')].time
  <2>1. SUFFICES ASSUME records # <<>>
                 PROVE  records[n].time <= records'[n + 1].time
    BY <1>6, <1>7
  <2>2. n \in 1 .. Len(records)
    BY <1>1, <1>6, <2>1, EmptySeq
  <2> QED
    BY <1>1, <1>2, <1>5, <1>7, <2>2 DEF TimesGrow, InRecord
<1>10. AbstractView' = AbstractView
  <2>1. \A v \in Reader : pc'[v] = pc[v]
    BY <1>1, LogAssumption DEF Begun, write_total_len, write_index, Goto, Process
  <2> QED
    BY <1>2, <2>1 DEF AbstractView, readerVars
<1> QED
  BY <1>2, <1>6, <1>7, <1>8, <1>9, <1>10 DEF Abstract!Write, AbstractView

(* A view that ends has shown the records of its range.                    *)
LEMMA EndIsView ==
    ASSUME IInv, VInv, ~torn, NEW v \in Reader, ViewStep(v), pc'[v] = "done"
    PROVE  Abstract!View(v, range[v][1], range[v][2])
<1> DEFINE begin == range[v][1]
           end   == range[v][2]
<1>1. /\ TypeOK /\ Begun /\ LocksExclude /\ IndexShape
      /\ ViewLocks /\ ViewOf(v) /\ TimesGrow /\ v \in Process
      /\ Len(records) \in Nat /\ records \in Seq(Record)
      /\ \A k \in 1 .. Len(records) : records[k].time \in Nat
      /\ begin \in Nat /\ end \in Nat
  <2>1. /\ TypeOK /\ Begun /\ LocksExclude /\ IndexShape
        /\ ViewLocks /\ ViewOf(v) /\ TimesGrow /\ v \in Process
    BY DEF IInv, VInv, ViewShape, Process
  <2>2. range[v] \in Time \X Time /\ Time \subseteq Nat
    BY <2>1, LogAssumption DEF TypeOK, Time
  <2> QED
    BY <2>1, <2>2, TimesTyped DEF Begun
<1>2. /\ UNCHANGED <<records, torn, shown>> /\ pc[v] # "done"
      /\ \A u \in Reader : u # v => pc'[u] = pc[u]
  <2>1. CASE read_time(v, "skip", "skipping") \/ read_time(v, "take", "taking") \/ stop_view(v)
    BY <1>1, <2>1, Reader \subseteq Process DEF Begun, read_time, stop_view, Goto, history,
       readerVars, Taking, Process
  <2>2. CASE lock_index_file_r(v) \/ open_log_r(v) \/ skip_record(v) \/ take_record(v)
    BY <1>1, <2>2 DEF Begun, lock_index_file_r, open_log_r, skip_record, take_record, Goto
  <2> QED
    BY <2>1, <2>2 DEF ViewStep
<1>3. \E m, n \in 0 .. Len(records) :
        /\ m <= n /\ Seen(v, m, n)
        /\ n < Len(records) => records[n + 1].time > end
  <2>1. CASE read_time(v, "skip", "skipping")
    <3>1. pc[v] = "skip" /\ ~(at[v] < Len(index))
      BY <1>1, <2>1 DEF Begun, read_time, Goto
    <3>2. PICK m \in 0 .. Len(records) : Seen(v, m, m) /\ Before(v, m)
      BY <1>1, <3>1 DEF ViewOf
    <3>3. Len(index) = base
      BY <1>1, <3>1, ViewExcludes DEF Viewing
    <3>4. ~(m < Len(records))
      BY <3>1, <3>2, <3>3, NextRecord DEF Before
    <3> QED
      BY <1>1, <3>2, <3>4
  <2>2. CASE read_time(v, "take", "taking")
    <3>1. pc[v] = "take" /\ ~(at[v] < Len(index))
      BY <1>1, <2>2 DEF Begun, read_time, Goto
    <3>2. PICK m, n \in 0 .. Len(records) : m < n /\ Seen(v, m, n) /\ Before(v, n)
      BY <1>1, <3>1 DEF ViewOf
    <3>3. Len(index) = base
      BY <1>1, <3>1, ViewExcludes DEF Viewing
    <3>4. ~(n < Len(records))
      BY <3>1, <3>2, <3>3, NextRecord DEF Before
    <3> QED
      BY <1>1, <3>2, <3>4
  <2>3. CASE stop_view(v)
    <3>1. Taking(v) /\ ct[v] > end
      BY <2>3 DEF stop_view
    <3>2. PICK m, n \in 0 .. Len(records) : m <= n /\ Seen(v, m, n) /\ Inside(v, n)
      BY <3>1, AtTaking
    <3> QED
      BY <3>1, <3>2 DEF Inside
  <2> QED
    BY <1>1, <2>1, <2>2, <2>3 DEF Begun, ViewStep, lock_index_file_r, open_log_r,
       skip_record, take_record, Goto
<1>4. PICK m, n \in 0 .. Len(records) :
        /\ m <= n /\ Seen(v, m, n)
        /\ n < Len(records) => records[n + 1].time > end
  BY <1>3
<1>5. \A k \in 1 .. Len(records) : records[k].time \in begin .. end <=> k \in m + 1 .. n
  <2>1. SUFFICES ASSUME NEW k \in 1 .. Len(records)
                 PROVE  records[k].time \in begin .. end <=> k \in m + 1 .. n
    OBVIOUS
  <2>2. CASE k \in 1 .. m
    BY <1>1, <1>4, <2>2 DEF Seen
  <2>3. CASE k \in m + 1 .. n
    BY <1>4, <2>3 DEF Seen
  <2>4. CASE k > n
    <3>1. n < Len(records) /\ n + 1 \in 1 .. Len(records) /\ n + 1 <= k
      BY <1>1, <2>4
    <3>2. records[n + 1].time <= records[k].time /\ records[n + 1].time > end
      BY <1>1, <1>4, <3>1 DEF TimesGrow
    <3>3. records[k].time \in Nat /\ records[n + 1].time \in Nat
      BY <1>1, <3>1
    <3> QED
      BY <1>1, <1>4, <2>4, <3>2, <3>3
  <2> QED
    BY <1>1, <1>4, <2>2, <2>3, <2>4
<1>6. PICK first \in 1 .. Len(records) + 1 : first = m + 1
  BY <1>1
<1>7. AbstractView' = [AbstractView EXCEPT ![v] = SubSeq(records, first, n)]
  <2>1. AbstractView'[v] = SubSeq(records, first, n)
    BY <1>2, <1>4, <1>6 DEF AbstractView, Seen
  <2>2. \A u \in Reader : u # v => AbstractView'[u] = AbstractView[u]
    BY <1>2 DEF AbstractView
  <2> QED
    BY <2>1, <2>2 DEF AbstractView
<1>8. \A k \in 1 .. Len(records) : records[k].time \in begin .. end <=> k \in first .. n
  BY <1>5, <1>6
<1> QED
  BY <1>2, <1>7, <1>8 DEF Abstract!View, AbstractView

LEMMA LogRefines ==
    ASSUME IInv, VInv, [Next]_vars
    PROVE  [AbstractStep]_(Abstract!logVars)
<1> USE LogAssumption DEF Process
<1>0. TypeOK /\ Begun
  BY DEF IInv
<1>1. ASSUME NEW w \in Writer, WriterStep(w) \/ Crash(w)
      PROVE  [AbstractStep]_(Abstract!logVars)
  <2>1. \A v \in Reader : pc'[v] = pc[v] /\ shown'[v] = shown[v]
    BY <1>0, <1>1 DEF Begun, WriterStep, Crash, log_add_unit, open_index_file,
       lock_index_file_w, open_log_file, write_desc, write_data, write_time,
       write_pos, write_desc_len, write_total_len, write_index,
       unlock_index_file_w, close_index_file, Goto, readerVars
  <2>2. torn => torn'
    BY <1>1 DEF WriterStep, Crash, log_add_unit, open_index_file, lock_index_file_w,
       open_log_file, write_desc, write_data, write_time, write_pos, write_desc_len,
       write_total_len, write_index, unlock_index_file_w, close_index_file, history
  <2>3. CASE torn
    BY <2>2, <2>3 DEF AbstractStep, Abstract!Anything
  <2>4. CASE ~torn /\ write_total_len(w)
    BY <2>4, CommitIsWrite DEF AbstractStep
  <2>5. CASE ~torn /\ Crash(w)
    <3>1. records' = records /\ torn' \in BOOLEAN
      BY <1>0, <2>5 DEF Crash, TypeOK
    <3>2. CASE torn'
      BY <2>1, <2>5, <3>1, <3>2 DEF AbstractStep, Abstract!Tear
    <3>3. CASE ~torn'
      BY <2>1, <2>5, <3>1, <3>3, AbstractStutters, <1>0 DEF TypeOK
    <3> QED
      BY <3>2, <3>3
  <2>6. CASE ~torn /\ WriterStep(w) /\ ~write_total_len(w)
    <3>1. UNCHANGED <<records, torn>>
      BY <2>6 DEF WriterStep, log_add_unit, open_index_file, lock_index_file_w,
         open_log_file, write_desc, write_data, write_time, write_pos, write_desc_len,
         write_index, unlock_index_file_w, close_index_file, history
    <3> QED
      BY <2>1, <3>1, AbstractStutters
  <2> QED
    BY <1>1, <2>3, <2>4, <2>5, <2>6
<1>2. ASSUME NEW v \in Reader, ReaderStep(v)
      PROVE  [AbstractStep]_(Abstract!logVars)
  <2>1. UNCHANGED <<records, torn>>
    BY <1>0, <1>2, ReadersLeaveWriters DEF WritersRest, history
  <2>2. CASE torn
    BY <2>1, <2>2 DEF AbstractStep, Abstract!Anything
  <2>3. CASE ~torn /\ pc'[v] = "done"
    <3>1. ViewStep(v)
      BY <1>0, <1>2, <2>3 DEF ReaderStep, Begun, open_view, Goto
    <3>2. range[v][1] \in Time /\ range[v][2] \in Time
      BY <1>0 DEF TypeOK
    <3>3. PICK begin \in Time, end \in Time : begin = range[v][1] /\ end = range[v][2]
      BY <3>2
    <3>4. Abstract!View(v, begin, end)
      <4>1. Abstract!View(v, range[v][1], range[v][2])
        BY <2>3, <3>1, EndIsView
      <4> QED
        BY <3>3, <4>1 DEF Abstract!View
    <3> QED
      BY <3>4 DEF AbstractStep
  <2>4. CASE pc'[v] # "done"
    <3>1. pc[v] # "done" /\ \A u \in Reader : u # v => pc'[u] = pc[u] /\ shown'[u] = shown[u]
      BY <1>0, <1>2 DEF Begun, ReaderStep, ViewStep, open_view, lock_index_file_r,
         open_log_r, read_time, skip_record, take_record, stop_view, Taking, Goto, readerVars,
         VInv
    <3> QED
      BY <2>1, <2>4, <3>1, AbstractStutters
  <2> QED
    BY <2>2, <2>3, <2>4
<1>3. ASSUME Tick \/ Finished \/ UNCHANGED vars
      PROVE  [AbstractStep]_(Abstract!logVars)
  <2>1. UNCHANGED <<records, torn, pc, shown>>
    BY <1>3 DEF Tick, Finished, vars, history, readerVars
  <2> QED
    BY <2>1, AbstractStutters
<1> QED
  BY <1>1, <1>2, <1>3 DEF Next, ReaderStep

(* Whole records enter the log in the order of their times, and a view is  *)
(* exactly the records of its range at the moment it ends, for any number  *)
(* of writers (libsimplelog.c:50-68) and views (:120-189), until a writer  *)
(* is killed inside an index record.                                       *)
THEOREM LogIsAtomic == Spec => ImplementsAtomicLog
<1>1. Init => Abstract!AtomicLogInit
  BY DEF Init, Abstract!AtomicLogInit, Process
<1>2. ASSUME IInv, VInv, [Next]_vars
      PROVE  [AbstractStep]_(Abstract!logVars) /\ VInv'
  BY <1>2, LogRefines, ViewStepKeeps
<1>3. Spec => []VInv
  BY <1>2, ViewBegins, Invariance, PTL DEF Spec
<1> QED
  BY <1>1, <1>2, <1>3, Invariance, PTL DEF Spec, ImplementsAtomicLog,
     Abstract!AtomicLogSpec, AbstractStep
=============================================================================
