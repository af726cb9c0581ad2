----------------------------- MODULE AtomicLog -----------------------------
(***************************************************************************)
(* What simplelog promises the processes that share a log: log_write adds  *)
(* a whole record with its time, times never decrease along the log, and   *)
(* log_view returns the records of its time range, all of them and intact. *)
(* A process killed while it writes the index may tear the log; nothing is *)
(* promised after that.                                                    *)
(***************************************************************************)
EXTENDS Integers, Sequences

CONSTANTS Reader, Time

VARIABLES records,   \* the log, a sequence of records with a field time
          view,      \* reader -> what its last log_view returned
          torn

logVars == <<records, view, torn>>

AtomicLogInit == records = <<>> /\ view = [v \in Reader |-> <<>>] /\ torn = FALSE

Write ==
    /\ ~torn
    /\ Len(records') = Len(records) + 1
    /\ SubSeq(records', 1, Len(records)) = records
    /\ records # <<>> => records[Len(records)].time <= records'[Len(records')].time
    /\ UNCHANGED <<view, torn>>

(* Times never decrease, so the records of a time range are a stretch.     *)
View(v, begin, end) ==
    /\ ~torn
    /\ \E first \in 1 .. Len(records) + 1, last \in 0 .. Len(records) :
           /\ \A k \in 1 .. Len(records) :
                  records[k].time \in begin .. end <=> k \in first .. last
           /\ view' = [view EXCEPT ![v] = SubSeq(records, first, last)]
    /\ UNCHANGED <<records, torn>>

Tear == ~torn /\ torn' /\ UNCHANGED <<records, view>>

Anything == torn /\ torn'

AtomicLogSpec ==
    /\ AtomicLogInit
    /\ [][ \/ Write \/ Tear \/ Anything
           \/ \E v \in Reader, begin, end \in Time : View(v, begin, end)]_logVars
=============================================================================
