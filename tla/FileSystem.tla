------------------------------ MODULE FileSystem ------------------------------
(***************************************************************************)
(* What simplefs promises: files are sequences of bytes, a handle is a     *)
(* position in one, and the image of the last store can be loaded again.   *)
(***************************************************************************)
EXTENDS Integers, Sequences, Functions

CONSTANTS Name, Handle, Data, MaxLen

VARIABLES open,     \* the handles in use: [name, offset]
          files,    \* the contents of each file there is
          saved     \* the image: a set with the files of the last store, if any

vars == <<open, files, saved>>

None   == "none"
Free   == [name |-> None, offset |-> 0]
Closed == [h \in Handle |-> Free]
Empty  == [n \in {} |-> <<>>]

Init ==
    /\ open = Closed
    /\ files = Empty
    /\ saved = {}

Create(n) ==
    /\ open' = open
    /\ n \notin DOMAIN files
    /\ files' = [m \in DOMAIN files \cup {n} |-> IF m = n THEN <<>> ELSE files[m]]
    /\ saved' = saved

Destroy(n) ==
    /\ open' = open
    /\ \A h \in Handle : open[h].name # n
    /\ n \in DOMAIN files
    /\ files' = Restrict(files, DOMAIN files \ {n})
    /\ saved' = saved

Open(h, n) ==
    /\ open[h] = Free /\ n \in DOMAIN files
    /\ open' = [open EXCEPT ![h] = [name |-> n, offset |-> 0]]
    /\ UNCHANGED <<files, saved>>

Close(h) ==
    /\ open[h] # Free
    /\ open' = [open EXCEPT ![h] = Free]
    /\ UNCHANGED <<files, saved>>

(* The bytes of old with those of new in place from offset on.             *)
Overwritten(old, offset, new) ==
    SubSeq(old, 1, offset) \o new \o SubSeq(old, offset + Len(new) + 1, Len(old))

(* Handle h is in use, and comes to offset.                                *)
ComesTo(h, offset) ==
    /\ open[h] # Free
    /\ open' = [open EXCEPT ![h].offset = offset]

(* A full disk takes the front of data only.                               *)
Takes(h, k, data) ==
    /\ k <= Len(data)
    /\ files' = [files EXCEPT ![open[h].name] =
                     Overwritten(@, open[h].offset, SubSeq(data, 1, k))]
    /\ saved' = saved

Write(h, k) ==
    /\ ComesTo(h, open[h].offset + k)
    /\ open[h].offset <= Len(files[open[h].name])
    /\ \E data \in Data : Takes(h, k, data)

(* What a read at the offset returns, from or past the end included.       *)
BytesAt(h, count) ==
    LET file == files[open[h].name]
        end  == open[h].offset + count
    IN  SubSeq(file, open[h].offset + 1, IF end < Len(file) THEN end ELSE Len(file))

(* A read or a seek.                                                       *)
Move(h, offset) ==
    /\ ComesTo(h, offset)
    /\ UNCHANGED <<files, saved>>

Store ==
    /\ open = Closed /\ open' = open
    /\ saved' = {files}
    /\ files' = files

Load ==
    /\ open' = Closed
    /\ files' \in saved
    /\ saved' = saved

Format ==
    /\ open' = Closed
    /\ files' = Empty /\ saved' = {Empty}

(* The program ends and starts again: what was not stored is lost.         *)
Restart ==
    /\ open' = Closed
    /\ files' = Empty
    /\ saved' = saved

Next ==
    \/ \E h \in Handle :
           \/ open'[h].offset \in 0 .. MaxLen /\ Move(h, open'[h].offset)
           \/ open'[h].offset >= open[h].offset /\ Write(h, open'[h].offset - open[h].offset)
           \/ \E n \in Name : Open(h, n)
           \/ Close(h)
    \/ \E n \in Name : Create(n) \/ Destroy(n)
    \/ Store \/ Load \/ Format \/ Restart

Spec == Init /\ [][Next]_vars

===============================================================================
