----------------------------- MODULE ByteStream -----------------------------
(***************************************************************************)
(* What class Protocol promises its users: bytes given to one end come out *)
(* of the other once each and in order.  A byte is its position in the     *)
(* input.                                                                  *)
(***************************************************************************)
EXTENDS Integers, Sequences

VARIABLES submitted,   \* how many bytes went in
          delivered    \* the bytes that came out

streamVars == <<submitted, delivered>>

StreamInit == submitted = 0 /\ delivered = <<>>

Submit == submitted' = submitted + 1 /\ UNCHANGED delivered

Deliver ==
    /\ Len(delivered) < submitted
    /\ delivered' = Append(delivered, Len(delivered) + 1)
    /\ UNCHANGED submitted

StreamSpec == StreamInit /\ [][Submit \/ Deliver]_streamVars
=============================================================================
