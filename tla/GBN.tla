-------------------------------- MODULE GBN --------------------------------
(***************************************************************************)
(* The go-back-N protocol of src/network_theory: class gbn_protocol, used  *)
(* as a sender by the client shell and as a receiver by the server shell,  *)
(* over UDP.  The two copies of gobackn_protocol.cpp are the same code.    *)
(*                                                                         *)
(* The client runs sendMessage once per input line and the server runs     *)
(* receiveMessage forever.  The network loses datagrams and keeps the      *)
(* order of those it delivers; losing a message at the head of its queue   *)
(* gives every outcome losing it anywhere would.                           *)
(*                                                                         *)
(* A byte of the input is its position in everything the user typed, so    *)
(* that a duplicate, a gap and a swap all show in what is delivered.       *)
(***************************************************************************)
EXTENDS Integers, Sequences

CONSTANTS
    N,            \* modulus of the sequence numbers AND size of the window
    LineLengths,  \* the strlen() of the lines the user may type
    MaxBytes,     \* bound: bytes typed in one behaviour
    MaxFlight,    \* bound: messages in flight in each direction
    MaxDelivered  \* bound: bytes the receiver takes

ASSUME NAssumption == N \in Nat /\ N >= 2
ASSUME BoundAssumption ==
    /\ LineLengths \subseteq Nat
    /\ MaxBytes \in Nat /\ MaxFlight \in Nat /\ MaxDelivered \in Nat

VARIABLES
    pc,              \* client: "idle" at the prompt; in sendMessage, "head" at
                     \* the outer while, "fill" in the inner one
    left,            \* t - current_byte
    sent,            \* bytes handed to add_to_window since the start
    current_seqn, last_acked_seqn, num_active,   \* the sender's members
    window,          \* slot -> the byte of its live datagram, or NoBuffer
    expected_seqn, last_sent_ackn,               \* the receiver's members
    delivered,       \* payloads receiveMessage accepted, in order
    dataCh, ackCh    \* the two directions of the network

sender   == <<pc, left, sent, current_seqn, last_acked_seqn, num_active, window>>
receiver == <<expected_seqn, last_sent_ackn, delivered>>
vars     == <<sender, receiver, dataCh, ackCh>>

Seqn     == 0 .. N - 1
NoBuffer == 0

(* DATAGRAM_IDENT, the number and the byte it carries.                     *)
Datagram == [seqn : Seqn, payload : Nat]

(* A definition whose name ends in _ and a fault is the one after it with  *)
(* that fault: the properties have to notice each.                         *)

(* MOD(x, m) is the macro (x%m + m)%m: with TLA+'s %, the non-negative     *)
(* remainder.  Its x is not parenthesised, so that MOD(a + b, N) takes b%N  *)
(* first; for the arguments of this code that comes to the same.           *)
MOD(x, m) == x % m

LAST_SENT_SEQN == MOD(current_seqn - 1, N)

Init ==
    /\ pc = "idle" /\ left = 0 /\ sent = 0
    /\ current_seqn = 0 /\ num_active = 0
    /\ last_acked_seqn = N - 1
    /\ window = [s \in Seqn |-> NoBuffer]
    /\ expected_seqn = 0 /\ last_sent_ackn = 0
    /\ delivered = <<>>
    /\ dataCh = <<>> /\ ackCh = <<>>

(* Connection::send: no error reaches the protocol, and what the network   *)
(* has no room for is lost.                                                *)
Send(channel, messages) ==
    LET all == channel \o messages IN
    IF Len(all) <= MaxFlight THEN all ELSE SubSeq(all, 1, MaxFlight)

-----------------------------------------------------------------------------
(* The sender.                                                             *)

window_empty      == last_acked_seqn = LAST_SENT_SEQN
can_add_to_window == num_active < N

(* The i-th slot after the last acknowledged one, and the first k of them. *)
Slot(i)       == MOD(last_acked_seqn + i, N)
FirstSlots(k) == {Slot(i) : i \in 1 .. k}

(* The outer loop's exit, tested only at its head.                         *)
Finished == pc = "head" /\ window_empty /\ left = 0

(* The loop is blocked in accept_acks: nothing (more) fits or is left.     *)
Listening ==
    /\ pc \in {"head", "fill"}
    /\ ~Finished
    /\ ~(can_add_to_window /\ left > 0)

(* The prompt loop reads a line and calls sendMessage.                     *)
BeginLine(t) ==
    /\ pc = "idle"
    /\ sent + t <= MaxBytes
    /\ pc' = "head" /\ left' = t
    /\ UNCHANGED <<sent, current_seqn, last_acked_seqn, num_active, window,
                   receiver, dataCh, ackCh>>

add_to_window_NoWrap ==
    /\ pc \in {"head", "fill"}
    /\ can_add_to_window /\ left > 0
    /\ pc' = "fill"
    /\ left' = left - 1
    /\ sent' = sent + 1
    /\ window' = [window EXCEPT ![current_seqn] = sent + 1]
    /\ dataCh' = Send(dataCh, <<[seqn |-> current_seqn, payload |-> sent + 1]>>)
    /\ current_seqn' = current_seqn + 1
    /\ num_active' = num_active + 1
    /\ UNCHANGED <<last_acked_seqn, receiver, ackCh>>

(* One turn of the inner loop.                                             *)
add_to_window ==
    /\ pc \in {"head", "fill"}
    /\ can_add_to_window /\ left > 0
    /\ pc' = "fill"
    /\ left' = left - 1
    /\ sent' = sent + 1
    /\ window' = [window EXCEPT ![current_seqn] = sent + 1]
    /\ dataCh' = Send(dataCh, <<[seqn |-> current_seqn, payload |-> sent + 1]>>)
    /\ current_seqn' = MOD(current_seqn + 1, N)
    /\ num_active' = num_active + 1
    /\ UNCHANGED <<last_acked_seqn, receiver, ackCh>>

(* sendMessage prints WINDOW EMPTY & ALL BYTES SENT; the shell prints SENT. *)
sendMessageReturns ==
    /\ Finished
    /\ pc' = "idle"
    /\ UNCHANGED <<left, sent, current_seqn, last_acked_seqn, num_active,
                   window, receiver, dataCh, ackCh>>

remove_from_window_OffByOne(ack) ==
    LET num_deleting == MOD(ack - last_acked_seqn, N) IN
    /\ window' = [s \in Seqn |-> IF s \in {Slot(i) : i \in 0 .. num_deleting - 1}
                                 THEN NoBuffer ELSE window[s]]
    /\ num_active' = num_active - num_deleting
    /\ last_acked_seqn' = ack

remove_from_window_OneByOne(ack) ==
    /\ window' = [window EXCEPT ![ack] = NoBuffer]
    /\ num_active' = num_active - 1
    /\ last_acked_seqn' = ack

(* The ack covers its own datagram and every earlier one of the window.    *)
remove_from_window(ack) ==
    LET num_deleting == MOD(ack - last_acked_seqn, N) IN
    /\ window' = [s \in Seqn |-> IF s \in FirstSlots(num_deleting)
                                 THEN NoBuffer ELSE window[s]]
    /\ num_active' = num_active - num_deleting
    /\ last_acked_seqn' = ack

(* listen_for_ack gets an acknowledgement before the timeout.              *)
listen_for_ack ==
    /\ Listening
    /\ ackCh # <<>>
    /\ remove_from_window(Head(ackCh))
    /\ ackCh' = Tail(ackCh)
    /\ pc' = "head"
    /\ UNCHANGED <<left, sent, current_seqn, receiver, dataCh>>

Resent_MissesLast == [i \in 1 .. num_active - 1 |->
             [seqn |-> Slot(i), payload |-> window[Slot(i)]]]

(* What resend_window transmits: the first num_active slots, as they are.  *)
Resent == [i \in 1 .. num_active |->
             [seqn |-> Slot(i), payload |-> window[Slot(i)]]]

(* accept_acks times out; the answer may still be under way.               *)
timeout ==
    /\ Listening
    /\ dataCh' = Send(dataCh, Resent)
    /\ pc' = "head"
    /\ UNCHANGED <<left, sent, current_seqn, last_acked_seqn, num_active,
                   window, receiver, ackCh>>

-----------------------------------------------------------------------------
(* The receiver.                                                           *)

send_ack(n) ==
    /\ last_sent_ackn' = n
    /\ ackCh' = Send(ackCh, <<n>>)

AcceptDatagram_AnyNumber ==
    /\ dataCh # <<>> /\ Len(delivered) < MaxDelivered
    /\ expected_seqn' = MOD(Head(dataCh).seqn + 1, N)
    /\ delivered' = Append(delivered, Head(dataCh).payload)
    /\ send_ack(Head(dataCh).seqn)
    /\ dataCh' = Tail(dataCh)
    /\ UNCHANGED sender

AcceptDatagram_AcksNext ==
    /\ dataCh # <<>> /\ Len(delivered) < MaxDelivered
    /\ Head(dataCh).seqn = expected_seqn
    /\ expected_seqn' = MOD(expected_seqn + 1, N)
    /\ delivered' = Append(delivered, Head(dataCh).payload)
    /\ send_ack(MOD(expected_seqn + 1, N))
    /\ dataCh' = Tail(dataCh)
    /\ UNCHANGED sender

(* One turn of receiveMessage's loop on a datagram parse_valid_datagram    *)
(* accepts: its payload goes up, its own number is acknowledged.           *)
AcceptDatagram ==
    /\ dataCh # <<>> /\ Len(delivered) < MaxDelivered
    /\ Head(dataCh).seqn = expected_seqn
    /\ expected_seqn' = MOD(expected_seqn + 1, N)
    /\ delivered' = Append(delivered, Head(dataCh).payload)
    /\ send_ack(Head(dataCh).seqn)
    /\ dataCh' = Tail(dataCh)
    /\ UNCHANGED sender

RejectDatagram_AcksIt ==
    /\ dataCh # <<>>
    /\ send_ack(Head(dataCh).seqn)
    /\ dataCh' = Tail(dataCh)
    /\ UNCHANGED <<sender, expected_seqn, delivered>>

(* ... and on one it refuses: not the expected number, or declared corrupt *)
(* by the rand() % 5 draw, which any datagram may meet.                    *)
RejectDatagram ==
    /\ dataCh # <<>>
    /\ send_ack(last_sent_ackn)
    /\ dataCh' = Tail(dataCh)
    /\ UNCHANGED <<sender, expected_seqn, delivered>>

-----------------------------------------------------------------------------
(* The network.                                                            *)

LoseData ==
    /\ dataCh # <<>> /\ dataCh' = Tail(dataCh)
    /\ UNCHANGED <<sender, receiver, ackCh>>

LoseAck ==
    /\ ackCh # <<>> /\ ackCh' = Tail(ackCh)
    /\ UNCHANGED <<sender, receiver, dataCh>>

Next ==
    \/ \E t \in LineLengths : BeginLine(t)
    \/ add_to_window
    \/ listen_for_ack
    \/ timeout
    \/ sendMessageReturns
    \/ AcceptDatagram
    \/ RejectDatagram
    \/ LoseData
    \/ LoseAck

Spec == Init /\ [][Next]_vars

(* The code runs by itself and the 5 s timeout always comes.  The network  *)
(* is fair to messages sent again and again, and the corruption draw does  *)
(* not reject every copy of the datagram awaited.                          *)
Fairness ==
    /\ WF_vars(add_to_window) /\ WF_vars(sendMessageReturns)
    /\ WF_vars(timeout) /\ SF_vars(listen_for_ack)
    /\ SF_vars(AcceptDatagram) /\ SF_vars(RejectDatagram)

FairSpec == Spec /\ Fairness

-----------------------------------------------------------------------------
(* Properties.                                                             *)

(* Every variable has the type its declaration and use in the code give it. *)
TypeOK ==
    /\ pc \in {"idle", "head", "fill"}
    /\ left \in Nat /\ sent \in Nat
    /\ current_seqn \in Seqn /\ last_acked_seqn \in Seqn
    /\ num_active \in Int
    /\ window \in [Seqn -> Nat]
    /\ expected_seqn \in Seqn /\ last_sent_ackn \in Seqn
    /\ delivered \in Seq(Nat)
    /\ dataCh \in Seq(Datagram)
    /\ ackCh \in Seq(Seqn)

(* The two ways the sender measures its window agree: num_active, which    *)
(* can_add_to_window reads, and the distance between last_acked_seqn and   *)
(* current_seqn, which window_empty reads, are equal modulo N.             *)
WindowCount ==
    MOD(num_active, N) = MOD(current_seqn - 1 - last_acked_seqn, N)

(* resend_window and remove_from_window only touch datagrams that exist:   *)
(* the num_active slots after the last acknowledged one hold, in order,    *)
(* the last num_active bytes, and every other slot is free (none leaked).  *)
WindowHoldsActive ==
    /\ num_active \in 0 .. N
    /\ \A i \in 1 .. num_active : window[Slot(i)] = sent - num_active + i
    /\ \A s \in Seqn \ FirstSlots(num_active) : window[s] = NoBuffer

(* Whatever acknowledgement arrives next, and those behind it, covers only *)
(* datagrams that are in the window: remove_from_window never deletes a    *)
(* slot twice and never drives num_active below zero.                      *)
AcksWithinWindow ==
    \A k \in DOMAIN ackCh : MOD(ackCh[k] - last_acked_seqn, N) <= num_active

(* When no line fills the window, the bytes come out of the receiver once  *)
(* each and in order, whatever is lost, refused and sent again: an old     *)
(* copy of a datagram is never taken for a new one with its number.        *)
Stream == INSTANCE ByteStream WITH submitted <- sent
DeliversStream == Stream!StreamSpec

(* The sender has freed a byte's datagram although the receiver never took *)
(* the byte: the initial last_sent_ackn = 0 was sent as an acknowledgement *)
(* of datagram 0 when the first datagram to arrive was refused.            *)
Disowned == sent - num_active > Len(delivered)

(* That is the only way to lose a byte: it can only be the very first one, *)
(* and the receiver has then taken nothing.                                *)
OnlyFirstByteDisowned ==
    Disowned => delivered = <<>> /\ sent - num_active = 1

(* Every line's sendMessage comes back to the prompt, unless the first     *)
(* byte was disowned: whatever the acknowledgements left over from earlier *)
(* timeouts, the window drains.                                            *)
LineReturns == pc # "idle" ~> pc = "idle" \/ Disowned

(* "WINDOW EMPTY & ALL BYTES SENT", sendMessage's last words, are true.    *)
AnnouncedWindowIsEmpty == Finished => num_active = 0
=============================================================================
