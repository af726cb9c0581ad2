----------------------------- MODULE GBNProofs -----------------------------
(***************************************************************************)
(* Theorems about GBN, for every size of window, every length of line and  *)
(* any number of messages in flight.                                       *)
(***************************************************************************)
EXTENDS GBN, NumberLemmas

LEMMA ModInRange == \A x \in Int : MOD(x, N) \in Seqn
BY NAssumption, ModDef DEF MOD, Seqn

LEMMA HeadTail ==
    ASSUME NEW S, NEW q \in Seq(S), q # <<>>
    PROVE  Head(q) \in S /\ Tail(q) \in Seq(S)
OBVIOUS

LEMMA SendInSeq ==
    ASSUME NEW S, NEW q \in Seq(S), NEW ms \in Seq(S)
    PROVE  Send(q, ms) \in Seq(S)
<1>1. q \o ms \in Seq(S) /\ Len(q \o ms) \in Nat
  OBVIOUS
<1> QED
  BY <1>1, BoundAssumption DEF Send

LEMMA SendOneInSeq ==
    ASSUME NEW S, NEW q \in Seq(S), NEW m \in S
    PROVE  Send(q, <<m>>) \in Seq(S)
<1>1. <<m>> \in Seq(S)
  OBVIOUS
<1> QED
  BY <1>1, SendInSeq

(* The type invariant is inductive by itself.                              *)
LEMMA TypeInit == Init => TypeOK
BY NAssumption DEF Init, TypeOK, Seqn, NoBuffer

LEMMA TypeStep == TypeOK /\ [Next]_vars => TypeOK'
<1> SUFFICES ASSUME TypeOK, [Next]_vars PROVE TypeOK'
  OBVIOUS
<1> USE NAssumption, BoundAssumption DEF TypeOK
<1>1. ASSUME NEW t \in LineLengths, BeginLine(t) PROVE TypeOK'
  BY <1>1 DEF BeginLine, receiver
<1>2. CASE add_to_window
  <2>1. current_seqn' \in Seqn
    BY <1>2, ModInRange DEF add_to_window, Seqn
  <2>2. window' \in [Seqn -> Nat]
    BY <1>2 DEF add_to_window
  <2>3. left' \in Nat
    BY <1>2 DEF add_to_window
  <2>4. [seqn |-> current_seqn, payload |-> sent + 1] \in Datagram
    BY DEF Datagram
  <2>5. dataCh' \in Seq(Datagram)
    BY <1>2, <2>4, SendOneInSeq DEF add_to_window
  <2> QED
    BY <1>2, <2>1, <2>2, <2>3, <2>5 DEF add_to_window, receiver
<1>3. CASE listen_for_ack
  <2>1. Head(ackCh) \in Seqn /\ ackCh' \in Seq(Seqn)
    BY <1>3 DEF listen_for_ack
  <2>2. MOD(Head(ackCh) - last_acked_seqn, N) \in Seqn
    <3>1. Head(ackCh) - last_acked_seqn \in Int
      BY <2>1 DEF Seqn
    <3> QED
      BY <3>1, ModInRange
  <2>3. num_active' \in Int
    BY <1>3, <2>2 DEF listen_for_ack, remove_from_window, Seqn
  <2>4. window' \in [Seqn -> Nat]
    BY <1>3 DEF listen_for_ack, remove_from_window, NoBuffer
  <2> QED
    BY <1>3, <2>1, <2>3, <2>4
    DEF listen_for_ack, remove_from_window, receiver
<1>4. CASE timeout
  <2>1. \A i \in 1 .. num_active : Slot(i) \in Seqn
    <3> TAKE i \in 1 .. num_active
    <3>1. last_acked_seqn + i \in Int
      BY DEF Seqn
    <3> QED
      BY <3>1, ModInRange DEF Slot
  <2>2. Resent \in Seq(Datagram)
    <3>1. CASE num_active \in Nat
      <4>1. \A i \in 1 .. num_active :
              [seqn |-> Slot(i), payload |-> window[Slot(i)]] \in Datagram
        BY <2>1 DEF Datagram
      <4> QED
        BY <3>1, <4>1 DEF Resent
    <3>2. CASE num_active < 0
      BY <3>2 DEF Resent
    <3> QED
      BY <3>1, <3>2
  <2> QED
    BY <1>4, <2>2, SendInSeq DEF timeout, receiver
<1>5. CASE sendMessageReturns
  BY <1>5 DEF sendMessageReturns, receiver
<1>6. CASE AcceptDatagram
  <2>1. Head(dataCh) \in Datagram /\ Tail(dataCh) \in Seq(Datagram)
    BY <1>6, HeadTail DEF AcceptDatagram
  <2>2. expected_seqn' \in Seqn
    BY <1>6, ModInRange DEF AcceptDatagram, Seqn
  <2>3. Head(dataCh).seqn \in Seqn /\ Head(dataCh).payload \in Nat
    BY <2>1 DEF Datagram
  <2>4. ackCh' \in Seq(Seqn)
    BY <1>6, <2>3, SendOneInSeq DEF AcceptDatagram, send_ack
  <2> QED
    BY <1>6, <2>1, <2>2, <2>3, <2>4 DEF AcceptDatagram, send_ack, sender
<1>7. CASE RejectDatagram
  <2>1. ackCh' \in Seq(Seqn)
    BY <1>7, SendOneInSeq DEF RejectDatagram, send_ack
  <2>2. dataCh' \in Seq(Datagram)
    BY <1>7, HeadTail DEF RejectDatagram
  <2> QED
    BY <1>7, <2>1, <2>2 DEF RejectDatagram, send_ack, sender
<1>8. CASE LoseData
  BY <1>8, HeadTail DEF LoseData, sender, receiver
<1>9. CASE LoseAck
  BY <1>9, HeadTail DEF LoseAck, sender, receiver
<1>10. CASE UNCHANGED vars
  BY <1>10 DEF vars, sender, receiver
<1> QED
  BY <1>1, <1>2, <1>3, <1>4, <1>5, <1>6, <1>7, <1>8, <1>9, <1>10 DEF Next

(* Every variable of the two ends keeps its type, num_active being an      *)
(* integer: nothing in the code keeps it from going negative.              *)
THEOREM TypeCorrect == Spec => []TypeOK
<1>1. Init => TypeOK
  BY TypeInit
<1>2. TypeOK /\ [Next]_vars => TypeOK'
  BY TypeStep
<1> QED
  BY <1>1, <1>2, PTL DEF Spec

-----------------------------------------------------------------------------
(* The two measures of the window.  Nothing about the messages in flight   *)
(* is needed: whatever acknowledgement arrives, both move by the same      *)
(* amount modulo N.                                                        *)
LEMMA WindowCountStep == TypeOK /\ WindowCount /\ [Next]_vars => WindowCount'
<1> SUFFICES ASSUME TypeOK, WindowCount, [Next]_vars PROVE WindowCount'
  OBVIOUS
<1> DEFINE gap == current_seqn - 1 - last_acked_seqn
<1>1. N \in Nat \ {0}
  BY NAssumption
<1>2. /\ num_active \in Int /\ current_seqn \in Int /\ last_acked_seqn \in Int
      /\ gap \in Int
  BY NAssumption DEF TypeOK, Seqn
<1>3. PICK k \in Int : num_active - gap = k * N
  BY <1>1, <1>2, ModSame DEF WindowCount, MOD
<1>4. CASE add_to_window
  <2> DEFINE nxt == (current_seqn + 1) % N
  <2>0. current_seqn + 1 \in Int
    BY <1>2
  <2>1. PICK q \in Int : current_seqn + 1 = q * N + nxt
    BY <1>1, <2>0, ModDef
  <2>2. nxt \in Int
    BY <1>1, <2>0, ModDef
  <2>3. /\ num_active' = num_active + 1
        /\ last_acked_seqn' = last_acked_seqn
        /\ current_seqn' = nxt
    BY <1>4 DEF add_to_window, MOD
  <2> HIDE DEF nxt
  <2>4. num_active' - gap' = k * N + q * N
    BY <1>1, <1>2, <1>3, <2>1, <2>2, <2>3
  <2>5. k * N + q * N = (k + q) * N /\ k + q \in Int
    BY <1>1
  <2>6. num_active' \in Int /\ gap' \in Int
    BY <1>2, <2>2, <2>3
  <2>7. num_active' % N = gap' % N
    <3> DEFINE x == num_active'  y == gap'
    <3>1. x \in Int /\ y \in Int /\ x - y = (k + q) * N
      BY <2>4, <2>5, <2>6
    <3> HIDE DEF x, y
    <3>2. x % N = y % N
      BY <1>1, <2>5, <3>1, ModShift
    <3> QED
      BY <3>2 DEF x, y
  <2> QED
    BY <2>7 DEF WindowCount, MOD
<1>5. CASE listen_for_ack
  <2> DEFINE ack == Head(ackCh)
             num_deleting == (ack - last_acked_seqn) % N
  <2>1. ack \in Int
    BY <1>5, <1>1, HeadTail DEF listen_for_ack, TypeOK, Seqn
  <2>2. ack - last_acked_seqn \in Int
    BY <1>2, <2>1
  <2>3. /\ num_active' = num_active - num_deleting
        /\ last_acked_seqn' = ack
        /\ current_seqn' = current_seqn
    BY <1>5 DEF listen_for_ack, remove_from_window, MOD
  <2> HIDE DEF ack
  <2>4. PICK q \in Int : ack - last_acked_seqn = q * N + num_deleting
    BY <1>1, <2>2, ModDef
  <2>5. num_deleting \in Int
    BY <1>1, <2>2, ModDef
  <2> HIDE DEF num_deleting
  <2>6. num_active' - gap' = k * N + q * N
    BY <1>1, <1>2, <1>3, <2>1, <2>3, <2>4, <2>5
  <2>7. k * N + q * N = (k + q) * N /\ k + q \in Int
    BY <1>1
  <2>8. num_active' \in Int /\ gap' \in Int
    BY <1>2, <2>1, <2>3, <2>5
  <2>9. num_active' % N = gap' % N
    <3> DEFINE x == num_active'  y == gap'
    <3>1. x \in Int /\ y \in Int /\ x - y = (k + q) * N
      BY <2>6, <2>7, <2>8
    <3> HIDE DEF x, y
    <3>2. x % N = y % N
      BY <1>1, <2>7, <3>1, ModShift
    <3> QED
      BY <3>2 DEF x, y
  <2> QED
    BY <2>9 DEF WindowCount, MOD
<1>6. CASE UNCHANGED <<num_active, current_seqn, last_acked_seqn>>
  BY <1>6 DEF WindowCount
<1> QED
  BY <1>4, <1>5, <1>6
  DEF Next, BeginLine, timeout, sendMessageReturns, AcceptDatagram,
      RejectDatagram, LoseData, LoseAck, sender, vars

(* For every window size and every sequence of lines, acknowledgements and *)
(* losses, num_active and the sequence numbers agree modulo N; so a window *)
(* that window_empty() calls empty is empty or full to a multiple of N.    *)
THEOREM WindowCountCorrect == Spec => []WindowCount
<1>1. Init => WindowCount
  <2>1. N \in Nat \ {0} /\ -N \in Int /\ 0 - (0 - 1 - (N - 1)) = 1 * N
    BY NAssumption
  <2>2. 0 % N = (0 - 1 - (N - 1)) % N
    BY <2>1, ModShift
  <2> QED
    BY <2>2 DEF Init, WindowCount, MOD
<1>2. TypeOK /\ WindowCount /\ [Next]_vars => WindowCount'
  BY WindowCountStep
<1> QED
  BY <1>1, <1>2, TypeCorrect, PTL DEF Spec

-----------------------------------------------------------------------------
(* Lines shorter than the window: whatever N is and whatever is lost,      *)
(* refused, late or sent again, the bytes come out once each and in order, *)
(* and the sender frees only what it may.                                  *)

ShortLines == LineLengths \subseteq 0 .. N - 1

-----------------------------------------------------------------------------
(* The inductive invariant.  It reads every sequence number as the         *)
(* remainder of a count of bytes.                                          *)

(* The bytes the sender has freed, and the byte last_sent_ackn stands for: *)
(* the last one taken, or the first one before any is.                     *)
freed == sent - num_active
taken == IF delivered = <<>> THEN 1 ELSE Len(delivered)

(* A line begins with an empty window and fits in it.                      *)
LineFits ==
    /\ num_active \in Nat /\ num_active <= sent /\ num_active + left < N
    /\ pc = "idle" => num_active = 0 /\ left = 0

NumbersAreCounts ==
    /\ last_acked_seqn = MOD(freed - 1, N) /\ current_seqn = MOD(sent, N)
    /\ expected_seqn = MOD(Len(delivered), N)
    /\ last_sent_ackn = MOD(taken - 1, N)
    /\ Len(delivered) <= sent /\ freed <= taken

(* No datagram in flight is so old that the receiver, when it gets there,  *)
(* could take it for the next one with its number.                         *)
NoneTooOld ==
    /\ \A j \in 1 .. Len(dataCh) :
         /\ dataCh[j].seqn = MOD(dataCh[j].payload - 1, N)
         /\ dataCh[j].payload \in 1 .. sent
         /\ Len(delivered) <= dataCh[j].payload + N - 2
    /\ \A i, j \in 1 .. Len(dataCh) :
         i < j => dataCh[i].payload <= dataCh[j].payload + N - 2

(* The acknowledgements in flight count what the receiver had taken, in    *)
(* the order it took it, from what the sender knows already.               *)
Counts(h) ==
    /\ \A k \in 1 .. Len(ackCh) :
         /\ freed <= h[k] /\ h[k] <= taken
         /\ ackCh[k] = MOD(h[k] - 1, N)
    /\ \A i, j \in 1 .. Len(ackCh) : i < j => h[i] <= h[j]

AcksCount == \E h \in [1 .. Len(ackCh) -> 0 .. sent] : Counts(h)

(* What TypeOK does not say.                                               *)
Kept == LineFits /\ NumbersAreCounts /\ WindowHoldsActive /\ NoneTooOld /\ AcksCount

IInv == TypeOK /\ Kept

-----------------------------------------------------------------------------
(* Sequence numbers.                                                       *)

LEMMA Modulus == N \in Nat \ {0} /\ N \in Int /\ N >= 2 /\ Seqn \subseteq Int
BY NAssumption DEF Seqn

LEMMA ModId == \A x \in Seqn : MOD(x, N) = x
BY NAssumption, ModSmall DEF MOD, Seqn

LEMMA ModPlus ==
    ASSUME NEW x \in Int, NEW y \in Int
    PROVE  MOD(MOD(x, N) + y, N) = MOD(x + y, N)
BY Modulus, ModAdd DEF MOD

LEMMA ModMinus ==
    ASSUME NEW x \in Int, NEW y \in Int
    PROVE  MOD(MOD(x, N) - MOD(y, N), N) = MOD(x - y, N)
<1> DEFINE a == x % N
           b == y % N
<1>1. a \in Int /\ b \in Int
  BY Modulus, ModDef
<1>2. (a - b) % N = (a - y) % N
  BY <1>1, Modulus, ModSub
<1>3. (a + (-y)) % N = (x + (-y)) % N
  <2> DEFINE z == -y
  <2>1. z \in Int
    OBVIOUS
  <2> HIDE DEF z
  <2>2. (a + z) % N = (x + z) % N
    BY <2>1, Modulus, ModAdd
  <2> QED
    BY <2>2 DEF z
<1> HIDE DEF a, b
<1>4. a + (-y) = a - y /\ x + (-y) = x - y
  BY <1>1
<1> QED
  BY <1>2, <1>3, <1>4 DEF MOD, a, b

(* Counts less than N apart have different numbers.                        *)
LEMMA ModInjective ==
    ASSUME NEW x \in Int, NEW y \in Int, x - y < N, y - x < N, MOD(x, N) = MOD(y, N)
    PROVE  x = y
<1>1. PICK k \in Int : x - y = k * N
  BY Modulus, ModSame DEF MOD
<1>2. CASE k >= 1
  <2>1. k * N >= N
    BY <1>2, Modulus
  <2> QED
    BY <1>1, <2>1, Modulus
<1>3. CASE k <= -1
  <2>1. k * N <= -N
    BY <1>3, Modulus
  <2> QED
    BY <1>1, <2>1, Modulus
<1>4. CASE k = 0
  <2>1. k * N = 0
    BY <1>4, Modulus
  <2> QED
    BY <1>1, <2>1
<1> QED
  BY <1>2, <1>3, <1>4

LEMMA CountTypes ==
    ASSUME IInv
    PROVE  /\ sent \in Nat /\ num_active \in 0 .. N - 1 /\ left \in Nat
           /\ freed \in 0 .. sent /\ freed + num_active = sent
           /\ Len(delivered) \in Nat /\ taken \in Nat /\ taken >= 1
           /\ taken >= Len(delivered)
           /\ delivered # <<>> => taken = Len(delivered) /\ Len(delivered) >= 1
           /\ delivered = <<>> => taken = 1 /\ Len(delivered) = 0
<1>1. /\ sent \in Nat /\ num_active \in 0 .. N - 1 /\ left \in Nat
      /\ freed \in 0 .. sent /\ freed + num_active = sent
  BY Modulus DEF IInv, Kept, TypeOK, LineFits, freed
<1>2. delivered \in Seq(Nat)
  BY DEF IInv, TypeOK
<1>3. Len(delivered) \in Nat /\ (delivered # <<>> <=> Len(delivered) >= 1)
  BY <1>2
<1> QED
  BY <1>1, <1>3 DEF taken

(* The slot of the i-th byte not yet freed.                                *)
LEMMA SlotIs ==
    ASSUME IInv, NEW i \in Int PROVE Slot(i) = MOD(freed - 1 + i, N)
<1>1. freed - 1 \in Int
  BY CountTypes
<1> QED
  BY <1>1, ModPlus DEF IInv, Kept, NumbersAreCounts, Slot

LEMMA SlotsDiffer ==
    ASSUME IInv, NEW i \in 1 .. N, NEW j \in 1 .. N, Slot(i) = Slot(j)
    PROVE  i = j
<1>1. freed - 1 + i \in Int /\ freed - 1 + j \in Int
  BY CountTypes, Modulus
<1>2. MOD(freed - 1 + i, N) = MOD(freed - 1 + j, N)
  BY SlotIs, Modulus
<1>3. freed - 1 + i = freed - 1 + j
  <2>1. /\ (freed - 1 + i) - (freed - 1 + j) < N
        /\ (freed - 1 + j) - (freed - 1 + i) < N
    <3>1. freed \in Int /\ N \in Int
      BY CountTypes, Modulus
    <3> QED
      BY <3>1
  <2> QED
    BY <1>1, <1>2, <2>1, ModInjective
<1> QED
  BY <1>3, CountTypes, Modulus

-----------------------------------------------------------------------------
(* The two queues.                                                         *)

(* A queue after a Send: what was there, then messages, as far as there is *)
(* room.                                                                   *)
LEMMA SendAppends ==
    ASSUME NEW S, NEW q \in Seq(S), NEW ms \in Seq(S), NEW s, s = Send(q, ms)
    PROVE  /\ Len(q) \in Nat /\ Len(ms) \in Nat /\ Len(s) \in Nat
           /\ Len(s) <= Len(q) + Len(ms)
           /\ \A i \in 1 .. Len(s) :
                s[i] = IF i <= Len(q) THEN q[i] ELSE ms[i - Len(q)]
<1> DEFINE all == q \o ms
<1>1. /\ all \in Seq(S) /\ Len(all) = Len(q) + Len(ms)
      /\ Len(q) \in Nat /\ Len(ms) \in Nat
      /\ \A i \in 1 .. Len(all) : all[i] = IF i <= Len(q) THEN q[i] ELSE ms[i - Len(q)]
  OBVIOUS
<1> HIDE DEF all
<1>2. CASE Len(all) <= MaxFlight
  <2>1. s = all
    BY <1>2 DEF Send, all
  <2> QED
    BY <1>1, <2>1
<1>3. CASE ~(Len(all) <= MaxFlight)
  <2>1. s = SubSeq(all, 1, MaxFlight) /\ MaxFlight \in Nat
    BY <1>3, BoundAssumption DEF Send, all
  <2>2. Len(s) = MaxFlight /\ \A i \in 1 .. MaxFlight : s[i] = all[i]
    BY <1>1, <1>3, <2>1
  <2> QED
    BY <1>1, <1>3, <2>1, <2>2
<1> QED
  BY <1>2, <1>3

LEMMA SendOneAppends ==
    ASSUME NEW S, NEW q \in Seq(S), NEW m \in S, NEW s, s = Send(q, <<m>>)
    PROVE  /\ Len(q) \in Nat /\ Len(s) \in Nat /\ Len(s) <= Len(q) + 1
           /\ \A i \in 1 .. Len(s) : \/ i \in 1 .. Len(q) /\ s[i] = q[i]
                                     \/ i = Len(q) + 1 /\ s[i] = m
<1> DEFINE ms == <<m>>
<1>1. ms \in Seq(S) /\ Len(ms) = 1 /\ ms[1] = m /\ s = Send(q, ms)
  OBVIOUS
<1> HIDE DEF ms
<1>2. /\ Len(q) \in Nat /\ Len(s) \in Nat /\ Len(s) <= Len(q) + 1
      /\ \A i \in 1 .. Len(s) : s[i] = IF i <= Len(q) THEN q[i] ELSE ms[i - Len(q)]
  <2>1. /\ Len(q) \in Nat /\ Len(ms) \in Nat /\ Len(s) \in Nat
        /\ Len(s) <= Len(q) + Len(ms)
        /\ \A i \in 1 .. Len(s) :
             s[i] = IF i <= Len(q) THEN q[i] ELSE ms[i - Len(q)]
    <3>1. ms \in Seq(S) /\ s = Send(q, ms)
      BY <1>1
    <3> QED
      BY ONLY <3>1, SendAppends, q \in Seq(S)
  <2> QED
    BY <1>1, <2>1
<1>3. ASSUME NEW i \in 1 .. Len(s)
      PROVE  \/ i \in 1 .. Len(q) /\ s[i] = q[i]
             \/ i = Len(q) + 1 /\ s[i] = m
  <2>1. CASE i <= Len(q)
    <3>1. i \in 1 .. Len(q)
      BY <1>2, <2>1
    <3> QED
      BY <1>2, <2>1, <3>1
  <2>2. CASE ~(i <= Len(q))
    <3>1. i = Len(q) + 1 /\ i - Len(q) = 1
      BY <1>2, <2>2
    <3> QED
      BY <1>1, <1>2, <2>2, <3>1
  <2> QED
    BY <2>1, <2>2
<1> QED
  BY <1>2, <1>3

LEMMA TailShifts ==
    ASSUME NEW S, NEW q \in Seq(S), q # <<>>
    PROVE  /\ Len(q) \in Nat /\ Len(q) >= 1 /\ Head(q) = q[1]
           /\ Len(Tail(q)) = Len(q) - 1
           /\ \A i \in 1 .. Len(q) - 1 : Tail(q)[i] = q[i + 1]
OBVIOUS

(* Of two numbers not beyond the window's end, the one inside the window is *)
(* at most N - 2 behind.                                                   *)
LEMMA WindowApart ==
    ASSUME NEW a \in Int, NEW b \in Int, NEW f \in Int, NEW s \in Int, NEW n \in Int,
           a <= s, s <= f + n - 1, b >= f + 1
    PROVE  a <= b + n - 2
OBVIOUS

(* Sending datagrams of the window keeps the queue young enough.           *)
LEMMA NoneTooOldSend ==
    ASSUME IInv, NEW ms \in Seq(Datagram), dataCh' = Send(dataCh, ms),
           delivered' = delivered, sent' \in Nat, sent <= sent', sent' < freed + N,
           \A k \in 1 .. Len(ms) : /\ ms[k].seqn = MOD(ms[k].payload - 1, N)
                                   /\ ms[k].payload \in freed + 1 .. sent'
    PROVE  NoneTooOld'
<1> DEFINE n == Len(dataCh)
<1>1. /\ n \in Nat /\ Len(ms) \in Nat /\ Len(dataCh') \in Nat
      /\ Len(dataCh') <= n + Len(ms)
      /\ \A i \in 1 .. Len(dataCh') :
           dataCh'[i] = IF i <= n THEN dataCh[i] ELSE ms[i - n]
  <2>1. dataCh \in Seq(Datagram)
    BY DEF IInv, TypeOK
  <2> QED
    BY ONLY <2>1, SendAppends, ms \in Seq(Datagram), dataCh' = Send(dataCh, ms)
<1>2. \A i \in 1 .. Len(dataCh') : i \in 1 .. n \/ (i > n /\ i - n \in 1 .. Len(ms))
  BY <1>1
<1>3. \A i \in 1 .. n :
        /\ dataCh[i].seqn = MOD(dataCh[i].payload - 1, N)
        /\ dataCh[i].payload \in 1 .. sent
        /\ Len(delivered) <= dataCh[i].payload + N - 2
  BY DEF IInv, Kept, NoneTooOld
<1>4. \A i, j \in 1 .. n : i < j => dataCh[i].payload <= dataCh[j].payload + N - 2
  BY DEF IInv, Kept, NoneTooOld
<1>5. /\ freed \in Int /\ sent \in Nat /\ freed >= 0 /\ Len(delivered) \in Nat
      /\ Len(delivered) <= sent
  BY CountTypes DEF IInv, Kept, NumbersAreCounts
<1> HIDE DEF n
<1>6. ASSUME NEW j \in 1 .. Len(dataCh')
      PROVE  /\ dataCh'[j].seqn = MOD(dataCh'[j].payload - 1, N)
             /\ dataCh'[j].payload \in 1 .. sent'
             /\ Len(delivered') <= dataCh'[j].payload + N - 2
  <2>1. CASE j \in 1 .. n
    <3>1. dataCh'[j] = dataCh[j]
      BY <1>1, <2>1
    <3> QED
      BY <1>3, <1>5, <2>1, <3>1
  <2>2. CASE j > n /\ j - n \in 1 .. Len(ms)
    <3>1. dataCh'[j] = ms[j - n]
      BY <1>1, <2>2
    <3>2. ms[j - n].payload \in freed + 1 .. sent' /\ ms[j - n].seqn = MOD(ms[j - n].payload - 1, N)
      BY <2>2
    <3>3. /\ dataCh'[j].payload \in Int /\ dataCh'[j].payload >= freed + 1
          /\ dataCh'[j].payload <= sent'
          /\ sent' \in Int /\ sent' <= freed + N - 1 /\ N \in Int
      BY <1>5, <3>1, <3>2, Modulus
    <3>4. Len(delivered') \in Int /\ Len(delivered') <= sent'
      BY <1>5, <3>3
    <3>5. Len(delivered') <= dataCh'[j].payload + N - 2
      BY ONLY <1>5, <3>3, <3>4, WindowApart
    <3> QED
      BY <1>5, <3>1, <3>2, <3>3, <3>5
  <2> QED
    BY <1>2, <2>1, <2>2
<1>7. ASSUME NEW i \in 1 .. Len(dataCh'), NEW j \in 1 .. Len(dataCh'), i < j
      PROVE  dataCh'[i].payload <= dataCh'[j].payload + N - 2
  <2>1. CASE j \in 1 .. n
    <3>1. i \in 1 .. n /\ dataCh'[i] = dataCh[i] /\ dataCh'[j] = dataCh[j]
      BY <1>1, <1>7, <2>1
    <3> QED
      BY <1>4, <1>7, <2>1, <3>1
  <2>2. CASE j > n /\ j - n \in 1 .. Len(ms)
    <3>1. dataCh'[j] = ms[j - n]
      BY <1>1, <2>2
    <3>2. ms[j - n].payload \in freed + 1 .. sent'
      BY <2>2
    <3>3. dataCh'[i].payload \in 1 .. sent'
      BY <1>6
    <3>4. /\ dataCh'[j].payload \in Int /\ dataCh'[j].payload >= freed + 1
          /\ sent' \in Int /\ sent' <= freed + N - 1 /\ N \in Int
      BY <1>5, <3>1, <3>2, Modulus
    <3>5. dataCh'[i].payload \in Int /\ dataCh'[i].payload <= sent'
      BY <3>3
    <3> QED
      BY ONLY <1>5, <3>4, <3>5, WindowApart
  <2> QED
    BY <1>2, <2>1, <2>2
<1> QED
  BY <1>6, <1>7 DEF NoneTooOld

(* So does taking its head, while the receiver's count stays, or goes up   *)
(* to the head's byte.                                                     *)
LEMMA NoneTooOldTail ==
    ASSUME IInv, dataCh # <<>>, dataCh' = Tail(dataCh), sent' = sent,
           Len(delivered') \in {Len(delivered), dataCh[1].payload}
    PROVE  NoneTooOld'
<1> DEFINE n == Len(dataCh)
<1>1. /\ n \in Nat /\ n >= 1 /\ Len(dataCh') = n - 1
      /\ \A i \in 1 .. n - 1 : dataCh'[i] = dataCh[i + 1]
  BY TailShifts DEF IInv, TypeOK
<1>2. /\ \A i \in 1 .. n :
            /\ dataCh[i].seqn = MOD(dataCh[i].payload - 1, N)
            /\ dataCh[i].payload \in 1 .. sent
            /\ Len(delivered) <= dataCh[i].payload + N - 2
      /\ \A i, j \in 1 .. n : i < j => dataCh[i].payload <= dataCh[j].payload + N - 2
  BY DEF IInv, Kept, NoneTooOld
<1> HIDE DEF n
<1>3. ASSUME NEW i \in 1 .. n - 1
      PROVE  /\ i + 1 \in 1 .. n /\ 1 < i + 1 /\ 1 \in 1 .. n
             /\ dataCh'[i] = dataCh[i + 1]
             /\ Len(delivered') <= dataCh[i + 1].payload + N - 2
  BY <1>1, <1>2
<1>4. ASSUME NEW i \in 1 .. n - 1, NEW j \in 1 .. n - 1, i < j
      PROVE  dataCh'[i].payload <= dataCh'[j].payload + N - 2
  <2>1. i + 1 < j + 1
    BY <1>1, <1>4
  <2> QED
    BY <1>2, <1>3, <2>1
<1> QED
  BY <1>1, <1>2, <1>3, <1>4 DEF NoneTooOld

(* An acknowledgement of what the receiver has taken joins the queue.      *)
LEMMA AcksCountSend ==
    ASSUME IInv, NEW n \in Seqn, ackCh' = Send(ackCh, <<n>>), n = MOD(taken' - 1, N),
           UNCHANGED <<sent, num_active>>, taken' \in Nat, taken <= taken', taken' <= sent
    PROVE  AcksCount'
<1> DEFINE m == Len(ackCh)
           q == ackCh'
<1>1. ackCh \in Seq(Seqn)
  BY DEF IInv, TypeOK
<1>2. m \in Nat /\ Len(q) \in Nat /\ Len(q) <= m + 1
  BY <1>1, SendOneAppends
<1>3. \A i \in 1 .. Len(q) : \/ i \in 1 .. m /\ q[i] = ackCh[i]
                             \/ i = m + 1 /\ q[i] = n
  BY <1>1, SendOneAppends
<1>4. PICK h \in [1 .. m -> 0 .. sent] : Counts(h)
  BY DEF IInv, Kept, AcksCount
<1>5. /\ \A k \in 1 .. m : /\ h[k] \in 0 .. sent /\ freed <= h[k] /\ h[k] <= taken
                           /\ ackCh[k] = MOD(h[k] - 1, N)
      /\ \A i, j \in 1 .. m : i < j => h[i] <= h[j]
  BY <1>4 DEF Counts
<1>6. freed' = freed /\ freed <= taken /\ freed \in Nat /\ sent \in Nat /\ taken \in Nat
  BY CountTypes DEF freed, IInv, Kept, NumbersAreCounts
<1> HIDE DEF m, q
<1> DEFINE g == [k \in 1 .. Len(q) |-> IF k \in 1 .. m THEN h[k] ELSE taken']
<1>7. g \in [1 .. Len(q) -> 0 .. sent']
  BY <1>5, <1>6
<1>8. \A k \in 1 .. Len(q) : /\ freed' <= g[k] /\ g[k] <= taken'
                             /\ q[k] = MOD(g[k] - 1, N)
  <2> TAKE k \in 1 .. Len(q)
  <2>1. CASE k \in 1 .. m
    <3>1. g[k] = h[k] /\ q[k] = ackCh[k]
      BY <1>2, <1>3, <2>1
    <3>2. h[k] \in Int /\ freed <= h[k] /\ h[k] <= taken /\ ackCh[k] = MOD(h[k] - 1, N)
      BY <1>5, <1>6, <2>1
    <3> HIDE DEF g
    <3> QED
      BY <1>6, <3>1, <3>2
  <2>2. CASE k \notin 1 .. m
    <3>1. g[k] = taken' /\ q[k] = n
      BY <1>3, <2>2
    <3> HIDE DEF g
    <3> QED
      BY <1>6, <3>1
  <2> QED
    BY <2>1, <2>2
<1>9. \A i, j \in 1 .. Len(q) : i < j => g[i] <= g[j]
  <2> SUFFICES ASSUME NEW i \in 1 .. Len(q), NEW j \in 1 .. Len(q), i < j
               PROVE  g[i] <= g[j]
    OBVIOUS
  <2>1. CASE j \in 1 .. m
    <3>1. i \in 1 .. m
      BY <1>2, <2>1
    <3> QED
      BY <1>5, <2>1, <3>1
  <2>2. CASE j \notin 1 .. m
    <3>1. g[j] = taken'
      BY <2>2
    <3>2. g[i] <= taken'
      BY <1>8
    <3> QED
      BY <3>1, <3>2
  <2> QED
    BY <2>1, <2>2
<1> HIDE DEF g
<1> QED
  BY <1>7, <1>8, <1>9 DEF AcksCount, Counts, q

(* The head leaves the queue; the sender may then know what it said.       *)
LEMMA AcksCountTail ==
    ASSUME IInv, ackCh # <<>>, ackCh' = Tail(ackCh), taken' = taken, sent' = sent,
           NEW h \in [1 .. Len(ackCh) -> 0 .. sent], Counts(h), freed' \in {freed, h[1]}
    PROVE  AcksCount'
<1> DEFINE m == Len(ackCh)
           g == [k \in 1 .. m - 1 |-> h[k + 1]]
<1>1. /\ m \in Nat /\ m >= 1 /\ Len(ackCh') = m - 1
      /\ \A i \in 1 .. m - 1 : ackCh'[i] = ackCh[i + 1]
  BY TailShifts DEF IInv, TypeOK
<1>2. /\ \A k \in 1 .. m : /\ h[k] \in 0 .. sent /\ freed <= h[k] /\ h[k] <= taken
                           /\ ackCh[k] = MOD(h[k] - 1, N)
      /\ \A i, j \in 1 .. m : i < j => h[i] <= h[j]
  BY DEF Counts
<1> HIDE DEF m
<1>3. \A i \in 1 .. m - 1 : /\ i + 1 \in 1 .. m /\ 1 < i + 1 /\ 1 \in 1 .. m
                            /\ g[i] = h[i + 1]
  BY <1>1
<1>4. g \in [1 .. m - 1 -> 0 .. sent']
  BY <1>1, <1>2
<1> HIDE DEF g
<1>5. \A k \in 1 .. m - 1 : /\ freed' <= g[k] /\ g[k] <= taken'
                            /\ ackCh'[k] = MOD(g[k] - 1, N)
  <2> TAKE k \in 1 .. m - 1
  <2>1. h[1] <= h[k + 1] /\ freed <= h[k + 1] /\ h[k + 1] <= taken /\ ackCh[k + 1] = MOD(h[k + 1] - 1, N)
    BY <1>2, <1>3
  <2> QED
    BY <1>1, <1>3, <2>1
<1>6. \A i, j \in 1 .. m - 1 : i < j => g[i] <= g[j]
  <2> SUFFICES ASSUME NEW i \in 1 .. m - 1, NEW j \in 1 .. m - 1, i < j PROVE g[i] <= g[j]
    OBVIOUS
  <2>1. i + 1 < j + 1
    BY <1>1
  <2> QED
    BY <1>2, <1>3, <2>1
<1> QED
  <2>1. g \in [1 .. Len(ackCh') -> 0 .. sent']
    BY <1>1, <1>4
  <2>2. /\ \A k \in 1 .. Len(ackCh') : /\ freed' <= g[k] /\ g[k] <= taken'
                                       /\ ackCh'[k] = MOD(g[k] - 1, N)
        /\ \A i, j \in 1 .. Len(ackCh') : i < j => g[i] <= g[j]
    BY <1>1, <1>5, <1>6
  <2> QED
    BY <2>1, <2>2 DEF AcksCount, Counts

(* How far an acknowledgement moves the window.                            *)
LEMMA AckDistance ==
    ASSUME IInv, NEW a \in 0 .. sent, freed <= a
    PROVE  MOD(MOD(a - 1, N) - last_acked_seqn, N) = a - freed
<1>1. last_acked_seqn = MOD(freed - 1, N)
  BY DEF IInv, Kept, NumbersAreCounts
<1>2. a - 1 \in Int /\ freed - 1 \in Int /\ (a - 1) - (freed - 1) = a - freed /\ a - freed \in Seqn
  BY CountTypes, Modulus DEF Seqn
<1>3. MOD(MOD(a - 1, N) - MOD(freed - 1, N), N) = MOD((a - 1) - (freed - 1), N)
  BY <1>2, ModMinus
<1> QED
  BY <1>1, <1>2, <1>3, ModId

-----------------------------------------------------------------------------
(* What a step leaves alone.                                               *)
LEMMA Frames ==
    ASSUME IInv
    PROVE  /\ UNCHANGED <<sent, num_active, last_acked_seqn, current_seqn, receiver>>
                => NumbersAreCounts'
           /\ UNCHANGED <<sent, num_active, last_acked_seqn, window>>
                => WindowHoldsActive'
           /\ UNCHANGED <<sent, delivered, dataCh>> => NoneTooOld'
           /\ UNCHANGED <<sent, num_active, delivered, ackCh>> => AcksCount'
<1>1. ASSUME UNCHANGED <<sent, num_active, last_acked_seqn, current_seqn, receiver>>
      PROVE  NumbersAreCounts'
  BY <1>1 DEF IInv, Kept, NumbersAreCounts, freed, taken, receiver
<1>2. ASSUME UNCHANGED <<sent, num_active, last_acked_seqn, window>>
      PROVE  WindowHoldsActive'
  BY <1>2 DEF IInv, Kept, WindowHoldsActive, FirstSlots, Slot
<1>3. ASSUME UNCHANGED <<sent, delivered, dataCh>> PROVE NoneTooOld'
  BY <1>3 DEF IInv, Kept, NoneTooOld
<1>4. ASSUME UNCHANGED <<sent, num_active, delivered, ackCh>> PROVE AcksCount'
  BY <1>4 DEF IInv, Kept, AcksCount, Counts, freed, taken
<1> QED
  BY <1>1, <1>2, <1>3, <1>4

(* The sender's steps.                                                     *)
LEMMA KeptBeginLine ==
    ASSUME ShortLines, IInv, NEW t \in LineLengths, BeginLine(t) PROVE Kept'
<1>1. /\ pc = "idle" /\ pc' = "head" /\ left' = t
      /\ UNCHANGED <<sent, current_seqn, last_acked_seqn, num_active, window,
                     receiver, delivered, dataCh, ackCh>>
  BY DEF BeginLine, receiver
<1>2. LineFits'
  <2>1. t \in 0 .. N - 1 /\ num_active = 0 /\ sent \in Nat
    BY <1>1, CountTypes DEF IInv, Kept, LineFits, ShortLines
  <2> QED
    BY <1>1, <2>1, Modulus DEF LineFits
<1> QED
  BY <1>1, <1>2, Frames DEF Kept

LEMMA KeptAdd == ASSUME IInv, add_to_window PROVE Kept'
<1> DEFINE k == num_active + 1
<1>1. /\ left > 0 /\ left' = left - 1 /\ sent' = sent + 1 /\ pc' = "fill"
      /\ window' = [window EXCEPT ![current_seqn] = sent + 1]
      /\ dataCh' = Send(dataCh, <<[seqn |-> current_seqn, payload |-> sent + 1]>>)
      /\ current_seqn' = MOD(current_seqn + 1, N)
      /\ num_active' = k /\ UNCHANGED <<last_acked_seqn, receiver, delivered, ackCh>>
  BY DEF add_to_window, receiver
<1>2. /\ sent \in Nat /\ num_active \in 0 .. N - 1 /\ freed \in 0 .. sent
      /\ freed + num_active = sent /\ left \in Nat
  BY CountTypes
<1>3. num_active + left < N /\ num_active <= sent
  BY DEF IInv, Kept, LineFits
<1>4. freed' = freed /\ taken' = taken /\ k \in 1 .. N - 1
  BY <1>1, <1>2, <1>3, Modulus DEF freed, taken
<1>5. LineFits'
  BY <1>1, <1>2, <1>3, Modulus DEF LineFits
<1>6. NumbersAreCounts'
  <2>1. MOD(MOD(sent, N) + 1, N) = MOD(sent + 1, N)
    BY <1>2, ModPlus
  <2> QED
    BY <1>1, <1>2, <1>4, <2>1, CountTypes DEF IInv, Kept, NumbersAreCounts, receiver
<1>7. current_seqn = Slot(k) /\ current_seqn \in Seqn
  <2>1. k \in Int /\ freed - 1 + k = sent
    BY <1>2, Modulus
  <2> QED
    BY <2>1, SlotIs DEF IInv, Kept, TypeOK, NumbersAreCounts
<1>8. WindowHoldsActive'
  <2>1. /\ window \in [Seqn -> Nat] /\ \A i \in Int : Slot(i)' = Slot(i) /\ Slot(i) \in Seqn
    <3>1. \A i \in Int : Slot(i) \in Seqn
      BY ModInRange, Modulus DEF IInv, TypeOK, Slot
    <3> QED
      BY <1>1, <3>1 DEF Slot, IInv, TypeOK
  <2>2. ASSUME NEW i \in 1 .. k PROVE window'[Slot(i)'] = sent' - num_active' + i
    <3>1. CASE i = k
      BY <1>1, <1>2, <1>7, <2>1, <3>1
    <3>2. CASE i # k
      <4>1. i \in 1 .. num_active /\ i \in 1 .. N /\ k \in 1 .. N
        BY <1>2, <3>2, Modulus
      <4>2. Slot(i) # Slot(k)
        BY <3>2, <4>1, SlotsDiffer
      <4>3. window'[Slot(i)] = window[Slot(i)]
        BY <1>1, <1>7, <2>1, <4>2
      <4>4. window[Slot(i)] = sent - num_active + i
        BY <4>1 DEF IInv, Kept, WindowHoldsActive
      <4> QED
        BY <1>1, <1>2, <2>1, <4>3, <4>4
    <3> QED
      BY <3>1, <3>2
  <2>3. ASSUME NEW s \in Seqn, s \notin {Slot(i) : i \in 1 .. k}
        PROVE  window'[s] = NoBuffer
    <3>1. s # Slot(k) /\ s \notin FirstSlots(num_active)
      BY <1>2, <2>3, Modulus DEF FirstSlots
    <3>2. window'[s] = window[s]
      BY <1>1, <1>7, <2>1, <3>1
    <3> QED
      BY <3>1, <3>2 DEF IInv, Kept, WindowHoldsActive
  <2>4. FirstSlots(num_active)' = {Slot(i) : i \in 1 .. k}
    BY <1>1, <1>2, <2>1, Modulus DEF FirstSlots
  <2> QED
    BY <1>1, <1>4, <2>2, <2>3, <2>4, Modulus DEF WindowHoldsActive
<1>9. NoneTooOld'
  <2> DEFINE d == [seqn |-> current_seqn, payload |-> sent + 1]
             ms == <<d>>
  <2>1. d \in Datagram /\ d.seqn = current_seqn /\ d.payload = sent + 1
    BY <1>2, <1>7 DEF Datagram
  <2> HIDE DEF d
  <2>2. ms \in Seq(Datagram) /\ Len(ms) = 1 /\ ms[1] = d /\ dataCh' = Send(dataCh, ms)
    BY <1>1, <2>1 DEF d
  <2> HIDE DEF ms
  <2>3. current_seqn = MOD((sent + 1) - 1, N)
    <3>1. (sent + 1) - 1 = sent
      BY <1>2
    <3> QED
      BY <3>1 DEF IInv, Kept, NumbersAreCounts
  <2>4. \A i \in 1 .. Len(ms) : /\ ms[i].seqn = MOD(ms[i].payload - 1, N)
                                /\ ms[i].payload \in freed + 1 .. sent'
    BY <1>1, <1>2, <2>1, <2>2, <2>3
  <2>5. sent' \in Nat /\ sent <= sent' /\ sent' < freed + N
    BY <1>1, <1>2, <1>4, Modulus
  <2> QED
    BY <1>1, <2>2, <2>4, <2>5, NoneTooOldSend
<1>10. AcksCount'
  <2>1. PICK h \in [1 .. Len(ackCh) -> 0 .. sent] : Counts(h)
    BY DEF IInv, Kept, AcksCount
  <2>2. h \in [1 .. Len(ackCh') -> 0 .. sent']
    BY <1>1, <1>2
  <2> QED
    BY <1>1, <1>4, <2>1, <2>2 DEF AcksCount, Counts
<1> QED
  BY <1>5, <1>6, <1>8, <1>9, <1>10 DEF Kept

(* sendMessage returns with an empty window: what window_empty() cannot    *)
(* tell from it, a full one, a short line never makes.                     *)
LEMMA KeptReturns == ASSUME IInv, sendMessageReturns PROVE Kept'
<1>1. /\ last_acked_seqn = MOD(current_seqn - 1, N) /\ left = 0
      /\ pc' = "idle" /\ UNCHANGED <<left, sent, current_seqn, last_acked_seqn, num_active,
                                     window, receiver, delivered, dataCh, ackCh>>
  BY DEF sendMessageReturns, Finished, window_empty, LAST_SENT_SEQN, receiver
<1>2. num_active = 0
  <2>1. MOD(MOD(sent, N) + (-1), N) = MOD(sent + (-1), N)
    BY CountTypes, ModPlus
  <2>2. MOD(sent, N) \in Int /\ sent \in Int /\ freed \in Int
    <3>1. sent \in Int /\ freed \in Int
      BY CountTypes
    <3> QED
      BY <3>1, ModInRange, Modulus
  <2>3. MOD(freed - 1, N) = MOD(sent - 1, N)
    <3>1. MOD(sent, N) + (-1) = MOD(sent, N) - 1 /\ sent + (-1) = sent - 1
      BY <2>2
    <3> QED
      BY <1>1, <2>1, <3>1 DEF IInv, Kept, NumbersAreCounts
  <2>4. freed - 1 = sent - 1
    <3>1. /\ freed - 1 \in Int /\ sent - 1 \in Int
          /\ (freed - 1) - (sent - 1) < N /\ (sent - 1) - (freed - 1) < N
      <4>1. /\ sent \in Int /\ freed \in Int /\ num_active \in 0 .. N - 1
            /\ freed + num_active = sent
        BY CountTypes
      <4> QED
        BY <4>1, Modulus
    <3> QED
      BY <2>3, <3>1, ModInjective
  <2> QED
    BY <2>4, CountTypes
<1>3. LineFits'
  BY <1>1, <1>2, CountTypes, Modulus DEF LineFits
<1> QED
  BY <1>1, <1>3, Frames DEF Kept

LEMMA KeptTimeout == ASSUME IInv, timeout PROVE Kept'
<1>1. /\ pc' = "head" /\ dataCh' = Send(dataCh, Resent)
      /\ UNCHANGED <<left, sent, current_seqn, last_acked_seqn, num_active,
                     window, receiver, delivered, ackCh>>
  BY DEF timeout, receiver
<1>2. LineFits'
  BY <1>1 DEF IInv, Kept, LineFits
<1>3. /\ sent \in Nat /\ num_active \in 0 .. N - 1 /\ freed \in 0 .. sent
      /\ freed + num_active = sent
  BY CountTypes
<1>4. ASSUME NEW i \in 1 .. num_active
      PROVE  /\ [seqn |-> Slot(i), payload |-> window[Slot(i)]] \in Datagram
             /\ window[Slot(i)] = freed + i /\ Slot(i) = MOD((freed + i) - 1, N)
  <2>1. window[Slot(i)] = freed + i
    BY DEF IInv, Kept, WindowHoldsActive, freed
  <2>2. Slot(i) = MOD(freed - 1 + i, N) /\ freed - 1 + i = (freed + i) - 1
    BY <1>3, SlotIs
  <2>3. Slot(i) \in Seqn /\ freed + i \in Nat
    BY <1>3, <2>2, ModInRange
  <2> QED
    BY <2>1, <2>2, <2>3 DEF Datagram
<1>5. Resent \in Seq(Datagram) /\ Len(Resent) = num_active
  BY <1>3, <1>4 DEF Resent
<1>6. \A i \in 1 .. Len(Resent) : /\ Resent[i].seqn = MOD(Resent[i].payload - 1, N)
                                  /\ Resent[i].payload \in freed + 1 .. sent'
  <2> TAKE i \in 1 .. Len(Resent)
  <2>1. i \in 1 .. num_active
    BY <1>5
  <2>2. Resent[i].seqn = Slot(i) /\ Resent[i].payload = window[Slot(i)]
    BY <2>1 DEF Resent
  <2>3. window[Slot(i)] = freed + i /\ Slot(i) = MOD((freed + i) - 1, N)
    BY <1>4, <2>1
  <2>4. freed + i \in freed + 1 .. sent
    BY <1>3, <2>1, Modulus
  <2> QED
    BY <1>1, <2>2, <2>3, <2>4
<1>7. NoneTooOld'
  <2>1. sent' \in Nat /\ sent <= sent' /\ sent' < freed + N
    BY <1>1, <1>3, Modulus
  <2> QED
    BY <1>1, <1>5, <1>6, <2>1, NoneTooOldSend
<1> QED
  BY <1>1, <1>2, <1>7, Frames DEF Kept

LEMMA KeptListen == ASSUME IInv, listen_for_ack PROVE Kept'
<1> DEFINE a0 == Head(ackCh)
<1>1. PICK h \in [1 .. Len(ackCh) -> 0 .. sent] : Counts(h)
  BY DEF IInv, Kept, AcksCount
<1> DEFINE a == h[1]
           d == a - freed
           k == num_active - d
<1>2. /\ ackCh # <<>> /\ ackCh' = Tail(ackCh) /\ pc' = "head"
      /\ remove_from_window(a0)
      /\ UNCHANGED <<left, sent, current_seqn, receiver, delivered, dataCh>>
  BY DEF listen_for_ack, receiver
<1>3. ackCh[1] = a0 /\ 1 \in 1 .. Len(ackCh)
  BY <1>2, TailShifts DEF IInv, TypeOK
<1>4. a \in 0 .. sent /\ freed <= a /\ a <= taken /\ a0 = MOD(a - 1, N)
  BY <1>1, <1>3 DEF Counts
<1>5. MOD(a0 - last_acked_seqn, N) = d
  BY <1>4, AckDistance
<1>6. /\ sent \in Nat /\ num_active \in 0 .. N - 1 /\ freed \in 0 .. sent
      /\ freed + num_active = sent /\ left \in Nat /\ num_active + left < N
  BY CountTypes DEF IInv, Kept, LineFits
<1> HIDE DEF a0, a
<1>7. /\ d \in 0 .. num_active /\ k \in 0 .. N - 1 /\ k <= num_active
      /\ sent - k = a /\ k <= sent /\ k + left < N
  BY <1>4, <1>6, Modulus
<1>8. /\ window' = [s \in Seqn |-> IF s \in FirstSlots(d) THEN NoBuffer ELSE window[s]]
      /\ num_active' = k /\ last_acked_seqn' = a0
  BY <1>2, <1>5 DEF remove_from_window
<1>9. freed' = a /\ taken' = taken
  BY <1>2, <1>7, <1>8 DEF freed, taken
<1>10. LineFits'
  BY <1>2, <1>7, <1>8 DEF LineFits
<1>11. NumbersAreCounts'
  BY <1>2, <1>4, <1>8, <1>9 DEF IInv, Kept, NumbersAreCounts, receiver
<1> HIDE DEF d, k
<1>12. \A i \in Int : Slot(i)' = Slot(d + i)
  <2> TAKE i \in Int
  <2>1. Slot(i)' = MOD(MOD(a - 1, N) + i, N)
    BY <1>4, <1>8 DEF Slot
  <2>2. a - 1 \in Int /\ d + i \in Int /\ a - 1 + i = freed - 1 + (d + i)
    BY <1>4, <1>6 DEF d
  <2>3. MOD(MOD(a - 1, N) + i, N) = MOD(a - 1 + i, N)
    BY <2>2, ModPlus
  <2>4. Slot(d + i) = MOD(freed - 1 + (d + i), N)
    BY <2>2, SlotIs
  <2> QED
    BY <2>1, <2>2, <2>3, <2>4
<1>13. num_active = d + k /\ d \in Int /\ k \in Int
  BY <1>6, <1>7 DEF k
<1>14. ASSUME NEW i \in 1 .. k PROVE window'[Slot(i)'] = sent' - num_active' + i
  <2>1. /\ d + i \in 1 .. num_active /\ d + i \in 1 .. N /\ i \in Int
    BY <1>6, <1>7, <1>13, Modulus
  <2>2. Slot(d + i) \in Seqn
    <3>1. last_acked_seqn + (d + i) \in Int
      BY <2>1, Modulus DEF IInv, TypeOK
    <3> QED
      BY <3>1, ModInRange DEF Slot
  <2>3. Slot(d + i) \notin FirstSlots(d)
    <3> SUFFICES ASSUME NEW j \in 1 .. d, Slot(d + i) = Slot(j) PROVE FALSE
      BY DEF FirstSlots
    <3>1. j \in 1 .. N /\ j # d + i
      BY <1>6, <1>7, <1>13, Modulus
    <3> QED
      BY <2>1, <3>1, SlotsDiffer
  <2>4. window'[Slot(d + i)] = window[Slot(d + i)]
    BY <1>8, <2>2, <2>3
  <2>5. window[Slot(d + i)] = sent - num_active + (d + i)
    BY <2>1 DEF IInv, Kept, WindowHoldsActive
  <2>6. sent - num_active + (d + i) = sent - k + i
    BY <1>6, <1>7, <1>13, <2>1
  <2> QED
    BY <1>2, <1>8, <1>12, <2>1, <2>4, <2>5, <2>6
<1>15. ASSUME NEW s \in Seqn, s \notin FirstSlots(num_active)' PROVE window'[s] = NoBuffer
  <2>1. CASE s \in FirstSlots(d)
    BY <1>8, <2>1
  <2>2. CASE s \notin FirstSlots(d)
    <3>1. s \notin FirstSlots(num_active)
      <4> SUFFICES ASSUME NEW j \in 1 .. num_active, s = Slot(j) PROVE FALSE
        BY DEF FirstSlots
      <4>1. CASE j <= d
        <5>1. j \in 1 .. d
          BY <1>7, <1>13, <4>1
        <5> QED
          BY <2>2, <5>1 DEF FirstSlots
      <4>2. CASE ~(j <= d)
        <5>1. PICK i \in 1 .. k : d + i = j
          <6>1. j - d \in 1 .. k /\ d + (j - d) = j
            BY <1>6, <1>7, <1>13, <4>2
          <6> QED
            BY <6>1
        <5>2. Slot(i)' = Slot(j)
          <6>1. i \in Int
            BY <1>13
          <6>2. Slot(i)' = Slot(d + i)
            BY <1>12, <6>1
          <6> QED
            BY <5>1, <6>2
        <5>3. Slot(j) \in FirstSlots(num_active)'
          BY <1>8, <5>1, <5>2 DEF FirstSlots
        <5> QED
          BY <1>15, <5>3
      <4> QED
        BY <4>1, <4>2
    <3> QED
      BY <1>8, <2>2, <3>1 DEF IInv, Kept, WindowHoldsActive
  <2> QED
    BY <2>1, <2>2
<1>16. WindowHoldsActive'
  <2>1. num_active' \in 0 .. N
    BY <1>7, <1>8, Modulus
  <2> QED
    BY <1>8, <1>14, <1>15, <2>1 DEF WindowHoldsActive
<1>17. AcksCount'
  BY <1>1, <1>2, <1>9, AcksCountTail DEF a
<1> QED
  BY <1>2, <1>10, <1>11, <1>16, <1>17, Frames DEF Kept

(* The receiver's steps.                                                   *)

(* A datagram with the expected number carries the next byte.              *)
LEMMA NextByte ==
    ASSUME IInv, dataCh # <<>>, dataCh[1].seqn = expected_seqn
    PROVE  dataCh[1].payload = Len(delivered) + 1 /\ Len(delivered) < sent
<1> DEFINE p == dataCh[1].payload
<1>1. /\ dataCh[1].seqn = MOD(p - 1, N) /\ p \in 1 .. sent
      /\ Len(delivered) <= p + N - 2
  BY TailShifts DEF IInv, Kept, TypeOK, NoneTooOld
<1>2. /\ sent \in Nat /\ num_active \in 0 .. N - 1 /\ freed + num_active = sent
      /\ freed \in Nat /\ freed <= taken /\ Len(delivered) \in Nat
      /\ taken = Len(delivered) \/ (taken = 1 /\ Len(delivered) = 0)
  BY CountTypes DEF IInv, Kept, NumbersAreCounts
<1>3. MOD(p - 1, N) = MOD(Len(delivered), N)
  BY <1>1 DEF IInv, Kept, NumbersAreCounts
<1> HIDE DEF p
<1>4. /\ p - 1 \in Int /\ Len(delivered) \in Int
      /\ (p - 1) - Len(delivered) < N /\ Len(delivered) - (p - 1) < N
  BY <1>1, <1>2, Modulus
<1>5. p - 1 = Len(delivered)
  BY <1>3, <1>4, ModInjective
<1>6. p = Len(delivered) + 1 /\ Len(delivered) < sent
  BY <1>1, <1>2, <1>5
<1> QED
  BY <1>6 DEF p

LEMMA KeptAccept == ASSUME IInv, AcceptDatagram PROVE Kept'
<1>1. /\ dataCh # <<>> /\ Head(dataCh).seqn = expected_seqn
      /\ expected_seqn' = MOD(expected_seqn + 1, N)
      /\ delivered' = Append(delivered, Head(dataCh).payload)
      /\ last_sent_ackn' = expected_seqn /\ ackCh' = Send(ackCh, <<expected_seqn>>)
      /\ dataCh' = Tail(dataCh)
      /\ UNCHANGED <<pc, left, sent, current_seqn, last_acked_seqn, num_active, window>>
  BY DEF AcceptDatagram, send_ack, sender
<1>2. Head(dataCh) = dataCh[1] /\ delivered \in Seq(Nat) /\ dataCh[1].payload \in Nat
  <2>1. delivered \in Seq(Nat) /\ dataCh \in Seq(Datagram)
    BY DEF IInv, TypeOK
  <2>2. Head(dataCh) = dataCh[1] /\ Head(dataCh) \in Datagram
    BY <1>1, <2>1, TailShifts, HeadTail
  <2> QED
    BY <2>1, <2>2 DEF Datagram
<1> DEFINE n == Len(delivered)
<1>3. dataCh[1].payload = n + 1 /\ n < sent /\ n \in Nat
  BY <1>1, <1>2, NextByte, CountTypes
<1>4. Len(delivered') = n + 1 /\ delivered' # <<>>
  BY <1>1, <1>2, <1>3
<1>5. /\ taken' = n + 1 /\ freed' = freed /\ taken \in Nat /\ taken <= n + 1
      /\ sent \in Nat /\ freed \in Nat /\ freed <= taken /\ expected_seqn = MOD(n, N)
      /\ expected_seqn \in Seqn
  <2>1. taken' = n + 1 /\ freed' = freed
    BY <1>1, <1>3, <1>4 DEF taken, freed
  <2>2. taken \in Nat /\ taken <= n + 1 /\ sent \in Nat /\ freed \in Nat /\ freed <= taken
    BY <1>3, CountTypes DEF IInv, Kept, NumbersAreCounts
  <2>3. expected_seqn = MOD(n, N) /\ expected_seqn \in Seqn
    BY DEF IInv, Kept, NumbersAreCounts, TypeOK
  <2> QED
    BY <2>1, <2>2, <2>3
<1> HIDE DEF n
<1>6. NumbersAreCounts'
  <2>1. expected_seqn' = MOD(n + 1, N)
    BY <1>1, <1>3, <1>5, ModPlus
  <2>2. last_sent_ackn' = MOD(taken' - 1, N)
    <3>1. taken' - 1 = n
      BY <1>3, <1>5
    <3> QED
      BY <1>1, <1>5, <3>1
  <2>3. Len(delivered') <= sent' /\ freed' <= taken'
    BY <1>1, <1>3, <1>4, <1>5
  <2> QED
    BY <1>1, <1>4, <1>5, <2>1, <2>2, <2>3 DEF IInv, Kept, NumbersAreCounts
<1>7. LineFits'
  BY <1>1 DEF IInv, Kept, LineFits
<1>8. NoneTooOld'
  BY <1>1, <1>3, <1>4, NoneTooOldTail
<1>9. AcksCount'
  <2>1. expected_seqn = MOD(taken' - 1, N)
    BY <1>1, <1>6 DEF NumbersAreCounts
  <2> QED
    BY <1>1, <1>3, <1>5, <2>1, AcksCountSend
<1> QED
  BY <1>1, <1>6, <1>7, <1>8, <1>9, Frames DEF Kept

LEMMA KeptReject == ASSUME IInv, RejectDatagram PROVE Kept'
<1>1. /\ dataCh # <<>> /\ dataCh' = Tail(dataCh)
      /\ last_sent_ackn' = last_sent_ackn /\ ackCh' = Send(ackCh, <<last_sent_ackn>>)
      /\ UNCHANGED <<pc, left, sent, current_seqn, last_acked_seqn, num_active, window,
                     receiver, delivered>>
  BY DEF RejectDatagram, send_ack, sender, receiver
<1>2. LineFits'
  BY <1>1 DEF IInv, Kept, LineFits
<1>3. NoneTooOld'
  BY <1>1, NoneTooOldTail
<1>4. taken' = taken /\ taken \in Nat /\ taken <= sent
  <2>1. 1 <= sent
    <3>1. Len(dataCh) \in Nat /\ Len(dataCh) >= 1
      BY <1>1, TailShifts DEF IInv, TypeOK
    <3>2. dataCh[1].payload \in 1 .. sent
      BY <3>1 DEF IInv, Kept, NoneTooOld
    <3>3. sent \in Nat
      BY CountTypes
    <3> QED
      BY <3>2, <3>3
  <2> QED
    BY <1>1, <2>1, CountTypes DEF taken, IInv, Kept, NumbersAreCounts
<1>5. AcksCount'
  <2>1. last_sent_ackn = MOD(taken' - 1, N) /\ last_sent_ackn \in Seqn
    BY <1>4 DEF IInv, Kept, NumbersAreCounts, TypeOK
  <2> QED
    BY <1>1, <1>4, <2>1, AcksCountSend
<1> QED
  BY <1>1, <1>2, <1>3, <1>5, Frames DEF Kept

(* The network's.                                                          *)
LEMMA KeptLoseData == ASSUME IInv, LoseData PROVE Kept'
<1>1. /\ dataCh # <<>> /\ dataCh' = Tail(dataCh)
      /\ UNCHANGED <<pc, left, sent, current_seqn, last_acked_seqn, num_active, window,
                     receiver, delivered, ackCh>>
  BY DEF LoseData, sender, receiver
<1>2. LineFits' /\ NoneTooOld'
  BY <1>1, NoneTooOldTail DEF IInv, Kept, LineFits
<1> QED
  BY <1>1, <1>2, Frames DEF Kept

LEMMA KeptLoseAck == ASSUME IInv, LoseAck PROVE Kept'
<1>1. /\ ackCh # <<>> /\ ackCh' = Tail(ackCh)
      /\ UNCHANGED <<pc, left, sent, current_seqn, last_acked_seqn, num_active, window,
                     receiver, delivered, dataCh>>
  BY DEF LoseAck, sender, receiver
<1>2. LineFits'
  BY <1>1 DEF IInv, Kept, LineFits
<1>3. AcksCount'
  <2>1. PICK h \in [1 .. Len(ackCh) -> 0 .. sent] : Counts(h)
    BY DEF IInv, Kept, AcksCount
  <2>2. freed' = freed /\ taken' = taken
    BY <1>1 DEF freed, taken
  <2> QED
    BY <1>1, <2>1, <2>2, AcksCountTail
<1> QED
  BY <1>1, <1>2, <1>3, Frames DEF Kept

-----------------------------------------------------------------------------
(* The theorems.                                                           *)

LEMMA IInvInit == Init => IInv
<1> SUFFICES ASSUME Init PROVE IInv
  OBVIOUS
<1> USE DEF Init
<1>1. freed = 0 /\ taken = 1 /\ Len(delivered) = 0 /\ N \in Nat /\ N >= 2
  BY Modulus DEF freed, taken
<1>2. LineFits
  BY <1>1 DEF LineFits
<1>3. NumbersAreCounts
  <2>1. MOD(0, N) = 0
    BY <1>1, ModId DEF Seqn
  <2>2. MOD(-1, N) = N - 1
    <3>1. (-1 + N) - (-1) = 1 * N /\ -1 + N \in Int /\ -1 \in Int /\ -1 + N = N - 1
      BY <1>1
    <3>2. (-1 + N) % N = (-1) % N
      <4> DEFINE x == -1 + N
                 y == -1
      <4>1. x \in Int /\ y \in Int /\ 1 \in Int /\ x - y = 1 * N
        BY <3>1
      <4> HIDE DEF x, y
      <4>2. x % N = y % N
        BY <4>1, Modulus, ModShift
      <4> QED
        BY <4>2 DEF x, y
    <3>3. (N - 1) % N = N - 1
      BY <1>1, ModSmall
    <3> QED
      BY <3>1, <3>2, <3>3 DEF MOD
  <2> QED
    BY <1>1, <2>1, <2>2 DEF NumbersAreCounts
<1>4. WindowHoldsActive
  BY <1>1 DEF WindowHoldsActive
<1>5. NoneTooOld
  <2>1. Len(dataCh) = 0
    OBVIOUS
  <2> QED
    BY <2>1 DEF NoneTooOld
<1>6. AcksCount
  <2> DEFINE h == [k \in 1 .. Len(ackCh) |-> 0]
  <2>1. Len(ackCh) = 0 /\ 1 .. Len(ackCh) = {}
    OBVIOUS
  <2>2. h \in [1 .. Len(ackCh) -> 0 .. sent]
    BY <2>1
  <2>3. Counts(h)
    BY <2>1 DEF Counts
  <2> QED
    BY <2>2, <2>3 DEF AcksCount
<1> QED
  BY <1>2, <1>3, <1>4, <1>5, <1>6, TypeInit DEF IInv, Kept

LEMMA IInvStep == ASSUME ShortLines, IInv, [Next]_vars PROVE IInv'
<1>1. TypeOK'
  BY TypeStep DEF IInv
<1>2. CASE UNCHANGED vars
  BY <1>1, <1>2, Frames DEF vars, sender, receiver, IInv, Kept, LineFits
<1>3. CASE Next
  BY <1>1, <1>3, KeptBeginLine, KeptAdd, KeptListen, KeptTimeout, KeptReturns,
     KeptAccept, KeptReject, KeptLoseData, KeptLoseAck DEF Next, IInv
<1> QED
  BY <1>2, <1>3

(* For every N, lines shorter than N and any losses, delays and refusals,  *)
(* the num_active slots after the last acknowledged one hold the bytes not *)
(* yet freed, in order, and every other slot is free.                      *)
THEOREM WindowHoldsActiveCorrect ==
    ASSUME ShortLines PROVE Spec => []WindowHoldsActive
<1>1. Init => IInv
  BY IInvInit
<1>2. IInv /\ [Next]_vars => IInv'
  BY IInvStep
<1>3. IInv => WindowHoldsActive
  BY DEF IInv, Kept
<1> QED
  BY <1>1, <1>2, <1>3, PTL DEF Spec

(* No acknowledgement in flight, however late, covers a slot that is not   *)
(* in the window.                                                          *)
THEOREM AcksWithinWindowCorrect ==
    ASSUME ShortLines PROVE Spec => []AcksWithinWindow
<1>1. Init => IInv
  BY IInvInit
<1>2. IInv /\ [Next]_vars => IInv'
  BY IInvStep
<1>3. IInv => AcksWithinWindow
  <2> SUFFICES ASSUME IInv PROVE AcksWithinWindow
    OBVIOUS
  <2>1. PICK h \in [1 .. Len(ackCh) -> 0 .. sent] : Counts(h)
    BY DEF IInv, Kept, AcksCount
  <2>2. DOMAIN ackCh = 1 .. Len(ackCh)
    BY DEF IInv, TypeOK
  <2>3. ASSUME NEW k \in 1 .. Len(ackCh)
        PROVE  MOD(ackCh[k] - last_acked_seqn, N) <= num_active
    <3>1. h[k] \in 0 .. sent /\ freed <= h[k] /\ ackCh[k] = MOD(h[k] - 1, N)
      BY <2>1 DEF Counts
    <3>2. MOD(ackCh[k] - last_acked_seqn, N) = h[k] - freed
      BY <3>1, AckDistance
    <3> QED
      BY <3>1, <3>2, CountTypes
  <2> QED
    BY <2>2, <2>3 DEF AcksWithinWindow
<1> QED
  BY <1>1, <1>2, <1>3, PTL DEF Spec

(* The sender never frees a byte the receiver has not taken, but for the   *)
(* very first one while nothing is taken.                                  *)
THEOREM OnlyFirstByteDisownedCorrect ==
    ASSUME ShortLines PROVE Spec => []OnlyFirstByteDisowned
<1>1. Init => IInv
  BY IInvInit
<1>2. IInv /\ [Next]_vars => IInv'
  BY IInvStep
<1>3. IInv => OnlyFirstByteDisowned
  <2> SUFFICES ASSUME IInv, freed > Len(delivered) PROVE delivered = <<>> /\ freed = 1
    BY DEF OnlyFirstByteDisowned, Disowned, freed
  <2>1. freed <= taken
    BY DEF IInv, Kept, NumbersAreCounts
  <2> QED
    BY <2>1, CountTypes
<1> QED
  BY <1>1, <1>2, <1>3, PTL DEF Spec

(* Go-back-N with any N and lines shorter than N delivers the stream: each *)
(* byte once and in order.                                                 *)
THEOREM DeliversStreamCorrect ==
    ASSUME ShortLines PROVE Spec => DeliversStream
<1> DEFINE OneByte == [Stream!Submit \/ Stream!Deliver]_(Stream!streamVars)
<1>1. Init => IInv /\ Stream!StreamInit
  BY IInvInit DEF Init, Stream!StreamInit
<1>2. IInv /\ [Next]_vars => IInv'
  BY IInvStep
<1>3. IInv /\ [Next]_vars => OneByte
  <2> SUFFICES ASSUME IInv, [Next]_vars PROVE OneByte
    OBVIOUS
  <2> USE DEF Stream!streamVars
  <2>1. CASE add_to_window
    BY <2>1 DEF add_to_window, receiver, Stream!Submit
  <2>2. CASE AcceptDatagram
    <3>1. /\ dataCh # <<>> /\ dataCh \in Seq(Datagram) /\ sent' = sent
          /\ Head(dataCh).seqn = expected_seqn
          /\ delivered' = Append(delivered, Head(dataCh).payload)
      BY <2>2 DEF AcceptDatagram, sender, IInv, TypeOK
    <3>2. Head(dataCh) = dataCh[1]
      BY <3>1, TailShifts
    <3>3. Head(dataCh).payload = Len(delivered) + 1 /\ Len(delivered) < sent
      BY <3>1, <3>2, NextByte
    <3> QED
      BY <3>1, <3>3 DEF Stream!Deliver
  <2>3. CASE ~add_to_window /\ ~AcceptDatagram
    <3>1. UNCHANGED <<sent, delivered>>
      BY <2>3 DEF Next, BeginLine, listen_for_ack, timeout, sendMessageReturns,
                  RejectDatagram, LoseData, LoseAck, vars, sender, receiver
    <3> QED
      BY <3>1
  <2> QED
    BY <2>1, <2>2, <2>3
<1> QED
  BY <1>1, <1>2, <1>3, PTL DEF Spec, DeliversStream, Stream!StreamSpec
=============================================================================
