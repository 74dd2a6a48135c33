-------------------------- MODULE TcpClientProofs --------------------------
(***************************************************************************)
(* Proofs about the TCP client, for every modulus of the sequence numbers,  *)
(* initial sequence numbers, lengths of both streams, segment size, buffer  *)
(* and timing: both streams are exact, and success is never reported early. *)
(*                                                                         *)
(* Sequence numbers are counted from the initial ones: what the client      *)
(* sends is a stretch of submitted, what it expects is the number of units  *)
(* it has taken.  The order of sequence numbers and send_unacknowledged do  *)
(* not matter for these properties; that numbers do not repeat within half  *)
(* the space does.                                                          *)
(***************************************************************************)
EXTENDS TcpClient, TLAPS

----------------------------------------------------------------------------
(* The inductive invariant, as predicates of the client c, of what was submitted
   to it, of what the peer has taken and of the length of the peer's stream *)

Segments == [sequence : SeqNumbers, units : Seq(Units)]

Clients ==
  [state : States, error : Errors, operation : Operations, step_result : Results,
   send_unacknowledged : SeqNumbers, send_next : SeqNumbers, receive_next : SeqNumbers,
   received : Seq(Nat),
   pending : [sequence : SeqNumbers, units : Seq(Units), retries : Nat, sent_at : Int],
   previous_now : Int, stalled : Nat]

\* The states after the client's FIN and after the peer's.
Finished == {"FIN_WAIT_1", "FIN_WAIT_2", "CLOSING", "LAST_ACK"}
PeerFinished == {"CLOSE_WAIT", "CLOSING", "LAST_ACK"}

\* x is the stretch of what was submitted that has this sequence number.
Stretch(x, sequence, sub) ==
  \E k \in 0 .. Len(sub) - 1 :
    /\ sequence = Add(InitialSequence, k)
    /\ Len(x) >= 1 /\ k + Len(x) <= Len(sub)
    /\ \A i \in 1 .. Len(x) : x[i] = sub[k + i]

\* The segment that awaits acknowledgment is the end of what was submitted and
\* belongs to the operation in progress; without one the peer has it all.
PendingOK(c, sub, pe) ==
  /\ sub # <<>> => c.send_next = Add(InitialSequence, Len(sub))
  /\ c.pending # NoSegment =>
       /\ Stretch(c.pending.units, c.pending.sequence, sub)
       /\ PendingEnd(c.pending) = c.send_next
       /\ c.step_result = "PENDING"
       /\ \/ c.operation = "CONNECT" /\ c.state = "SYN_SENT"
          \/ c.operation \in {"SEND", "CLOSE"}
       /\ c.state \notin {"CLOSED", "FIN_WAIT_2", "FAILED"}
  /\ c.pending = NoSegment /\ c.state # "FAILED" => pe = sub
  /\ c.operation = "SEND" /\ c.step_result = "COMPLETE" => pe = sub

\* How far the client's stream has come.
StageOK(c, sub) ==
  /\ c.state \in {"SYN_SENT", "ESTABLISHED", "CLOSE_WAIT"} => Len(sub) \in 1 .. ClientBytes + 1
  /\ c.state \in Finished \/ (c.state = "CLOSED" /\ sub # <<>>) =>
       sub # <<>> /\ sub[Len(sub)] = FIN

\* How far the peer's stream has come.
ReceivedOK(c, sub, length) ==
  /\ \A i \in 1 .. Len(c.received) : c.received[i] = i
  /\ Len(c.received) <= receive_capacity
  /\ c.state = "SYN_SENT" => c.received = <<>>
  /\ c.state \in {"ESTABLISHED", "FIN_WAIT_1", "FIN_WAIT_2"} =>
       /\ c.receive_next = Add(PeerInitialSequence, 1 + Len(c.received))
       /\ Len(c.received) <= length
  /\ c.state \in PeerFinished \/ (c.state = "CLOSED" /\ sub # <<>>) =>
       /\ Len(c.received) = length
  /\ c.state \in PeerFinished =>
       c.receive_next = Add(PeerInitialSequence, 2 + Len(c.received))

ClientOK(c, sub, pe, length) ==
  c \in Clients /\ PendingOK(c, sub, pe) /\ StageOK(c, sub) /\ ReceivedOK(c, sub, length)

\* What is on the wire or with the peer was submitted.
WorldOK(w, sub, pe) ==
  /\ w \subseteq Segments
  /\ \A segment \in w : Stretch(segment.units, segment.sequence, sub)
  /\ Len(pe) <= Len(sub)
  /\ \A i \in 1 .. Len(pe) : pe[i] = sub[i]

IInv ==
  /\ ClientOK(client, submitted, peer, stream)
  /\ WorldOK(wire, submitted, peer)
  /\ submitted \in Seq(Units) /\ Len(submitted) <= ClientBytes + 2
  /\ peer \in Seq(Units)
  /\ stream \in 0 .. PeerBytes
  /\ now \in Clock

----------------------------------------------------------------------------
(* Sequence numbers *)

\* Remainders of numbers less than two moduli away from 0.
LEMMA Remainders ==
  ASSUME NEW m \in Nat \ {0}, NEW x \in Int
  PROVE  /\ 0 <= x /\ x < m => x % m = x
         /\ m <= x /\ x < 2 * m => x % m = x - m
         /\ -m <= x /\ x < 0 => x % m = x + m
OBVIOUS

LEMMA AddInRange ==
  ASSUME NEW a \in SeqNumbers, NEW k \in 0 .. SeqMod - 1
  PROVE  Add(a, k) = IF a + k < SeqMod THEN a + k ELSE a + k - SeqMod
<1> DEFINE x == a + k
<1>1. SeqMod \in Nat \ {0} /\ x \in Int /\ 0 <= x /\ x < 2 * SeqMod
  BY TcpAssumption DEF SeqNumbers
<1>2. Add(a, k) = x % SeqMod
  BY DEF Add
<1> HIDE DEF x
<1>3. x < SeqMod => x % SeqMod = x
  BY <1>1, Remainders
<1>4. ASSUME ~ (x < SeqMod) PROVE x % SeqMod = x - SeqMod
  <2>1. SeqMod <= x
    BY <1>1, <1>4
  <2> QED
    BY <1>1, <2>1, Remainders, Zenon
<1>5. x = a + k
  BY DEF x
<1>6. CASE x < SeqMod
  BY <1>2, <1>3, <1>5, <1>6
<1>7. CASE ~ (x < SeqMod)
  <2>1. Add(a, k) = x - SeqMod
    BY <1>2, <1>4, <1>7, Zenon
  <2> QED
    BY <2>1, <1>1, <1>5, <1>7 DEF SeqNumbers
<1> QED
  BY <1>6, <1>7

LEMMA AddIsExact ==
  ASSUME NEW a \in SeqNumbers, NEW i \in 0 .. SeqMod - 1, NEW j \in 0 .. SeqMod - 1
  PROVE  /\ Add(a, i) \in SeqNumbers
         /\ Add(a, i) = Add(a, j) => i = j
         /\ (Add(a, i) - a) % SeqMod = i
         /\ i + j < SeqMod => Add(Add(a, i), j) = Add(a, i + j)
<1>1. SeqMod \in Nat \ {0} /\ a \in Int /\ 0 <= a /\ a < SeqMod
  BY TcpAssumption DEF SeqNumbers
<1>2. /\ Add(a, i) = IF a + i < SeqMod THEN a + i ELSE a + i - SeqMod
      /\ Add(a, j) = IF a + j < SeqMod THEN a + j ELSE a + j - SeqMod
  BY AddInRange
<1>3. Add(a, i) \in SeqNumbers
  BY <1>1, <1>2 DEF SeqNumbers
<1>4. Add(a, i) = Add(a, j) => i = j
  BY <1>1, <1>2
<1>5. (Add(a, i) - a) % SeqMod = i
  <2> DEFINE x == Add(a, i) - a
  <2>1. x \in Int /\ (x = i \/ x = i - SeqMod)
    BY <1>1, <1>2
  <2> HIDE DEF x
  <2>2. x % SeqMod = i
    BY <1>1, <2>1, Remainders
  <2> QED
    BY <2>2 DEF x
<1>6. ASSUME i + j < SeqMod PROVE Add(Add(a, i), j) = Add(a, i + j)
  <2> DEFINE b == Add(a, i)
             k == i + j
  <2>1. b \in SeqNumbers /\ k \in 0 .. SeqMod - 1
    BY <1>1, <1>3, <1>6
  <2>2. b = IF a + i < SeqMod THEN a + i ELSE a + i - SeqMod
    BY <1>2
  <2> HIDE DEF b
  <2>3. Add(b, j) = IF b + j < SeqMod THEN b + j ELSE b + j - SeqMod
    BY <2>1, AddInRange
  <2>4. k = i + j /\ k \in 0 .. SeqMod - 1
    BY <2>1
  <2> HIDE DEF k
  <2>5. Add(a, k) = IF a + k < SeqMod THEN a + k ELSE a + k - SeqMod
    BY <2>1, AddInRange
  <2>6. Add(b, j) = Add(a, k)
    BY <1>1, <2>2, <2>3, <2>4, <2>5
  <2> QED
    BY <2>6 DEF b, k
<1> QED
  BY <1>3, <1>4, <1>5, <1>6

LEMMA AddInjective ==
  ASSUME NEW a \in SeqNumbers, NEW i \in 0 .. SeqMod - 1, NEW j \in 0 .. SeqMod - 1,
         Add(a, i) = Add(a, j)
  PROVE  i = j
BY AddIsExact

LEMMA AddTwice ==
  ASSUME NEW a \in SeqNumbers, NEW i \in 0 .. SeqMod - 1, NEW j \in 0 .. SeqMod - 1,
         NEW k \in 0 .. SeqMod - 1, k = i + j
  PROVE  Add(Add(a, i), j) = Add(a, k)
<1>1. i + j < SeqMod
  BY TcpAssumption
<1> QED
  BY <1>1, AddIsExact

(* Sequences *)

LEMMA Concatenation ==
  ASSUME NEW S, NEW f \in Seq(S), NEW g \in Seq(S)
  PROVE  /\ f \o g \in Seq(S) /\ Len(f \o g) = Len(f) + Len(g)
         /\ \A i \in 1 .. Len(f) : (f \o g)[i] = f[i]
         /\ \A i \in 1 .. Len(g) : (f \o g)[Len(f) + i] = g[i]
OBVIOUS

LEMMA PartOfSequence ==
  ASSUME NEW S, NEW f \in Seq(S), NEW k \in Nat, NEW n \in Nat, k + n <= Len(f)
  PROVE  /\ SubSeq(f, k + 1, k + n) \in Seq(S) /\ Len(SubSeq(f, k + 1, k + n)) = n
         /\ \A i \in 1 .. n : SubSeq(f, k + 1, k + n)[i] = f[k + i]
OBVIOUS

----------------------------------------------------------------------------
(* The functions of the client *)

LEMMA ConstantsTyped ==
  /\ SeqMod \in Nat \ {0} /\ 0 \in SeqNumbers
  /\ InitialSequence \in SeqNumbers /\ PeerInitialSequence \in SeqNumbers
  /\ ClientBytes \in Nat /\ PeerBytes \in Nat /\ receive_capacity \in Nat
  /\ ClientBytes + 4 <= SeqMod /\ PeerBytes + 4 <= SeqMod
  /\ max_retries \in Nat /\ operation_timeout_ms \in Nat
BY TcpAssumption DEF SeqNumbers

LEMMA NoSegmentTyped ==
  /\ NoSegment \in [sequence : SeqNumbers, units : Seq(Units), retries : Nat, sent_at : Int]
  /\ NoSegment.units = <<>>
BY ConstantsTyped DEF NoSegment

LEMMA FailKeeps ==
  ASSUME NEW c, NEW sub, NEW pe, NEW length, ClientOK(c, sub, pe, length), NEW error \in Errors
  PROVE  ClientOK(fail_client(c, error), sub, pe, length)
<1> DEFINE v == fail_client(c, error)
<1> USE DEF ClientOK
<1>1. /\ v \in Clients /\ v.pending = NoSegment /\ v.state = "FAILED"
      /\ v.step_result = "FAILED" /\ v.send_next = c.send_next /\ v.received = c.received
  <2> DEFINE none == NoSegment
  <2>1. none \in [sequence : SeqNumbers, units : Seq(Units), retries : Nat, sent_at : Int]
    BY NoSegmentTyped
  <2>2. v = [c EXCEPT !.error = error, !.state = "FAILED", !.pending = none,
                      !.step_result = "FAILED"]
    BY DEF fail_client
  <2> HIDE DEF none, v
  <2>3. /\ v \in Clients /\ v.pending = none /\ v.state = "FAILED"
        /\ v.step_result = "FAILED" /\ v.send_next = c.send_next /\ v.received = c.received
    BY <2>1, <2>2 DEF Clients, States, Results
  <2> QED
    BY <2>3 DEF none
<1> HIDE DEF v
<1>2. PendingOK(v, sub, pe)
  BY <1>1 DEF PendingOK
<1>3. StageOK(v, sub)
  BY <1>1 DEF StageOK, Finished
<1>4. ReceivedOK(v, sub, length)
  BY <1>1 DEF ReceivedOK, PeerFinished
<1>5. ClientOK(v, sub, pe, length)
  BY <1>1, <1>2, <1>3, <1>4
<1> QED
  BY <1>5 DEF v

LEMMA SendKeeps ==
  ASSUME NEW c, NEW sub, NEW pe, NEW length, ClientOK(c, sub, pe, length), NEW ok
  PROVE  ClientOK(AfterSend(c, ok), sub, pe, length)
BY FailKeeps DEF AfterSend, Errors

\* Two clients that agree on all but the bookkeeping of the operation.
SameConnection(v, c) ==
  /\ v \in Clients
  /\ v.state = c.state /\ v.pending = c.pending /\ v.send_next = c.send_next
  /\ v.receive_next = c.receive_next /\ v.received = c.received

LEMMA SameConnectionKeeps ==
  ASSUME NEW c, NEW sub, NEW pe, NEW length, ClientOK(c, sub, pe, length),
         NEW v, SameConnection(v, c),
         c.pending # NoSegment =>
           v.operation = c.operation /\ v.step_result = c.step_result,
         v.operation = "SEND" /\ v.step_result = "COMPLETE" => pe = sub
  PROVE  ClientOK(v, sub, pe, length)
<1> USE DEF ClientOK, SameConnection
<1>1. PendingOK(v, sub, pe)
  BY DEF PendingOK
<1>2. StageOK(v, sub)
  BY DEF StageOK
<1>3. ReceivedOK(v, sub, length)
  BY DEF ReceivedOK
<1> QED
  BY <1>1, <1>2, <1>3

LEMMA CompleteKeeps ==
  ASSUME NEW c, NEW sub, NEW pe, NEW length, ClientOK(c, sub, pe, length)
  PROVE  ClientOK(complete_if_reached(c), sub, pe, length)
<1> DEFINE v == complete_if_reached(c)
<1>1. c \in Clients /\ c.operation \in Operations
  BY DEF ClientOK, Clients
<1>2. CASE c.state = "FAILED"
  <2>1. v = [c EXCEPT !.step_result = "FAILED"]
    BY <1>2 DEF complete_if_reached
  <2>2. SameConnection(v, c) /\ v.operation = c.operation /\ v.step_result = "FAILED"
    BY <2>1, <1>1 DEF SameConnection, Clients, Results
  <2>3. c.pending = NoSegment
    BY <1>2 DEF ClientOK, PendingOK
  <2> QED
    BY <2>2, <2>3, SameConnectionKeeps
<1>3. CASE c.state # "FAILED" /\ operation_goal_reached(c)
  <2>1. v = [c EXCEPT !.step_result = "COMPLETE", !.error = "NONE"]
    BY <1>3 DEF complete_if_reached
  <2>2. SameConnection(v, c) /\ v.operation = c.operation /\ v.step_result = "COMPLETE"
    BY <2>1, <1>1 DEF SameConnection, Clients, Results, Errors
  <2>3. c.pending = NoSegment
    <3> SUFFICES ASSUME c.pending # NoSegment PROVE FALSE
      OBVIOUS
    <3>1. /\ \/ c.operation = "CONNECT" /\ c.state = "SYN_SENT"
             \/ c.operation \in {"SEND", "CLOSE"}
          /\ c.state # "CLOSED"
      BY DEF ClientOK, PendingOK
    <3>2. CASE c.operation = "CONNECT" /\ c.state = "SYN_SENT"
      BY <3>2, <1>3 DEF operation_goal_reached
    <3>3. CASE c.operation = "SEND"
      BY <3>3, <1>3 DEF operation_goal_reached, Active
    <3>4. CASE c.operation = "CLOSE"
      BY <3>1, <3>4, <1>3 DEF operation_goal_reached
    <3> QED
      BY <3>1, <3>2, <3>3, <3>4
  <2>4. pe = sub
    BY <2>3, <1>3 DEF ClientOK, PendingOK
  <2> QED
    BY <2>2, <2>3, <2>4, SameConnectionKeeps
<1>4. CASE c.state # "FAILED" /\ ~operation_goal_reached(c)
  BY <1>4 DEF complete_if_reached
<1> QED
  BY <1>2, <1>3, <1>4

LEMMA BeginTyped ==
  ASSUME NEW c \in Clients, NEW operation \in Operations
  PROVE  /\ SameConnection(begin_operation(c, operation), c)
         /\ begin_operation(c, operation).operation = operation
         /\ begin_operation(c, operation).step_result = "PENDING"
<1> DEFINE v == begin_operation(c, operation)
           zero == 0
           pending == "PENDING"
           none == "NONE"
<1>1. zero \in Int /\ zero \in Nat /\ pending \in Results /\ none \in Errors
  BY DEF Results, Errors
<1>2. v = [c EXCEPT !.operation = operation, !.step_result = pending, !.error = none,
                    !.previous_now = zero, !.stalled = zero]
  BY DEF begin_operation
<1> HIDE DEF v, zero, pending, none
<1>3. v \in Clients
  BY <1>1, <1>2 DEF Clients
<1>4. /\ v.operation = operation /\ v.step_result = pending
      /\ v.state = c.state /\ v.pending = c.pending /\ v.send_next = c.send_next
      /\ v.receive_next = c.receive_next /\ v.received = c.received
  BY <1>2 DEF Clients
<1>5. SameConnection(v, c) /\ v.operation = operation /\ v.step_result = "PENDING"
  BY <1>3, <1>4 DEF SameConnection, pending
<1> QED
  BY <1>5 DEF v

LEMMA BeginKeeps ==
  ASSUME NEW c, NEW sub, NEW pe, NEW length, ClientOK(c, sub, pe, length),
         c.pending = NoSegment, NEW operation \in Operations
  PROVE  ClientOK(begin_operation(c, operation), sub, pe, length)
<1> DEFINE v == begin_operation(c, operation)
<1>1. c \in Clients
  BY DEF ClientOK
<1>2. SameConnection(v, c) /\ v.step_result = "PENDING"
  BY <1>1, BeginTyped
<1> HIDE DEF v
<1>3. ClientOK(v, sub, pe, length)
  BY <1>2, SameConnectionKeeps
<1> QED
  BY <1>3 DEF v

LEMMA RejectKeeps ==
  ASSUME NEW c, NEW sub, NEW pe, NEW length, ClientOK(c, sub, pe, length),
         NEW operation \in Operations, NEW error \in Errors
  PROVE  ClientOK(reject_operation(c, operation, error), sub, pe, length)
<1> DEFINE v == reject_operation(c, operation, error)
<1>1. c \in Clients
  BY DEF ClientOK
<1>2. CASE operation_is_busy(c)
  <2>1. v = [c EXCEPT !.error = "BUSY"]
    BY <1>2 DEF reject_operation
  <2>2. SameConnection(v, c) /\ v.operation = c.operation /\ v.step_result = c.step_result
    BY <2>1, <1>1 DEF SameConnection, Clients, Errors
  <2>3. v.operation = "SEND" /\ v.step_result = "COMPLETE" => pe = sub
    BY <2>2 DEF ClientOK, PendingOK
  <2> QED
    BY <2>2, <2>3, SameConnectionKeeps
<1>3. CASE ~operation_is_busy(c)
  <2>1. v = [c EXCEPT !.operation = operation, !.step_result = "FAILED", !.error = error]
    BY <1>3 DEF reject_operation
  <2>2. SameConnection(v, c) /\ v.step_result = "FAILED"
    <3> DEFINE failed == "FAILED"
    <3>1. v = [c EXCEPT !.operation = operation, !.step_result = failed, !.error = error]
          /\ failed \in Results
      BY <2>1 DEF Results
    <3> HIDE DEF v, failed
    <3>2. SameConnection(v, c) /\ v.step_result = failed
      BY <3>1, <1>1 DEF SameConnection, Clients
    <3> QED
      BY <3>2 DEF failed
  <2>3. c.pending = NoSegment
    BY <1>3 DEF ClientOK, PendingOK, operation_is_busy
  <2> QED
    BY <2>2, <2>3, SameConnectionKeeps
<1> QED
  BY <1>2, <1>3

----------------------------------------------------------------------------
(* Starting a segment *)

PendingRecords ==
  [sequence : SeqNumbers, units : Seq(Units), retries : Nat, sent_at : Int]

LEMMA StartedKeeps ==
  ASSUME NEW c \in Clients, NEW sub \in Seq(Units), NEW units \in Seq(Units),
         NEW pe, NEW length,
         NEW all \in Seq(Units), all = sub \o units,
         Len(units) >= 1, Len(all) <= ClientBytes + 2,
         c.send_next = Add(InitialSequence, Len(sub)),
         c.step_result = "PENDING",
         \/ c.operation = "CONNECT" /\ c.state = "SYN_SENT"
         \/ c.operation \in {"SEND", "CLOSE"},
         c.state \notin {"CLOSED", "FIN_WAIT_2", "FAILED"},
         StageOK(c, all), ReceivedOK(c, all, length)
  PROVE  /\ ClientOK(Started(c, units), all, pe, length)
         /\ Started(c, units).pending # NoSegment
<1> DEFINE v == Started(c, units)
           segment == [sequence |-> c.send_next, units |-> units, retries |-> 0,
                       sent_at |-> c.previous_now]
           next == Add(c.send_next, Len(units))
<1>1. v = [c EXCEPT !.pending = segment, !.send_next = next]
  BY DEF Started
<1>2. c.send_next \in SeqNumbers /\ c.previous_now \in Int
  BY DEF Clients
<1>3. segment \in PendingRecords /\ segment.sequence = c.send_next /\ segment.units = units
  BY <1>2 DEF PendingRecords
<1>4. segment # NoSegment
  BY <1>3, NoSegmentTyped
<1>5. /\ Len(sub) \in 0 .. SeqMod - 1 /\ Len(units) \in 0 .. SeqMod - 1
      /\ Len(sub) + Len(units) < SeqMod /\ Len(all) = Len(sub) + Len(units)
      /\ InitialSequence \in SeqNumbers /\ Len(all) \in 0 .. SeqMod - 1
      /\ \A i \in 1 .. Len(units) : all[Len(sub) + i] = units[i]
  <2>1. /\ Len(all) = Len(sub) + Len(units) /\ Len(sub) \in Nat /\ Len(units) \in Nat
        /\ \A i \in 1 .. Len(units) : all[Len(sub) + i] = units[i]
    BY Concatenation
  <2> QED
    BY <2>1, ConstantsTyped
<1>6. next \in SeqNumbers /\ next = Add(InitialSequence, Len(all))
  <2>1. next = Add(Add(InitialSequence, Len(sub)), Len(units))
    OBVIOUS
  <2>2. Add(Add(InitialSequence, Len(sub)), Len(units)) = Add(InitialSequence, Len(all))
    BY <1>5, AddIsExact
  <2>3. Add(InitialSequence, Len(all)) \in SeqNumbers
    BY <1>5, AddIsExact
  <2> QED
    BY <2>1, <2>2, <2>3, Zenon
<1>7. PendingEnd(segment) = next
  BY <1>3 DEF PendingEnd
<1>8. Stretch(units, c.send_next, all)
  BY <1>5 DEF Stretch
<1> HIDE DEF v, segment, next
<1>9. /\ v \in Clients /\ v.pending = segment /\ v.send_next = next
      /\ v.state = c.state /\ v.operation = c.operation /\ v.step_result = c.step_result
      /\ v.receive_next = c.receive_next /\ v.received = c.received
  BY <1>1, <1>3, <1>6 DEF Clients, PendingRecords
<1>10. PendingOK(v, all, pe)
  BY <1>3, <1>4, <1>6, <1>7, <1>8, <1>9 DEF PendingOK
<1>11. StageOK(v, all)
  BY <1>9 DEF StageOK
<1>12. ReceivedOK(v, all, length)
  BY <1>9 DEF ReceivedOK
<1>13. ClientOK(v, all, pe, length) /\ v.pending # NoSegment
  BY <1>4, <1>9, <1>10, <1>11, <1>12 DEF ClientOK
<1> QED
  BY <1>13 DEF v

\* A segment that goes out is part of what was submitted, and so is what was sent
\* before.
LEMMA WireGrows ==
  ASSUME NEW w, NEW sub \in Seq(Units), NEW units \in Seq(Units), NEW pe,
         WorldOK(w, sub, pe), pe \in Seq(Units)
  PROVE  WorldOK(w, sub \o units, pe)
<1> DEFINE all == sub \o units
<1>1. /\ all \in Seq(Units) /\ Len(all) = Len(sub) + Len(units)
      /\ \A i \in 1 .. Len(sub) : all[i] = sub[i]
      /\ Len(sub) \in Nat /\ Len(units) \in Nat
  OBVIOUS
<1> HIDE DEF all
<1>2. ASSUME NEW segment \in w PROVE Stretch(segment.units, segment.sequence, all)
  <2> DEFINE x == segment.units
  <2>1. segment \in Segments /\ Stretch(x, segment.sequence, sub)
    BY <1>2 DEF WorldOK
  <2>2. Len(x) \in Nat
    BY <2>1 DEF Segments
  <2> HIDE DEF x
  <2>3. PICK k \in 0 .. Len(sub) - 1 :
           /\ segment.sequence = Add(InitialSequence, k)
           /\ Len(x) >= 1 /\ k + Len(x) <= Len(sub)
           /\ \A i \in 1 .. Len(x) : x[i] = sub[k + i]
    BY <2>1 DEF Stretch
  <2>4. k \in 0 .. Len(all) - 1 /\ k + Len(x) <= Len(all)
    BY <1>1, <2>2, <2>3
  <2>5. ASSUME NEW i \in 1 .. Len(x) PROVE x[i] = all[k + i]
    <3>1. k + i \in 1 .. Len(sub) /\ x[i] = sub[k + i]
      BY <1>1, <2>2, <2>3
    <3> QED
      BY <1>1, <3>1
  <2>6. Stretch(x, segment.sequence, all)
    BY <2>3, <2>4, <2>5 DEF Stretch
  <2> QED
    BY <2>6 DEF x
<1>3. Len(pe) <= Len(all) /\ \A i \in 1 .. Len(pe) : pe[i] = all[i]
  <2>1. Len(pe) <= Len(sub) /\ Len(pe) \in Nat /\ \A i \in 1 .. Len(pe) : pe[i] = sub[i]
    BY DEF WorldOK
  <2>2. Len(pe) <= Len(all) /\ \A i \in 1 .. Len(pe) : i \in 1 .. Len(sub)
    BY <1>1, <2>1
  <2> QED
    BY <1>1, <2>1, <2>2
<1>4. WorldOK(w, all, pe)
  BY <1>2, <1>3 DEF WorldOK
<1> QED
  BY <1>4 DEF all

LEMMA WireKeeps ==
  ASSUME NEW w, NEW sub, NEW pe, NEW c, NEW length, NEW ok,
         WorldOK(w, sub, pe), ClientOK(c, sub, pe, length), c.pending # NoSegment
  PROVE  WorldOK(w \cup OnWire(c, ok), sub, pe)
<1>1. /\ c.pending.sequence \in SeqNumbers /\ c.pending.units \in Seq(Units)
      /\ Stretch(c.pending.units, c.pending.sequence, sub)
  BY DEF ClientOK, Clients, PendingOK
<1> DEFINE q == c.pending.sequence
           x == c.pending.units
           sent == [sequence |-> q, units |-> x]
<1>2. sent \in Segments /\ Stretch(sent.units, sent.sequence, sub)
  BY <1>1 DEF Segments
<1>3. OnWire(c, ok) \subseteq {sent}
  BY DEF OnWire
<1> HIDE DEF sent
<1> QED
  BY <1>2, <1>3 DEF WorldOK

----------------------------------------------------------------------------
(* The operations of the owner *)

LEMMA FreshKeeps ==
  ClientOK(NewClient, <<>>, <<>>, 0) /\ WorldOK({}, <<>>, <<>>)
<1> DEFINE v == NewClient
           none == NoSegment
           zero == 0
           empty == <<>>
<1>1. /\ none \in PendingRecords /\ zero \in SeqNumbers /\ zero \in Int /\ zero \in Nat
      /\ empty \in Seq(Nat)
  BY NoSegmentTyped, ConstantsTyped DEF PendingRecords
<1>2. v = [state |-> "CLOSED", error |-> "NONE", operation |-> "NONE",
           step_result |-> "COMPLETE", send_unacknowledged |-> zero, send_next |-> zero,
           receive_next |-> zero, received |-> empty, pending |-> none,
           previous_now |-> zero, stalled |-> zero]
  BY DEF NewClient
<1> HIDE DEF v, none, zero, empty
<1>3. /\ v \in Clients /\ v.state = "CLOSED" /\ v.operation = "NONE"
      /\ v.pending = none /\ v.received = empty
  BY <1>1, <1>2 DEF Clients, PendingRecords, States, Errors, Operations, Results
<1>4. PendingOK(v, <<>>, <<>>)
  BY <1>3 DEF PendingOK, none
<1>5. StageOK(v, <<>>)
  BY <1>3 DEF StageOK, Finished
<1>6. ReceivedOK(v, <<>>, 0)
  BY <1>3, ConstantsTyped DEF ReceivedOK, PeerFinished, empty
<1>7. ClientOK(v, <<>>, <<>>, 0)
  BY <1>3, <1>4, <1>5, <1>6 DEF ClientOK
<1>8. WorldOK({}, <<>>, <<>>)
  BY DEF WorldOK
<1> QED
  BY <1>7, <1>8 DEF v

LEMMA InitHolds ==
  ASSUME Init PROVE IInv
<1>1. ClientOK(client, submitted, peer, stream) /\ WorldOK(wire, submitted, peer)
  BY FreshKeeps, Zenon DEF Init
<1>2. /\ submitted \in Seq(Units) /\ Len(submitted) <= ClientBytes + 2 /\ peer \in Seq(Units)
      /\ stream \in 0 .. PeerBytes /\ now \in Clock
  BY ConstantsTyped DEF Init, Clock
<1> QED
  BY <1>1, <1>2 DEF IInv

LEMMA InitAgainHolds ==
  ASSUME IInv, tcp_client_init PROVE IInv'
<1>1. ClientOK(client', submitted', peer', stream') /\ WorldOK(wire', submitted', peer')
  BY FreshKeeps, Zenon DEF tcp_client_init
<1>2. /\ submitted' \in Seq(Units) /\ Len(submitted') <= ClientBytes + 2
      /\ peer' \in Seq(Units) /\ stream' \in 0 .. PeerBytes /\ now' \in Clock
  BY ConstantsTyped DEF tcp_client_init, Clock
<1> QED
  BY <1>1, <1>2 DEF IInv

\* A call that does nothing but change the record of the operation.
LEMMA OnlyClientHolds ==
  ASSUME IInv, ClientOK(client', submitted, peer, stream), now' = now \/ now' = 0,
         UNCHANGED <<wire, submitted, peer, stream>>
  PROVE  IInv'
<1>1. ClientOK(client', submitted', peer', stream') /\ WorldOK(wire', submitted', peer')
  BY Zenon DEF IInv
<1>2. /\ submitted' \in Seq(Units) /\ Len(submitted') <= ClientBytes + 2
      /\ peer' \in Seq(Units) /\ stream' \in 0 .. PeerBytes /\ now' \in Clock
  BY ConstantsTyped DEF IInv, Clock
<1> QED
  BY <1>1, <1>2 DEF IInv

LEMMA RefusedKeeps ==
  ASSUME IInv, NEW operation \in Operations, NEW error \in Errors, Refused(operation, error)
  PROVE  ClientOK(client', submitted, peer, stream)
<1> DEFINE c == client
           e == IF client.state = "FAILED" THEN client.error ELSE error
<1>1. ClientOK(c, submitted, peer, stream)
  BY DEF IInv
<1>2. c \in Clients /\ c.error \in Errors
  BY <1>1 DEF ClientOK, Clients
<1>3. e \in Errors
  BY <1>2
<1>4. client' = reject_operation(c, operation, e)
  BY DEF Refused
<1> HIDE DEF c, e
<1> QED
  BY <1>1, <1>3, <1>4, RejectKeeps

LEMMA WaitHolds ==
  ASSUME IInv, tcp_client_begin_wait_for_peer_close PROVE IInv'
<1> DEFINE c == client
           sub == submitted
           wait == "WAIT_FOR_PEER_CLOSE"
           refusal == "NOT_CONNECTED"
<1>1. wait \in Operations /\ refusal \in Errors
  BY DEF Operations, Errors
<1>2. ClientOK(c, sub, peer, stream)
  BY DEF IInv
<1>3. CASE /\ now' = 0 /\ ~operation_is_busy(c)
           /\ c.state \in {"CLOSE_WAIT", "CLOSED", "ESTABLISHED"}
           /\ client' = complete_if_reached(begin_operation(c, wait))
  <2>1. c.pending = NoSegment
    <3> SUFFICES ASSUME c.pending # NoSegment PROVE FALSE
      OBVIOUS
    <3>1. /\ c.step_result = "PENDING" /\ c.operation # "NONE"
      BY <1>2 DEF ClientOK, PendingOK
    <3> QED
      BY <3>1, <1>3 DEF operation_is_busy
  <2> HIDE DEF c, sub, wait
  <2>2. ClientOK(begin_operation(c, wait), sub, peer, stream)
    BY <1>1, <1>2, <2>1, BeginKeeps
  <2>3. ClientOK(complete_if_reached(begin_operation(c, wait)), sub, peer, stream)
    BY <2>2, CompleteKeeps
  <2>4. ClientOK(client', sub, peer, stream)
    BY <1>3, <2>3
  <2>5. now' = 0 /\ UNCHANGED <<wire, submitted, peer, stream>>
    BY <1>3 DEF tcp_client_begin_wait_for_peer_close
  <2> QED
    BY <2>4, <2>5, OnlyClientHolds DEF sub
<1>4. CASE Refused(wait, refusal) /\ UNCHANGED now
  <2>1. UNCHANGED <<wire, submitted, peer, stream>>
    BY DEF tcp_client_begin_wait_for_peer_close
  <2> HIDE DEF wait, refusal
  <2>2. ClientOK(client', submitted, peer, stream)
    BY <1>1, <1>4, RefusedKeeps
  <2> QED
    BY <1>4, <2>1, <2>2, OnlyClientHolds
<1> QED
  BY <1>3, <1>4 DEF tcp_client_begin_wait_for_peer_close

LEMMA IdleHasNoSegment ==
  ASSUME NEW c, NEW sub, NEW pe, NEW length, ClientOK(c, sub, pe, length),
         ~operation_is_busy(c)
  PROVE  c.pending = NoSegment
<1> SUFFICES ASSUME c.pending # NoSegment PROVE FALSE
  OBVIOUS
<1>1. /\ c.step_result = "PENDING" /\ c.operation # "NONE"
  BY DEF ClientOK, PendingOK
<1> QED
  BY <1>1 DEF operation_is_busy

\* What a call that starts a segment leaves behind.
LEMMA StartHolds ==
  ASSUME IInv, NEW started, NEW ok,
         ClientOK(started, submitted', peer', stream'), started.pending # NoSegment,
         client' = complete_if_reached(AfterSend(started, ok)),
         NEW w, WorldOK(w, submitted', peer'), wire' = w \cup OnWire(started, ok),
         submitted' \in Seq(Units), Len(submitted') <= ClientBytes + 2, peer' \in Seq(Units),
         stream' \in 0 .. PeerBytes, now' = 0
  PROVE  IInv'
<1> DEFINE sub == submitted'
           pe == peer'
           length == stream'
<1>1. ClientOK(started, sub, pe, length) /\ WorldOK(w, sub, pe)
  OBVIOUS
<1>2. now' \in Clock
  BY ConstantsTyped DEF Clock
<1> HIDE DEF sub, pe, length
<1>3. ClientOK(AfterSend(started, ok), sub, pe, length)
  BY <1>1, SendKeeps
<1>4. ClientOK(complete_if_reached(AfterSend(started, ok)), sub, pe, length)
  BY <1>3, CompleteKeeps
<1>5. WorldOK(w \cup OnWire(started, ok), sub, pe)
  BY <1>1, WireKeeps
<1>6. ClientOK(client', sub, pe, length) /\ WorldOK(wire', sub, pe)
  BY <1>4, <1>5, Zenon
<1> QED
  BY <1>2, <1>6 DEF IInv, sub, pe, length

LEMMA ConnectHolds ==
  ASSUME IInv, NEW ok \in BOOLEAN, tcp_client_begin_connect(ok) PROVE IInv'
<1>1. CASE /\ ~operation_is_busy(client) /\ client.state = "CLOSED"
           /\ LET opened == [client EXCEPT !.send_unacknowledged = InitialSequence,
                               !.send_next = InitialSequence, !.receive_next = 0,
                               !.received = <<>>, !.pending = NoSegment]
                  started == Started([begin_operation(opened, "CONNECT")
                                        EXCEPT !.state = "SYN_SENT"], <<SYN>>)
              IN  /\ client' = complete_if_reached(AfterSend(started, ok))
                  /\ wire' = OnWire(started, ok)
           /\ submitted' = <<SYN>> /\ peer' = <<>> /\ stream' \in 0 .. PeerBytes /\ now' = 0
  <2> DEFINE none == NoSegment
             zero == 0
             empty == <<>>
             connect == "CONNECT"
             sent == "SYN_SENT"
             syn == <<SYN>>
             opened == [client EXCEPT !.send_unacknowledged = InitialSequence,
                          !.send_next = InitialSequence, !.receive_next = zero,
                          !.received = empty, !.pending = none]
             begun == begin_operation(opened, connect)
             ready == [begun EXCEPT !.state = sent]
             started == Started(ready, syn)
  <2>1. client \in Clients
    BY DEF IInv, ClientOK
  <2>2. /\ none \in PendingRecords /\ zero \in SeqNumbers /\ empty \in Seq(Nat)
        /\ connect \in Operations /\ sent \in States
    BY NoSegmentTyped, ConstantsTyped DEF PendingRecords, Operations, States
  <2>3. /\ syn \in Seq(Units) /\ Len(syn) = 1 /\ empty \in Seq(Units) /\ Len(empty) = 0
        /\ syn = empty \o syn
    BY DEF Units
  <2>4. /\ client' = complete_if_reached(AfterSend(started, ok))
        /\ wire' = OnWire(started, ok) /\ submitted' = syn /\ peer' = empty
        /\ stream' \in 0 .. PeerBytes /\ now' = 0
    BY <1>1
  <2>5. WorldOK({}, syn, empty)
    BY DEF WorldOK, SYN
  <2> HIDE DEF syn, started, ready, begun
  <2>6. opened \in Clients /\ opened.send_next = InitialSequence /\ opened.received = empty
    <3> HIDE DEF none, zero, empty
    <3> QED
      BY <2>1, <2>2, ConstantsTyped DEF Clients, PendingRecords
  <2> HIDE DEF opened, connect
  <2>7. SameConnection(begun, opened) /\ begun.operation = connect /\ begun.step_result = "PENDING"
    BY <2>2, <2>6, BeginTyped DEF begun
  <2>8. begun \in Clients /\ begun.send_next = InitialSequence /\ begun.received = empty
    BY <2>6, <2>7 DEF SameConnection
  <2>9. /\ ready \in Clients /\ ready.state = "SYN_SENT" /\ ready.send_next = InitialSequence
        /\ ready.received = empty /\ ready.operation = "CONNECT"
        /\ ready.step_result = "PENDING"
    BY <2>7, <2>8 DEF ready, Clients, States, connect
  <2>10. ready.send_next = Add(InitialSequence, Len(empty))
    BY <2>3, <2>9, AddInRange, ConstantsTyped DEF SeqNumbers
  <2>11. StageOK(ready, syn) /\ ReceivedOK(ready, syn, stream')
    BY <2>3, <2>9, ConstantsTyped DEF StageOK, ReceivedOK, Finished, PeerFinished
  <2>12. Len(syn) <= ClientBytes + 2
    BY <2>3, ConstantsTyped
  <2> HIDE DEF empty
  <2>13. ClientOK(started, syn, empty, stream') /\ started.pending # NoSegment
    <3> DEFINE length == stream'
    <3>1. /\ ReceivedOK(ready, syn, length) /\ Len(syn) >= 1
          /\ \/ ready.operation = "CONNECT" /\ ready.state = "SYN_SENT"
             \/ ready.operation \in {"SEND", "CLOSE"}
          /\ ready.state \notin {"CLOSED", "FIN_WAIT_2", "FAILED"}
      BY <2>3, <2>9, <2>11
    <3> HIDE DEF length
    <3>2. ClientOK(started, syn, empty, length) /\ started.pending # NoSegment
      BY <2>3, <2>9, <2>10, <2>11, <2>12, <3>1, StartedKeeps, Zenon DEF started
    <3> QED
      BY <3>2 DEF length
  <2>14. wire' = {} \cup OnWire(started, ok)
    BY <2>4
  <2> QED
    BY <2>3, <2>4, <2>5, <2>12, <2>13, <2>14, StartHolds
<1>2. CASE Refused("CONNECT", "BUSY") /\ UNCHANGED <<wire, submitted, peer, stream, now>>
  <2> DEFINE connect == "CONNECT"
             busy == "BUSY"
  <2>1. connect \in Operations /\ busy \in Errors /\ Refused(connect, busy)
    BY <1>2 DEF Operations, Errors
  <2> HIDE DEF connect, busy
  <2>2. ClientOK(client', submitted, peer, stream)
    BY <2>1, RefusedKeeps
  <2> QED
    BY <1>2, <2>2, OnlyClientHolds
<1> QED
  BY <1>1, <1>2 DEF tcp_client_begin_connect

\* The bytes a send submits continue the numbering.
LEMMA BytesTyped ==
  ASSUME NEW given \in Nat, NEW count \in Nat, given + count <= ClientBytes,
         NEW bytes, bytes = [i \in 1 .. count |-> given + i]
  PROVE  bytes \in Seq(Units) /\ Len(bytes) = count
<1>1. \A i \in 1 .. count : given + i \in Units
  BY ConstantsTyped DEF Units
<1> QED
  BY <1>1

\* A call on an idle, connected client that submits units and sends them.
LEMMA StartOnConnectionHolds ==
  ASSUME IInv, ~operation_is_busy(client), NEW units \in Seq(Units), Len(units) >= 1,
         client.state \in {"ESTABLISHED", "CLOSE_WAIT"},
         NEW operation \in {"SEND", "CLOSE"}, NEW state \in States,
         \/ state = client.state /\ Len(submitted) + Len(units) <= ClientBytes + 1
         \/ /\ state = ClosingState(client.state)
            /\ Len(units) = 1 /\ units[1] = FIN,
         NEW ready, ready = [begin_operation(client, operation) EXCEPT !.state = state],
         NEW ok, client' = complete_if_reached(AfterSend(Started(ready, units), ok)),
         wire' = wire \cup OnWire(Started(ready, units), ok),
         submitted' = submitted \o units, now' = 0, UNCHANGED <<peer, stream>>
  PROVE  IInv'
<1> DEFINE c == client
           sub == submitted
           all == submitted \o units
           begun == begin_operation(c, operation)
           started == Started(ready, units)
<1>1. /\ ClientOK(c, sub, peer, stream) /\ WorldOK(wire, sub, peer) /\ sub \in Seq(Units)
      /\ peer \in Seq(Units) /\ stream \in 0 .. PeerBytes /\ Len(sub) <= ClientBytes + 2
  BY DEF IInv
<1>2. operation \in Operations /\ c \in Clients
  BY <1>1 DEF Operations, ClientOK
<1>3. /\ Len(sub) \in 1 .. ClientBytes + 1 /\ sub # <<>>
      /\ c.send_next = Add(InitialSequence, Len(sub))
  <2>1. Len(sub) \in 1 .. ClientBytes + 1
    BY <1>1 DEF ClientOK, StageOK
  <2>2. sub # <<>>
    BY <1>1, <2>1, ConstantsTyped
  <2> QED
    BY <1>1, <2>1, <2>2 DEF ClientOK, PendingOK
<1>4. /\ SameConnection(begun, c) /\ begun.operation = operation
      /\ begun.step_result = "PENDING"
  <2> HIDE DEF c
  <2> QED
    BY <1>2, BeginTyped
<1>5. /\ ready \in Clients /\ ready.state = state /\ ready.send_next = c.send_next
      /\ ready.received = c.received /\ ready.receive_next = c.receive_next
      /\ ready.operation = operation /\ ready.step_result = "PENDING"
  <2>1. ready = [begun EXCEPT !.state = state]
    OBVIOUS
  <2> HIDE DEF begun
  <2> QED
    BY <1>4, <2>1 DEF SameConnection, Clients
<1>6. /\ all \in Seq(Units) /\ Len(all) = Len(sub) + Len(units)
      /\ all[Len(all)] = units[Len(units)] /\ Len(all) <= ClientBytes + 2 /\ all # <<>>
  <2>1. /\ all \in Seq(Units) /\ Len(all) = Len(sub) + Len(units)
        /\ Len(units) \in Nat /\ Len(sub) \in Nat
        /\ \A i \in 1 .. Len(units) : all[Len(sub) + i] = units[i]
    BY <1>1
  <2>2. Len(units) \in 1 .. Len(units)
    BY <2>1
  <2>3. Len(all) <= ClientBytes + 2
    <3>1. CASE Len(submitted) + Len(units) <= ClientBytes + 1
      <4> DEFINE n == Len(all)
      <4>1. n <= ClientBytes + 1 /\ n \in Nat /\ ClientBytes \in Nat
        BY <2>1, <3>1, ConstantsTyped
      <4> HIDE DEF n
      <4>2. n <= ClientBytes + 2
        BY <4>1
      <4> QED
        BY <4>2 DEF n
    <3>2. CASE Len(units) = 1
      BY <1>3, <2>1, <3>2, ConstantsTyped
    <3> QED
      BY <3>1, <3>2
  <2>4. all # <<>>
    BY <1>3, <2>1, ConstantsTyped
  <2> QED
    BY <2>1, <2>2, <2>3, <2>4
<1>7. all = sub \o units /\ submitted' = all
  OBVIOUS
<1> HIDE DEF all, begun
<1>8. state \in {"ESTABLISHED", "CLOSE_WAIT", "FIN_WAIT_1", "LAST_ACK"}
  BY DEF ClosingState
<1>9. StageOK(ready, all)
  <2>1. CASE state = client.state /\ Len(submitted) + Len(units) <= ClientBytes + 1
    <3>1. ready.state \in {"ESTABLISHED", "CLOSE_WAIT"}
      BY <1>5, <2>1
    <3>2. Len(all) \in 1 .. ClientBytes + 1
      BY <1>3, <1>6, <2>1, ConstantsTyped
    <3> QED
      BY <3>1, <3>2 DEF StageOK, Finished
  <2>2. CASE /\ state = ClosingState(client.state) /\ Len(units) = 1 /\ units[1] = FIN
    <3>1. state \in {"FIN_WAIT_1", "LAST_ACK"}
      BY <2>2 DEF ClosingState
    <3> QED
      BY <1>5, <1>6, <2>2, <3>1 DEF StageOK
  <2> QED
    BY <2>1, <2>2
<1>10. ReceivedOK(ready, all, stream)
  <2>1. ReceivedOK(c, sub, stream)
    BY <1>1 DEF ClientOK
  <2>2. \/ state = c.state
        \/ c.state = "ESTABLISHED" /\ state = "FIN_WAIT_1"
        \/ c.state = "CLOSE_WAIT" /\ state = "LAST_ACK"
    BY DEF ClosingState
  <2> QED
    BY <1>5, <1>8, <2>1, <2>2 DEF ReceivedOK, PeerFinished
<1>11. ClientOK(started, all, peer, stream) /\ started.pending # NoSegment
  <2> DEFINE pe == peer
             length == stream
  <2>1. /\ ready.send_next = Add(InitialSequence, Len(sub))
        /\ \/ ready.operation = "CONNECT" /\ ready.state = "SYN_SENT"
           \/ ready.operation \in {"SEND", "CLOSE"}
        /\ ready.state \notin {"CLOSED", "FIN_WAIT_2", "FAILED"}
        /\ ReceivedOK(ready, all, length)
    BY <1>3, <1>5, <1>8, <1>10
  <2> HIDE DEF pe, length, sub, started
  <2>2. ClientOK(started, all, pe, length) /\ started.pending # NoSegment
    BY <1>1, <1>5, <1>6, <1>7, <1>9, <2>1, StartedKeeps, Zenon DEF started
  <2> QED
    BY <2>2 DEF pe, length
<1>12. WorldOK(wire, all, peer)
  <2> HIDE DEF sub
  <2> QED
    BY <1>1, <1>7, WireGrows
<1> HIDE DEF started
<1>13. /\ ClientOK(started, submitted', peer', stream') /\ WorldOK(wire, submitted', peer')
       /\ submitted' \in Seq(Units) /\ Len(submitted') <= ClientBytes + 2
       /\ peer' \in Seq(Units) /\ stream' \in 0 .. PeerBytes
  BY <1>1, <1>6, <1>7, <1>11, <1>12
<1>14. /\ client' = complete_if_reached(AfterSend(started, ok))
       /\ wire' = wire \cup OnWire(started, ok)
  BY DEF started
<1> QED
  BY <1>11, <1>13, <1>14, StartHolds

LEMMA SendHolds ==
  ASSUME IInv, NEW ok \in BOOLEAN, NEW count \in 0 .. TCP_CLIENT_MAX_SEGMENT_DATA + 1,
         tcp_client_begin_send(count, ok)
  PROVE  IInv'
<1> DEFINE c == client
           send == "SEND"
           given == Len(submitted) - 1
           bytes == [i \in 1 .. count |-> given + i]
           begun == begin_operation(c, send)
<1>1. ClientOK(c, submitted, peer, stream) /\ c \in Clients /\ submitted \in Seq(Units)
  BY DEF IInv, ClientOK
<1>2. send \in Operations /\ count \in Nat
  BY TcpAssumption DEF Operations
<1>3. CASE /\ ~operation_is_busy(c) /\ c.state = "ESTABLISHED"
           /\ given + count <= ClientBytes /\ count = 0
           /\ client' = complete_if_reached(begun)
           /\ wire' = wire \cup {} /\ submitted' = submitted \o bytes
           /\ now' = 0 /\ UNCHANGED <<peer, stream>>
  <2>1. bytes = <<>>
    BY <1>3
  <2>2. submitted' = submitted /\ wire' = wire
    BY <1>1, <1>3, <2>1
  <2> HIDE DEF c, send
  <2>3. ClientOK(begun, submitted, peer, stream)
    BY <1>1, <1>2, <1>3, IdleHasNoSegment, BeginKeeps
  <2> HIDE DEF begun
  <2>4. ClientOK(client', submitted, peer, stream)
    BY <1>3, <2>3, CompleteKeeps
  <2> QED
    BY <1>3, <2>2, <2>4, OnlyClientHolds
<1>4. CASE /\ ~operation_is_busy(c) /\ c.state = "ESTABLISHED"
           /\ given + count <= ClientBytes /\ count # 0
           /\ client' = complete_if_reached(AfterSend(Started(begun, bytes), ok))
           /\ wire' = wire \cup OnWire(Started(begun, bytes), ok)
           /\ submitted' = submitted \o bytes
           /\ now' = 0 /\ UNCHANGED <<peer, stream>>
  <2> DEFINE state == c.state
             ready == [begun EXCEPT !.state = state]
  <2>1. given \in Nat
    BY <1>1, <1>4, ConstantsTyped DEF ClientOK, StageOK
  <2>2. bytes \in Seq(Units) /\ Len(bytes) = count
    BY <1>2, <1>4, <2>1, BytesTyped
  <2>3. ready = begun
    <3>1. SameConnection(begun, c)
      BY <1>1, <1>2, BeginTyped
    <3>2. begun \in Clients /\ begun.state = state
      BY <3>1 DEF SameConnection
    <3> HIDE DEF begun, state
    <3> QED
      BY <3>2 DEF Clients
  <2>4. Len(submitted) + Len(bytes) <= ClientBytes + 1 /\ Len(bytes) >= 1
    BY <1>1, <1>2, <1>4, <2>2, ConstantsTyped
  <2>5. state \in States /\ send \in {"SEND", "CLOSE"}
    BY <1>1 DEF Clients
  <2>6. /\ ready = [begin_operation(client, send) EXCEPT !.state = state]
        /\ state = client.state /\ client.state \in {"ESTABLISHED", "CLOSE_WAIT"}
        /\ ~operation_is_busy(client)
    BY <1>4
  <2>7. /\ client' = complete_if_reached(AfterSend(Started(ready, bytes), ok))
        /\ wire' = wire \cup OnWire(Started(ready, bytes), ok)
        /\ submitted' = submitted \o bytes /\ now' = 0 /\ UNCHANGED <<peer, stream>>
    BY <1>4, <2>3
  <2> HIDE DEF bytes, ready, send, state
  <2> QED
    BY <2>2, <2>4, <2>5, <2>6, <2>7, StartOnConnectionHolds
<1>5. CASE /\ Refused(send, "NOT_CONNECTED")
           /\ UNCHANGED <<wire, submitted, peer, stream, now>>
  <2> DEFINE refusal == "NOT_CONNECTED"
  <2>1. refusal \in Errors /\ Refused(send, refusal)
    BY <1>5 DEF Errors
  <2> HIDE DEF refusal, send
  <2>2. ClientOK(client', submitted, peer, stream)
    BY <1>2, <2>1, RefusedKeeps
  <2> QED
    BY <1>5, <2>2, OnlyClientHolds
<1>6. CASE /\ client' = reject_operation(c, send, "INVALID_ARGUMENT")
           /\ UNCHANGED <<wire, submitted, peer, stream, now>>
  <2> DEFINE refusal == "INVALID_ARGUMENT"
  <2>1. refusal \in Errors /\ client' = reject_operation(c, send, refusal)
    BY <1>6 DEF Errors
  <2> HIDE DEF refusal, send, c
  <2>2. ClientOK(client', submitted, peer, stream)
    BY <1>1, <1>2, <2>1, RejectKeeps
  <2> QED
    BY <1>6, <2>2, OnlyClientHolds
<1> QED
  <2>1. CASE count = 0
    BY <1>3, <1>5, <1>6, <2>1 DEF tcp_client_begin_send
  <2>2. CASE count # 0
    BY <1>4, <1>5, <1>6, <2>2 DEF tcp_client_begin_send
  <2> QED
    BY <2>1, <2>2

LEMMA CloseHolds ==
  ASSUME IInv, NEW ok \in BOOLEAN, tcp_client_begin_close(ok) PROVE IInv'
<1> DEFINE c == client
           close == "CLOSE"
           begun == begin_operation(c, close)
<1>1. ClientOK(c, submitted, peer, stream) /\ c \in Clients /\ submitted \in Seq(Units)
  BY DEF IInv, ClientOK
<1>2. close \in Operations
  BY DEF Operations
<1>3. CASE /\ ~operation_is_busy(c) /\ c.state = "CLOSED"
           /\ client' = complete_if_reached(begun)
           /\ now' = 0 /\ UNCHANGED <<wire, submitted, peer, stream>>
  <2> HIDE DEF c, close
  <2>1. ClientOK(begun, submitted, peer, stream)
    BY <1>1, <1>2, <1>3, IdleHasNoSegment, BeginKeeps
  <2> HIDE DEF begun
  <2>2. ClientOK(client', submitted, peer, stream)
    BY <1>3, <2>1, CompleteKeeps
  <2> QED
    BY <1>3, <2>2, OnlyClientHolds
<1>4. CASE /\ ~operation_is_busy(c) /\ c.state \in {"ESTABLISHED", "CLOSE_WAIT"}
           /\ LET started == Started([begin_operation(client, "CLOSE")
                                        EXCEPT !.state = ClosingState(@)], <<FIN>>)
              IN  /\ client' = complete_if_reached(AfterSend(started, ok))
                  /\ wire' = wire \cup OnWire(started, ok)
           /\ submitted' = Append(submitted, FIN)
           /\ now' = 0 /\ UNCHANGED <<peer, stream>>
  <2> DEFINE state == ClosingState(c.state)
             ready == [begun EXCEPT !.state = state]
             fin == <<FIN>>
  <2>1. fin \in Seq(Units) /\ Len(fin) = 1 /\ fin[1] = FIN /\ Len(fin) >= 1
    BY DEF Units
  <2>2. submitted' = submitted \o fin
    BY <1>1, <1>4
  <2>3. state \in States /\ close \in {"SEND", "CLOSE"}
    BY DEF ClosingState, States
  <2>4. begun.state = c.state
    BY <1>1, <1>2, BeginTyped DEF SameConnection
  <2>5. ready = [begin_operation(client, "CLOSE") EXCEPT !.state = ClosingState(@)]
    BY <2>4
  <2>6. /\ client' = complete_if_reached(AfterSend(Started(ready, fin), ok))
        /\ wire' = wire \cup OnWire(Started(ready, fin), ok)
        /\ now' = 0 /\ UNCHANGED <<peer, stream>>
    BY <1>4, <2>5
  <2>7. /\ ready = [begin_operation(client, close) EXCEPT !.state = state]
        /\ state = ClosingState(client.state)
        /\ client.state \in {"ESTABLISHED", "CLOSE_WAIT"} /\ ~operation_is_busy(client)
    BY <1>4
  <2> HIDE DEF fin, ready, close, state
  <2> QED
    BY <2>1, <2>2, <2>3, <2>6, <2>7, StartOnConnectionHolds
<1>5. CASE Refused(close, "BUSY") /\ UNCHANGED <<wire, submitted, peer, stream, now>>
  <2> DEFINE refusal == "BUSY"
  <2>1. refusal \in Errors /\ Refused(close, refusal)
    BY <1>5 DEF Errors
  <2> HIDE DEF refusal, close
  <2>2. ClientOK(client', submitted, peer, stream)
    BY <1>2, <2>1, RefusedKeeps
  <2> QED
    BY <1>5, <2>2, OnlyClientHolds
<1> QED
  BY <1>3, <1>4, <1>5 DEF tcp_client_begin_close

----------------------------------------------------------------------------
(* tcp_client_service *)

LEMMA ClockReadKeeps ==
  ASSUME NEW c, NEW sub, NEW pe, NEW length, ClientOK(c, sub, pe, length), now \in Clock
  PROVE  ClientOK(ClockRead(c), sub, pe, length) /\ ClockRead(c).pending = c.pending
<1> DEFINE v == ClockRead(c)
           counted == c.stalled + 1
           zero == 0
<1>1. c \in Clients /\ counted \in Nat /\ zero \in Nat /\ now \in Int
  BY DEF ClientOK, Clients, Clock
<1>2. v = [c EXCEPT !.stalled = counted] \/ v = [c EXCEPT !.previous_now = now, !.stalled = zero]
  BY DEF ClockRead
<1> HIDE DEF v, counted, zero
<1>3. SameConnection(v, c) /\ v.operation = c.operation /\ v.step_result = c.step_result
  BY <1>1, <1>2 DEF SameConnection, Clients
<1>4. v.operation = "SEND" /\ v.step_result = "COMPLETE" => pe = sub
  BY <1>3 DEF ClientOK, PendingOK
<1>5. ClientOK(v, sub, pe, length) /\ v.pending = c.pending
  BY <1>3, <1>4, SameConnectionKeeps DEF SameConnection
<1> QED
  BY <1>5 DEF v

\* The segment goes out again as it was.
LEMMA RetransmitKeeps ==
  ASSUME NEW c, NEW sub, NEW pe, NEW length, ClientOK(c, sub, pe, length),
         c.pending # NoSegment, now \in Clock, NEW ok
  PROVE  ClientOK(Retransmitted(c, ok), sub, pe, length)
<1>1. CASE c.pending.retries >= max_retries
  <2> DEFINE error == "RETRIES_EXHAUSTED"
  <2>1. error \in Errors /\ Retransmitted(c, ok) = fail_client(c, error)
    BY <1>1 DEF Errors, Retransmitted
  <2> HIDE DEF error
  <2> QED
    BY <2>1, FailKeeps
<1>2. CASE ~ (c.pending.retries >= max_retries)
  <2> DEFINE v == [c EXCEPT !.pending.retries = @ + 1, !.pending.sent_at = now]
             old == c.pending
             tries == old.retries + 1
             again == [old EXCEPT !.retries = tries, !.sent_at = now]
  <2>1. c \in Clients /\ old \in PendingRecords /\ now \in Int /\ tries \in Nat
    BY DEF ClientOK, Clients, PendingRecords, Clock
  <2>2. v = [c EXCEPT !.pending = again]
    BY <2>1 DEF Clients
  <2>3. /\ again \in PendingRecords /\ again.units = old.units
        /\ again.sequence = old.sequence
    <3> HIDE DEF old, tries
    <3> QED
      BY <2>1 DEF PendingRecords
  <2>4. Retransmitted(c, ok) = AfterSend(v, ok)
    BY <1>2 DEF Retransmitted
  <2> HIDE DEF again, v
  <2>5. /\ v \in Clients /\ v.state = c.state /\ v.pending = again
        /\ v.send_next = c.send_next /\ v.receive_next = c.receive_next
        /\ v.received = c.received /\ v.operation = c.operation
        /\ v.step_result = c.step_result
    BY <2>1, <2>2, <2>3 DEF Clients, PendingRecords
  <2>6. /\ old.units # <<>> /\ PendingEnd(again) = PendingEnd(old) /\ again # NoSegment
    <3>1. Stretch(old.units, old.sequence, sub)
      BY DEF ClientOK, PendingOK
    <3>2. old.units # <<>>
      BY <3>1 DEF Stretch
    <3>3. PendingEnd(again) = PendingEnd(old)
      BY <2>3 DEF PendingEnd
    <3> QED
      BY <2>3, <3>2, <3>3, NoSegmentTyped
  <2>7. PendingOK(v, sub, pe)
    BY <2>3, <2>5, <2>6 DEF ClientOK, PendingOK
  <2>8. StageOK(v, sub) /\ ReceivedOK(v, sub, length)
    BY <2>5 DEF ClientOK, StageOK, ReceivedOK
  <2>9. ClientOK(v, sub, pe, length)
    BY <2>5, <2>7, <2>8 DEF ClientOK
  <2> QED
    BY <2>4, <2>9, SendKeeps
<1> QED
  BY <1>1, <1>2

LEMMA ServiceHolds ==
  ASSUME IInv, NEW ok \in BOOLEAN, tcp_client_service(ok) PROVE IInv'
<1> DEFINE c == client
<1>1. /\ ClientOK(c, submitted, peer, stream) /\ WorldOK(wire, submitted, peer)
      /\ submitted \in Seq(Units) /\ Len(submitted) <= ClientBytes + 2
      /\ peer \in Seq(Units) /\ stream \in 0 .. PeerBytes /\ now \in Clock
  BY DEF IInv
<1>2. CASE ServiceEnds
  <2>1. client' = complete_if_reached(c) /\ UNCHANGED <<wire, submitted, peer, stream, now>>
    BY <1>2 DEF ServiceEnds
  <2> HIDE DEF c
  <2>2. ClientOK(client', submitted, peer, stream)
    BY <1>1, <2>1, CompleteKeeps
  <2> QED
    BY <2>1, <2>2, OnlyClientHolds
<1>3. CASE ServiceFails
  <2> DEFINE error == ClockError(c)
  <2>1. error \in Errors
    BY DEF ClockError, Errors
  <2>2. client' = fail_client(c, error) /\ UNCHANGED <<wire, submitted, peer, stream, now>>
    BY <1>3 DEF ServiceFails
  <2> HIDE DEF c, error
  <2>3. ClientOK(client', submitted, peer, stream)
    BY <1>1, <2>1, <2>2, FailKeeps
  <2> QED
    BY <2>2, <2>3, OnlyClientHolds
<1>4. CASE ServiceWaits(ok)
  <2> DEFINE read == ClockRead(c)
  <2>1. UNCHANGED <<submitted, peer, stream, now>>
    BY <1>4 DEF ServiceWaits
  <2>2. ClientOK(read, submitted, peer, stream) /\ read.pending = c.pending
    <3> HIDE DEF c
    <3> QED
      BY <1>1, ClockReadKeeps
  <2>3. CASE RetransmitDue(c)
    <3>1. c.pending # NoSegment
      BY <2>3 DEF RetransmitDue, Active
    <3>2. /\ client' = Retransmitted(read, ok)
          /\ wire' \in {wire, wire \cup OnWire(read, ok)}
      BY <1>4, <2>3 DEF ServiceWaits
    <3> HIDE DEF read, c
    <3>3. ClientOK(client', submitted, peer, stream)
      BY <1>1, <2>2, <3>1, <3>2, RetransmitKeeps
    <3>4. WorldOK(wire \cup OnWire(read, ok), submitted, peer)
      BY <1>1, <2>2, <3>1, WireKeeps
    <3>5. WorldOK(wire', submitted, peer)
      BY <1>1, <3>2, <3>4
    <3> QED
      BY <1>1, <2>1, <3>3, <3>5 DEF IInv
  <2>4. CASE ~RetransmitDue(c)
    <3>1. client' = read /\ UNCHANGED wire
      BY <1>4, <2>4 DEF ServiceWaits
    <3>2. ClientOK(client', submitted, peer, stream)
      BY <2>2, <3>1
    <3> QED
      BY <2>1, <3>1, <3>2, OnlyClientHolds
  <2> QED
    BY <2>3, <2>4
<1> QED
  BY <1>2, <1>3, <1>4 DEF tcp_client_service

----------------------------------------------------------------------------
(* tcp_client_receive *)

\* When the peer acknowledges all that was submitted, it has all of it.
LEMMA AllAcknowledged ==
  ASSUME NEW w, NEW sub \in Seq(Units), NEW pe \in Seq(Units), WorldOK(w, sub, pe),
         Len(sub) <= ClientBytes + 2, NEW n \in 1 .. Len(pe),
         Add(InitialSequence, n) = Add(InitialSequence, Len(sub))
  PROVE  pe = sub
<1>1. /\ Len(pe) \in Nat /\ Len(sub) \in Nat /\ Len(pe) <= Len(sub)
      /\ \A i \in 1 .. Len(pe) : pe[i] = sub[i]
  BY DEF WorldOK
<1>2. /\ n \in 0 .. SeqMod - 1 /\ Len(sub) \in 0 .. SeqMod - 1
      /\ InitialSequence \in SeqNumbers
  BY <1>1, ConstantsTyped
<1>3. n = Len(sub)
  BY <1>2, AddIsExact, Zenon
<1>4. Len(pe) = Len(sub)
  BY <1>1, <1>3
<1> QED
  BY <1>1, <1>4

LEMMA AcknowledgeKeeps ==
  ASSUME NEW c, NEW sub \in Seq(Units), NEW pe \in Seq(Units), NEW length,
         ClientOK(c, sub, pe, length), NEW w, WorldOK(w, sub, pe),
         Len(sub) <= ClientBytes + 2, NEW n \in 1 .. Len(pe),
         NEW ack, ack = Add(InitialSequence, n),
         c.state \notin {"CLOSED", "FAILED", "SYN_SENT"}
  PROVE  /\ ClientOK(acknowledge_pending(c, ack), sub, pe, length)
         /\ acknowledge_pending(c, ack).state \notin {"FAILED", "SYN_SENT"}
         /\ acknowledge_pending(c, ack).receive_next = c.receive_next
<1> DEFINE v == acknowledge_pending(c, ack)
<1>1. c \in Clients /\ c.state \in States
  BY DEF ClientOK, Clients
<1>2. Len(pe) \in Nat /\ Len(sub) \in Nat /\ Len(pe) <= Len(sub) /\ sub # <<>>
  BY DEF WorldOK
<1>3. ack \in SeqNumbers
  <2>1. n \in 0 .. SeqMod - 1 /\ InitialSequence \in SeqNumbers
    BY <1>2, ConstantsTyped
  <2> QED
    BY <2>1, AddIsExact, Zenon
<1>4. CASE v = c
  BY <1>4
<1>5. CASE v = [c EXCEPT !.send_unacknowledged = ack]
  <2> HIDE DEF v
  <2>1. SameConnection(v, c) /\ v.operation = c.operation /\ v.step_result = c.step_result
    BY <1>1, <1>3, <1>5 DEF SameConnection, Clients
  <2>2. v.operation = "SEND" /\ v.step_result = "COMPLETE" => pe = sub
    BY <2>1 DEF ClientOK, PendingOK
  <2>3. ClientOK(v, sub, pe, length)
    BY <2>1, <2>2, SameConnectionKeeps
  <2>4. v.state \notin {"FAILED", "SYN_SENT"} /\ v.receive_next = c.receive_next
    BY <2>1 DEF SameConnection
  <2> QED
    BY <2>3, <2>4 DEF v
<1>6. CASE /\ Active(c) /\ ack = PendingEnd(c.pending)
           /\ ~sequence_before(ack, c.send_unacknowledged)
  <2> DEFINE none == NoSegment
             state == IF c.pending.units # <<FIN>> THEN c.state
                      ELSE IF c.state = "FIN_WAIT_1" THEN "FIN_WAIT_2"
                      ELSE IF c.state \in {"CLOSING", "LAST_ACK"} THEN "CLOSED"
                      ELSE c.state
  <2>1. v = [c EXCEPT !.send_unacknowledged = ack, !.pending = none, !.state = state]
    BY <1>6 DEF acknowledge_pending
  <2>2. none \in PendingRecords
    BY NoSegmentTyped DEF PendingRecords
  <2>3. /\ \/ state = c.state
           \/ c.state = "FIN_WAIT_1" /\ state = "FIN_WAIT_2"
           \/ c.state \in {"CLOSING", "LAST_ACK"} /\ state = "CLOSED"
        /\ state \in States
    BY <1>1 DEF States
  <2>4. pe = sub
    <3>1. ack = c.send_next /\ c.send_next = Add(InitialSequence, Len(sub))
      BY <1>2, <1>6 DEF ClientOK, PendingOK, Active
    <3> QED
      BY <3>1, AllAcknowledged
  <2> HIDE DEF v, none, state
  <2>5. /\ v \in Clients /\ v.pending = none /\ v.state = state
        /\ v.send_next = c.send_next /\ v.receive_next = c.receive_next
        /\ v.received = c.received
    BY <1>1, <1>3, <2>1, <2>2, <2>3 DEF Clients, PendingRecords
  <2>6. PendingOK(v, sub, pe)
    BY <2>4, <2>5 DEF ClientOK, PendingOK, none
  <2>7. StageOK(v, sub)
    BY <2>3, <2>5, <1>2 DEF ClientOK, StageOK, Finished
  <2>8. ReceivedOK(v, sub, length)
    BY <2>3, <2>5, <1>2 DEF ClientOK, ReceivedOK, PeerFinished
  <2>9. ClientOK(v, sub, pe, length)
    BY <2>5, <2>6, <2>7, <2>8 DEF ClientOK
  <2>10. v.state \notin {"FAILED", "SYN_SENT"}
    BY <2>3, <2>5
  <2> QED
    BY <2>5, <2>9, <2>10 DEF v
<1> QED
  BY <1>4, <1>5, <1>6 DEF acknowledge_pending

\* A stretch of the peer's stream, or what comes after its FIN, which is empty.
FromPeer(segment, from, length) ==
  /\ from \in 0 .. length + 1
  /\ segment.sequence = Add(PeerInitialSequence, 1 + from)
  /\ segment.data \in Seq(Nat)
  /\ \A i \in 1 .. Len(segment.data) : segment.data[i] = from + i
  /\ segment.data = <<>> \/ from + Len(segment.data) <= length
  /\ segment.fin => from + Len(segment.data) = length

\* A segment in order starts where the buffer ends.
LEMMA InOrder ==
  ASSUME NEW length \in 0 .. PeerBytes, NEW segment, NEW from, FromPeer(segment, from, length),
         NEW k \in 0 .. length + 2,
         Add(PeerInitialSequence, k) = segment.sequence
  PROVE  k = 1 + from
<1> DEFINE j == 1 + from
<1>1. /\ j \in 0 .. SeqMod - 1 /\ k \in 0 .. SeqMod - 1
      /\ PeerInitialSequence \in SeqNumbers
  BY ConstantsTyped DEF FromPeer
<1>2. Add(PeerInitialSequence, k) = Add(PeerInitialSequence, j)
  BY DEF FromPeer
<1> HIDE DEF j
<1>3. k = j
  BY <1>1, <1>2, AddInjective
<1> QED
  BY <1>3 DEF j

LEMMA DataContinues ==
  ASSUME NEW f \in Seq(Nat), NEW g \in Seq(Nat),
         \A i \in 1 .. Len(f) : f[i] = i,
         \A i \in 1 .. Len(g) : g[i] = Len(f) + i
  PROVE  /\ f \o g \in Seq(Nat) /\ Len(f \o g) = Len(f) + Len(g)
         /\ \A i \in 1 .. Len(f \o g) : (f \o g)[i] = i
<1> DEFINE h == f \o g
<1>1. /\ h \in Seq(Nat) /\ Len(h) = Len(f) + Len(g) /\ Len(f) \in Nat /\ Len(g) \in Nat
      /\ \A i \in 1 .. Len(f) : h[i] = f[i]
      /\ \A i \in 1 .. Len(g) : h[Len(f) + i] = g[i]
  OBVIOUS
<1> HIDE DEF h
<1>2. ASSUME NEW i \in 1 .. Len(h) PROVE h[i] = i
  <2>1. CASE i <= Len(f)
    <3>1. i \in 1 .. Len(f)
      BY <1>1, <2>1
    <3>2. h[i] = f[i] /\ f[i] = i
      BY <1>1, <3>1
    <3> QED
      BY <3>2
  <2>2. CASE i > Len(f)
    <3> DEFINE j == i - Len(f)
    <3>1. j \in 1 .. Len(g) /\ i = Len(f) + j
      BY <1>1, <2>2
    <3> HIDE DEF j
    <3> QED
      BY <1>1, <3>1
  <2> QED
    BY <1>1, <2>1, <2>2
<1>3. h \in Seq(Nat) /\ Len(h) = Len(f) + Len(g) /\ \A i \in 1 .. Len(h) : h[i] = i
  BY <1>1, <1>2
<1> QED
  BY <1>3 DEF h

\* The client with the segment's data in its buffer.
Stored(c, segment) ==
  [c EXCEPT !.received = @ \o segment.data, !.receive_next = Add(@, Len(segment.data))]

LEMMA StoredKeeps ==
  ASSUME NEW c, NEW sub, NEW pe, NEW length \in 0 .. PeerBytes,
         ClientOK(c, sub, pe, length),
         c.state \in {"ESTABLISHED", "FIN_WAIT_1", "FIN_WAIT_2"},
         NEW segment, NEW from, FromPeer(segment, from, length),
         segment.sequence = c.receive_next,
         Len(c.received) + Len(segment.data) <= receive_capacity
  PROVE  /\ ClientOK(Stored(c, segment), sub, pe, length)
         /\ Stored(c, segment).state = c.state
         /\ segment.fin => Len(Stored(c, segment).received) = length
<1> DEFINE f == c.received
           g == segment.data
           h == f \o g
           next == Add(c.receive_next, Len(g))
           v == Stored(c, segment)
<1>1. /\ c \in Clients /\ f \in Seq(Nat) /\ Len(f) \in Nat /\ Len(f) <= length
      /\ c.receive_next = Add(PeerInitialSequence, 1 + Len(f))
      /\ \A i \in 1 .. Len(f) : f[i] = i
  BY DEF ClientOK, Clients, ReceivedOK
<1>2. /\ g \in Seq(Nat) /\ Len(g) \in Nat
      /\ \A i \in 1 .. Len(g) : g[i] = from + i
      /\ g = <<>> \/ from + Len(g) <= length
      /\ segment.fin => from + Len(g) = length
  BY DEF FromPeer
<1>3. from = Len(f) /\ from \in Nat
  <2> DEFINE k == 1 + Len(f)
  <2>1. k \in 0 .. length + 2 /\ Add(PeerInitialSequence, k) = segment.sequence
    BY <1>1, ConstantsTyped
  <2> HIDE DEF k, f
  <2>2. k = 1 + from
    BY <2>1, InOrder
  <2>3. from \in Nat
    BY DEF FromPeer
  <2> QED
    BY <1>1, <2>2, <2>3 DEF k
<1>4. Len(f) + Len(g) <= length /\ (segment.fin => Len(f) + Len(g) = length)
  <2>1. CASE g = <<>>
    BY <1>1, <1>2, <1>3, <2>1
  <2>2. CASE from + Len(g) <= length
    BY <1>2, <1>3, <2>2
  <2> QED
    BY <1>2, <2>1, <2>2
<1>5. h \in Seq(Nat) /\ Len(h) = Len(f) + Len(g) /\ \A i \in 1 .. Len(h) : h[i] = i
  <2> HIDE DEF f, g
  <2> QED
    BY <1>1, <1>2, <1>3, DataContinues
<1>6. next \in SeqNumbers /\ next = Add(PeerInitialSequence, 1 + Len(h))
  <2> DEFINE i == 1 + Len(f)
             j == Len(g)
  <2>0. next = Add(Add(PeerInitialSequence, i), j)
    BY <1>1
  <2> HIDE DEF f, g, h, next
  <2>1. /\ i \in 0 .. SeqMod - 1 /\ j \in 0 .. SeqMod - 1 /\ i + j < SeqMod
        /\ i + j \in 0 .. SeqMod - 1 /\ PeerInitialSequence \in SeqNumbers
    BY <1>1, <1>2, <1>4, ConstantsTyped
  <2>2. 1 + Len(h) = i + j
    BY <1>1, <1>2, <1>5
  <2> HIDE DEF i, j
  <2>3. Add(Add(PeerInitialSequence, i), j) = Add(PeerInitialSequence, i + j)
    BY <2>1, AddIsExact
  <2>4. Add(PeerInitialSequence, i + j) \in SeqNumbers
    <3> DEFINE k == i + j
    <3>1. k \in 0 .. SeqMod - 1
      BY <2>1
    <3> HIDE DEF k
    <3>2. Add(PeerInitialSequence, k) \in SeqNumbers
      BY <2>1, <3>1, AddIsExact, Zenon
    <3> QED
      BY <3>2 DEF k
  <2> QED
    BY <2>0, <2>2, <2>3, <2>4
<1>7. v = [c EXCEPT !.received = h, !.receive_next = next]
  BY DEF Stored
<1> HIDE DEF v, h, next
<1>8. /\ v \in Clients /\ v.received = h /\ v.receive_next = next /\ v.state = c.state
      /\ v.pending = c.pending /\ v.send_next = c.send_next /\ v.operation = c.operation
      /\ v.step_result = c.step_result
  BY <1>1, <1>5, <1>6, <1>7 DEF Clients
<1>9. PendingOK(v, sub, pe) /\ StageOK(v, sub)
  BY <1>8 DEF ClientOK, PendingOK, StageOK
<1>10. ReceivedOK(v, sub, length)
  <2>1. Len(h) <= length /\ Len(h) <= receive_capacity
    BY <1>4, <1>5
  <2> QED
    BY <1>5, <1>6, <1>8, <2>1 DEF ReceivedOK, PeerFinished
<1>11. ClientOK(v, sub, pe, length) /\ (segment.fin => Len(v.received) = length)
  BY <1>4, <1>5, <1>8, <1>9, <1>10 DEF ClientOK
<1> QED
  BY <1>8, <1>11 DEF v

\* The peer's FIN.
Ended(c) ==
  [c EXCEPT !.receive_next = Add(@, 1), !.state = AfterPeerFin(@)]

LEMMA EndedKeeps ==
  ASSUME NEW c, NEW sub, NEW pe, NEW length \in 0 .. PeerBytes,
         ClientOK(c, sub, pe, length),
         c.state \in {"ESTABLISHED", "FIN_WAIT_1", "FIN_WAIT_2"},
         Len(c.received) = length
  PROVE  ClientOK(Ended(c), sub, pe, length)
<1> DEFINE v == Ended(c)
           next == Add(c.receive_next, 1)
           state == AfterPeerFin(c.state)
<1>1. /\ c \in Clients /\ c.receive_next = Add(PeerInitialSequence, 1 + length)
  BY DEF ClientOK, ReceivedOK
<1>2. next \in SeqNumbers /\ next = Add(PeerInitialSequence, 2 + length)
  <2> DEFINE i == 1 + length
             j == 1
             k == 2 + length
  <2>1. /\ i \in 0 .. SeqMod - 1 /\ j \in 0 .. SeqMod - 1 /\ i + j < SeqMod
        /\ k \in 0 .. SeqMod - 1 /\ PeerInitialSequence \in SeqNumbers /\ i + j = k
    BY ConstantsTyped
  <2>2. next = Add(Add(PeerInitialSequence, i), j)
    BY <1>1
  <2> HIDE DEF i, j, next, k
  <2>3. Add(Add(PeerInitialSequence, i), j) = Add(PeerInitialSequence, k)
    BY <2>1, AddTwice
  <2>4. Add(PeerInitialSequence, k) \in SeqNumbers
    BY <2>1, AddIsExact, Zenon
  <2> QED
    BY <2>2, <2>3, <2>4 DEF k
<1>3. /\ \/ c.state = "ESTABLISHED" /\ state = "CLOSE_WAIT"
         \/ c.state = "FIN_WAIT_1" /\ state = "CLOSING"
         \/ c.state = "FIN_WAIT_2" /\ state = "CLOSED"
      /\ state \in States
  BY DEF AfterPeerFin, States
<1>4. v = [c EXCEPT !.receive_next = next, !.state = state]
  BY DEF Ended
<1> HIDE DEF v, next, state
<1>5. /\ v \in Clients /\ v.received = c.received /\ v.receive_next = next
      /\ v.state = state /\ v.pending = c.pending /\ v.send_next = c.send_next
      /\ v.operation = c.operation /\ v.step_result = c.step_result
  BY <1>1, <1>2, <1>3, <1>4 DEF Clients
<1>6. PendingOK(v, sub, pe)
  BY <1>3, <1>5 DEF ClientOK, PendingOK
<1>7. StageOK(v, sub)
  BY <1>3, <1>5 DEF ClientOK, StageOK, Finished
<1>8. ReceivedOK(v, sub, length)
  BY <1>2, <1>3, <1>5 DEF ClientOK, ReceivedOK, PeerFinished
<1>9. ClientOK(v, sub, pe, length)
  BY <1>5, <1>6, <1>7, <1>8 DEF ClientOK
<1> QED
  BY <1>9 DEF v

LEMMA AcceptedKeeps ==
  ASSUME NEW c, NEW sub, NEW pe, NEW length \in 0 .. PeerBytes,
         ClientOK(c, sub, pe, length), c.state \notin {"FAILED", "SYN_SENT"},
         NEW segment, NEW from, FromPeer(segment, from, length),
         segment.sequence = c.receive_next, NEW ok
  PROVE  ClientOK(Accepted(c, segment, ok), sub, pe, length)
<1> DEFINE v == Accepted(c, segment, ok)
           stored == Stored(c, segment)
           ended == Ended(stored)
<1>1. /\ c.state \in States /\ Len(c.received) \in Nat /\ Len(segment.data) \in Nat
      /\ segment.data \in Seq(Nat)
  BY DEF ClientOK, Clients, FromPeer
<1>2. \/ v = c
      \/ v = fail_client(c, "RESPONSE_TOO_LARGE")
      \/ /\ c.state # "CLOSED"
         /\ ~ (Len(segment.data) > receive_capacity - Len(c.received))
         /\ ~ (segment.data # <<>> /\ c.state \in {"CLOSE_WAIT", "LAST_ACK"})
         /\ \/ segment.fin /\ v = AfterSend(ended, ok)
            \/ segment.data # <<>> /\ v = AfterSend(stored, ok)
  BY DEF Accepted, Stored, Ended
<1>3. CASE v = fail_client(c, "RESPONSE_TOO_LARGE")
  <2> DEFINE error == "RESPONSE_TOO_LARGE"
  <2>1. error \in Errors /\ v = fail_client(c, error)
    BY <1>3 DEF Errors
  <2> HIDE DEF error, v
  <2>2. ClientOK(v, sub, pe, length)
    BY <2>1, FailKeeps
  <2> QED
    BY <2>2 DEF v
<1>4. CASE /\ c.state # "CLOSED"
           /\ ~ (Len(segment.data) > receive_capacity - Len(c.received))
           /\ \/ segment.fin /\ v = AfterSend(ended, ok)
              \/ segment.data # <<>> /\ v = AfterSend(stored, ok)
  <2> HIDE DEF v, ended, stored
  <2>1. c.state \notin PeerFinished
    <3> SUFFICES ASSUME c.state \in PeerFinished PROVE FALSE
      OBVIOUS
    <3> DEFINE k == 2 + length
    <3>1. c.receive_next = Add(PeerInitialSequence, k) /\ k \in 0 .. length + 2
      BY DEF ClientOK, ReceivedOK
    <3> HIDE DEF k
    <3>2. k = 1 + from
      BY <3>1, InOrder
    <3>3. from = length + 1
      BY <3>2, ConstantsTyped DEF k, FromPeer
    <3>4. segment.data = <<>>
      BY <1>1, <3>3, ConstantsTyped DEF FromPeer
    <3>5. ~segment.fin
      <4> SUFFICES ASSUME segment.fin PROVE FALSE
        OBVIOUS
      <4>1. from + Len(segment.data) = length /\ Len(segment.data) = 0
        BY <3>4 DEF FromPeer
      <4> QED
        BY <3>3, <4>1, ConstantsTyped
    <3> QED
      BY <1>4, <3>4, <3>5
  <2>2. c.state \in {"ESTABLISHED", "FIN_WAIT_1", "FIN_WAIT_2"}
    BY <1>1, <1>4, <2>1 DEF States, PeerFinished
  <2>3. Len(c.received) + Len(segment.data) <= receive_capacity
    <3> DEFINE a == Len(c.received)
               b == Len(segment.data)
    <3>1. a \in Nat /\ b \in Nat /\ ~ (b > receive_capacity - a)
      BY <1>1, <1>4
    <3> HIDE DEF a, b
    <3>2. a + b <= receive_capacity
      BY <3>1, ConstantsTyped
    <3> QED
      BY <3>2 DEF a, b
  <2>4. /\ ClientOK(stored, sub, pe, length) /\ stored.state = c.state
        /\ segment.fin => Len(stored.received) = length
    BY <2>2, <2>3, StoredKeeps DEF stored
  <2>5. CASE segment.fin /\ v = AfterSend(ended, ok)
    <3>1. ClientOK(ended, sub, pe, length)
      BY <2>2, <2>4, <2>5, EndedKeeps DEF ended
    <3> QED
      BY <2>5, <3>1, SendKeeps DEF v
  <2>6. CASE segment.data # <<>> /\ v = AfterSend(stored, ok)
    BY <2>4, <2>6, SendKeeps DEF v
  <2> QED
    BY <1>4, <2>5, <2>6
<1> QED
  BY <1>2, <1>3, <1>4

LEMMA SegmentKeeps ==
  ASSUME IInv, NEW n \in 1 .. Len(peer), NEW segment,
         segment.ack = Add(InitialSequence, n),
         NEW from, FromPeer(segment, from, stream), NEW ok, ReceiveSegment(segment, ok)
  PROVE  ClientOK(client', submitted, peer, stream)
<1> DEFINE c == client
           sub == submitted
           pe == peer
           length == stream
           ack == segment.ack
           acked == acknowledge_pending(c, ack)
<1>1. /\ ClientOK(c, sub, pe, length) /\ WorldOK(wire, sub, pe) /\ sub \in Seq(Units)
      /\ pe \in Seq(Units) /\ length \in 0 .. PeerBytes /\ Len(sub) <= ClientBytes + 2
      /\ n \in 1 .. Len(pe) /\ FromPeer(segment, from, length)
      /\ ack = Add(InitialSequence, n)
  BY DEF IInv
<1>2. c.state \notin {"CLOSED", "FAILED", "SYN_SENT"}
  BY DEF ReceiveSegment, Listening
<1>3. \/ client' = c
      \/ client' = AfterSend(c, ok)
      \/ segment.sequence = c.receive_next /\ client' = Accepted(acked, segment, ok)
  BY DEF ReceiveSegment
<1> HIDE DEF c, sub, pe, length, ack
<1>4. /\ ClientOK(acked, sub, pe, length) /\ acked.state \notin {"FAILED", "SYN_SENT"}
      /\ acked.receive_next = c.receive_next
  BY <1>1, <1>2, AcknowledgeKeeps
<1> HIDE DEF acked
<1>5. CASE segment.sequence = c.receive_next /\ client' = Accepted(acked, segment, ok)
  <2>1. ClientOK(Accepted(acked, segment, ok), sub, pe, length)
    BY <1>1, <1>4, <1>5, AcceptedKeeps
  <2>2. ClientOK(client', sub, pe, length)
    BY <1>5, <2>1
  <2> QED
    BY <2>2 DEF sub, pe, length
<1>6. CASE client' = AfterSend(c, ok)
  <2>1. ClientOK(AfterSend(c, ok), sub, pe, length)
    BY <1>1, SendKeeps
  <2>2. ClientOK(client', sub, pe, length)
    BY <1>6, <2>1
  <2> QED
    BY <2>2 DEF sub, pe, length
<1>7. CASE client' = c
  <2>1. ClientOK(client', sub, pe, length)
    BY <1>1, <1>7
  <2> QED
    BY <2>1 DEF sub, pe, length
<1> QED
  BY <1>3, <1>5, <1>6, <1>7

LEMMA ResetKeeps ==
  ASSUME IInv, NEW segment, ReceiveReset(segment)
  PROVE  ClientOK(client', submitted, peer, stream)
<1> DEFINE c == client
           error == "RESET"
<1>1. ClientOK(c, submitted, peer, stream) /\ error \in Errors
  BY DEF IInv, Errors
<1>2. client' = c \/ client' = fail_client(c, error)
  BY DEF ReceiveReset
<1> HIDE DEF c, error
<1> QED
  BY <1>1, <1>2, FailKeeps

LEMMA SynKeeps ==
  ASSUME IInv, NEW n \in 1 .. Len(peer), NEW segment,
         segment.ack = Add(InitialSequence, n), segment.sequence = PeerInitialSequence,
         NEW ok, ReceiveSyn(segment, ok)
  PROVE  ClientOK(client', submitted, peer, stream)
<1> DEFINE c == client
           sub == submitted
           pe == peer
           length == stream
           ack == segment.ack
           next == Add(segment.sequence, 1)
           none == NoSegment
           state == "ESTABLISHED"
           v == [c EXCEPT !.send_unacknowledged = ack, !.pending = none, !.state = state,
                          !.receive_next = next]
<1>1. /\ ClientOK(c, sub, pe, length) /\ WorldOK(wire, sub, pe) /\ sub \in Seq(Units)
      /\ pe \in Seq(Units) /\ length \in 0 .. PeerBytes /\ Len(sub) <= ClientBytes + 2
      /\ n \in 1 .. Len(pe) /\ ack = Add(InitialSequence, n) /\ c \in Clients
  BY DEF IInv, ClientOK
<1>2. \/ client' = c
      \/ client' = AfterSend(c, ok)
      \/ /\ c.state = "SYN_SENT" /\ c.pending # NoSegment /\ ack = PendingEnd(c.pending)
         /\ client' = AfterSend(v, ok)
  BY DEF ReceiveSyn, Active
<1>3. CASE client' = c
  BY <1>1, <1>3
<1>4. CASE client' = AfterSend(c, ok)
  <2> HIDE DEF c, sub, pe, length
  <2>1. ClientOK(AfterSend(c, ok), sub, pe, length)
    BY <1>1, SendKeeps
  <2>2. ClientOK(client', sub, pe, length)
    BY <1>4, <2>1
  <2> QED
    BY <2>2 DEF sub, pe, length
<1>5. CASE /\ c.state = "SYN_SENT" /\ c.pending # NoSegment /\ ack = PendingEnd(c.pending)
           /\ client' = AfterSend(v, ok)
  <2>1. Len(sub) \in 1 .. ClientBytes + 1 /\ sub # <<>> /\ c.received = <<>>
    <3>1. Len(sub) \in 1 .. ClientBytes + 1 /\ c.received = <<>>
      BY <1>1, <1>5 DEF ClientOK, StageOK, ReceivedOK
    <3> QED
      BY <1>1, <3>1, ConstantsTyped
  <2>2. c.send_next = Add(InitialSequence, Len(sub)) /\ ack = c.send_next
        /\ c.send_next \in SeqNumbers
    BY <1>1, <1>5, <2>1 DEF ClientOK, PendingOK, Clients
  <2>3. pe = sub
    <3>1. Add(InitialSequence, n) = Add(InitialSequence, Len(sub))
      BY <1>1, <2>2
    <3> HIDE DEF c, sub, pe, ack
    <3> QED
      BY <1>1, <3>1, AllAcknowledged
  <2>4. next \in SeqNumbers /\ next = Add(PeerInitialSequence, 1)
    <3> DEFINE one == 1
    <3>1. one \in 0 .. SeqMod - 1 /\ PeerInitialSequence \in SeqNumbers
      BY ConstantsTyped
    <3> HIDE DEF one
    <3>2. Add(PeerInitialSequence, one) \in SeqNumbers
      BY <3>1, AddIsExact, Zenon
    <3> QED
      BY <3>2 DEF one
  <2>5. none \in PendingRecords /\ state \in States
    BY NoSegmentTyped DEF PendingRecords, States
  <2> HIDE DEF c, none, next, ack
  <2>6. /\ v \in Clients /\ v.pending = none /\ v.state = "ESTABLISHED"
        /\ v.receive_next = next /\ v.received = c.received /\ v.send_next = c.send_next
    BY <1>1, <2>2, <2>4, <2>5 DEF Clients, PendingRecords
  <2> HIDE DEF v, sub, pe, length
  <2>7. PendingOK(v, sub, pe)
    BY <1>1, <2>3, <2>6 DEF ClientOK, PendingOK, none
  <2>8. StageOK(v, sub)
    BY <2>1, <2>6 DEF StageOK, Finished
  <2>9. ReceivedOK(v, sub, length)
    <3>1. v.received = <<>> /\ Len(v.received) = 0 /\ 1 + Len(v.received) = 1
      BY <2>1, <2>6
    <3> QED
      BY <1>1, <2>4, <2>6, <3>1, ConstantsTyped DEF ReceivedOK, PeerFinished
  <2>10. ClientOK(v, sub, pe, length)
    BY <2>6, <2>7, <2>8, <2>9 DEF ClientOK
  <2>11. ClientOK(AfterSend(v, ok), sub, pe, length)
    BY <2>10, SendKeeps
  <2>12. ClientOK(client', sub, pe, length)
    BY <1>5, <2>11
  <2> QED
    BY <2>12 DEF sub, pe, length
<1> QED
  BY <1>2, <1>3, <1>4, <1>5

\* What the peer sends is a stretch of its stream.
LEMMA PeerSegmentIsFromPeer ==
  ASSUME NEW length \in 0 .. PeerBytes, NEW from \in 0 .. length + 1, NEW count \in Nat,
         NEW fin, NEW ack,
         count = 0 \/ from + count <= length, fin => from + count = length
  PROVE  /\ FromPeer(PeerSegment(from, count, fin, ack), from, length)
         /\ PeerSegment(from, count, fin, ack).ack = ack
<1> DEFINE data == [i \in 1 .. count |-> from + i]
           q == Add(PeerInitialSequence, 1 + from)
           segment == [sequence |-> q, ack |-> ack, fin |-> fin, data |-> data]
<1>1. /\ data \in Seq(Nat) /\ Len(data) = count
      /\ \A i \in 1 .. count : data[i] = from + i
  <2>1. \A i \in 1 .. count : from + i \in Nat
    OBVIOUS
  <2> QED
    BY <2>1
<1>2. count = 0 => data = <<>>
  BY <1>1
<1>3. segment = PeerSegment(from, count, fin, ack)
  BY DEF PeerSegment
<1> HIDE DEF data, q
<1>4. /\ segment.sequence = q /\ segment.ack = ack /\ segment.data = data
      /\ segment.fin = fin
  OBVIOUS
<1> HIDE DEF segment
<1>5. FromPeer(segment, from, length)
  BY <1>1, <1>2, <1>4 DEF FromPeer, q
<1> QED
  BY <1>3, <1>4, <1>5

LEMMA ArrivesHolds ==
  ASSUME IInv, Arrives PROVE IInv'
<1> DEFINE length == stream
<1>1. UNCHANGED <<wire, submitted, peer, stream, now>>
  BY DEF Arrives
<1>2. length \in 0 .. PeerBytes /\ length \in Nat
  BY ConstantsTyped DEF IInv
<1>3. ClientOK(client', submitted, peer, stream)
  <2>1. PICK ack \in Acks, ok \in BOOLEAN :
       \/ ReceiveSyn([sequence |-> PeerInitialSequence, ack |-> ack], ok)
       \/ \E from \in 0 .. length + 1 :
            ReceiveReset([sequence |-> Add(PeerInitialSequence, 1 + from), ack |-> ack])
       \/ \E from \in 0 .. length, count \in 0 .. TCP_CLIENT_MAX_SEGMENT_DATA :
            /\ from + count <= length
            /\ \E fin \in {FALSE, from + count = length} :
                 ReceiveSegment(PeerSegment(from, count, fin, ack), ok)
       \/ ReceiveSegment(PeerSegment(length + 1, 0, FALSE, ack), ok)
    BY DEF Arrives
  <2>2. PICK n \in 1 .. Len(peer) : ack = Add(InitialSequence, n)
    BY DEF Acks
  <2>3. CASE ReceiveSyn([sequence |-> PeerInitialSequence, ack |-> ack], ok)
    <3> DEFINE segment == [sequence |-> PeerInitialSequence, ack |-> ack]
    <3>1. /\ segment.ack = ack /\ segment.sequence = PeerInitialSequence
          /\ ReceiveSyn(segment, ok)
      BY <2>3
    <3> HIDE DEF segment
    <3> QED
      BY <2>2, <3>1, SynKeeps
  <2>4. CASE \E from \in 0 .. length + 1 :
            ReceiveReset([sequence |-> Add(PeerInitialSequence, 1 + from), ack |-> ack])
    <3>1. PICK segment : ReceiveReset(segment)
      BY <2>4
    <3> QED
      BY <3>1, ResetKeeps
  <2>5. ASSUME NEW from \in 0 .. length, NEW count \in 0 .. TCP_CLIENT_MAX_SEGMENT_DATA,
               from + count <= length, NEW fin \in {FALSE, from + count = length},
               ReceiveSegment(PeerSegment(from, count, fin, ack), ok)
        PROVE  ClientOK(client', submitted, peer, stream)
    <3> DEFINE segment == PeerSegment(from, count, fin, ack)
    <3>0. fin => from + count = length
      BY <2>5, Zenon
    <3>1. from \in 0 .. length + 1 /\ count \in Nat
      BY <1>2, <2>5, TcpAssumption
    <3> HIDE DEF length
    <3>2. FromPeer(segment, from, length) /\ segment.ack = ack
      BY <1>2, <2>5, <3>0, <3>1, PeerSegmentIsFromPeer
    <3>3. ReceiveSegment(segment, ok)
      BY <2>5
    <3> HIDE DEF segment
    <3>4. FromPeer(segment, from, stream) /\ segment.ack = Add(InitialSequence, n)
      BY <2>2, <3>2 DEF length
    <3> QED
      BY <3>3, <3>4, SegmentKeeps
  <2>6. CASE ReceiveSegment(PeerSegment(length + 1, 0, FALSE, ack), ok)
    <3> DEFINE from == length + 1
               count == 0
               fin == FALSE
               segment == PeerSegment(from, count, fin, ack)
    <3>1. /\ from \in 0 .. length + 1 /\ count \in Nat /\ count = 0 /\ ~fin
      BY <1>2
    <3>2. ReceiveSegment(segment, ok)
      BY <2>6
    <3> HIDE DEF length, from, count, fin
    <3>3. FromPeer(segment, from, length) /\ segment.ack = ack
      BY <1>2, <3>1, PeerSegmentIsFromPeer
    <3> HIDE DEF segment
    <3>4. FromPeer(segment, from, stream) /\ segment.ack = Add(InitialSequence, n)
      BY <2>2, <3>3 DEF length
    <3> QED
      BY <3>2, <3>4, SegmentKeeps
  <2> QED
    BY <2>1, <2>3, <2>4, <2>5, <2>6
<1> QED
  BY <1>1, <1>3, OnlyClientHolds

----------------------------------------------------------------------------
(* The peer and the clock *)

LEMMA PeerHolds ==
  ASSUME IInv, NEW segment \in wire, NEW units \in 1 .. TCP_CLIENT_MAX_SEGMENT_DATA,
         PeerAccepts(segment, units)
  PROVE  IInv'
<1> DEFINE c == client
           sub == submitted
           pe == peer
           given == segment.units
           start == (segment.sequence - InitialSequence) % SeqMod
           known == Len(peer) - start
           more == SubSeq(given, known + 1, known + units)
           all == pe \o more
<1>1. /\ ClientOK(c, sub, pe, stream) /\ WorldOK(wire, sub, pe) /\ sub \in Seq(Units)
      /\ pe \in Seq(Units) /\ Len(sub) <= ClientBytes + 2 /\ Len(sub) \in Nat
      /\ Len(pe) \in Nat
  BY DEF IInv
<1>2. /\ known >= 0 /\ known + units <= Len(given) /\ peer' = all
      /\ UNCHANGED <<client, wire, submitted, stream, now>>
  BY DEF PeerAccepts
<1>3. /\ segment \in Segments /\ given \in Seq(Units) /\ Len(given) \in Nat
      /\ Stretch(given, segment.sequence, sub)
  BY <1>1 DEF WorldOK, Segments
<1>4. PICK k \in 0 .. Len(sub) - 1 :
        /\ segment.sequence = Add(InitialSequence, k)
        /\ k + Len(given) <= Len(sub)
        /\ \A i \in 1 .. Len(given) : given[i] = sub[k + i]
  BY <1>3 DEF Stretch
<1>5. start = k
  <2>1. k \in 0 .. SeqMod - 1 /\ InitialSequence \in SeqNumbers
    BY <1>1, ConstantsTyped
  <2> HIDE DEF sub, given
  <2>2. (Add(InitialSequence, k) - InitialSequence) % SeqMod = k
    BY <2>1, AddIsExact, Zenon
  <2> QED
    BY <1>4, <2>2
<1>6. known \in Nat /\ known = Len(pe) - k /\ units \in Nat /\ units >= 1
  BY <1>1, <1>2, <1>4, <1>5, TcpAssumption
<1> HIDE DEF known, start, sub, given
<1>7. /\ more \in Seq(Units) /\ Len(more) = units
      /\ \A i \in 1 .. units : more[i] = given[known + i]
  <2>1. given \in Seq(Units) /\ known \in Nat /\ units \in Nat /\ known + units <= Len(given)
    BY <1>2, <1>3, <1>6
  <2> QED
    BY <2>1, PartOfSequence, Zenon
<1> HIDE DEF more
<1>8. /\ all \in Seq(Units) /\ Len(all) = Len(pe) + units
      /\ \A i \in 1 .. Len(pe) : all[i] = pe[i]
      /\ \A i \in 1 .. units : all[Len(pe) + i] = more[i]
  <2>1. /\ all \in Seq(Units) /\ Len(all) = Len(pe) + Len(more)
        /\ \A i \in 1 .. Len(pe) : all[i] = pe[i]
        /\ \A i \in 1 .. Len(more) : all[Len(pe) + i] = more[i]
    <3>1. pe \in Seq(Units) /\ more \in Seq(Units)
      BY <1>1, <1>7
    <3> HIDE DEF pe
    <3> QED
      BY <3>1, Concatenation
  <2> HIDE DEF all, pe
  <2> QED
    BY <1>7, <2>1
<1> HIDE DEF all, pe
<1>9. Len(all) <= Len(sub) /\ Len(pe) < Len(sub)
  BY <1>1, <1>2, <1>3, <1>4, <1>6, <1>8
<1>10. ASSUME NEW i \in 1 .. Len(all) PROVE all[i] = sub[i]
  <2>1. CASE i <= Len(pe)
    <3>1. i \in 1 .. Len(pe)
      BY <1>1, <1>8, <2>1
    <3>2. all[i] = pe[i] /\ pe[i] = sub[i]
      BY <1>1, <1>8, <3>1 DEF WorldOK
    <3> QED
      BY <3>2
  <2>2. CASE i > Len(pe)
    <3> DEFINE j == i - Len(pe)
               m == known + j
    <3>1. /\ j \in 1 .. units /\ i = Len(pe) + j /\ m \in 1 .. Len(given) /\ k + m = i
      BY <1>1, <1>2, <1>3, <1>4, <1>6, <1>8, <2>2
    <3>2. more[j] = given[m]
      BY <1>7, <3>1
    <3> HIDE DEF j, m
    <3>3. all[i] = more[j]
      BY <1>8, <3>1
    <3>4. given[m] = sub[k + m]
      BY <1>4, <3>1
    <3> QED
      BY <3>1, <3>2, <3>3, <3>4
  <2> QED
    BY <1>1, <1>8, <2>1, <2>2
<1>11. WorldOK(wire, sub, all)
  BY <1>1, <1>9, <1>10 DEF WorldOK
<1>12. ClientOK(c, sub, all, stream)
  <2>1. pe # sub
    BY <1>1, <1>9
  <2>2. PendingOK(c, sub, all)
    BY <1>1, <2>1 DEF ClientOK, PendingOK
  <2> QED
    BY <1>1, <2>2 DEF ClientOK
<1>13. /\ ClientOK(client', submitted', peer', stream') /\ WorldOK(wire', submitted', peer')
  BY <1>2, <1>11, <1>12 DEF sub
<1>14. /\ submitted' \in Seq(Units) /\ Len(submitted') <= ClientBytes + 2
       /\ peer' \in Seq(Units) /\ stream' \in 0 .. PeerBytes /\ now' \in Clock
  BY <1>1, <1>2, <1>8 DEF sub, IInv
<1> QED
  BY <1>13, <1>14 DEF IInv

LEMMA ClockHolds ==
  ASSUME IInv, NEW reading \in Clock, ClockMoves(reading) PROVE IInv'
<1>1. /\ ClientOK(client', submitted', peer', stream') /\ WorldOK(wire', submitted', peer')
  BY DEF IInv, ClockMoves
<1> QED
  BY <1>1 DEF IInv, ClockMoves

LEMMA NextHolds ==
  ASSUME IInv, [Next]_vars PROVE IInv'
<1>1. CASE UNCHANGED vars
  <2>1. /\ ClientOK(client', submitted', peer', stream') /\ WorldOK(wire', submitted', peer')
    BY <1>1, Zenon DEF IInv, vars
  <2> QED
    BY <1>1, <2>1 DEF IInv, vars
<1>2. ASSUME NEW ok \in BOOLEAN, tcp_client_begin_connect(ok) PROVE IInv'
  BY <1>2, ConnectHolds
<1>3. ASSUME NEW ok \in BOOLEAN, NEW count \in 0 .. TCP_CLIENT_MAX_SEGMENT_DATA + 1,
             tcp_client_begin_send(count, ok)
      PROVE  IInv'
  BY <1>3, SendHolds
<1>4. CASE tcp_client_begin_wait_for_peer_close
  BY <1>4, WaitHolds
<1>5. ASSUME NEW ok \in BOOLEAN, tcp_client_begin_close(ok) PROVE IInv'
  BY <1>5, CloseHolds
<1>6. CASE tcp_client_init
  BY <1>6, InitAgainHolds
<1>7. ASSUME NEW ok \in BOOLEAN, tcp_client_service(ok) PROVE IInv'
  BY <1>7, ServiceHolds
<1>8. CASE Arrives
  BY <1>8, ArrivesHolds
<1>9. ASSUME NEW segment \in wire, NEW units \in 1 .. TCP_CLIENT_MAX_SEGMENT_DATA,
             PeerAccepts(segment, units)
      PROVE  IInv'
  BY <1>9, PeerHolds
<1>10. ASSUME NEW reading \in Clock, ClockMoves(reading) PROVE IInv'
  BY <1>10, ClockHolds
<1> QED
  BY <1>1, <1>2, <1>3, <1>4, <1>5, <1>6, <1>7, <1>8, <1>9, <1>10, Zenon DEF Next

LEMMA InvHolds == Spec => []IInv
<1>1. Init => IInv
  BY InitHolds
<1>2. IInv /\ [Next]_vars => IInv'
  BY NextHolds
<1> QED
  BY <1>1, <1>2, PTL DEF Spec

----------------------------------------------------------------------------
(* The theorems *)

\* Neither stream loses, repeats or reorders a byte, and no operation starts behind
\* another's segment, whatever the network and the peer do with the segments and the
\* clock with its readings (tcp_client_receive, start_pending_segment,
\* retransmit_pending).
THEOREM StreamsAreAlwaysExact == Spec => []StreamsAreExact
<1>1. IInv => StreamsAreExact
  <2> SUFFICES ASSUME IInv PROVE StreamsAreExact
    OBVIOUS
  <2> DEFINE f == client.received
  <2>1. /\ f \in Seq(Nat) /\ \A i \in 1 .. Len(f) : f[i] = i
        /\ Len(f) <= receive_capacity
    BY DEF IInv, ClientOK, Clients, ReceivedOK
  <2>2. f = [i \in 1 .. Len(f) |-> i]
    <3> HIDE DEF f
    <3> QED
      BY <2>1
  <2>3. Len(peer) <= Len(submitted) /\ peer = SubSeq(submitted, 1, Len(peer))
    <3> DEFINE sub == submitted
               pe == peer
               n == Len(pe)
    <3>1. /\ sub \in Seq(Units) /\ pe \in Seq(Units) /\ n \in Nat /\ n <= Len(sub)
          /\ \A i \in 1 .. n : pe[i] = sub[i]
      BY DEF IInv, WorldOK
    <3>2. pe = [i \in 1 .. n |-> pe[i]]
      BY <3>1
    <3>3. SubSeq(sub, 1, n) = [i \in 1 .. n |-> sub[i]]
      <4> HIDE DEF sub, n
      <4> QED
        BY <3>1
    <3> QED
      BY <3>1, <3>2, <3>3
  <2>4. Active(client) => operation_is_busy(client)
    BY DEF IInv, ClientOK, PendingOK, Active, operation_is_busy
  <2> QED
    BY <2>1, <2>2, <2>3, <2>4 DEF StreamsAreExact
<1> QED
  BY <1>1, InvHolds, PTL

\* A send is reported complete only when the peer has every byte, and the states that
\* mean the peer has closed are reached only with its whole stream in the buffer
\* (acknowledge_pending, the state changes on the peer's FIN).
THEOREM SuccessAlwaysMeansDelivered == Spec => []SuccessMeansDelivered
<1>1. IInv => SuccessMeansDelivered
  <2> SUFFICES ASSUME IInv PROVE SuccessMeansDelivered
    OBVIOUS
  <2>1. SentMeansAccepted
    <3>1. client.state = "CLOSED" => client.pending = NoSegment
      BY DEF IInv, ClientOK, PendingOK
    <3>2. client.state = "CLOSED" => peer = submitted
      BY <3>1 DEF IInv, ClientOK, PendingOK
    <3>3. client.state = "CLOSED" /\ submitted # <<>> => submitted[Len(submitted)] = FIN
      BY DEF IInv, ClientOK, StageOK
    <3>4. client.operation = "SEND" /\ client.step_result = "COMPLETE" => peer = submitted
      BY DEF IInv, ClientOK, PendingOK
    <3> QED
      BY <3>2, <3>3, <3>4 DEF SentMeansAccepted
  <2>2. PeerCloseMeansWholeStream
    BY DEF IInv, ClientOK, ReceivedOK, PeerFinished, PeerCloseMeansWholeStream
  <2> QED
    BY <2>1, <2>2 DEF SuccessMeansDelivered
<1> QED
  BY <1>1, InvHolds, PTL
=============================================================================
