----------------------------- MODULE TcpClient -----------------------------
(***************************************************************************)
(* The TCP client of kernel/tcp_client.c: one connection, one operation at  *)
(* a time, one segment in flight, against a peer that follows TCP over a    *)
(* network that may lose, delay, repeat and reorder segments.               *)
(*                                                                         *)
(* What takes up sequence numbers is a sequence of units: SYN, FIN, and the *)
(* bytes, each named after its place in its stream.  Segments with a wrong  *)
(* address, port, checksum or header change nothing but statistics and are  *)
(* left out, as are the statistics.                                         *)
(***************************************************************************)
EXTENDS Integers, Sequences, FiniteSets

CONSTANTS
  SeqMod,                  \* 2^32 in the code
  InitialSequence, PeerInitialSequence,
  PeerBytes,               \* bound: the length of the peer's stream
  ClientBytes,             \* bound: bytes ever submitted on a connection
  TCP_CLIENT_MAX_SEGMENT_DATA,
  receive_capacity,
  retransmit_ms, operation_timeout_ms, max_retries,
  TCP_CLIENT_CLOCK_STALL_SERVICE_LIMIT

ASSUME TcpAssumption ==
  /\ SeqMod \in Nat /\ SeqMod % 2 = 0
  /\ InitialSequence \in 0 .. SeqMod - 1 /\ PeerInitialSequence \in 0 .. SeqMod - 1
  /\ PeerBytes \in Nat /\ ClientBytes \in Nat
  /\ 2 * (PeerBytes + 2) < SeqMod /\ 2 * (ClientBytes + 2) < SeqMod
  /\ TCP_CLIENT_MAX_SEGMENT_DATA \in Nat \ {0}
  /\ receive_capacity \in Nat
  /\ retransmit_ms \in Nat \ {0} /\ operation_timeout_ms \in Nat
  /\ operation_timeout_ms >= retransmit_ms
  /\ max_retries \in Nat
  /\ TCP_CLIENT_CLOCK_STALL_SERVICE_LIMIT \in Nat \ {0}

SYN == 0
FIN == -1
Units == {SYN, FIN} \cup 1 .. ClientBytes

SeqNumbers == 0 .. SeqMod - 1
Add(a, n) == (a + n) % SeqMod
sequence_before(left, right) == (left - right) % SeqMod >= SeqMod \div 2
sequence_after(left, right) == (left - right) % SeqMod \in 1 .. SeqMod \div 2 - 1

States == {"CLOSED", "SYN_SENT", "ESTABLISHED", "FIN_WAIT_1", "FIN_WAIT_2",
           "CLOSING", "CLOSE_WAIT", "LAST_ACK", "FAILED"}
Operations == {"NONE", "CONNECT", "SEND", "WAIT_FOR_PEER_CLOSE", "CLOSE"}
Results == {"PENDING", "COMPLETE", "FAILED"}
Errors == {"NONE", "INVALID_ARGUMENT", "BUSY", "NOT_CONNECTED", "SEND_FAILED", "TIMEOUT",
           "RETRIES_EXHAUSTED", "CLOCK_MOVED_BACKWARD", "CLOCK_STALLED", "RESET",
           "RESPONSE_TOO_LARGE"}

\* Clock readings, from the start of the operation on; those past its timeout are
\* one.
Clock == 0 .. operation_timeout_ms

\* The segment awaiting acknowledgment; without units: pending_active is false.
NoSegment == [sequence |-> 0, units |-> <<>>, retries |-> 0, sent_at |-> 0]
PendingEnd(pending) == Add(pending.sequence, Len(pending.units))

VARIABLES
  client,      \* struct tcp_client
  wire,        \* the segments with units it has sent on this connection
  submitted,   \* history: the units it was given to send on this connection
  peer,        \* what the peer has accepted of them
  stream,      \* how many bytes the peer sends before its FIN
  now          \* io.now_ms, from the start of the operation on

vars == <<client, wire, submitted, peer, stream, now>>

\* tcp_client_init.
NewClient ==
  [state |-> "CLOSED", error |-> "NONE", operation |-> "NONE", step_result |-> "COMPLETE",
   send_unacknowledged |-> 0, send_next |-> 0, receive_next |-> 0, received |-> <<>>,
   pending |-> NoSegment, previous_now |-> 0, stalled |-> 0]

Init ==
  /\ client = NewClient
  /\ wire = {} /\ submitted = <<>> /\ peer = <<>> /\ stream = 0 /\ now = 0

----------------------------------------------------------------------------
(* Sending *)

Active(c) == c.pending # NoSegment

fail_client(c, error) ==
  [c EXCEPT !.error = error, !.state = "FAILED", !.pending = NoSegment,
            !.step_result = "FAILED"]

\* The outcome of a send_segment that the IPv4 layer takes or refuses.
AfterSend(c, ok) == IF ok THEN c ELSE fail_client(c, "SEND_FAILED")

OnWire(c, ok) ==
  IF ok THEN {[sequence |-> c.pending.sequence, units |-> c.pending.units]} ELSE {}

\* start_pending_segment up to its send.
Started(c, units) ==
  [c EXCEPT !.pending = [sequence |-> c.send_next, units |-> units, retries |-> 0,
                         sent_at |-> c.previous_now],
            !.send_next = Add(@, Len(units))]

----------------------------------------------------------------------------
(* Operations *)

operation_is_busy(c) == c.operation # "NONE" /\ c.step_result = "PENDING"

operation_goal_reached(c) ==
  CASE c.operation = "NONE" -> TRUE
    [] c.operation = "CONNECT" -> c.state = "ESTABLISHED"
    [] c.operation = "SEND" -> ~Active(c)
    [] c.operation = "WAIT_FOR_PEER_CLOSE" -> c.state \in {"CLOSE_WAIT", "CLOSED"}
    [] c.operation = "CLOSE" -> c.state = "CLOSED"

complete_if_reached(c) ==
  IF c.state = "FAILED" THEN [c EXCEPT !.step_result = "FAILED"]
  ELSE IF operation_goal_reached(c)
       THEN [c EXCEPT !.step_result = "COMPLETE", !.error = "NONE"]
       ELSE c

begin_operation(c, operation) ==
  [c EXCEPT !.operation = operation, !.step_result = "PENDING", !.error = "NONE",
            !.previous_now = 0, !.stalled = 0]

reject_operation(c, operation, error) ==
  IF operation_is_busy(c) THEN [c EXCEPT !.error = "BUSY"]
  ELSE [c EXCEPT !.operation = operation, !.step_result = "FAILED", !.error = error]

\* A refused call on a client whose connection has failed keeps the error.
Refused(operation, error) ==
  client' = reject_operation(client, operation,
              IF client.state = "FAILED" THEN client.error ELSE error)

\* begin_connect: the peer and the network are those of the new connection.
tcp_client_begin_connect(ok) ==
  \/ /\ ~operation_is_busy(client) /\ client.state = "CLOSED"
     /\ LET opened == [client EXCEPT !.send_unacknowledged = InitialSequence,
                         !.send_next = InitialSequence, !.receive_next = 0,
                         !.received = <<>>, !.pending = NoSegment]
            started == Started([begin_operation(opened, "CONNECT")
                                  EXCEPT !.state = "SYN_SENT"], <<SYN>>)
        IN  /\ client' = complete_if_reached(AfterSend(started, ok))
            /\ wire' = OnWire(started, ok)
     /\ submitted' = <<SYN>> /\ peer' = <<>> /\ stream' \in 0 .. PeerBytes /\ now' = 0
  \/ /\ operation_is_busy(client) \/ client.state # "CLOSED"
     /\ Refused("CONNECT", "BUSY")
     /\ UNCHANGED <<wire, submitted, peer, stream, now>>

\* begin_send of count bytes.
tcp_client_begin_send(count, ok) ==
  \/ /\ ~operation_is_busy(client) /\ client.state = "ESTABLISHED"
     /\ count <= TCP_CLIENT_MAX_SEGMENT_DATA
     /\ LET given == Len(submitted) - 1
            bytes == [i \in 1 .. count |-> given + i]
            begun == begin_operation(client, "SEND")
            started == IF count = 0 THEN begun ELSE Started(begun, bytes)
        IN  /\ given + count <= ClientBytes
            /\ client' = complete_if_reached(IF count = 0 THEN begun ELSE AfterSend(started, ok))
            /\ wire' = wire \cup (IF count = 0 THEN {} ELSE OnWire(started, ok))
            /\ submitted' = submitted \o bytes
     /\ now' = 0
     /\ UNCHANGED <<peer, stream>>
  \/ /\ operation_is_busy(client) \/ client.state # "ESTABLISHED"
     /\ count <= TCP_CLIENT_MAX_SEGMENT_DATA
     /\ Refused("SEND", "NOT_CONNECTED")
     /\ UNCHANGED <<wire, submitted, peer, stream, now>>
  \/ /\ count > TCP_CLIENT_MAX_SEGMENT_DATA
     /\ client' = reject_operation(client, "SEND", "INVALID_ARGUMENT")
     /\ UNCHANGED <<wire, submitted, peer, stream, now>>

tcp_client_begin_wait_for_peer_close ==
  /\ \/ /\ now' = 0 /\ ~operation_is_busy(client)
        /\ client.state \in {"CLOSE_WAIT", "CLOSED", "ESTABLISHED"}
        /\ client' = complete_if_reached(begin_operation(client, "WAIT_FOR_PEER_CLOSE"))
     \/ /\ \/ operation_is_busy(client)
           \/ client.state \notin {"CLOSE_WAIT", "CLOSED", "ESTABLISHED"}
        /\ Refused("WAIT_FOR_PEER_CLOSE", "NOT_CONNECTED") /\ UNCHANGED now
  /\ UNCHANGED <<wire, submitted, peer, stream>>

\* The state a close moves to when it sends the FIN.
ClosingState(state) == IF state = "ESTABLISHED" THEN "FIN_WAIT_1" ELSE "LAST_ACK"

\* The other states of a connection always have the operation that led to them
\* still in progress.
tcp_client_begin_close(ok) ==
  \/ /\ ~operation_is_busy(client) /\ client.state = "CLOSED"
     /\ client' = complete_if_reached(begin_operation(client, "CLOSE"))
     /\ now' = 0
     /\ UNCHANGED <<wire, submitted, peer, stream>>
  \/ /\ ~operation_is_busy(client) /\ ~Active(client)
     /\ client.state \in {"ESTABLISHED", "CLOSE_WAIT"}
     /\ LET started == Started([begin_operation(client, "CLOSE")
                                  EXCEPT !.state = ClosingState(@)], <<FIN>>)
        IN  /\ client' = complete_if_reached(AfterSend(started, ok))
            /\ wire' = wire \cup OnWire(started, ok)
     /\ submitted' = Append(submitted, FIN)
     /\ now' = 0
     /\ UNCHANGED <<peer, stream>>
  \/ /\ operation_is_busy(client) \/ client.state = "FAILED" \/ Active(client)
     /\ Refused("CLOSE", "BUSY")
     /\ UNCHANGED <<wire, submitted, peer, stream, now>>

\* tcp_client_init again, for the next connection.
tcp_client_init ==
  /\ client' = NewClient
  /\ wire' = {} /\ submitted' = <<>> /\ peer' = <<>> /\ stream' = 0 /\ now' = 0

----------------------------------------------------------------------------
(* tcp_client_service *)

\* Mutant: a clock that stands still is not counted.
ClockNotCounted(c) == [c EXCEPT !.previous_now = now, !.stalled = 0]

\* The clock reading is taken in.
ClockRead(c) ==
  IF now = c.previous_now THEN [c EXCEPT !.stalled = @ + 1]
  ELSE [c EXCEPT !.previous_now = now, !.stalled = 0]

\* retransmit_pending, when it is due.
Retransmitted(c, ok) ==
  IF c.pending.retries >= max_retries THEN fail_client(c, "RETRIES_EXHAUSTED")
  ELSE AfterSend([c EXCEPT !.pending.retries = @ + 1, !.pending.sent_at = now], ok)

RetransmitDue(c) == Active(c) /\ now - c.pending.sent_at >= retransmit_ms

\* The four ways the clock ends an operation, in the order they are looked for.
ClockError(c) ==
  LET read == ClockRead(c)
  IN  IF now < c.previous_now THEN "CLOCK_MOVED_BACKWARD"
      ELSE IF read.stalled >= TCP_CLIENT_CLOCK_STALL_SERVICE_LIMIT THEN "CLOCK_STALLED"
      ELSE IF now >= operation_timeout_ms THEN "TIMEOUT"
      ELSE "NONE"

Waiting == client.state # "FAILED" /\ client.step_result = "PENDING"
           /\ ~operation_goal_reached(client)

ServiceEnds ==
  /\ \/ client.state = "FAILED"
     \/ client.step_result = "PENDING" /\ operation_goal_reached(client)
  /\ client' = complete_if_reached(client)
  /\ UNCHANGED <<wire, submitted, peer, stream, now>>

ServiceFails ==
  /\ Waiting /\ ClockError(client) # "NONE"
  /\ client' = fail_client(client, ClockError(client))
  /\ UNCHANGED <<wire, submitted, peer, stream, now>>

ServiceWaits(ok) ==
  /\ Waiting /\ ClockError(client) = "NONE"
  /\ LET read == ClockRead(client)
     IN  IF RetransmitDue(client)
         THEN /\ client' = Retransmitted(read, ok)
              /\ wire' = wire \cup
                   (IF read.pending.retries < max_retries THEN OnWire(read, ok) ELSE {})
         ELSE client' = read /\ UNCHANGED wire
  /\ UNCHANGED <<submitted, peer, stream, now>>

tcp_client_service(ok) ==
  ServiceEnds \/ ServiceFails \/ ServiceWaits(ok)

----------------------------------------------------------------------------
(* tcp_client_receive *)

\* Mutant: any acknowledgment of new data ends the wait.
AcknowledgeAny(c, ack) ==
  IF sequence_before(ack, c.send_unacknowledged) THEN c
  ELSE [c EXCEPT !.send_unacknowledged = ack, !.pending = NoSegment]

\* acknowledge_pending, of a number that is not past send_next.
acknowledge_pending(c, ack) ==
  IF sequence_before(ack, c.send_unacknowledged) THEN c
  ELSE IF ~Active(c) \/ ack # PendingEnd(c.pending)
       THEN [c EXCEPT !.send_unacknowledged = ack]
  ELSE [c EXCEPT !.send_unacknowledged = ack, !.pending = NoSegment,
                 !.state = IF c.pending.units # <<FIN>> THEN @
                           ELSE IF @ = "FIN_WAIT_1" THEN "FIN_WAIT_2"
                           ELSE IF @ \in {"CLOSING", "LAST_ACK"} THEN "CLOSED"
                           ELSE @]

\* The state after the peer's FIN.
AfterPeerFin(state) ==
  CASE state = "ESTABLISHED" -> "CLOSE_WAIT"
    [] state = "FIN_WAIT_1" -> "CLOSING"
    [] state = "FIN_WAIT_2" -> "CLOSED"
    [] OTHER -> state

\* The data and the FIN of a segment that comes in order.
Accepted(c, segment, ok) ==
  LET stored == [c EXCEPT !.received = @ \o segment.data,
                          !.receive_next = Add(@, Len(segment.data))]
      ended == [stored EXCEPT !.receive_next = Add(@, 1), !.state = AfterPeerFin(@)]
  IN  IF c.state = "CLOSED" THEN c
      ELSE IF Len(segment.data) > receive_capacity - Len(c.received)
           THEN fail_client(c, "RESPONSE_TOO_LARGE")
      ELSE IF segment.data # <<>> /\ c.state \in {"CLOSE_WAIT", "LAST_ACK"} THEN c
      ELSE IF segment.fin THEN AfterSend(ended, ok)
      ELSE IF segment.data # <<>> THEN AfterSend(stored, ok)
      ELSE c

Listening == client.state \notin {"CLOSED", "FAILED"}

\* A reset counts when it answers the SYN or comes in order.
ReceiveReset(segment) ==
  /\ Listening
  /\ client' = IF IF client.state = "SYN_SENT"
                  THEN Active(client) /\ segment.ack = PendingEnd(client.pending)
                  ELSE segment.sequence = client.receive_next
               THEN fail_client(client, "RESET") ELSE client

\* The peer's SYN: the answer to ours, or a repeated one.
ReceiveSyn(segment, ok) ==
  \/ /\ client.state = "SYN_SENT"
     /\ client' = IF Active(client) /\ segment.ack = PendingEnd(client.pending)
                  THEN AfterSend([client EXCEPT !.send_unacknowledged = segment.ack,
                                    !.pending = NoSegment, !.state = "ESTABLISHED",
                                    !.receive_next = Add(segment.sequence, 1)], ok)
                  ELSE client
  \/ /\ Listening /\ client.state # "SYN_SENT"
     /\ client' = AfterSend(client, ok)

\* Mutant: the place of a segment in the stream is not looked at.
ReceiveAnywhere(segment, ok) ==
  /\ Listening /\ client.state # "SYN_SENT"
  /\ client' = IF sequence_after(segment.ack, client.send_next) THEN AfterSend(client, ok)
               ELSE Accepted(acknowledge_pending(client, segment.ack), segment, ok)

\* Data, FIN or acknowledgment.  What is out of order is dropped, and answered
\* when it holds anything.
ReceiveSegment(segment, ok) ==
  /\ Listening /\ client.state # "SYN_SENT"
  /\ client' =
       IF segment.sequence # client.receive_next
       THEN IF segment.data # <<>> \/ segment.fin THEN AfterSend(client, ok) ELSE client
       ELSE IF sequence_after(segment.ack, client.send_next) THEN AfterSend(client, ok)
       ELSE Accepted(acknowledge_pending(client, segment.ack), segment, ok)

----------------------------------------------------------------------------
(* The peer, the network and the clock, external.  The peer has its whole stream
   ready, cuts it into segments anew each time it sends, and acknowledges what it
   has accepted; any segment it may have sent may arrive, at any time and
   repeatedly. *)

Acks == {Add(InitialSequence, n) : n \in 1 .. Len(peer)}

\* The peer accepts some more units, of a segment that holds the next one it
\* expects.
PeerAccepts(segment, units) ==
  LET start == (segment.sequence - InitialSequence) % SeqMod
      known == Len(peer) - start
  IN  /\ known >= 0 /\ units >= 1 /\ known + units <= Len(segment.units)
      /\ peer' = peer \o SubSeq(segment.units, known + 1, known + units)
      /\ UNCHANGED <<client, wire, submitted, stream, now>>

\* The clock moves on, or is set back.
ClockMoves(reading) ==
  /\ now' = reading
  /\ UNCHANGED <<client, wire, submitted, peer, stream>>

\* from bytes of the stream come before it; from stream + 1 is past the FIN.
PeerSegment(from, count, fin, ack) ==
  [sequence |-> Add(PeerInitialSequence, 1 + from), ack |-> ack, fin |-> fin,
   data |-> [i \in 1 .. count |-> from + i]]

Arrives ==
  /\ \E ack \in Acks, ok \in BOOLEAN :
       \/ ReceiveSyn([sequence |-> PeerInitialSequence, ack |-> ack], ok)
       \/ \E from \in 0 .. stream + 1 :
            ReceiveReset([sequence |-> Add(PeerInitialSequence, 1 + from), ack |-> ack])
       \/ \E from \in 0 .. stream, count \in 0 .. TCP_CLIENT_MAX_SEGMENT_DATA :
            /\ from + count <= stream
            /\ \E fin \in {FALSE, from + count = stream} :
                 ReceiveSegment(PeerSegment(from, count, fin, ack), ok)
       \/ ReceiveSegment(PeerSegment(stream + 1, 0, FALSE, ack), ok)
  /\ UNCHANGED <<wire, submitted, peer, stream, now>>

Next ==
  \/ \E ok \in BOOLEAN : tcp_client_begin_connect(ok)
  \/ \E ok \in BOOLEAN, count \in 0 .. TCP_CLIENT_MAX_SEGMENT_DATA + 1 :
       tcp_client_begin_send(count, ok)
  \/ tcp_client_begin_wait_for_peer_close
  \/ \E ok \in BOOLEAN : tcp_client_begin_close(ok)
  \/ tcp_client_init
  \/ \E ok \in BOOLEAN : tcp_client_service(ok)
  \/ Arrives
  \/ \E segment \in wire, units \in 1 .. TCP_CLIENT_MAX_SEGMENT_DATA :
       PeerAccepts(segment, units)
  \/ \E reading \in Clock : ClockMoves(reading)

Spec == Init /\ [][Next]_vars

\* The owner of the connection keeps calling tcp_client_service; nothing is
\* assumed of the clock, the network or the peer.
FairSpec ==
  Spec /\ WF_vars(\E ok \in BOOLEAN : tcp_client_service(ok))

----------------------------------------------------------------------------
(* Properties *)

\* Neither stream loses, repeats or reorders a byte: what is in the receive buffer
\* is the beginning of the peer's stream and never outgrows the buffer, however
\* the peer cuts its retransmissions; what the peer accepts is the beginning
\* of what the client was given to send, so no byte goes out under another's
\* number; and a segment awaits acknowledgment only while its operation is in
\* progress, so no operation starts behind another's segment (tcp_client_receive,
\* start_pending_segment, retransmit_pending).
StreamsAreExact ==
  /\ client.received = [i \in 1 .. Len(client.received) |-> i]
  /\ Len(client.received) <= receive_capacity
  /\ Len(peer) <= Len(submitted) /\ peer = SubSeq(submitted, 1, Len(peer))
  /\ Active(client) => operation_is_busy(client)

\* A completed send has reached the peer to the last byte, and a connection that
\* ends CLOSED was closed from both sides.
SentMeansAccepted ==
  /\ client.operation = "SEND" /\ client.step_result = "COMPLETE" => peer = submitted
  /\ client.state = "CLOSED" /\ submitted # <<>> =>
       peer = submitted /\ submitted[Len(submitted)] = FIN

\* The states that let a wait for the peer's close succeed are reached only with
\* the whole stream in the buffer, though it may be longer than the buffer.
PeerCloseMeansWholeStream ==
  client.state = "CLOSE_WAIT" \/ (client.state = "CLOSED" /\ submitted # <<>>)
    => Len(client.received) = stream

\* Success is never reported early, in either direction: what was sent has been
\* accepted in spite of partial and stale acknowledgments, and the end of the peer's
\* stream is never guessed ("Waits for a peer FIN without silently treating a timeout
\* as end-of-stream"; acknowledge_pending and the state changes on the peer's FIN).
SuccessMeansDelivered == SentMeansAccepted /\ PeerCloseMeansWholeStream

\* No operation stays pending: it completes or fails, even when the peer is
\* silent and the clock stands still or runs backward.
EveryOperationEnds == client.step_result = "PENDING" ~> client.step_result # "PENDING"
=============================================================================
