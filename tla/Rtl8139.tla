------------------------------- MODULE Rtl8139 -------------------------------
(***************************************************************************)
(* The network card's driver, rtl8139.c, against the card: the foreground  *)
(* calls rtl8139_poll, rtl8139_receive and rtl8139_send a register access  *)
(* at a time, and between any two accesses the card fills its receive ring *)
(* or finishes a transmission, and the interrupt handler runs unless the   *)
(* foreground is inside irq_save .. irq_restore.  One processor: the       *)
(* handler itself is one step.  Counters and the link state, which         *)
(* rtl8139_get_status reads afresh, are left out.                          *)
(***************************************************************************)
EXTENDS Integers, Sequences, FiniteSets, FiniteSetsExt

CONSTANTS
    RTL_RX_RING_SIZE,         \* bytes of the receive ring, a power of two
    RTL_TX_DESCRIPTOR_COUNT,  \* transmit descriptors
    Lengths                   \* lengths the card may write in a frame's header

ASSUME RingAssumption ==
    /\ RTL_RX_RING_SIZE \in {16, 32, 64, 128, 256, 512, 1024, 2048, 4096, 8192}
    /\ RTL_TX_DESCRIPTOR_COUNT \in Nat \ {0}
    /\ Lengths \subseteq 4..(RTL_RX_RING_SIZE - 8)

VARIABLES
    isr, imr,        \* the card's pending causes and the ones it may raise
    rx,              \* its receiver: enabled, read and write pointer, the frames
                     \* in the ring with the address of their header
    tsd, cur,        \* who owns each transmit descriptor; the card's next one
    ready, mode,     \* g_status.ready, g_interrupt_mode
    deferred,        \* g_deferred_interrupts
    off,             \* g_rx_offset
    pending, next,   \* g_tx_pending, g_next_tx
    fg,              \* the foreground: which call, where in it, its locals
    polled           \* a call has rearmed the card since initialization

card == <<isr, imr, rx, tsd, cur>>
driver == <<ready, mode, deferred, off, pending, next>>
vars == <<card, driver, fg, polled>>

RX_MASK == {"RX_OK", "RX_OVERFLOW"}
ENABLED_MASK == RX_MASK \cup {"TX_OK"}
Slots == 0..(RTL_TX_DESCRIPTOR_COUNT - 1)
Calls == {"poll", "receive", "send"}

Idle == [op |-> "none", pc |-> "idle", i |-> 0,
         live |-> {}, events |-> {}, length |-> 0]

At(pc) == fg.pc = pc

Go(pc) == fg' = [fg EXCEPT !.pc = pc]

Leave == fg' = Idle

-----------------------------------------------------------------------------
(* The receive ring.  A frame takes a four-byte header and its bytes,      *)
(* rounded up to four, and may run past the ring's end into the slack.     *)

Extent(length) == ((4 + length + 3) \div 4) * 4

\* Where the frame after the n-th begins.
After(n) ==
    (rx.frames[n].at + Extent(rx.frames[n].length)) % RTL_RX_RING_SIZE

Used == (rx.end - rx.ptr) % RTL_RX_RING_SIZE

\* The 16-bit register CAPR holds the offset less 16, which the card adds.
ReadPointer(offset) ==
    LET capr == (offset - 16) % 65536 IN (capr + 16) % RTL_RX_RING_SIZE

\* The frames the card still keeps once its read pointer is at ptr.
FramesFrom(ptr) ==
    LET gone == {n \in DOMAIN rx.frames : After(n) = ptr}
    IN  IF gone = {} THEN rx.frames
        ELSE SubSeq(rx.frames, Min(gone) + 1, Len(rx.frames))

EmptyRing == [on |-> TRUE, ptr |-> 0, end |-> 0, frames |-> <<>>]

BufferEmpty == rx.frames = <<>>

\* The length in the header the driver finds at its own offset.
HeadersAt(offset) ==
    LET here == {n \in DOMAIN rx.frames : rx.frames[n].at = offset}
    IN  IF here # {} THEN {rx.frames[n].length : n \in here}
        ELSE Lengths

-----------------------------------------------------------------------------
(* rtl8139_init_device has reset and enabled the card: it may receive      *)
(* already, but raises nothing and no handler is attached.                 *)

Init ==
    /\ isr = {} /\ imr = {}
    /\ rx = EmptyRing
    /\ tsd = [i \in Slots |-> "host"] /\ cur = 0
    /\ ready = TRUE /\ mode = FALSE /\ deferred = {}
    /\ off = 0 /\ pending = [i \in Slots |-> FALSE] /\ next = 0
    /\ fg = [Idle EXCEPT !.pc = "attach"]
    /\ polled = FALSE

\* rtl_try_attach_interrupt: the line is unsafe or full, and the driver stays
\* in polling mode; or the handler is registered and old causes are cleared ...
rtl_try_attach_interrupt ==
    /\ At("attach")
    /\ \/ Leave /\ UNCHANGED <<mode, isr>>
       \/ Go("unmask") /\ mode' = TRUE /\ isr' = {}
    /\ UNCHANGED <<imr, rx, tsd, cur, ready, deferred, off, pending, next, polled>>

\* ... before the card may raise the line.
Unmask ==
    /\ At("unmask")
    /\ imr' = ENABLED_MASK
    /\ Leave
    /\ UNCHANGED <<isr, rx, tsd, cur, driver, polled>>

-----------------------------------------------------------------------------
(* The card.                                                               *)

Arrive ==
    /\ rx.on
    /\ \E length \in Lengths :
          IF Used > 0 /\ Extent(length) >= RTL_RX_RING_SIZE - Used
          THEN isr' = isr \cup {"RX_OVERFLOW"} /\ UNCHANGED rx
          ELSE /\ isr' = isr \cup {"RX_OK"}
               /\ rx' = [rx EXCEPT
                     !.frames = Append(@, [at |-> rx.end, length |-> length]),
                     !.end = (@ + Extent(length)) % RTL_RX_RING_SIZE]
    /\ UNCHANGED <<imr, tsd, cur, driver, fg, polled>>

\* Descriptors are served in a strict cycle.
Transmitted ==
    /\ tsd[cur] = "card"
    /\ tsd' = [tsd EXCEPT ![cur] = "host"]
    /\ cur' = (cur + 1) % RTL_TX_DESCRIPTOR_COUNT
    /\ isr' = isr \cup {"TX_OK"}
    /\ UNCHANGED <<imr, rx, driver, fg, polled>>

\* The line is up and interrupts are on: the registry calls the handler.
rtl_interrupt_entry ==
    /\ isr \cap imr # {} /\ ~At("acknowledge")
    /\ ready /\ mode
    /\ imr' = {} /\ isr' = {}
    /\ deferred' = deferred \cup isr
    /\ UNCHANGED <<rx, tsd, cur, ready, mode, off, pending, next, fg, polled>>

-----------------------------------------------------------------------------
(* The foreground.  Every call starts by reaping finished transmissions.   *)

Enter ==
    /\ At("idle")
    /\ \E op \in Calls :
          IF ready THEN fg' = [Idle EXCEPT !.op = op, !.pc = "reap"]
                   ELSE UNCHANGED fg
    /\ UNCHANGED <<card, driver, polled>>

rtl_reap_transmits ==
    /\ At("reap")
    /\ pending' = [pending EXCEPT ![fg.i] = @ /\ tsd[fg.i] = "card"]
    /\ fg' = IF fg.i + 1 \in Slots THEN [fg EXCEPT !.i = @ + 1]
             ELSE [fg EXCEPT !.i = 0,
                             !.pc = IF fg.op = "send" THEN "check" ELSE "collect"]
    /\ UNCHANGED <<card, ready, mode, deferred, off, next, polled>>

\* Mutant: any free descriptor.
CheckAnySlot ==
    /\ At("check")
    /\ LET free == {i \in Slots : ~pending[i] /\ tsd[i] = "host"}
       IN  IF free = {} THEN Leave
           ELSE \E i \in free : fg' = [fg EXCEPT !.i = i, !.pc = "fill"]
    /\ UNCHANGED <<card, driver, polled>>

\* rtl8139_send: the next descriptor of the cycle, or busy.
Check ==
    /\ At("check")
    /\ IF pending[next] \/ tsd[next] = "card" THEN Leave
       ELSE fg' = [fg EXCEPT !.i = next, !.pc = "fill"]
    /\ UNCHANGED <<card, driver, polled>>

\* The frame is copied into the descriptor's buffer ...
Fill ==
    /\ At("fill")
    /\ pending' = [pending EXCEPT ![fg.i] = TRUE]
    /\ next' = (fg.i + 1) % RTL_TX_DESCRIPTOR_COUNT
    /\ Go("give")
    /\ UNCHANGED <<card, ready, mode, deferred, off, polled>>

\* ... and the descriptor handed to the card.
Give ==
    /\ At("give")
    /\ tsd' = [tsd EXCEPT ![fg.i] = "card"]
    /\ Leave
    /\ UNCHANGED <<isr, imr, rx, cur, driver, polled>>

\* rtl_collect_events: what the handler deferred and what is pending now,
\* read and acknowledged with interrupts off.
Collect ==
    /\ At("collect")
    /\ deferred' = {}
    /\ fg' = [fg EXCEPT !.events = deferred \cup isr, !.live = isr,
                        !.pc = "acknowledge"]
    /\ UNCHANGED <<card, ready, mode, off, pending, next, polled>>

\* The causes read are cleared, those raised again since included.
Acknowledge ==
    /\ At("acknowledge")
    /\ isr' = isr \ fg.live
    /\ fg' = [fg EXCEPT !.live = {}, !.events = {}, !.pc =
          IF "RX_OVERFLOW" \in fg.events THEN "stop"
          ELSE IF fg.op = "receive" THEN "ring" ELSE "rearm"]
    /\ UNCHANGED <<imr, rx, tsd, cur, driver, polled>>

\* rtl_restart_receiver: the receiver is stopped, if it will stop ...
Stop ==
    /\ At("stop")
    /\ \/ rx' = [rx EXCEPT !.on = FALSE] /\ Go("restart") /\ UNCHANGED ready
       \/ ready' = FALSE /\ Leave /\ UNCHANGED rx
    /\ UNCHANGED <<isr, imr, tsd, cur, mode, deferred, off, pending, next, polled>>

\* ... and its ring, if it still maps, emptied and started again.
Restart ==
    /\ At("restart")
    /\ \/ /\ rx' = EmptyRing
          /\ off' = 0 /\ Go("rearm") /\ UNCHANGED ready
       \/ ready' = FALSE /\ Leave /\ UNCHANGED <<rx, off>>
    /\ UNCHANGED <<isr, imr, tsd, cur, mode, deferred, pending, next, polled>>

\* rtl8139_receive: nothing there; a length no frame has, which the card may
\* show for any frame; a frame to skip (marked bad, or too long for the
\* caller); a frame to copy.
Look ==
    /\ At("ring")
    /\ IF BufferEmpty THEN Go("rearm")
       ELSE \E length \in HeadersAt(off) :
              \/ Go("stop")
              \/ \E pc \in {"consume", "copy"} :
                    fg' = [fg EXCEPT !.length = length, !.pc = pc]
    /\ UNCHANGED <<card, driver, polled>>

Copy ==
    /\ At("copy")
    /\ Go("consume")
    /\ UNCHANGED <<card, driver, polled>>

\* rtl_consume_receive: the offset, and the register behind it.
rtl_consume_receive ==
    /\ At("consume")
    /\ off' = Extent(off + fg.length) % RTL_RX_RING_SIZE
    /\ rx' = [rx EXCEPT !.ptr = ReadPointer(off'),
                        !.frames = FramesFrom(ReadPointer(off'))]
    /\ fg' = [fg EXCEPT !.length = 0, !.pc = "rearm"]
    /\ UNCHANGED <<isr, imr, tsd, cur, ready, mode, deferred, pending, next, polled>>

\* Mutant: the ring is not looked at.
RearmEverything ==
    /\ At("rearm")
    /\ IF ~mode THEN Leave
       ELSE fg' = [fg EXCEPT !.pc = "arm", !.events = ENABLED_MASK]
    /\ UNCHANGED <<card, driver, polled>>

\* rtl_rearm_interrupts: receive causes stay masked while the ring holds
\* frames.  The ring is looked at ...
rtl_rearm_interrupts ==
    /\ At("rearm")
    /\ IF ~mode THEN Leave
       ELSE fg' = [fg EXCEPT !.pc = "arm",
                             !.events = IF BufferEmpty THEN ENABLED_MASK
                                        ELSE ENABLED_MASK \ RX_MASK]
    /\ UNCHANGED <<card, driver, polled>>

\* ... and the mask written, whatever has come in between.
Arm ==
    /\ At("arm")
    /\ imr' = fg.events
    /\ polled' = TRUE
    /\ Leave
    /\ UNCHANGED <<isr, rx, tsd, cur, driver>>

-----------------------------------------------------------------------------

Next ==
    \/ rtl_try_attach_interrupt \/ Unmask
    \/ Arrive \/ Transmitted \/ rtl_interrupt_entry
    \/ Enter \/ rtl_reap_transmits
    \/ Check \/ Fill \/ Give
    \/ Collect \/ Acknowledge \/ Stop \/ Restart
    \/ Look \/ Copy \/ rtl_consume_receive
    \/ rtl_rearm_interrupts \/ Arm

Spec == Init /\ [][Next]_vars

-----------------------------------------------------------------------------
(* The driver and the card share memory and take turns on it: the frame    *)
(* rtl8139_receive reads is the oldest in the ring and the card still      *)
(* keeps it, the offsets of both agree between calls, a transmit buffer is *)
(* filled only while the host owns its descriptor, what the card owns the  *)
(* driver counts as pending, and the card's cycle is never left waiting at *)
(* a descriptor that was skipped.                                          *)
DmaIsInStep ==
    /\ fg.pc \in {"copy", "consume"} =>
          /\ ~BufferEmpty /\ off = rx.ptr
          /\ fg.length = rx.frames[1].length
    /\ At("idle") => off = rx.ptr
    /\ At("fill") => tsd[fg.i] = "host"
    /\ \A i \in Slots : tsd[i] = "card" => pending[i] /\ tsd[cur] = "card"

(* Between two calls of a working interrupt-mode driver no wakeup is lost: *)
(* receive causes are masked only while frames wait in the ring or events  *)
(* wait for the foreground, and when they are not masked a frame in the    *)
(* ring has its cause pending or deferred, wherever in the calls it came   *)
(* and wherever the handler ran.                                           *)
ArmedMeansWoken ==
    At("idle") /\ ready /\ mode /\ polled =>
        /\ imr \cap RX_MASK = {} => ~BufferEmpty \/ deferred # {}
        /\ ~BufferEmpty /\ RX_MASK \subseteq imr =>
              (isr \cup deferred) \cap RX_MASK # {}
=============================================================================
