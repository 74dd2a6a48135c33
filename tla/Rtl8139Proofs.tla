--------------------------- MODULE Rtl8139Proofs ---------------------------
(***************************************************************************)
(* Proofs about the network card's driver, for every ring size, every      *)
(* number of transmit descriptors and every set of frame lengths: no       *)
(* wakeup is lost, and the driver and the card keep in step on the memory  *)
(* they share.                                                             *)
(***************************************************************************)
EXTENDS Rtl8139, TLAPS

SIZE == RTL_RX_RING_SIZE
COUNT == RTL_TX_DESCRIPTOR_COUNT

\* The mask rtl_rearm_interrupts chooses while the ring holds frames.
TX_ONLY == ENABLED_MASK \ RX_MASK

-----------------------------------------------------------------------------
(* The inductive invariant, part by part.                                  *)

Places == {"attach", "unmask", "idle", "reap", "check", "fill", "give",
           "collect", "acknowledge", "stop", "restart", "ring", "consume",
           "copy", "rearm", "arm"}

Frames == [at : 0..(SIZE - 1), length : Lengths]

Foregrounds ==
    [op : Calls \cup {"none"}, pc : Places, i : Slots,
     live : SUBSET ENABLED_MASK, events : SUBSET ENABLED_MASK,
     length : Lengths \cup {0}]

ForegroundType == fg \in Foregrounds

CardType ==
    /\ rx \in [on : BOOLEAN, ptr : 0..(SIZE - 1), end : 0..(SIZE - 1),
               frames : Seq(Frames)]
    /\ imr \in {{}, ENABLED_MASK, TX_ONLY}
    /\ isr \subseteq ENABLED_MASK
    /\ tsd \in [Slots -> {"host", "card"}] /\ cur \in Slots

DriverType ==
    /\ deferred \subseteq ENABLED_MASK
    /\ off \in 0..(SIZE - 1)
    /\ pending \in [Slots -> BOOLEAN] /\ next \in Slots
    /\ ready \in BOOLEAN /\ mode \in BOOLEAN /\ polled \in BOOLEAN

TypeInv == ForegroundType /\ CardType /\ DriverType

\* Until the handler is attached and the card unmasked, nothing was rearmed.
FirstCallIsLater == fg.pc \in {"attach", "unmask"} => ~polled

\* Between calls, and in a call until it takes over the events the handler
\* deferred, masked receive causes have a reason, and a frame the card may
\* report has its cause.
Wakeful ==
    /\ imr \cap RX_MASK = {} => ~BufferEmpty \/ deferred # {}
    /\ ~BufferEmpty /\ RX_MASK \subseteq imr =>
          (isr \cup deferred) \cap RX_MASK # {}

NothingTaken ==
    fg.pc \in {"idle", "reap", "check", "fill", "give"}
        /\ ready /\ mode /\ polled => Wakeful

\* Between looking at the ring and writing the mask: the mask to write was
\* right when it was chosen, and what came in since has left its cause.
MaskIsStillRight ==
    At("arm") =>
        /\ fg.events \in {ENABLED_MASK, TX_ONLY}
        /\ fg.events = ENABLED_MASK =>
              BufferEmpty \/ (isr \cup deferred) \cap RX_MASK # {}
        /\ fg.events = TX_ONLY => ~BufferEmpty

WakeInv == FirstCallIsLater /\ NothingTaken /\ MaskIsStillRight

\* How far x is from the card's read pointer p, around the ring.
Ahead(p, x) == IF p <= x THEN x - p ELSE x - p + SIZE

\* The frames lie one after the other from the read pointer to the write
\* pointer, and none reaches round to the read pointer again.
FramesInRow ==
    /\ BufferEmpty => rx.end = rx.ptr
    /\ ~BufferEmpty => rx.frames[1].at = rx.ptr /\ After(Len(rx.frames)) = rx.end
    /\ \A n \in DOMAIN rx.frames :
          /\ n + 1 \in DOMAIN rx.frames => rx.frames[n + 1].at = After(n)
          /\ Ahead(rx.ptr, rx.frames[n].at) + Extent(rx.frames[n].length)
                <= Ahead(rx.ptr, rx.end)
          /\ \A m \in DOMAIN rx.frames : m < n =>
                Ahead(rx.ptr, rx.frames[m].at) + Extent(rx.frames[m].length)
                   <= Ahead(rx.ptr, rx.frames[n].at)

\* The driver's offset is the card's read pointer, and a frame being copied
\* or consumed is the oldest one.
OffsetInStep ==
    /\ off = rx.ptr /\ off % 4 = 0
    /\ fg.pc \in {"copy", "consume"} =>
          ~BufferEmpty /\ fg.length = rx.frames[1].length

RingInv == FramesInRow /\ OffsetInStep

\* How far descriptor i is from the card's next one, around the cycle.
Later(c, i) == IF c <= i THEN i - c ELSE i - c + COUNT

\* The descriptor to be handed over next: the one being filled, or next.
Upcoming == IF fg.pc \in {"fill", "give"} THEN fg.i ELSE next

\* The card owns a run of descriptors that begins at its next one and ends
\* before the driver's, which the card owns only when it owns them all.
CycleUnbroken ==
    /\ \A i, j \in Slots :
          tsd[j] = "card" /\ Later(cur, i) <= Later(cur, j) => tsd[i] = "card"
    /\ \A i \in Slots :
          tsd[Upcoming] = "card" \/ Later(cur, i) < Later(cur, Upcoming) =>
             tsd[i] = "card"
    /\ tsd[Upcoming] = "card" => Upcoming = cur

DescriptorsInStep ==
    /\ \A i \in Slots : tsd[i] = "card" => pending[i]
    /\ fg.pc \in {"fill", "give"} => tsd[fg.i] = "host"
    /\ At("give") => pending[fg.i] /\ next = (fg.i + 1) % COUNT
    /\ At("fill") => next = fg.i

CycleInv == CycleUnbroken /\ DescriptorsInStep

IInv == TypeInv /\ WakeInv /\ RingInv /\ CycleInv

-----------------------------------------------------------------------------
(* Arithmetic of the ring and of the cycle of descriptors.                 *)

LEMMA SizeFacts ==
    SIZE \in Nat /\ SIZE >= 16 /\ SIZE % 4 = 0 /\ COUNT \in Nat \ {0}
BY RingAssumption DEF SIZE, COUNT

\* A frame takes whole words, and fewer bytes than the ring has.
LEMMA ExtentFacts ==
    ASSUME NEW l \in Lengths
    PROVE  /\ Extent(l) \in 8..(SIZE - 4)
           /\ Extent(l) % 4 = 0
<1>1. l \in Nat /\ 4 <= l /\ l <= SIZE - 8
    BY RingAssumption DEF SIZE
<1>2. QED
    BY <1>1, SizeFacts DEF Extent

\* Adding a length to a place in the ring and reducing it wraps at most once.
LEMMA WrapOnce ==
    ASSUME NEW p \in 0..(SIZE - 1), NEW e \in 0..(SIZE - 1)
    PROVE  (p + e) % SIZE = IF p + e < SIZE THEN p + e ELSE p + e - SIZE
<1>1. CASE p + e < SIZE
    BY <1>1, SizeFacts
<1>2. CASE p + e >= SIZE
    <2>1. p + e - SIZE \in 0..(SIZE - 1)
        BY <1>2, SizeFacts
    <2>2. (p + e) % SIZE = (p + e - SIZE) % SIZE
        BY RingAssumption DEF SIZE
    <2>3. QED
        BY <1>2, <2>1, <2>2, SizeFacts
<1>3. QED
    BY <1>1, <1>2, SizeFacts

\* rtl_consume_receive adds the offset before it rounds: the offset is a
\* multiple of four, so the sum is the offset and the frame's extent, and the
\* round trip through the register, 16 bytes behind, loses nothing.
LEMMA RegisterRoundTrip ==
    ASSUME NEW p \in 0..(SIZE - 1), p % 4 = 0, NEW l \in Lengths,
           NEW o, o = Extent(p + l) % SIZE
    PROVE  /\ o = (p + Extent(l)) % SIZE
           /\ ReadPointer(o) = o
           /\ o \in 0..(SIZE - 1)
           /\ o % 4 = 0
<1>1. l \in Nat /\ 4 <= l /\ l <= SIZE - 8
    BY RingAssumption DEF SIZE
<1>2. Extent(p + l) = p + Extent(l)
    BY <1>1, SizeFacts DEF Extent
<1>3. Extent(l) \in 0..(SIZE - 1) /\ Extent(l) % 4 = 0
    BY ExtentFacts, SizeFacts
<1>4. o = (p + Extent(l)) % SIZE
    BY <1>2
<1>5. o = IF p + Extent(l) < SIZE THEN p + Extent(l) ELSE p + Extent(l) - SIZE
    BY <1>3, <1>4, WrapOnce
<1>6. o \in 0..(SIZE - 1)
    BY <1>3, <1>5, SizeFacts
<1>7. o % 4 = 0
    BY <1>3, <1>5, SizeFacts
<1>8. ReadPointer(o) = o
    <2>1. CASE o >= 16
        <3>1. (o - 16) % 65536 = o - 16
            BY <2>1, <1>6, RingAssumption DEF SIZE
        <3>2. QED
            BY <2>1, <3>1, <1>6, SizeFacts DEF ReadPointer, SIZE
    <2>2. CASE o < 16
        <3>1. (o - 16) % 65536 = o - 16 + 65536
            BY <2>2, <1>6, SizeFacts
        <3>2. (o + 65536) % SIZE = o
            BY <1>6, RingAssumption DEF SIZE
        <3>3. QED
            BY <3>1, <3>2, <1>6, SizeFacts DEF ReadPointer, SIZE
    <2>3. QED
        BY <2>1, <2>2, <1>6, SizeFacts
<1>9. QED
    BY <1>4, <1>6, <1>7, <1>8

\* The descriptor after i.
LEMMA NextSlot ==
    ASSUME NEW i \in Slots
    PROVE  /\ (i + 1) % COUNT = IF i + 1 = COUNT THEN 0 ELSE i + 1
           /\ (i + 1) % COUNT \in Slots
<1>1. CASE i + 1 < COUNT
    BY <1>1, SizeFacts DEF Slots, COUNT
<1>2. CASE i + 1 = COUNT
    BY <1>2, SizeFacts DEF Slots, COUNT
<1>3. QED
    BY <1>1, <1>2, SizeFacts DEF Slots, COUNT

-----------------------------------------------------------------------------
(* What the two steps that move frames do to a ring that is in order.      *)

\* A frame that arrives goes behind the others, if it fits.
LEMMA ArriveFits ==
    ASSUME TypeInv, RingInv, NEW l \in Lengths,
           ~(Used > 0 /\ Extent(l) >= RTL_RX_RING_SIZE - Used)
    PROVE  Ahead(rx.ptr, rx.end) + Extent(l) < SIZE
<1>1. rx.ptr \in 0..(SIZE - 1) /\ rx.end \in 0..(SIZE - 1)
    BY DEF TypeInv, CardType
<1>2. Used = Ahead(rx.ptr, rx.end)
    <2>1. CASE rx.ptr <= rx.end
        BY <2>1, <1>1, SizeFacts DEF Used, Ahead, SIZE
    <2>2. CASE rx.ptr > rx.end
        <3>1. (rx.end - rx.ptr) % SIZE = (rx.end - rx.ptr + SIZE) % SIZE
            BY <1>1, RingAssumption DEF SIZE
        <3>2. QED
            BY <2>2, <3>1, <1>1, SizeFacts DEF Used, Ahead, SIZE
    <2>3. QED
        BY <2>1, <2>2, <1>1, SizeFacts
<1>3. QED
    BY <1>1, <1>2, ExtentFacts, SizeFacts DEF Ahead, SIZE

\* The frame the driver consumes is the first one: both pointers move past
\* it and the card gives up that frame and no other.
LEMMA ConsumeTakesTheFirst ==
    ASSUME TypeInv, RingInv, rtl_consume_receive
    PROVE  /\ rx.frames # <<>>
           /\ rx' = [rx EXCEPT !.ptr = After(1), !.frames = Tail(@)]
           /\ off' = After(1)
           /\ After(1) \in 0..(SIZE - 1)
           /\ After(1) % 4 = 0
<1>1. /\ rx.frames # <<>> /\ rx.frames[1].at = rx.ptr
      /\ fg.length = rx.frames[1].length
      /\ off = rx.ptr /\ off % 4 = 0
    BY DEF rtl_consume_receive, RingInv, OffsetInStep, FramesInRow, BufferEmpty, At
<1>2. /\ rx.frames \in Seq(Frames) /\ 1 \in DOMAIN rx.frames
      /\ rx.frames[1] \in Frames
      /\ rx.ptr \in 0..(SIZE - 1)
    BY <1>1 DEF TypeInv, CardType
<1>3. rx.frames[1].length \in Lengths
    BY <1>2 DEF Frames
<1>4. off' = Extent(off + fg.length) % SIZE
    BY DEF rtl_consume_receive, SIZE
<1>5. /\ off' = (rx.ptr + Extent(fg.length)) % SIZE
      /\ ReadPointer(off') = off'
      /\ off' \in 0..(SIZE - 1) /\ off' % 4 = 0
    BY <1>1, <1>2, <1>3, <1>4, RegisterRoundTrip
<1>6. off' = After(1)
    BY <1>1, <1>5 DEF After, SIZE
<1>7. rx' = [rx EXCEPT !.ptr = ReadPointer(off'),
                       !.frames = FramesFrom(ReadPointer(off'))]
    BY Zenon DEF rtl_consume_receive
<1> DEFINE gone == {n \in DOMAIN rx.frames : After(n) = off'}
<1>8. 1 \in gone /\ \A y \in gone : y \in Nat /\ 1 <= y
    BY <1>2, <1>6
<1>9. Min(gone) = 1
    BY <1>8 DEF Min
<1>10. SubSeq(rx.frames, 2, Len(rx.frames)) = Tail(rx.frames)
    BY <1>1, <1>2
<1>11. FramesFrom(off') = SubSeq(rx.frames, Min(gone) + 1, Len(rx.frames))
    BY <1>8 DEF FramesFrom
<1>12. FramesFrom(off') = Tail(rx.frames)
    BY <1>9, <1>10, <1>11, 1 + 1 = 2
<1>13. rx' = [rx EXCEPT !.ptr = After(1), !.frames = Tail(@)]
    BY ONLY <1>5, <1>6, <1>7, <1>12, Zenon
<1>14. QED
    BY <1>1, <1>5, <1>6, <1>13

-----------------------------------------------------------------------------
(* Every step keeps every part.                                            *)

LEMMA InitHolds == Init => IInv
<1> SUFFICES ASSUME Init PROVE IInv
    OBVIOUS
<1> USE DEF Init, Idle, EmptyRing
<1>1. 0 \in Slots
    BY SizeFacts DEF Slots, COUNT
<1>2. ForegroundType
    BY <1>1 DEF ForegroundType, Foregrounds, Places, Calls, ENABLED_MASK, RX_MASK
<1>3. CardType
    BY <1>1, SizeFacts DEF CardType
<1>4. DriverType
    <2>1. pending \in [Slots -> BOOLEAN]
        OBVIOUS
    <2>2. off \in 0..(SIZE - 1) /\ next \in Slots /\ deferred \subseteq ENABLED_MASK
        BY <1>1, SizeFacts
    <2>3. ready \in BOOLEAN /\ mode \in BOOLEAN /\ polled \in BOOLEAN
        OBVIOUS
    <2>4. QED
        BY <2>1, <2>2, <2>3 DEF DriverType
<1>5. WakeInv
    BY DEF WakeInv, FirstCallIsLater, NothingTaken, MaskIsStillRight, At
<1>6. RingInv
    BY DEF RingInv, FramesInRow, OffsetInStep, BufferEmpty
<1>7. CycleInv
    <2>1. fg.pc = "attach" /\ Upcoming = 0
        BY DEF Upcoming
    <2>2. tsd[Upcoming] = "host" /\ \A i \in Slots : tsd[i] = "host"
        BY <1>1, <2>1
    <2>3. \A i \in Slots : ~(Later(cur, i) < Later(cur, Upcoming))
        BY <2>1, SizeFacts DEF Later, Slots, COUNT
    <2>4. QED
        BY <2>1, <2>2, <2>3 DEF CycleInv, CycleUnbroken, DescriptorsInStep, At
<1>8. QED
    BY <1>2, <1>3, <1>4, <1>5, <1>6, <1>7 DEF IInv, TypeInv

\* Where a call may go next keeps its record whole.
LEMMA ForegroundMoves ==
    /\ Idle \in Foregrounds
    /\ \A f \in Foregrounds, pc \in Places : [f EXCEPT !.pc = pc] \in Foregrounds
<1>1. 0 \in Slots
    BY SizeFacts DEF Slots, COUNT
<1>2. QED
    BY <1>1, ZenonT(60) DEF Foregrounds, Places, Idle, Calls, ENABLED_MASK, RX_MASK

LEMMA ForegroundStep == TypeInv /\ [Next]_vars => ForegroundType'
<1> SUFFICES ASSUME TypeInv, [Next]_vars PROVE fg' \in Foregrounds
    BY DEF ForegroundType
<1>0. fg \in Foregrounds /\ isr \subseteq ENABLED_MASK /\ deferred \subseteq ENABLED_MASK
    BY DEF TypeInv, ForegroundType, CardType, DriverType
<1>1. 0 \in Slots
    BY SizeFacts DEF Slots, COUNT
<1>2. CASE UNCHANGED fg
    BY <1>0, <1>2
<1>3. CASE Leave
    BY <1>3, ForegroundMoves DEF Leave
<1>4. ASSUME NEW pc \in Places, Go(pc)
      PROVE  fg' \in Foregrounds
    BY <1>4, <1>0, ForegroundMoves DEF Go
<1>5. CASE Enter
    <2>1. PICK op \in Calls :
             IF ready THEN fg' = [Idle EXCEPT !.op = op, !.pc = "reap"]
                      ELSE UNCHANGED fg
        BY <1>5 DEF Enter
    <2>2. QED
        BY <2>1, <1>0, <1>1, ZenonT(60) DEF Idle, Foregrounds, Places, Calls, ENABLED_MASK
<1>6. CASE rtl_reap_transmits
    BY <1>6, <1>0, <1>1, ZenonT(60) DEF rtl_reap_transmits, Foregrounds, Places
<1>7. CASE Check
    <2>1. CASE pending[next] \/ tsd[next] = "card"
        BY <1>3, <1>7, <2>1 DEF Check
    <2>2. CASE ~(pending[next] \/ tsd[next] = "card")
        <3>1. fg' = [fg EXCEPT !.i = next, !.pc = "fill"] /\ next \in Slots
            BY <1>7, <2>2 DEF Check, TypeInv, DriverType
        <3>2. QED
            BY <3>1, <1>0 DEF Foregrounds, Places
    <2>3. QED
        BY <2>1, <2>2
<1>8. CASE Collect
    BY <1>8, <1>0 DEF Collect, Foregrounds, Places
<1>9. CASE Acknowledge
    BY <1>9, <1>0 DEF Acknowledge, Foregrounds, Places, ENABLED_MASK
<1>10. CASE Look
    <2>1. CASE Go("rearm") \/ Go("stop")
        BY <2>1, <1>4 DEF Places
    <2>2. ASSUME NEW l \in HeadersAt(off), NEW pc \in {"consume", "copy"},
                 fg' = [fg EXCEPT !.length = l, !.pc = pc]
          PROVE  fg' \in Foregrounds
        <3>1. l \in Lengths
            <4>1. rx.frames \in Seq(Frames)
                BY DEF TypeInv, CardType
            <4>2. \A n \in DOMAIN rx.frames : rx.frames[n] \in Frames
                BY <4>1
            <4>3. \A f \in Frames : f.length \in Lengths
                BY DEF Frames
            <4>4. QED
                BY <4>2, <4>3 DEF HeadersAt
        <3>2. QED
            BY <2>2, <3>1, <1>0 DEF Foregrounds, Places
    <2>3. QED
        BY <1>10, <2>1, <2>2 DEF Look
<1>11. CASE rtl_consume_receive
    BY <1>11, <1>0 DEF rtl_consume_receive, Foregrounds, Places
<1>12. CASE rtl_rearm_interrupts
    <2>1. CASE ~mode
        BY <1>3, <1>12, <2>1 DEF rtl_rearm_interrupts
    <2>2. CASE mode
        <3>1. \E e \in SUBSET ENABLED_MASK :
                 fg' = [fg EXCEPT !.pc = "arm", !.events = e]
            BY <1>12, <2>2 DEF rtl_rearm_interrupts, ENABLED_MASK
        <3>2. QED
            BY <3>1, <1>0 DEF Foregrounds, Places
    <2>3. QED
        BY <2>1, <2>2
<1>13. CASE Arrive \/ Transmitted \/ rtl_interrupt_entry \/ UNCHANGED vars
    BY <1>13, <1>2 DEF Arrive, Transmitted, rtl_interrupt_entry, vars
<1>14. CASE \/ rtl_try_attach_interrupt \/ Unmask \/ Fill \/ Give
            \/ Stop \/ Restart \/ Copy \/ Arm
    <2>1. \/ Leave
          \/ \E pc \in Places : Go(pc)
        BY <1>14 DEF rtl_try_attach_interrupt, Unmask, Fill, Give, Stop,
                     Restart, Copy, Arm, Places
    <2>2. QED
        BY <2>1, <1>3, <1>4
<1>15. QED
    BY <1>5, <1>6, <1>7, <1>8, <1>9, <1>10, <1>11, <1>12, <1>13, <1>14 DEF Next

LEMMA CardStep ==
    TypeInv /\ RingInv /\ MaskIsStillRight /\ [Next]_vars => CardType'
<1> SUFFICES ASSUME TypeInv, RingInv, MaskIsStillRight, [Next]_vars
             PROVE  CardType'
    OBVIOUS
<1> DEFINE Rings == [on : BOOLEAN, ptr : 0..(SIZE - 1), end : 0..(SIZE - 1),
                     frames : Seq(Frames)]
<1>1. rx' \in Rings
    <2>0. rx \in Rings
        BY DEF TypeInv, CardType
    <2>1. CASE UNCHANGED rx
        BY <2>0, <2>1
    <2>2. ASSUME NEW l \in Lengths,
                 rx' = [rx EXCEPT
                        !.frames = Append(@, [at |-> rx.end, length |-> l]),
                        !.end = (@ + Extent(l)) % RTL_RX_RING_SIZE]
          PROVE  rx' \in Rings
        <3>1. (rx.end + Extent(l)) % RTL_RX_RING_SIZE \in 0..(SIZE - 1)
            BY <2>0, ExtentFacts, SizeFacts DEF SIZE
        <3>2. Append(rx.frames, [at |-> rx.end, length |-> l]) \in Seq(Frames)
            BY <2>0 DEF Frames
        <3>3. QED
            BY <2>0, <2>2, <3>1, <3>2
    <2>3. CASE rx' = EmptyRing
        BY <2>3, SizeFacts DEF EmptyRing
    <2>4. CASE rx' = [rx EXCEPT !.on = FALSE]
        BY <2>0, <2>4
    <2>5. CASE rtl_consume_receive
        <3>1. Tail(rx.frames) \in Seq(Frames)
            BY <2>0, <2>5, ConsumeTakesTheFirst
        <3>2. QED
            BY <2>0, <2>5, <3>1, ConsumeTakesTheFirst
    <2>6. CASE Arrive
        BY <2>6, <2>1, <2>2 DEF Arrive
    <2>7. CASE Stop \/ Restart
        BY <2>7, <2>1, <2>3, <2>4 DEF Stop, Restart
    <2>8. CASE ~(Arrive \/ Stop \/ Restart \/ rtl_consume_receive)
        BY <2>8, <2>1 DEF Next, vars, card, rtl_try_attach_interrupt, Unmask,
               Transmitted, rtl_interrupt_entry, Enter, rtl_reap_transmits,
               Check, Fill, Give, Collect, Acknowledge, Look, Copy,
               rtl_rearm_interrupts, Arm
    <2>9. QED
        BY <2>5, <2>6, <2>7, <2>8
<1>2. imr' \in {{}, ENABLED_MASK, TX_ONLY}
    <2>1. CASE UNCHANGED imr
        BY <2>1 DEF TypeInv, CardType
    <2>2. CASE Unmask \/ rtl_interrupt_entry
        BY <2>2 DEF Unmask, rtl_interrupt_entry
    <2>3. CASE Arm
        BY <2>3 DEF Arm, MaskIsStillRight
    <2>4. QED
        BY <2>1, <2>2, <2>3 DEF Next, vars, card, rtl_try_attach_interrupt,
           Arrive, Transmitted, Enter, rtl_reap_transmits, Check, Fill, Give,
           Collect, Acknowledge, Stop, Restart, Look, Copy,
           rtl_consume_receive, rtl_rearm_interrupts
<1>3. isr' \subseteq ENABLED_MASK
    BY DEF TypeInv, CardType, ENABLED_MASK, RX_MASK, Next, vars, card,
           rtl_try_attach_interrupt, Unmask, Arrive, Transmitted,
           rtl_interrupt_entry, Enter, rtl_reap_transmits, Check, Fill, Give,
           Collect, Acknowledge, Stop, Restart, Look, Copy,
           rtl_consume_receive, rtl_rearm_interrupts, Arm
<1>4. tsd' \in [Slots -> {"host", "card"}] /\ cur' \in Slots
    <2>1. CASE UNCHANGED <<tsd, cur>>
        BY <2>1 DEF TypeInv, CardType
    <2>2. CASE Transmitted
        BY <2>2, NextSlot DEF Transmitted, TypeInv, CardType, COUNT
    <2>3. CASE Give
        BY <2>3 DEF Give, TypeInv, CardType
    <2>4. QED
        BY <2>1, <2>2, <2>3 DEF Next, vars, card, rtl_try_attach_interrupt,
           Unmask, Arrive, rtl_interrupt_entry, Enter, rtl_reap_transmits,
           Check, Fill, Collect, Acknowledge, Stop, Restart, Look, Copy,
           rtl_consume_receive, rtl_rearm_interrupts, Arm
<1>5. QED
    BY <1>1, <1>2, <1>3, <1>4 DEF CardType

LEMMA DriverStep == TypeInv /\ RingInv /\ [Next]_vars => DriverType'
<1> SUFFICES ASSUME TypeInv, RingInv, [Next]_vars PROVE DriverType'
    OBVIOUS
<1> USE DEF TypeInv, DriverType
<1>1. pending' \in [Slots -> BOOLEAN]
    <2>1. CASE UNCHANGED pending
        BY <2>1
    <2>2. CASE rtl_reap_transmits
        BY <2>2 DEF rtl_reap_transmits
    <2>3. CASE Fill
        BY <2>3 DEF Fill
    <2>4. QED
        BY <2>1, <2>2, <2>3 DEF Next, vars, driver, rtl_try_attach_interrupt,
           Unmask, Arrive, Transmitted, rtl_interrupt_entry, Enter, Check, Give,
           Collect, Acknowledge, Stop, Restart, Look, Copy,
           rtl_consume_receive, rtl_rearm_interrupts, Arm
<1>2. off' \in 0..(SIZE - 1)
    <2>1. CASE UNCHANGED off
        BY <2>1
    <2>2. CASE off' = 0
        BY <2>2, SizeFacts
    <2>3. CASE rtl_consume_receive
        BY <2>3, ConsumeTakesTheFirst
    <2>4. QED
        BY <2>1, <2>2, <2>3 DEF Next, vars, driver, rtl_try_attach_interrupt,
           Unmask, Arrive, Transmitted, rtl_interrupt_entry, Enter,
           rtl_reap_transmits, Check, Fill, Give, Collect, Acknowledge, Stop,
           Restart, Look, Copy, rtl_rearm_interrupts, Arm
<1>3. next' \in Slots
    <2>1. CASE UNCHANGED next
        BY <2>1
    <2>2. CASE Fill
        BY <2>2, NextSlot DEF Fill, ForegroundType, Foregrounds, COUNT
    <2>3. QED
        BY <2>1, <2>2 DEF Next, vars, driver, rtl_try_attach_interrupt,
           Unmask, Arrive, Transmitted, rtl_interrupt_entry, Enter,
           rtl_reap_transmits, Check, Give, Collect, Acknowledge, Stop,
           Restart, Look, Copy, rtl_consume_receive, rtl_rearm_interrupts, Arm
<1>4. deferred' \subseteq ENABLED_MASK
    BY DEF CardType, Next, vars, driver, rtl_try_attach_interrupt, Unmask, Arrive,
           Transmitted, rtl_interrupt_entry, Enter, rtl_reap_transmits, Check,
           Fill, Give, Collect, Acknowledge, Stop, Restart, Look, Copy,
           rtl_consume_receive, rtl_rearm_interrupts, Arm
<1>5. ready' \in BOOLEAN /\ mode' \in BOOLEAN /\ polled' \in BOOLEAN
    BY DEF Next, vars, driver, rtl_try_attach_interrupt, Unmask, Arrive,
           Transmitted, rtl_interrupt_entry, Enter, rtl_reap_transmits, Check,
           Fill, Give, Collect, Acknowledge, Stop, Restart, Look, Copy,
           rtl_consume_receive, rtl_rearm_interrupts, Arm
<1>6. QED
    BY <1>1, <1>2, <1>3, <1>4, <1>5

-----------------------------------------------------------------------------
(* Wakeups.                                                                *)

LEMMA AppendIsNotEmpty ==
    ASSUME NEW S, NEW f \in Seq(S), NEW e \in S
    PROVE  Append(f, e) # <<>>
<1>1. Len(Append(f, e)) = Len(f) + 1 /\ Len(f) \in Nat
    OBVIOUS
<1>2. Len(<<>>) = 0
    OBVIOUS
<1>3. QED
    BY <1>1, <1>2

LEMMA WakeStep == TypeInv /\ WakeInv /\ [Next]_vars => WakeInv'
<1> SUFFICES ASSUME TypeInv, WakeInv, [Next]_vars PROVE WakeInv'
    OBVIOUS
<1>0. /\ fg \in Foregrounds
      /\ imr \in {{}, ENABLED_MASK, TX_ONLY}
      /\ isr \subseteq ENABLED_MASK /\ deferred \subseteq ENABLED_MASK
      /\ rx.frames \in Seq(Frames)
    BY DEF TypeInv, ForegroundType, CardType, DriverType
<1> USE DEF WakeInv, FirstCallIsLater, NothingTaken, MaskIsStillRight, Wakeful,
            At, Go, Leave, BufferEmpty
<1>1. CASE rtl_try_attach_interrupt
    BY <1>0, <1>1 DEF rtl_try_attach_interrupt, Idle, Foregrounds
<1>2. CASE Unmask
    BY <1>0, <1>2 DEF Unmask, driver, Idle, Foregrounds
<1>3. CASE Arrive
    <2>1. /\ isr \subseteq isr' /\ isr' \cap RX_MASK # {}
          /\ rx.frames # <<>> => rx'.frames # <<>>
        <3>1. PICK l \in Lengths :
                 IF Used > 0 /\ Extent(l) >= RTL_RX_RING_SIZE - Used
                 THEN isr' = isr \cup {"RX_OVERFLOW"} /\ UNCHANGED rx
                 ELSE /\ isr' = isr \cup {"RX_OK"}
                      /\ rx' = [rx EXCEPT
                            !.frames = Append(@, [at |-> rx.end, length |-> l]),
                            !.end = (@ + Extent(l)) % RTL_RX_RING_SIZE]
            BY <1>3 DEF Arrive
        <3>2. Append(rx.frames, [at |-> rx.end, length |-> l]) # <<>>
            <4>1. [at |-> rx.end, length |-> l] \in Frames
                BY DEF TypeInv, CardType, Frames
            <4>2. QED
                BY <1>0, <4>1, AppendIsNotEmpty, Zenon
        <3>3. rx'.frames \in {rx.frames, Append(rx.frames, [at |-> rx.end, length |-> l])}
            BY <3>1 DEF TypeInv, CardType
        <3>4. QED
            BY <3>1, <3>2, <3>3 DEF RX_MASK
    <2>2. UNCHANGED <<imr, driver, fg, polled>>
        BY <1>3 DEF Arrive
    <2>3. QED
        BY <2>1, <2>2 DEF driver
<1>4. CASE Transmitted
    BY <1>4 DEF Transmitted, driver
<1>5. CASE rtl_interrupt_entry
    BY <1>0, <1>5 DEF rtl_interrupt_entry, RX_MASK
<1>6. CASE Enter
    BY <1>0, <1>6 DEF Enter, card, driver, Idle
<1>7. CASE rtl_reap_transmits
    BY <1>0, <1>7 DEF rtl_reap_transmits, card, Foregrounds
<1>8. CASE Check
    <2>1. fg'.pc \in {"idle", "fill"}
        <3>1. fg' = Idle \/ fg' = [fg EXCEPT !.i = next, !.pc = "fill"]
            BY <1>8 DEF Check
        <3>2. CASE fg' = Idle
            BY <3>2 DEF Idle
        <3>3. CASE fg' = [fg EXCEPT !.i = next, !.pc = "fill"]
            BY <1>0, <3>3 DEF Foregrounds
        <3>4. QED
            BY <3>1, <3>2, <3>3
    <2>2. QED
        BY <1>8, <2>1 DEF Check, card, driver
<1>9. CASE Fill
    BY <1>0, <1>9 DEF Fill, card, Foregrounds
<1>10. CASE Give
    BY <1>0, <1>10 DEF Give, driver, Idle, Foregrounds
<1>11. CASE Collect
    BY <1>0, <1>11 DEF Collect, card, Foregrounds
<1>12. CASE Acknowledge
    BY <1>0, <1>12 DEF Acknowledge, driver, Foregrounds
<1>13. CASE Stop
    BY <1>0, <1>13 DEF Stop, Idle, Foregrounds
<1>14. CASE Restart
    BY <1>0, <1>14 DEF Restart, Idle, Foregrounds
<1>15. CASE Look
    BY <1>0, <1>15 DEF Look, card, driver, Foregrounds
<1>16. CASE Copy
    BY <1>0, <1>16 DEF Copy, card, driver, Foregrounds
<1>17. CASE rtl_consume_receive
    BY <1>0, <1>17 DEF rtl_consume_receive, Foregrounds
<1>18. CASE rtl_rearm_interrupts
    <2>1. CASE ~mode
        BY <1>18, <2>1 DEF rtl_rearm_interrupts, card, driver, Idle
    <2>2. CASE mode
        <3>1. fg' = [fg EXCEPT !.pc = "arm",
                               !.events = IF BufferEmpty THEN ENABLED_MASK ELSE TX_ONLY]
            BY <1>18, <2>2 DEF rtl_rearm_interrupts, TX_ONLY
        <3>2. fg'.pc = "arm" /\ fg'.events = IF BufferEmpty THEN ENABLED_MASK ELSE TX_ONLY
            BY <1>0, <3>1 DEF Foregrounds
        <3>3. ENABLED_MASK # TX_ONLY
            BY DEF ENABLED_MASK, RX_MASK, TX_ONLY
        <3>4. QED
            BY <1>18, <3>2, <3>3 DEF rtl_rearm_interrupts, card
    <2>3. QED
        BY <2>1, <2>2
<1>19. CASE Arm
    <2>1. /\ imr' = fg.events /\ imr' \in {ENABLED_MASK, TX_ONLY}
          /\ fg' = Idle /\ UNCHANGED <<isr, rx, driver>>
        BY <1>19 DEF Arm
    <2>2. ENABLED_MASK \cap RX_MASK # {} /\ ~(RX_MASK \subseteq TX_ONLY)
        BY DEF ENABLED_MASK, RX_MASK, TX_ONLY
    <2>3. Wakeful'
        <3>1. CASE imr' = ENABLED_MASK
            BY <1>19, <2>1, <2>2, <3>1 DEF Arm, driver
        <3>2. CASE imr' = TX_ONLY
            BY <1>19, <2>1, <2>2, <3>2 DEF Arm, driver
        <3>3. QED
            BY <2>1, <3>1, <3>2
    <2>4. QED
        BY <2>1, <2>3 DEF Idle
<1>20. CASE UNCHANGED vars
    BY <1>20 DEF vars, card, driver
<1>21. QED
    BY <1>1, <1>2, <1>3, <1>4, <1>5, <1>6, <1>7, <1>8, <1>9, <1>10, <1>11, <1>12,
       <1>13, <1>14, <1>15, <1>16, <1>17, <1>18, <1>19, <1>20 DEF Next

-----------------------------------------------------------------------------
(* The cycle of transmit descriptors.                                      *)

\* The card's next descriptor is the nearest; moving on by one brings every
\* other one nearer by one and makes the one left behind the farthest.
LEMMA LaterFacts ==
    ASSUME NEW c \in Slots, NEW i \in Slots
    PROVE  /\ Later(c, i) \in 0..(COUNT - 1)
           /\ Later(c, i) = 0 <=> i = c
           /\ Later((c + 1) % COUNT, i) =
                 IF i = c THEN COUNT - 1 ELSE Later(c, i) - 1
           /\ Later(c, (i + 1) % COUNT) =
                 IF Later(c, i) = COUNT - 1 THEN 0 ELSE Later(c, i) + 1
<1>1. /\ COUNT \in Nat \ {0}
      /\ c \in 0..(COUNT - 1) /\ i \in 0..(COUNT - 1)
    BY SizeFacts DEF Slots, COUNT
<1>2. /\ (c + 1) % COUNT = IF c + 1 = COUNT THEN 0 ELSE c + 1
      /\ (i + 1) % COUNT = IF i + 1 = COUNT THEN 0 ELSE i + 1
    BY NextSlot
<1> HIDE DEF COUNT
<1>3. QED
    BY <1>1, <1>2 DEF Later

LEMMA CycleStep == TypeInv /\ CycleInv /\ [Next]_vars => CycleInv'
<1> SUFFICES ASSUME TypeInv, CycleInv, [Next]_vars PROVE CycleInv'
    OBVIOUS
<1>0. /\ fg \in Foregrounds /\ fg.i \in Slots
      /\ tsd \in [Slots -> {"host", "card"}] /\ cur \in Slots
      /\ pending \in [Slots -> BOOLEAN] /\ next \in Slots
    BY DEF TypeInv, ForegroundType, CardType, DriverType, Foregrounds
<1>1. Upcoming \in Slots
    BY <1>0 DEF Upcoming
<1>2. CASE UNCHANGED <<tsd, cur, pending, next>>
           /\ fg'.pc \notin {"fill", "give"} /\ fg.pc \notin {"fill", "give"}
    BY <1>2 DEF CycleInv, CycleUnbroken, DescriptorsInStep, Upcoming, At
<1>3. CASE UNCHANGED <<tsd, cur, pending, next, fg>>
    BY <1>3 DEF CycleInv, CycleUnbroken, DescriptorsInStep, Upcoming, At
<1>4. CASE Transmitted
    <2>1. /\ tsd[cur] = "card" /\ tsd' = [tsd EXCEPT ![cur] = "host"]
          /\ cur' = (cur + 1) % COUNT /\ UNCHANGED <<pending, next, fg>>
        BY <1>4 DEF Transmitted, driver, COUNT
    <2>2. Upcoming' = Upcoming
        BY <2>1 DEF Upcoming
    <2>3. \A i \in Slots : tsd'[i] = IF i = cur THEN "host" ELSE tsd[i]
        BY <1>0, <2>1
    <2>4. \A i \in Slots :
             /\ Later(cur, i) \in 0..(COUNT - 1)
             /\ Later(cur, i) = 0 <=> i = cur
             /\ Later(cur', i) = IF i = cur THEN COUNT - 1 ELSE Later(cur, i) - 1
        BY <1>0, <2>1, LaterFacts
    <2>5. \A i, j \in Slots :
             tsd'[j] = "card" /\ Later(cur', i) <= Later(cur', j) => tsd'[i] = "card"
        BY <2>3, <2>4, SizeFacts DEF CycleInv, CycleUnbroken
    <2>6. \A i \in Slots :
             tsd'[Upcoming] = "card" \/ Later(cur', i) < Later(cur', Upcoming) =>
                tsd'[i] = "card"
        <3>1. CASE tsd[Upcoming] = "card"
            <4>1. \A i \in Slots : tsd[i] = "card"
                BY <3>1 DEF CycleInv, CycleUnbroken
            <4>2. Upcoming = cur
                BY <3>1 DEF CycleInv, CycleUnbroken
            <4>3. QED
                BY <4>1, <4>2, <1>0, <2>3, <2>4, SizeFacts
        <3>2. CASE tsd[Upcoming] # "card"
            BY <3>2, <1>1, <2>1, <2>3, <2>4, SizeFacts DEF CycleInv, CycleUnbroken
        <3>3. QED
            BY <3>1, <3>2
    <2>7. DescriptorsInStep'
        BY <1>0, <2>1, <2>3 DEF CycleInv, DescriptorsInStep, At
    <2>8. tsd'[Upcoming] = "card" => Upcoming = cur'
        BY <1>1, <2>3 DEF CycleInv, CycleUnbroken
    <2>9. QED
        BY <2>2, <2>5, <2>6, <2>7, <2>8 DEF CycleInv, CycleUnbroken
<1>5. CASE rtl_reap_transmits
    <2>1. /\ pending' = [pending EXCEPT ![fg.i] = @ /\ tsd[fg.i] = "card"]
          /\ At("reap") /\ UNCHANGED <<tsd, cur, next>>
        BY <1>5 DEF rtl_reap_transmits, card
    <2>2. fg'.pc \in {"reap", "check", "collect"}
        BY <1>0, <1>5, <2>1 DEF rtl_reap_transmits, Foregrounds, At
    <2>3. \A i \in Slots : tsd'[i] = "card" => pending'[i]
        BY <1>0, <2>1 DEF CycleInv, DescriptorsInStep
    <2>4. QED
        BY <2>1, <2>2, <2>3
           DEF CycleInv, CycleUnbroken, DescriptorsInStep, Upcoming, At
<1>6. CASE Check
    <2>1. UNCHANGED <<tsd, cur, pending, next>> /\ At("check")
        BY <1>6 DEF Check, card, driver
    <2>2. CASE pending[next] \/ tsd[next] = "card"
        BY <1>2, <1>6, <2>1, <2>2 DEF Check, Leave, Idle, At
    <2>3. CASE ~(pending[next] \/ tsd[next] = "card")
        <3>1. fg' = [fg EXCEPT !.i = next, !.pc = "fill"]
            BY <1>6, <2>3 DEF Check
        <3>2. fg'.pc = "fill" /\ fg'.i = next
            BY <1>0, <3>1 DEF Foregrounds
        <3>3. tsd[next] = "host"
            BY <1>0, <2>3
        <3>4. Upcoming = next /\ Upcoming' = next
            BY <2>1, <3>2 DEF Upcoming, At
        <3>5. QED
            BY <2>1, <3>2, <3>3, <3>4 DEF CycleInv, CycleUnbroken, DescriptorsInStep, At
    <2>4. QED
        BY <2>2, <2>3
<1>7. CASE Fill
    <2>1. /\ At("fill") /\ pending' = [pending EXCEPT ![fg.i] = TRUE]
          /\ next' = (fg.i + 1) % COUNT
          /\ fg' = [fg EXCEPT !.pc = "give"] /\ UNCHANGED <<tsd, cur>>
        BY <1>7 DEF Fill, card, Go, COUNT
    <2>2. fg'.pc = "give" /\ fg'.i = fg.i
        BY <1>0, <2>1 DEF Foregrounds
    <2>3. Upcoming' = Upcoming
        BY <2>1, <2>2 DEF Upcoming, At
    <2>4. pending'[fg.i] /\ \A i \in Slots : tsd'[i] = "card" => pending'[i]
        BY <1>0, <2>1 DEF CycleInv, DescriptorsInStep
    <2>5. QED
        BY <2>1, <2>2, <2>3, <2>4 DEF CycleInv, CycleUnbroken, DescriptorsInStep, At
<1>8. CASE Give
    <2>1. /\ At("give") /\ tsd' = [tsd EXCEPT ![fg.i] = "card"]
          /\ fg'.pc = "idle" /\ UNCHANGED <<cur, pending, next>>
        BY <1>8 DEF Give, driver, Leave, Idle
    <2>2. Upcoming = fg.i /\ Upcoming' = next
        BY <2>1 DEF Upcoming, At
    <2>3. \A i \in Slots : tsd'[i] = IF i = fg.i THEN "card" ELSE tsd[i]
        BY <1>0, <2>1
    <2>4. tsd[fg.i] = "host" /\ next = (fg.i + 1) % COUNT /\ pending[fg.i]
        BY <2>1 DEF CycleInv, DescriptorsInStep, At
    <2>5. \A i \in Slots : Later(cur, i) \in 0..(COUNT - 1)
                           /\ (Later(cur, i) = 0 <=> i = cur)
        BY <1>0, LaterFacts
    <2>6. Later(cur, next) = IF Later(cur, fg.i) = COUNT - 1 THEN 0
                             ELSE Later(cur, fg.i) + 1
        BY <1>0, <2>4, LaterFacts
    <2>7. \A i \in Slots : Later(cur, i) < Later(cur, fg.i) => tsd[i] = "card"
        BY <2>2 DEF CycleInv, CycleUnbroken
    <2>8. \A i, j \in Slots :
             tsd[j] = "card" /\ Later(cur, i) <= Later(cur, j) => tsd[i] = "card"
        BY DEF CycleInv, CycleUnbroken
    <2>9. \A i \in Slots : Later(cur, i) = Later(cur, fg.i) => i = fg.i
        BY <1>0, SizeFacts DEF Later, Slots, COUNT
    <2>10. \A i \in Slots : tsd'[i] = "card" <=> Later(cur, i) <= Later(cur, fg.i)
        <3>1. ASSUME NEW i \in Slots, tsd'[i] = "card"
              PROVE  Later(cur, i) <= Later(cur, fg.i)
            <4>1. CASE i = fg.i
                BY <4>1, <2>5
            <4>2. CASE i # fg.i
                <5>1. ~(Later(cur, fg.i) <= Later(cur, i))
                    BY <1>0, <2>3, <2>4, <2>8, <3>1, <4>2
                <5>2. QED
                    BY <5>1, <1>0, <2>5
            <4>3. QED
                BY <4>1, <4>2
        <3>2. ASSUME NEW i \in Slots, Later(cur, i) <= Later(cur, fg.i)
              PROVE  tsd'[i] = "card"
            <4>1. CASE Later(cur, i) = Later(cur, fg.i)
                BY <4>1, <2>3, <2>9
            <4>2. CASE Later(cur, i) < Later(cur, fg.i)
                BY <4>2, <2>3, <2>7
            <4>3. QED
                BY <3>2, <4>1, <4>2, <1>0, <2>5
        <3>3. QED
            BY <3>1, <3>2
    <2>11. \A i, j \in Slots :
             tsd'[j] = "card" /\ Later(cur, i) <= Later(cur, j) => tsd'[i] = "card"
        BY <1>0, <2>5, <2>10
    <2>12. \A i \in Slots :
             tsd'[next] = "card" \/ Later(cur, i) < Later(cur, next) => tsd'[i] = "card"
        BY <1>0, <2>5, <2>6, <2>10, SizeFacts
    <2>13. tsd'[next] = "card" => next = cur
        BY <1>0, <2>5, <2>6, <2>10, SizeFacts
    <2>14. DescriptorsInStep'
        BY <2>1, <2>3, <2>4 DEF CycleInv, DescriptorsInStep, At
    <2>15. QED
        BY <2>1, <2>2, <2>11, <2>12, <2>13, <2>14 DEF CycleInv, CycleUnbroken
<1>9. CASE \/ rtl_try_attach_interrupt \/ Unmask \/ Enter \/ Collect \/ Acknowledge
           \/ Stop \/ Restart \/ Look \/ Copy \/ rtl_consume_receive
           \/ rtl_rearm_interrupts \/ Arm
    <2>1. UNCHANGED <<tsd, cur, pending, next>> /\ fg.pc \notin {"fill", "give"}
        BY <1>9 DEF rtl_try_attach_interrupt, Unmask, Enter, Collect, Acknowledge,
           Stop, Restart, Look, Copy, rtl_consume_receive, rtl_rearm_interrupts,
           Arm, card, driver, At
    <2>2. fg'.pc \notin {"fill", "give"}
        <3>1. CASE Leave
            BY <3>1 DEF Leave, Idle
        <3>2. ASSUME NEW pc \in Places \ {"fill", "give"}, Go(pc)
              PROVE  fg'.pc \notin {"fill", "give"}
            BY <1>0, <3>2 DEF Go, Foregrounds
        <3>3. CASE rtl_try_attach_interrupt \/ Unmask \/ Stop \/ Restart \/ Copy \/ Arm
            BY <3>1, <3>2, <3>3 DEF rtl_try_attach_interrupt, Unmask, Stop,
               Restart, Copy, Arm, Places
        <3>4. CASE Enter
            BY <2>1, <3>4 DEF Enter, Idle
        <3>5. CASE Collect \/ Acknowledge \/ rtl_consume_receive
            BY <1>0, <3>5 DEF Collect, Acknowledge, rtl_consume_receive, Foregrounds
        <3>6. CASE Look
            <4>1. \/ \E pc \in {"rearm", "stop"} : Go(pc)
                  \/ \E pc \in {"consume", "copy"}, l \in HeadersAt(off) :
                        fg' = [fg EXCEPT !.length = l, !.pc = pc]
                BY <3>6 DEF Look
            <4>2. QED
                BY <1>0, <4>1 DEF Go, Foregrounds
        <3>7. CASE rtl_rearm_interrupts
            <4>1. Leave \/ \E e : fg' = [fg EXCEPT !.pc = "arm", !.events = e]
                BY <3>7 DEF rtl_rearm_interrupts
            <4>2. QED
                BY <1>0, <3>1, <4>1 DEF Foregrounds
        <3>8. QED
            BY <1>9, <3>3, <3>4, <3>5, <3>6, <3>7
    <2>3. QED
        BY <1>2, <2>1, <2>2
<1>10. CASE Arrive \/ rtl_interrupt_entry \/ UNCHANGED vars
    BY <1>3, <1>10 DEF Arrive, rtl_interrupt_entry, vars, card, driver
<1>11. QED
    BY <1>4, <1>5, <1>6, <1>7, <1>8, <1>9, <1>10 DEF Next

-----------------------------------------------------------------------------
(* The ring.                                                               *)

LEMMA AheadType ==
    ASSUME NEW p \in 0..(SIZE - 1), NEW x \in 0..(SIZE - 1)
    PROVE  Ahead(p, x) \in 0..(SIZE - 1)
BY SizeFacts DEF Ahead

\* Moving the read pointer from p forward over e bytes brings every place at
\* least that far ahead nearer by e.
LEMMA AheadAfterMove ==
    ASSUME NEW p \in 0..(SIZE - 1), NEW x \in 0..(SIZE - 1),
           NEW e \in 0..(SIZE - 1), e <= Ahead(p, x)
    PROVE  Ahead((p + e) % SIZE, x) = Ahead(p, x) - e
<1>1. (p + e) % SIZE = IF p + e < SIZE THEN p + e ELSE p + e - SIZE
    BY WrapOnce
<1>2. QED
    BY <1>1, SizeFacts DEF Ahead

\* Moving the write pointer over a frame that fits.
LEMMA AheadAfterWrite ==
    ASSUME NEW p \in 0..(SIZE - 1), NEW x \in 0..(SIZE - 1),
           NEW e \in 0..(SIZE - 1), Ahead(p, x) + e < SIZE
    PROVE  Ahead(p, (x + e) % SIZE) = Ahead(p, x) + e
<1>1. (x + e) % SIZE = IF x + e < SIZE THEN x + e ELSE x + e - SIZE
    BY WrapOnce
<1>2. QED
    BY <1>1, SizeFacts DEF Ahead

\* What the type says of each frame in the ring.
LEMMA FrameFacts ==
    ASSUME TypeInv
    PROVE  /\ rx.frames \in Seq(Frames) /\ Len(rx.frames) \in Nat
           /\ DOMAIN rx.frames = 1..Len(rx.frames)
           /\ rx.ptr \in 0..(SIZE - 1) /\ rx.end \in 0..(SIZE - 1)
           /\ \A n \in DOMAIN rx.frames :
                 /\ rx.frames[n].at \in 0..(SIZE - 1)
                 /\ rx.frames[n].length \in Lengths
                 /\ Extent(rx.frames[n].length) \in 8..(SIZE - 4)
<1>1. /\ rx.frames \in Seq(Frames)
      /\ rx.ptr \in 0..(SIZE - 1) /\ rx.end \in 0..(SIZE - 1)
    BY DEF TypeInv, CardType
<1>2. \A n \in DOMAIN rx.frames : rx.frames[n] \in Frames
    BY <1>1
<1>3. \A f \in Frames : f.at \in 0..(SIZE - 1) /\ f.length \in Lengths
    BY DEF Frames
<1>4. QED
    BY <1>1, <1>2, <1>3, ExtentFacts

LEMMA ArriveKeepsRow == TypeInv /\ RingInv /\ Arrive => FramesInRow'
<1> SUFFICES ASSUME TypeInv, RingInv, NEW l \in Lengths,
                    ~(Used > 0 /\ Extent(l) >= RTL_RX_RING_SIZE - Used),
                    rx' = [rx EXCEPT
                        !.frames = Append(@, [at |-> rx.end, length |-> l]),
                        !.end = (@ + Extent(l)) % RTL_RX_RING_SIZE]
             PROVE  FramesInRow'
    <2>1. CASE UNCHANGED rx
        BY <2>1 DEF RingInv, FramesInRow, BufferEmpty, After
    <2>2. QED
        BY <2>1 DEF Arrive
<1> DEFINE F == rx.frames
           N == Len(rx.frames)
           new == [at |-> rx.end, length |-> l]
<1>1. rx'.frames = Append(F, new) /\ rx'.ptr = rx.ptr
      /\ rx'.end = (rx.end + Extent(l)) % SIZE
    BY DEF TypeInv, CardType, SIZE
<1>2. /\ F \in Seq(Frames) /\ N \in Nat /\ DOMAIN F = 1..N
      /\ rx.ptr \in 0..(SIZE - 1) /\ rx.end \in 0..(SIZE - 1)
    BY FrameFacts
<1>3. new \in Frames /\ new.at = rx.end /\ new.length = l
    BY <1>2 DEF Frames
<1> HIDE DEF new
<1>4. /\ DOMAIN rx'.frames = 1..(N + 1) /\ Len(rx'.frames) = N + 1
      /\ rx'.frames[N + 1] = new
      /\ \A n \in 1..N : rx'.frames[n] = F[n]
    BY <1>1, <1>2, <1>3
<1>5. Ahead(rx.ptr, rx'.end) = Ahead(rx.ptr, rx.end) + Extent(l)
    <2> DEFINE e == Extent(l)
    <2>1. Ahead(rx.ptr, rx.end) + e < SIZE
        BY ArriveFits
    <2>2. e \in 0..(SIZE - 1)
        BY ExtentFacts, SizeFacts
    <2> HIDE DEF e
    <2>3. Ahead(rx.ptr, (rx.end + e) % SIZE) = Ahead(rx.ptr, rx.end) + e
        BY <1>2, <2>1, <2>2, AheadAfterWrite, Zenon
    <2>4. QED
        BY <1>1, <2>3 DEF e
<1>6. Extent(l) \in 8..(SIZE - 4)
    BY ExtentFacts
<1>7. Ahead(rx.ptr, rx.end) \in 0..(SIZE - 1)
      /\ \A n \in 1..N : /\ Ahead(rx.ptr, F[n].at) \in 0..(SIZE - 1)
                         /\ Extent(F[n].length) \in 8..(SIZE - 4)
    BY <1>2, FrameFacts, AheadType
<1>8. /\ \A n \in 1..N : After(n)' = After(n)
      /\ After(Len(rx.frames))' = rx'.end
    <2>1. ASSUME NEW n \in 1..N PROVE After(n)' = After(n)
        BY <1>4 DEF After
    <2>2. After(Len(rx.frames))' = rx'.end
        BY <1>1, <1>3, <1>4 DEF After, SIZE
    <2>3. QED
        BY <2>1, <2>2
<1>9. rx'.frames # <<>> /\ N + 1 \in Nat
    BY <1>2, <1>4
<1>10. rx'.frames[1].at = rx'.ptr
    <2>1. CASE N = 0
        BY <1>1, <1>2, <1>3, <1>4, <2>1 DEF RingInv, FramesInRow, BufferEmpty
    <2>2. CASE N # 0
        BY <1>1, <1>2, <1>4, <2>2 DEF RingInv, FramesInRow, BufferEmpty
    <2>3. QED
        BY <2>1, <2>2
<1>11. ASSUME NEW n \in 1..(N + 1), n + 1 \in 1..(N + 1)
       PROVE  rx'.frames[n + 1].at = After(n)'
    <2>1. CASE n = N
        BY <1>2, <1>3, <1>4, <1>8, <2>1, <1>11 DEF RingInv, FramesInRow, BufferEmpty
    <2>2. CASE n # N
        BY <1>2, <1>4, <1>8, <2>2, <1>11 DEF RingInv, FramesInRow, BufferEmpty
    <2>3. QED
        BY <2>1, <2>2
<1>12. ASSUME NEW n \in 1..(N + 1)
       PROVE  Ahead(rx.ptr, rx'.frames[n].at) + Extent(rx'.frames[n].length)
                 <= Ahead(rx.ptr, rx'.end)
    <2>1. CASE n = N + 1
        BY <1>3, <1>4, <1>5, <1>6, <1>7, <2>1, SizeFacts
    <2>2. CASE n # N + 1
        <3>1. n \in 1..N
            BY <1>2, <2>2
        <3>2. Ahead(rx.ptr, F[n].at) + Extent(F[n].length) <= Ahead(rx.ptr, rx.end)
            BY <1>2, <3>1 DEF RingInv, FramesInRow
        <3>3. QED
            BY <1>4, <1>5, <1>6, <1>7, <3>1, <3>2, SizeFacts, SMTT(30)
    <2>3. QED
        BY <2>1, <2>2
<1>13. ASSUME NEW n \in 1..(N + 1), NEW m \in 1..(N + 1), m < n
       PROVE  Ahead(rx.ptr, rx'.frames[m].at) + Extent(rx'.frames[m].length)
                 <= Ahead(rx.ptr, rx'.frames[n].at)
    <2>1. CASE n = N + 1
        BY <1>2, <1>3, <1>4, <2>1, <1>13 DEF RingInv, FramesInRow
    <2>2. CASE n # N + 1
        BY <1>2, <1>4, <2>2, <1>13 DEF RingInv, FramesInRow
    <2>3. QED
        BY <2>1, <2>2
<1>14. ~BufferEmpty' /\ After(Len(rx.frames))' = rx'.end
    BY <1>4, <1>8, <1>9 DEF BufferEmpty
<1>15. \A n \in DOMAIN rx'.frames :
          n + 1 \in DOMAIN rx'.frames => rx'.frames[n + 1].at = After(n)'
    BY <1>4, <1>11
<1>16. \A n \in DOMAIN rx'.frames :
          /\ Ahead(rx'.ptr, rx'.frames[n].at) + Extent(rx'.frames[n].length)
                <= Ahead(rx'.ptr, rx'.end)
          /\ \A m \in DOMAIN rx'.frames : m < n =>
                Ahead(rx'.ptr, rx'.frames[m].at) + Extent(rx'.frames[m].length)
                   <= Ahead(rx'.ptr, rx'.frames[n].at)
    BY <1>1, <1>4, <1>12, <1>13
<1>17. QED
    BY <1>10, <1>14, <1>15, <1>16, Zenon DEF FramesInRow

LEMMA ConsumeKeepsRow ==
    TypeInv /\ RingInv /\ rtl_consume_receive => FramesInRow'
<1> SUFFICES ASSUME TypeInv, RingInv, rtl_consume_receive PROVE FramesInRow'
    OBVIOUS
<1> DEFINE F == rx.frames
           N == Len(rx.frames)
           e == Extent(rx.frames[1].length)
<1>1. /\ F # <<>> /\ rx' = [rx EXCEPT !.ptr = After(1), !.frames = Tail(@)]
    BY ConsumeTakesTheFirst
<1>2. rx'.frames = Tail(F) /\ rx'.ptr = After(1) /\ rx'.end = rx.end
    BY <1>1 DEF TypeInv, CardType
<1>3. /\ F \in Seq(Frames) /\ N \in Nat /\ N >= 1 /\ DOMAIN F = 1..N
      /\ rx.ptr \in 0..(SIZE - 1) /\ rx.end \in 0..(SIZE - 1)
      /\ \A n \in 1..N : /\ F[n].at \in 0..(SIZE - 1)
                         /\ Extent(F[n].length) \in 8..(SIZE - 4)
    BY <1>1, FrameFacts
<1>4. /\ DOMAIN rx'.frames = 1..(N - 1) /\ Len(rx'.frames) = N - 1
      /\ \A n \in 1..(N - 1) : rx'.frames[n] = F[n + 1]
    BY <1>1, <1>2, <1>3
<1>5. /\ F[1].at = rx.ptr /\ After(N) = rx.end
      /\ \A n \in 1..N :
            /\ n + 1 \in 1..N => F[n + 1].at = After(n)
            /\ Ahead(rx.ptr, F[n].at) + Extent(F[n].length) <= Ahead(rx.ptr, rx.end)
            /\ \A m \in 1..N : m < n =>
                  Ahead(rx.ptr, F[m].at) + Extent(F[m].length) <= Ahead(rx.ptr, F[n].at)
    BY <1>1, <1>3 DEF RingInv, FramesInRow, BufferEmpty
<1>6. After(1) = (rx.ptr + e) % SIZE
    BY <1>5 DEF After, SIZE
<1>7. e \in 0..(SIZE - 1) /\ Ahead(rx.ptr, F[1].at) = 0
    BY <1>3, <1>5, SizeFacts DEF Ahead
<1>8. \A n \in 2..N : /\ e <= Ahead(rx.ptr, F[n].at)
                      /\ Ahead(rx'.ptr, F[n].at) = Ahead(rx.ptr, F[n].at) - e
    <2> TAKE n \in 2..N
    <2>1. Ahead(rx.ptr, F[1].at) + e <= Ahead(rx.ptr, F[n].at)
        BY <1>3, <1>5
    <2>2. e <= Ahead(rx.ptr, F[n].at)
        BY <1>7, <2>1
    <2>3. F[n].at \in 0..(SIZE - 1)
        BY <1>3
    <2>4. QED
        BY <1>2, <1>3, <1>6, <1>7, <2>2, <2>3, AheadAfterMove, SMTT(30)
<1>9. Ahead(rx'.ptr, rx.end) = Ahead(rx.ptr, rx.end) - e
    <2>1. Ahead(rx.ptr, F[1].at) + e <= Ahead(rx.ptr, rx.end)
        BY <1>3, <1>5
    <2>2. e <= Ahead(rx.ptr, rx.end)
        BY <1>7, <2>1
    <2>3. QED
        BY <1>2, <1>3, <1>6, <1>7, <2>2, AheadAfterMove
<1>10. \A n \in 1..(N - 1) : After(n)' = After(n + 1)
    BY <1>4 DEF After
<1>11. Ahead(rx.ptr, rx.end) \in Int
       /\ \A n \in 1..N : Ahead(rx.ptr, F[n].at) \in Int
    <2>1. \A p, x \in 0..(SIZE - 1) : Ahead(p, x) \in Int
        BY AheadType, SizeFacts
    <2>2. QED
        BY <1>3, <2>1
<1> HIDE DEF e, F
<1>12. rx'.frames = <<>> => rx'.end = rx'.ptr
    <2>1. CASE N = 1
        BY <1>2, <1>5, <2>1
    <2>2. CASE N # 1
        BY <1>3, <1>4, <2>2
    <2>3. QED
        BY <2>1, <2>2
<1>13. rx'.frames # <<>> => rx'.frames[1].at = rx'.ptr /\ After(Len(rx.frames))' = rx'.end
    <2> SUFFICES ASSUME rx'.frames # <<>>
                 PROVE  rx'.frames[1].at = rx'.ptr /\ After(Len(rx.frames))' = rx'.end
        OBVIOUS
    <2>1. N >= 2
        <3>1. rx'.frames \in Seq(Frames)
            BY <1>1, <1>2, <1>3 DEF F
        <3>2. QED
            BY <1>3, <1>4, <3>1
    <2>2. rx'.frames[1].at = rx'.ptr
        BY <1>2, <1>3, <1>4, <1>5, <2>1
    <2>3. rx'.frames[N - 1] = F[N]
        <3>1. N - 1 \in 1..(N - 1) /\ (N - 1) + 1 = N
            BY <1>3, <2>1
        <3>2. QED
            BY <1>4, <3>1
    <2>4. After(Len(rx.frames))' = After(N)
        BY <1>4, <2>3 DEF After, F
    <2>5. QED
        BY <1>2, <1>5, <2>2, <2>4
<1>14. ASSUME NEW n \in 1..(N - 1), n + 1 \in 1..(N - 1)
       PROVE  rx'.frames[n + 1].at = After(n)'
    <2>1. n + 1 \in 1..N /\ (n + 1) + 1 \in 1..N
        BY <1>3, <1>14
    <2>2. F[(n + 1) + 1].at = After(n + 1)
        BY <1>5, <2>1
    <2>3. rx'.frames[n + 1] = F[(n + 1) + 1]
        BY <1>4, <1>14
    <2>4. QED
        BY <1>10, <2>2, <2>3
<1>15. ASSUME NEW n \in 1..(N - 1)
       PROVE  Ahead(rx'.ptr, rx'.frames[n].at) + Extent(rx'.frames[n].length)
                 <= Ahead(rx'.ptr, rx'.end)
    <2>1. n + 1 \in 2..N /\ n + 1 \in 1..N
        BY <1>3
    <2>2. Ahead(rx.ptr, F[n + 1].at) + Extent(F[n + 1].length) <= Ahead(rx.ptr, rx.end)
        BY <1>5, <2>1
    <2>3. Ahead(rx'.ptr, F[n + 1].at) = Ahead(rx.ptr, F[n + 1].at) - e
        BY <1>8, <2>1
    <2>4. Extent(F[n + 1].length) \in Int /\ e \in Int /\ Ahead(rx.ptr, F[n + 1].at) \in Int
        BY <1>3, <1>7, <1>11, <2>1, SMTT(30)
    <2>5. QED
        BY <1>2, <1>4, <1>9, <1>11, <2>2, <2>3, <2>4
<1>16. ASSUME NEW n \in 1..(N - 1), NEW m \in 1..(N - 1), m < n
       PROVE  Ahead(rx'.ptr, rx'.frames[m].at) + Extent(rx'.frames[m].length)
                 <= Ahead(rx'.ptr, rx'.frames[n].at)
    <2>1. /\ n + 1 \in 2..N /\ n + 1 \in 1..N /\ m + 1 \in 2..N /\ m + 1 \in 1..N
          /\ m + 1 < n + 1
        BY <1>3, <1>16
    <2>2. Ahead(rx.ptr, F[m + 1].at) + Extent(F[m + 1].length) <= Ahead(rx.ptr, F[n + 1].at)
        BY <1>5, <2>1
    <2>3. /\ Ahead(rx'.ptr, F[n + 1].at) = Ahead(rx.ptr, F[n + 1].at) - e
          /\ Ahead(rx'.ptr, F[m + 1].at) = Ahead(rx.ptr, F[m + 1].at) - e
        BY <1>8, <2>1
    <2>4. /\ Extent(F[m + 1].length) \in Int /\ e \in Int
          /\ Ahead(rx.ptr, F[n + 1].at) \in Int /\ Ahead(rx.ptr, F[m + 1].at) \in Int
        BY <1>3, <1>7, <1>11, <2>1
    <2>5. rx'.frames[m] = F[m + 1] /\ rx'.frames[n] = F[n + 1]
        BY <1>4
    <2>6. QED
        BY <2>2, <2>3, <2>4, <2>5
<1>17. \A n \in DOMAIN rx'.frames :
          n + 1 \in DOMAIN rx'.frames => rx'.frames[n + 1].at = After(n)'
    BY <1>4, <1>14
<1>18. \A n \in DOMAIN rx'.frames :
          /\ Ahead(rx'.ptr, rx'.frames[n].at) + Extent(rx'.frames[n].length)
                <= Ahead(rx'.ptr, rx'.end)
          /\ \A m \in DOMAIN rx'.frames : m < n =>
                Ahead(rx'.ptr, rx'.frames[m].at) + Extent(rx'.frames[m].length)
                   <= Ahead(rx'.ptr, rx'.frames[n].at)
    BY <1>4, <1>15, <1>16
<1>19. QED
    BY <1>12, <1>13, <1>17, <1>18, Zenon DEF FramesInRow, BufferEmpty

LEMMA RingStep == TypeInv /\ RingInv /\ [Next]_vars => RingInv'
<1> SUFFICES ASSUME TypeInv, RingInv, [Next]_vars PROVE RingInv'
    OBVIOUS
<1>0. fg \in Foregrounds /\ off = rx.ptr /\ off % 4 = 0
    BY DEF TypeInv, ForegroundType, RingInv, OffsetInStep
<1>1. CASE UNCHANGED <<rx, off>> /\ (fg'.pc \notin {"copy", "consume"} \/ UNCHANGED fg)
    BY <1>1 DEF RingInv, FramesInRow, OffsetInStep, BufferEmpty, After
<1>2. CASE Arrive
    <2>1. FramesInRow'
        BY <1>2, ArriveKeepsRow
    <2>2. /\ rx'.ptr = rx.ptr /\ UNCHANGED <<off, fg>>
          /\ ~BufferEmpty => ~BufferEmpty' /\ rx'.frames[1] = rx.frames[1]
        <3>1. PICK l \in Lengths :
                 IF Used > 0 /\ Extent(l) >= RTL_RX_RING_SIZE - Used
                 THEN isr' = isr \cup {"RX_OVERFLOW"} /\ UNCHANGED rx
                 ELSE /\ isr' = isr \cup {"RX_OK"}
                      /\ rx' = [rx EXCEPT
                            !.frames = Append(@, [at |-> rx.end, length |-> l]),
                            !.end = (@ + Extent(l)) % RTL_RX_RING_SIZE]
            BY <1>2 DEF Arrive
        <3>2. CASE UNCHANGED rx
            BY <1>2, <3>2 DEF Arrive, driver, BufferEmpty
        <3>3. CASE rx' = [rx EXCEPT
                            !.frames = Append(@, [at |-> rx.end, length |-> l]),
                            !.end = (@ + Extent(l)) % RTL_RX_RING_SIZE]
            <4>1. rx'.ptr = rx.ptr /\ rx'.frames = Append(rx.frames, [at |-> rx.end, length |-> l])
                BY <3>3 DEF TypeInv, CardType
            <4>2. [at |-> rx.end, length |-> l] \in Frames /\ rx.frames \in Seq(Frames)
                BY DEF TypeInv, CardType, Frames
            <4>3. QED
                BY <1>2, <4>1, <4>2 DEF Arrive, driver, BufferEmpty
        <3>4. QED
            BY <3>1, <3>2, <3>3
    <2>3. QED
        BY <2>1, <2>2 DEF RingInv, OffsetInStep
<1>3. CASE rtl_consume_receive
    <2>1. FramesInRow'
        BY <1>3, ConsumeKeepsRow
    <2>2. off' = After(1) /\ off' % 4 = 0 /\ rx'.ptr = After(1)
        BY <1>3, ConsumeTakesTheFirst DEF TypeInv, CardType
    <2>3. fg'.pc = "rearm"
        BY <1>0, <1>3 DEF rtl_consume_receive, Foregrounds
    <2>4. QED
        BY <2>1, <2>2, <2>3 DEF RingInv, OffsetInStep
<1>4. CASE Look
    <2>1. UNCHANGED <<rx, off>>
        BY <1>4 DEF Look, card, driver
    <2>2. CASE \E pc \in {"rearm", "stop"} : Go(pc)
        <3>1. fg'.pc \notin {"copy", "consume"}
            BY <1>0, <2>2 DEF Go, Foregrounds
        <3>2. QED
            BY <1>1, <2>1, <3>1
    <2>3. CASE ~BufferEmpty /\ \E l \in HeadersAt(off), pc \in {"consume", "copy"} :
                                  fg' = [fg EXCEPT !.length = l, !.pc = pc]
        <3>1. PICK l \in HeadersAt(off), pc \in {"consume", "copy"} :
                 fg' = [fg EXCEPT !.length = l, !.pc = pc]
            BY <2>3
        <3>2. fg'.length = l
            BY <1>0, <3>1 DEF Foregrounds
        <3> DEFINE here == {n \in DOMAIN rx.frames : rx.frames[n].at = off}
        <3>3. 1 \in DOMAIN rx.frames /\ rx.frames[1].at = off
            BY <1>0, <2>3, FrameFacts DEF RingInv, FramesInRow, BufferEmpty
        <3>4. \A n \in here : n = 1
            <4> SUFFICES ASSUME NEW n \in DOMAIN rx.frames, n # 1
                         PROVE  rx.frames[n].at # rx.ptr
                BY <1>0
            <4>1. 1 < n
                BY FrameFacts
            <4>2. Ahead(rx.ptr, rx.frames[1].at) + Extent(rx.frames[1].length)
                     <= Ahead(rx.ptr, rx.frames[n].at)
                BY <3>3, <4>1 DEF RingInv, FramesInRow
            <4>3. /\ rx.ptr \in 0..(SIZE - 1)
                  /\ Extent(rx.frames[1].length) \in 8..(SIZE - 4)
                BY <3>3, FrameFacts
            <4>4. \A x : x = rx.ptr => Ahead(rx.ptr, x) = 0
                BY <4>3, SizeFacts DEF Ahead
            <4>5. QED
                BY <1>0, <3>3, <4>2, <4>3, <4>4, SizeFacts
        <3>5. here # {} /\ {rx.frames[n].length : n \in here} = {rx.frames[1].length}
            BY <3>3, <3>4
        <3>6. l = rx.frames[1].length
            BY <3>1, <3>5 DEF HeadersAt
        <3>7. QED
            BY <1>0, <2>1, <2>3, <3>2, <3>6
               DEF RingInv, FramesInRow, OffsetInStep, BufferEmpty, After
    <2>4. QED
        BY <1>4, <2>2, <2>3 DEF Look
<1>5. CASE Copy
    <2>1. UNCHANGED <<rx, off>> /\ fg'.length = fg.length /\ fg.pc = "copy"
        BY <1>0, <1>5 DEF Copy, card, driver, Go, At, Foregrounds
    <2>2. QED
        BY <2>1 DEF RingInv, FramesInRow, OffsetInStep, BufferEmpty, After
<1>6. CASE Stop
    <2>1. /\ rx'.ptr = rx.ptr /\ rx'.frames = rx.frames /\ rx'.end = rx.end
          /\ UNCHANGED off
        BY <1>6 DEF Stop, TypeInv, CardType
    <2>2. fg'.pc \notin {"copy", "consume"}
        BY <1>0, <1>6 DEF Stop, Go, Leave, Idle, Foregrounds
    <2>3. QED
        BY <2>1, <2>2 DEF RingInv, FramesInRow, OffsetInStep, BufferEmpty, After
<1>7. CASE Restart
    <2>1. fg'.pc \notin {"copy", "consume"}
        BY <1>0, <1>7 DEF Restart, Go, Leave, Idle, Foregrounds
    <2>2. CASE rx' = EmptyRing /\ off' = 0
        BY <2>1, <2>2 DEF EmptyRing, RingInv, FramesInRow, OffsetInStep, BufferEmpty
    <2>3. CASE UNCHANGED <<rx, off>>
        BY <1>1, <2>1, <2>3
    <2>4. QED
        BY <1>7, <2>2, <2>3 DEF Restart
<1>8. CASE \/ rtl_try_attach_interrupt \/ Unmask \/ Fill \/ Give \/ Arm \/ Check
           \/ Enter \/ Collect \/ Acknowledge \/ rtl_reap_transmits
           \/ rtl_rearm_interrupts
    <2>1. UNCHANGED <<rx, off>>
        BY <1>8 DEF rtl_try_attach_interrupt, Unmask, Fill, Give, Arm, Check, Enter,
           Collect, Acknowledge, rtl_reap_transmits, rtl_rearm_interrupts, card, driver
    <2>2. fg'.pc \notin {"copy", "consume"} \/ UNCHANGED fg
        <3>1. CASE Leave
            BY <3>1 DEF Leave, Idle
        <3>2. ASSUME NEW pc \in {"unmask", "give"}, Go(pc)
              PROVE  fg'.pc \notin {"copy", "consume"}
            BY <1>0, <3>2 DEF Go, Foregrounds
        <3>3. CASE rtl_try_attach_interrupt \/ Unmask \/ Fill \/ Give \/ Arm
            BY <3>1, <3>2, <3>3 DEF rtl_try_attach_interrupt, Unmask, Fill, Give, Arm
        <3>4. CASE Check
            <4>1. Leave \/ fg' = [fg EXCEPT !.i = next, !.pc = "fill"]
                BY <3>4 DEF Check
            <4>2. CASE fg' = [fg EXCEPT !.i = next, !.pc = "fill"]
                BY <1>0, <4>2 DEF Foregrounds
            <4>3. QED
                BY <3>1, <4>1, <4>2
        <3>5. CASE Enter
            BY <3>5 DEF Enter, Idle
        <3>6. CASE Collect \/ Acknowledge \/ rtl_reap_transmits
            BY <1>0, <3>6 DEF Collect, Acknowledge, rtl_reap_transmits, Foregrounds, At
        <3>7. CASE rtl_rearm_interrupts
            <4>1. Leave \/ \E e : fg' = [fg EXCEPT !.pc = "arm", !.events = e]
                BY <3>7 DEF rtl_rearm_interrupts
            <4>2. QED
                BY <1>0, <3>1, <4>1 DEF Foregrounds
        <3>8. QED
            BY <1>8, <3>3, <3>4, <3>5, <3>6, <3>7
    <2>3. QED
        BY <1>1, <2>1, <2>2
<1>9. CASE Transmitted \/ rtl_interrupt_entry \/ UNCHANGED vars
    BY <1>1, <1>9 DEF Transmitted, rtl_interrupt_entry, vars, card, driver
<1>10. QED
    BY <1>2, <1>3, <1>4, <1>5, <1>6, <1>7, <1>8, <1>9 DEF Next

-----------------------------------------------------------------------------
(* The theorems.                                                           *)

LEMMA InvHolds == Spec => []IInv
<1>1. IInv /\ [Next]_vars => IInv'
    BY ForegroundStep, CardStep, DriverStep, WakeStep, CycleStep, RingStep
       DEF IInv, TypeInv, WakeInv
<1>2. QED
    BY InitHolds, <1>1, PTL DEF Spec

(* Between two calls of an interrupt-mode driver no wakeup is lost, in      *)
(* whatever order the card, the interrupt handler and the foreground of    *)
(* rtl8139.c take their steps.                                             *)
THEOREM NoWakeupIsLost == Spec => []ArmedMeansWoken
<1>1. IInv => ArmedMeansWoken
    BY DEF IInv, WakeInv, NothingTaken, Wakeful, ArmedMeansWoken, At
<1>2. QED
    BY <1>1, InvHolds, PTL

(* rtl8139.c and the card keep in step on the receive ring and on the      *)
(* transmit descriptors, for every ring size, number of descriptors and    *)
(* set of frame lengths.                                                   *)
THEOREM DriverAndCardAgree == Spec => []DmaIsInStep
<1>1. IInv => DmaIsInStep
    <2> SUFFICES ASSUME IInv PROVE DmaIsInStep
        OBVIOUS
    <2>1. /\ fg.pc \in {"copy", "consume"} =>
               ~BufferEmpty /\ off = rx.ptr /\ fg.length = rx.frames[1].length
          /\ At("idle") => off = rx.ptr
        BY DEF IInv, RingInv, OffsetInStep
    <2>2. At("fill") => tsd[fg.i] = "host"
        BY DEF IInv, CycleInv, DescriptorsInStep, At
    <2>3. ASSUME NEW i \in Slots, tsd[i] = "card"
          PROVE  pending[i] /\ tsd[cur] = "card"
        <3>1. cur \in Slots
            BY DEF IInv, TypeInv, CardType
        <3>2. Later(cur, cur) = 0 /\ Later(cur, i) \in 0..(COUNT - 1)
            BY <3>1, LaterFacts
        <3>3. Later(cur, cur) <= Later(cur, i)
            BY <3>2, SizeFacts
        <3>4. QED
            BY <2>3, <3>1, <3>3 DEF IInv, CycleInv, CycleUnbroken, DescriptorsInStep
    <2>4. QED
        BY <2>1, <2>2, <2>3 DEF DmaIsInStep
<1>2. QED
    BY <1>1, InvHolds, PTL
=============================================================================
