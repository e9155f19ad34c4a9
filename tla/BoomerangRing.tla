---------------------------- MODULE BoomerangRing ----------------------------
(***************************************************************************)
(* The descriptor rings of the Boomerang, Cyclone and Tornado cards:       *)
(* boomerang_start_xmit, boomerang_rx and boomerang_interrupt of           *)
(* src/c/3cboom.c.  The driver counts with free-running 16-bit indices     *)
(* and takes them modulo the ring size; the card follows the links from    *)
(* one descriptor to the next.                                             *)
(*                                                                         *)
(* The handler is not interrupted, but the card works on while it runs, so *)
(* it is one step per descriptor, and its acknowledgement, which clears a  *)
(* status bit the card may just have set again, is a step of its own.  A   *)
(* send is three steps: fill the descriptor, advance, look at the card.    *)
(*                                                                         *)
(* Of the card the code relies on this: it sends the descriptors in the    *)
(* order of their links and marks each complete, stores frames likewise    *)
(* until it meets a descriptor not yet reset, and then stalls; a reset     *)
(* makes it forget both list pointers, which is why boomerang_init_dma     *)
(* writes them after one.                                                  *)
(***************************************************************************)
EXTENDS Naturals, Sequences

CONSTANTS
    TxRing,      \* TX_RING_SIZE, 16
    RxRing,      \* RX_RING_SIZE, 32
    Counter,     \* number of values of the uint16_t indices, 65536
    MaxSends,    \* bound: frames sent
    MaxArrivals  \* bound: frames that reach the card

\* "Must be power of 2" (include/3com_pci.h): what matters is that the ring
\* size divides the range of the index.
ASSUME RingAssumption ==
    /\ TxRing \in Nat \ {0} /\ RxRing \in Nat \ {0}
    /\ Counter \in Nat /\ Counter > TxRing /\ Counter > RxRing
    /\ Counter % TxRing = 0 /\ Counter % RxRing = 0
    /\ MaxSends \in Nat /\ MaxArrivals \in Nat

TxSlots == 0 .. TxRing - 1
RxSlots == 0 .. RxRing - 1
NoDn == TxRing      \* a list pointer of 0: no slot
NoUp == RxRing
Frames == 0 .. MaxSends

VARIABLES
    tx,          \* per TX descriptor: "free", "filled", "complete"
    tx_frame,    \* per TX descriptor: the frame its address points to
    cur_tx, dirty_tx,
    rx,          \* per RX descriptor: "free", "good", "bad" (UP_ERROR or a length out of range)
    rx_frame,    \* per RX descriptor: the frame stored there
    cur_rx,
    send,        \* where boomerang_start_xmit is: "none", "filled", "kick"
    isr,         \* where boomerang_interrupt is
    seen,        \* the status it read
    count,       \* packets_received
    \* the card
    status,      \* BOOM_STATUS
    dn, up,      \* BOOM_DN_LIST_PTR, BOOM_UP_LIST_PTR: a slot, NoDn or NoUp for 0
    up_stalled,  \* BOOM_DMA_UP_STALLED
    \* history
    sent, arrived,   \* frames given to start_xmit; frames the card stored
    wire, received,  \* frames on the wire; frames passed to the upper layer
    host_errors      \* host errors so far

txVars == <<tx, tx_frame, cur_tx, dirty_tx, send, sent>>
rxVars == <<rx, rx_frame, cur_rx, count, received>>
isrVars == <<isr, seen>>
cardVars == <<status, dn, up, up_stalled>>
ringVars == <<txVars, rxVars, isrVars, cardVars, arrived, wire, host_errors>>

Bits == {"tx", "rx", "host"}

\* boomerang_init_dma has run.
RingInit ==
    /\ tx = [s \in TxSlots |-> "free"] /\ tx_frame = [s \in TxSlots |-> 0]
    /\ cur_tx = 0 /\ dirty_tx = 0
    /\ rx = [s \in RxSlots |-> "free"] /\ rx_frame = [s \in RxSlots |-> 0]
    /\ cur_rx = 0
    /\ send = "none" /\ isr = "none" /\ seen = {} /\ count = 0
    /\ status = {} /\ dn = 0 /\ up = 0 /\ up_stalled = FALSE
    /\ sent = 0 /\ arrived = 0 /\ wire = <<>> /\ received = <<>>
    /\ host_errors = 0

-----------------------------------------------------------------------------
(* boomerang_start_xmit.                                                   *)

InFlight == (cur_tx + Counter - dirty_tx) % Counter

\* Mutant of the next definition: one too many.
FullTooLate == InFlight > TxRing

Full == InFlight >= TxRing

Entry == cur_tx % TxRing

Foreground == isr = "none"

\* The descriptor is filled; its status loses the completion bit.
boomerang_start_xmit ==
    /\ Foreground /\ send = "none"
    /\ ~Full /\ tx[Entry] # "complete"
    /\ sent < MaxSends
    /\ sent' = sent + 1
    /\ tx' = [tx EXCEPT ![Entry] = "filled"]
    /\ tx_frame' = [tx_frame EXCEPT ![Entry] = sent + 1]
    /\ send' = "filled"
    /\ UNCHANGED <<cur_tx, dirty_tx, rxVars, isrVars, cardVars, arrived, wire, host_errors>>

\* The send returns an error: bad parameters, a length out of range, "TX ring
\* full" or "TX descriptor not ready".
xmit_refused ==
    /\ Foreground /\ send = "none"
    /\ UNCHANGED ringVars

xmit_advance ==
    /\ Foreground /\ send = "filled"
    /\ cur_tx' = (cur_tx + 1) % Counter
    /\ send' = "kick"
    /\ UNCHANGED <<tx, tx_frame, dirty_tx, sent, rxVars, isrVars, cardVars, arrived, wire, host_errors>>

\* Mutant of the next definition: the pointer is written whatever it is.
KickAlways ==
    /\ Foreground /\ send = "kick"
    /\ dn' = (cur_tx + Counter - 1) % TxRing
    /\ send' = "none"
    /\ UNCHANGED <<tx, tx_frame, cur_tx, dirty_tx, sent, rxVars, isrVars, status, up, up_stalled,
                   arrived, wire, host_errors>>

\* A card without a list is given this descriptor.  (A card only stalls its
\* downloads when told to, which this driver never does: there is nothing for
\* the download to be unstalled from.)
xmit_kick ==
    /\ Foreground /\ send = "kick"
    /\ dn' = IF dn = NoDn THEN (cur_tx + Counter - 1) % TxRing ELSE dn
    /\ send' = "none"
    /\ UNCHANGED <<tx, tx_frame, cur_tx, dirty_tx, sent, rxVars, isrVars, status, up, up_stalled,
                   arrived, wire, host_errors>>

-----------------------------------------------------------------------------
(* The card.                                                               *)

card_download ==
    /\ dn # NoDn /\ tx[dn] = "filled"
    /\ tx' = [tx EXCEPT ![dn] = "complete"]
    /\ wire' = Append(wire, tx_frame[dn])
    /\ dn' = (dn + 1) % TxRing
    /\ status' = status \cup {"tx"}
    /\ UNCHANGED <<tx_frame, cur_tx, dirty_tx, send, sent, rxVars, isrVars, up, up_stalled,
                   arrived, host_errors>>

\* A frame arrives: it is stored, or the card stalls and loses it.
card_upload(quality) ==
    /\ up # NoUp /\ ~up_stalled /\ arrived < MaxArrivals
    /\ rx[up] = "free"
    /\ arrived' = arrived + 1
    /\ rx' = [rx EXCEPT ![up] = quality]
    /\ rx_frame' = [rx_frame EXCEPT ![up] = arrived + 1]
    /\ up' = (up + 1) % RxRing
    /\ status' = status \cup {"rx"}
    /\ UNCHANGED <<txVars, cur_rx, count, received, isrVars, dn, up_stalled, wire, host_errors>>

card_stall ==
    /\ up # NoUp /\ ~up_stalled
    /\ rx[up] # "free"
    /\ up_stalled' = TRUE
    /\ UNCHANGED <<txVars, rxVars, isrVars, status, dn, up, arrived, wire, host_errors>>

card_host_error ==
    /\ host_errors = 0
    /\ host_errors' = 1
    /\ status' = status \cup {"host"}
    /\ UNCHANGED <<txVars, rxVars, isrVars, dn, up, up_stalled, arrived, wire>>

-----------------------------------------------------------------------------
(* boomerang_interrupt.                                                    *)

\* The part of the handler that comes next, by the status it read.
After(at, bits) ==
    IF at = "begin" /\ "tx" \in bits THEN "tx"
    ELSE IF at \in {"begin", "tx"} /\ "rx" \in bits THEN "rx"
    ELSE IF "host" \in bits THEN "host"
    ELSE "none"

boomerang_interrupt ==
    /\ isr = "none" /\ status # {}
    /\ seen' = status
    /\ isr' = After("begin", status)
    /\ count' = 0
    /\ UNCHANGED <<txVars, rx, rx_frame, cur_rx, received, cardVars, arrived, wire, host_errors>>

Dirty == dirty_tx % TxRing
MoreTx == dirty_tx # cur_tx /\ tx[Dirty] = "complete"

\* A completed descriptor is taken back.
tx_reclaim ==
    /\ isr = "tx" /\ MoreTx
    /\ tx' = [tx EXCEPT ![Dirty] = "free"]
    /\ dirty_tx' = (dirty_tx + 1) % Counter
    /\ UNCHANGED <<tx_frame, cur_tx, send, sent, rxVars, isrVars, cardVars, arrived, wire, host_errors>>

tx_done ==
    /\ isr = "tx" /\ ~MoreTx
    /\ isr' = "tx_ack"
    /\ UNCHANGED <<txVars, rxVars, seen, cardVars, arrived, wire, host_errors>>

tx_ack ==
    /\ isr = "tx_ack"
    /\ status' = status \ {"tx"}
    /\ isr' = After("tx", seen)
    /\ UNCHANGED <<txVars, rxVars, seen, dn, up, up_stalled, arrived, wire, host_errors>>

RxEntry == cur_rx % RxRing

MoreRx == count < RxRing /\ rx[RxEntry] # "free"

\* Mutant of the next definition: an error leaves the index where it is.
RxStaysOnError ==
    /\ isr = "rx" /\ MoreRx
    /\ \/ /\ rx[RxEntry] = "good"
          /\ received' = Append(received, rx_frame[RxEntry])
          /\ count' = count + 1
          /\ cur_rx' = (cur_rx + 1) % Counter
       \/ UNCHANGED <<received, count, cur_rx>>
    /\ rx' = [rx EXCEPT ![RxEntry] = "free"]
    /\ UNCHANGED <<txVars, rx_frame, isrVars, cardVars, arrived, wire, host_errors>>

\* One descriptor of boomerang_rx: a good frame is passed on if a packet can
\* be allocated, any other is dropped and not counted; the descriptor is
\* reset in every case.
boomerang_rx ==
    /\ isr = "rx" /\ MoreRx
    /\ \/ /\ rx[RxEntry] = "good"
          /\ received' = Append(received, rx_frame[RxEntry])
          /\ count' = count + 1
       \/ UNCHANGED <<received, count>>
    /\ rx' = [rx EXCEPT ![RxEntry] = "free"]
    /\ cur_rx' = (cur_rx + 1) % Counter
    /\ UNCHANGED <<txVars, rx_frame, isrVars, cardVars, arrived, wire, host_errors>>

\* The end of boomerang_rx: the card is unstalled if a packet was received.
rx_restart ==
    /\ isr = "rx" /\ ~MoreRx
    /\ up_stalled' = (up_stalled /\ count = 0)
    /\ isr' = "rx_ack"
    /\ UNCHANGED <<txVars, rxVars, seen, status, dn, up, arrived, wire, host_errors>>

\* Mutant of the next definition: every bit is acknowledged.
AckEverything ==
    /\ isr = "rx_ack"
    /\ status' = {}
    /\ isr' = After("rx", seen)
    /\ UNCHANGED <<txVars, rxVars, seen, dn, up, up_stalled, arrived, wire, host_errors>>

rx_ack ==
    /\ isr = "rx_ack"
    /\ status' = status \ {"rx"}
    /\ isr' = After("rx", seen)
    /\ UNCHANGED <<txVars, rxVars, seen, dn, up, up_stalled, arrived, wire, host_errors>>

\* "Reset and reinitialize": both engines are reset and enabled again.
host_reset ==
    /\ isr = "host"
    /\ dn' = NoDn /\ up' = NoUp /\ up_stalled' = FALSE
    /\ status' = status \ {"host"}
    /\ isr' = "none"
    /\ UNCHANGED <<txVars, rxVars, seen, arrived, wire, host_errors>>

-----------------------------------------------------------------------------
Handler ==
    \/ boomerang_interrupt
    \/ tx_reclaim \/ tx_done \/ tx_ack
    \/ boomerang_rx \/ rx_restart \/ rx_ack
    \/ host_reset

Card == card_download \/ \E q \in {"good", "bad"} : card_upload(q)

Sending == xmit_advance \/ xmit_kick

RingNext ==
    \/ boomerang_start_xmit \/ xmit_refused \/ Sending
    \/ Card \/ card_stall \/ card_host_error
    \/ Handler

RingSpec == RingInit /\ [][RingNext]_ringVars

(***************************************************************************)
(* A raised interrupt is served to its end, a send that has begun goes on, *)
(* and the card sends what it is given.  Nothing makes an application send *)
(* or a frame arrive.                                                      *)
(***************************************************************************)
FairSpec == RingSpec /\ WF_ringVars(Handler) /\ WF_ringVars(Sending) /\ WF_ringVars(card_download)

-----------------------------------------------------------------------------
(* Properties.                                                             *)

\* Every variable keeps the range its C type and its users rely on.
RingTypeOK ==
    /\ tx \in [TxSlots -> {"free", "filled", "complete"}]
    /\ tx_frame \in [TxSlots -> Frames]
    /\ cur_tx \in 0 .. Counter - 1 /\ dirty_tx \in 0 .. Counter - 1
    /\ rx \in [RxSlots -> {"free", "good", "bad"}]
    /\ rx_frame \in [RxSlots -> 0 .. MaxArrivals]
    /\ cur_rx \in 0 .. Counter - 1
    /\ send \in {"none", "filled", "kick"}
    /\ isr \in {"none", "tx", "tx_ack", "rx", "rx_ack", "host"}
    /\ seen \subseteq Bits /\ status \subseteq Bits
    /\ count \in 0 .. RxRing
    /\ dn \in TxSlots \cup {NoDn} /\ up \in RxSlots \cup {NoUp}
    /\ up_stalled \in BOOLEAN
    /\ sent \in 0 .. MaxSends /\ arrived \in 0 .. MaxArrivals
    /\ wire \in Seq(Frames) /\ received \in Seq(0 .. MaxArrivals)
    /\ host_errors \in 0 .. 1

\* The descriptors the driver counts as in flight, the one being sent included.
Pending == InFlight + IF send = "filled" THEN 1 ELSE 0
RingWindow == {(dirty_tx + k) % TxRing : k \in 0 .. Pending - 1}

\* The free-running indices and the descriptors agree, across the wrap of the
\* indices and through host errors: exactly the descriptors between dirty_tx
\* and cur_tx are in use, so no frame in flight is overwritten and the "not
\* ready" branch of boomerang_start_xmit is never taken.
RingAgrees ==
    /\ Pending <= TxRing
    /\ \A s \in TxSlots : tx[s] = "free" <=> s \notin RingWindow

\* The rings are well formed and agree with the indices.
RingInv == RingTypeOK /\ RingAgrees

\* Frames go out in the order they were given to boomerang_start_xmit, none
\* twice and none left out, until a host error resets the card.
WireInOrder == host_errors = 0 => \A k \in 1 .. Len(wire) : wire[k] = k

\* A full ring gets room again although the acknowledgement may wipe out the
\* report of a completion the handler has not seen; a host error excepted.
FullDrains == Full ~> (~Full \/ host_errors > 0)

\* The frames stored in the RX ring, oldest first.
Stored ==
    LET held == {k \in 0 .. RxRing : \A j \in 0 .. k - 1 : rx[(cur_rx + j) % RxRing] # "free"}
        n == CHOOSE k \in held : \A j \in held : j <= k
    IN  [k \in 1 .. n |-> rx_frame[(cur_rx + k - 1) % RxRing]]

Abstract == INSTANCE RxFifo WITH MaxPackets <- MaxArrivals, waiting <- Stored, delivered <- received

\* Reception is a first-in first-out queue: the driver's index and the card's
\* list pointer never get out of step, whatever mixture of errors, failed
\* allocations, stalls and resets there is.
ReceivesInOrder == Abstract!Spec

\* "Restart RX if stalled": when boomerang_rx is through, the card is not left
\* stalled before a descriptor that is free again.
RestartsIfStalled == isr = "rx_ack" /\ up # NoUp /\ up_stalled => rx[up] # "free"
=============================================================================
