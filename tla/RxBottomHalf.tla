---------------------------- MODULE RxBottomHalf ----------------------------
(***************************************************************************)
(* Deferred reception: packet_isr_receive, process_deferred_packets and    *)
(* their start and end in src/c/pktops.c, over the staging buffers, the    *)
(* SPSC queue and the XMS pool of src/c/bufaloc.c.                         *)
(*                                                                         *)
(* The handler runs with interrupts disabled, so it is one step; it can    *)
(* come between any two steps of the foreground.  The protocol layer may   *)
(* call the driver back while a packet is delivered (pd_get_driver_info    *)
(* runs the deferred work), so process_deferred_packets nests: frames is   *)
(* its stack of activations, the innermost last.                           *)
(***************************************************************************)
EXTENDS Naturals, Sequences, FiniteSets

CONSTANTS
    StagingCount,  \* staging buffers, 64 in main.c
    QueueSize,     \* SPSC_QUEUE_SIZE, 32 in the code
    XmsCount,      \* XMS buffers asked for, 0 for none
    MapBits,       \* width of free_map, 32 in the code
    MaxPackets,    \* bound: packets that arrive
    MaxDepth       \* bound: nested activations

ASSUME RxAssumption ==
    /\ StagingCount \in Nat \ {0}
    /\ QueueSize \in Nat /\ QueueSize > 1
    /\ XmsCount \in 0 .. MapBits
    /\ MapBits \in Nat /\ MaxPackets \in Nat /\ MaxDepth \in Nat

Bufs == 1 .. StagingCount
Index == 0 .. QueueSize - 1
XmsBufs == 1 .. XmsCount
Packets == 1 .. MaxPackets
None == 0
Sizes == {"small", "large", "oversize"}   \* below and above xms_threshold; above ETH_MAX_FRAME

VARIABLES
    active,      \* g_bottom_half_state.bottom_half_active
    xms_enabled, \* g_bottom_half_state.xms_enabled
    staging,     \* the memory behind g_staging_buffers: "none", "live"
    freelist,    \* g_staging_freelist, followed through next
    in_use,      \* the staging buffers with in_use set
    data,        \* per staging buffer, the packet in it
    size,        \* per staging buffer, the size class of that packet
    queue, qhead, qtail,   \* g_deferred_queue
    xms_free,    \* the set bits of g_xms_pool.free_map
    frames,      \* activations of process_deferred_packets
    stage,       \* how far packet_bottom_half_cleanup has got
    \* history
    arrived, delivered,
    dangling     \* the handler took a staging buffer from freed memory

pool == <<staging, freelist, in_use>>
content == <<data, size>>
spsc == <<queue, qhead, qtail>>
history == <<arrived, delivered, dangling>>
vars == <<active, xms_enabled, pool, content, spsc, xms_free, frames, stage, history>>

\* An activation: where it is, the staging buffer and the XMS buffer it holds,
\* the packet it took from the queue.
Frame == [at : {"loop", "have", "upcall"}, buf : Bufs \cup {None},
          xms : XmsBufs \cup {None}, pkt : Packets \cup {None}]

Advance(i) == (i + 1) % QueueSize
Length == (qtail + QueueSize - qhead) % QueueSize

\* The staging buffers waiting in the queue, oldest first.
QueuedBufs == [k \in 1 .. Length |-> queue[(qhead + k - 1) % QueueSize]]

Innermost == frames[Len(frames)]
InnermostIs(at) == frames # <<>> /\ Innermost.at = at
Becomes(f) == frames' = [frames EXCEPT ![Len(frames)] = f]
Returns == frames' = SubSeq(frames, 1, Len(frames) - 1)

-----------------------------------------------------------------------------
Init ==
    /\ active = FALSE /\ xms_enabled = FALSE
    /\ staging = "none" /\ freelist = <<>> /\ in_use = {}
    /\ data = [b \in Bufs |-> None] /\ size = [b \in Bufs |-> "small"]
    /\ queue = [i \in Index |-> None] /\ qhead = 0 /\ qtail = 0
    /\ xms_free = {}
    /\ frames = <<>> /\ stage = "none"
    /\ arrived = 0 /\ delivered = <<>> /\ dangling = FALSE

\* free_map = (1UL << buffer_count) - 1.  A shift by the width of the type is
\* undefined: a 386 shifts by the count modulo 32, a loop shifts it all out.
InitialFreeMap ==
    IF XmsCount < MapBits THEN {XmsBufs} ELSE {XmsBufs, {}}

staging_buffer_init ==
    /\ staging' = "live"
    /\ freelist' = [k \in Bufs |-> k]
    /\ in_use' = {}
    /\ data' = [b \in Bufs |-> None]
    /\ size' = [b \in Bufs |-> "small"]

spsc_queue_init ==
    /\ queue' = [i \in Index |-> None]
    /\ qhead' = 0 /\ qtail' = 0

\* packet_bottom_half_init, called once the previous life is over.  The handler
\* drops every packet until bottom_half_active is set, which comes last.
packet_bottom_half_init ==
    /\ ~active /\ stage = "none"
    /\ staging_buffer_init
    /\ spsc_queue_init
    /\ \/ /\ XmsCount > 0
          /\ xms_free' \in InitialFreeMap
          /\ xms_enabled' = TRUE
       \/ /\ xms_enabled' = FALSE          \* not asked for, or no XMS memory
          /\ UNCHANGED xms_free
    /\ active' = TRUE
    /\ UNCHANGED <<frames, stage, history>>

-----------------------------------------------------------------------------
(* Cleanup, in the order of packet_bottom_half_cleanup.                    *)

CleanupAt(s) == stage = s /\ UNCHANGED <<content, frames, history>>

packet_bottom_half_cleanup ==
    /\ active /\ frames = <<>>
    /\ CleanupAt("none")
    /\ stage' = "drain"
    /\ xms_free' = IF xms_enabled THEN {} ELSE xms_free
    /\ UNCHANGED <<active, xms_enabled, pool, spsc>>

\* spsc_queue_cleanup gives the queued buffers back one by one ...
drain_one ==
    /\ CleanupAt("drain")
    /\ qhead # qtail
    /\ qhead' = Advance(qhead)
    /\ freelist' = <<queue[qhead]>> \o freelist
    /\ in_use' = in_use \ {queue[qhead]}
    /\ UNCHANGED <<active, xms_enabled, staging, queue, qtail, xms_free, stage>>

drained ==
    /\ CleanupAt("drain")
    /\ qhead = qtail
    /\ stage' = "reset"
    /\ UNCHANGED <<active, xms_enabled, pool, spsc, xms_free>>

\* ... and sets both indices to zero, head first.
reset_head ==
    /\ CleanupAt("reset")
    /\ qhead' = 0
    /\ stage' = "reset_tail"
    /\ UNCHANGED <<active, xms_enabled, pool, queue, qtail, xms_free>>

reset_tail ==
    /\ CleanupAt("reset_tail")
    /\ qtail' = 0
    /\ stage' = "free"
    /\ UNCHANGED <<active, xms_enabled, pool, queue, qhead, xms_free>>

\* staging_buffer_cleanup frees the memory; the freelist still points into it.
staging_buffer_cleanup ==
    /\ CleanupAt("free")
    /\ staging' = "none"
    /\ stage' = "zero"
    /\ UNCHANGED <<active, xms_enabled, freelist, in_use, spsc, xms_free>>

zero_state ==
    /\ CleanupAt("zero")
    /\ active' = FALSE /\ xms_enabled' = FALSE
    /\ stage' = "none"
    /\ UNCHANGED <<pool, spsc, xms_free>>

-----------------------------------------------------------------------------
(* The handler.                                                            *)

\* The head of the freelist is taken.
staging_buffer_alloc ==
    /\ freelist' = Tail(freelist)
    /\ in_use' = in_use \cup {Head(freelist)}

spsc_queue_enqueue(b) ==
    /\ queue' = [queue EXCEPT ![qtail] = b]
    /\ qtail' = Advance(qtail)
    /\ UNCHANGED qhead

\* packet_isr_receive drops a packet: not active, no staging buffer, a packet
\* larger than one, or a full queue.  A buffer it took is freed again, unless
\* the range check of staging_buffer_free finds the array gone.
isr_drop(s) ==
    /\ arrived < MaxPackets
    /\ arrived' = arrived + 1
    /\ \/ /\ ~active \/ freelist = <<>>
          /\ UNCHANGED <<freelist, in_use, dangling>>
       \/ /\ active /\ freelist # <<>>
          /\ s = "oversize" \/ Advance(qtail) = qhead
          /\ dangling' = (dangling \/ staging # "live")
          /\ IF staging = "live" THEN UNCHANGED <<freelist, in_use>> ELSE staging_buffer_alloc
    /\ UNCHANGED <<active, xms_enabled, staging, content, spsc, xms_free, frames, stage, delivered>>

\* Mutant of the next definition: the buffer is not taken off the freelist.
AcceptKeepsBuffer(s) ==
    /\ arrived < MaxPackets
    /\ active /\ freelist # <<>>
    /\ s # "oversize" /\ Advance(qtail) # qhead
    /\ arrived' = arrived + 1
    /\ data' = [data EXCEPT ![Head(freelist)] = arrived + 1]
    /\ size' = [size EXCEPT ![Head(freelist)] = s]
    /\ spsc_queue_enqueue(Head(freelist))
    /\ UNCHANGED <<active, xms_enabled, staging, freelist, in_use, xms_free, frames, stage, delivered,
                   dangling>>

\* packet_isr_receive copies a packet to a staging buffer and queues it.
isr_accept(s) ==
    /\ arrived < MaxPackets
    /\ active /\ freelist # <<>>
    /\ s # "oversize" /\ Advance(qtail) # qhead
    /\ arrived' = arrived + 1
    /\ staging_buffer_alloc
    /\ data' = [data EXCEPT ![Head(freelist)] = arrived + 1]
    /\ size' = [size EXCEPT ![Head(freelist)] = s]
    /\ spsc_queue_enqueue(Head(freelist))
    /\ dangling' = (dangling \/ staging # "live")
    /\ UNCHANGED <<active, xms_enabled, staging, xms_free, frames, stage, delivered>>

packet_isr_receive(s) == isr_drop(s) \/ isr_accept(s)

-----------------------------------------------------------------------------
(* The bottom half.                                                        *)

NewFrame == [at |-> "loop", buf |-> None, xms |-> None, pkt |-> None]

\* Mutant of the next definition: a single packet does not start the loop.
DeferredNeedsTwo ==
    /\ active /\ Length > 1 /\ stage = "none"
    /\ frames = <<>> \/ InnermostIs("upcall")
    /\ Len(frames) < MaxDepth
    /\ frames' = Append(frames, NewFrame)
    /\ UNCHANGED <<active, xms_enabled, pool, content, spsc, xms_free, stage, history>>

\* packet_process_deferred_work calls process_deferred_packets, from the
\* foreground or from within an upcall.
process_deferred_packets ==
    /\ active /\ qhead # qtail /\ stage = "none"
    /\ frames = <<>> \/ InnermostIs("upcall")
    /\ Len(frames) < MaxDepth
    /\ frames' = Append(frames, NewFrame)
    /\ UNCHANGED <<active, xms_enabled, pool, content, spsc, xms_free, stage, history>>

\* Mutant of the next definition: the newest packet is taken.
DequeueNewest ==
    /\ InnermostIs("loop")
    /\ qhead # qtail
    /\ LET last == (qtail + QueueSize - 1) % QueueSize IN
       /\ Becomes([NewFrame EXCEPT !.at = "have", !.buf = queue[last], !.pkt = data[queue[last]]])
       /\ qtail' = last
    /\ UNCHANGED <<active, xms_enabled, pool, content, queue, qhead, xms_free, stage, history>>

spsc_queue_dequeue ==
    /\ InnermostIs("loop")
    /\ qhead # qtail
    /\ Becomes([NewFrame EXCEPT !.at = "have", !.buf = queue[qhead], !.pkt = data[queue[qhead]]])
    /\ qhead' = Advance(qhead)
    /\ UNCHANGED <<active, xms_enabled, pool, content, queue, qtail, xms_free, stage, history>>

nothing_left ==
    /\ InnermostIs("loop")
    /\ qhead = qtail
    /\ Returns
    /\ UNCHANGED <<active, xms_enabled, pool, content, spsc, xms_free, stage, history>>

\* staging_buffer_free puts a buffer at the head of the freelist.
staging_buffer_free(b) ==
    /\ freelist' = <<b>> \o freelist
    /\ in_use' = in_use \ {b}

\* packet_receive_process is handed the packet.
Hands(p) == delivered' = Append(delivered, p)

Held == Innermost.buf
ToXms == xms_enabled /\ size[Held] = "large"
First(S) == CHOOSE i \in S : \A j \in S : i <= j

xms_buffer_alloc == xms_free' = xms_free \ {First(xms_free)}

\* The packet is read back into conventional memory and handed over; without
\* memory, or if the copy fails, it is gone.
packet_process_from_xms == Hands(data[Held]) \/ UNCHANGED delivered

\* A large packet moves to an XMS buffer and its staging buffer is freed at
\* once.
by_xms ==
    /\ InnermostIs("have")
    /\ ToXms /\ xms_free # {}
    /\ staging_buffer_free(Held)
    /\ xms_buffer_alloc
    /\ Becomes([Innermost EXCEPT !.at = "upcall", !.buf = None, !.xms = First(xms_free)])
    /\ packet_process_from_xms
    /\ UNCHANGED <<active, xms_enabled, staging, content, spsc, stage, arrived, dangling>>

\* A small packet moves to a conventional buffer, if one can be had.
by_copybreak ==
    /\ InnermostIs("have")
    /\ ~ToXms
    /\ staging_buffer_free(Held)
    /\ Becomes([Innermost EXCEPT !.at = "upcall", !.buf = None])
    /\ Hands(data[Held])
    /\ UNCHANGED <<active, xms_enabled, staging, content, spsc, xms_free, stage, arrived, dangling>>

\* Mutant of the next definition: the staging buffer is freed too early.
StagedFreedEarly ==
    /\ InnermostIs("have")
    /\ staging_buffer_free(Held)
    /\ Becomes([Innermost EXCEPT !.at = "upcall"])
    /\ Hands(data[Held])
    /\ UNCHANGED <<active, xms_enabled, staging, content, spsc, xms_free, stage, arrived, dangling>>

\* No XMS buffer, a failed copy to XMS (its buffer is given back) or no
\* conventional buffer: the packet is processed where it is.
from_staging ==
    /\ InnermostIs("have")
    /\ Becomes([Innermost EXCEPT !.at = "upcall"])
    /\ Hands(data[Held])
    /\ UNCHANGED <<active, xms_enabled, pool, content, spsc, xms_free, stage, arrived, dangling>>

xms_buffer_free(i) == xms_free' = xms_free \cup ({i} \ {None})

\* The upcall returns, what the packet still holds is freed, and the loop goes
\* on unless MAX_BOTTOM_HALF_TICKS have passed.
upcall_done ==
    /\ InnermostIs("upcall")
    /\ IF Held = None THEN UNCHANGED <<freelist, in_use>> ELSE staging_buffer_free(Held)
    /\ xms_buffer_free(Innermost.xms)
    /\ Becomes(NewFrame) \/ Returns
    /\ UNCHANGED <<active, xms_enabled, staging, content, spsc, stage, history>>

-----------------------------------------------------------------------------
Cleanup ==
    \/ drain_one \/ drained \/ reset_head \/ reset_tail
    \/ staging_buffer_cleanup \/ zero_state

BottomHalf ==
    \/ spsc_queue_dequeue \/ nothing_left
    \/ by_xms \/ by_copybreak \/ from_staging
    \/ upcall_done

Next ==
    \/ packet_bottom_half_init
    \/ packet_bottom_half_cleanup
    \/ Cleanup
    \/ \E s \in Sizes : packet_isr_receive(s)
    \/ process_deferred_packets
    \/ BottomHalf

Spec == Init /\ [][Next]_vars

(***************************************************************************)
(* The foreground carries on with what it began, and deferred work is      *)
(* called again and again (INT 28h).  Nothing makes packets arrive.        *)
(***************************************************************************)
FairSpec ==
    Spec /\ WF_vars(BottomHalf) /\ WF_vars(Cleanup) /\ WF_vars(process_deferred_packets)

-----------------------------------------------------------------------------
(* Properties.                                                             *)

\* Every variable keeps the range its C type and its users rely on.
TypeOK ==
    /\ active \in BOOLEAN /\ xms_enabled \in BOOLEAN
    /\ staging \in {"none", "live"}
    /\ freelist \in Seq(Bufs)
    /\ in_use \subseteq Bufs
    /\ data \in [Bufs -> Packets \cup {None}]
    /\ size \in [Bufs -> Sizes]
    /\ queue \in [Index -> Bufs \cup {None}]
    /\ qhead \in Index /\ qtail \in Index
    /\ xms_free \subseteq XmsBufs
    /\ frames \in Seq(Frame) /\ Len(frames) <= MaxDepth
    /\ stage \in {"none", "drain", "reset", "reset_tail", "free", "zero"}
    /\ arrived \in 0 .. MaxPackets
    /\ delivered \in Seq(Packets)
    /\ dangling \in BOOLEAN

\* How often a staging buffer is on the freelist, in the queue or held.
Places(b) ==
    Cardinality({k \in 1 .. Len(freelist) : freelist[k] = b})
    + Cardinality({k \in 1 .. Length : QueuedBufs[k] = b})
    + Cardinality({k \in 1 .. Len(frames) : frames[k].buf = b})

\* Until cleanup begins every staging buffer is in exactly one place: free,
\* queued, or held by one activation of process_deferred_packets.  None leaks
\* and none is handed out twice, whatever way a packet takes through the loop.
StagingConserved ==
    active /\ stage = "none" => \A b \in Bufs : Places(b) = 1

\* Likewise for the XMS buffers once the pool is up.
XmsConserved ==
    active /\ stage = "none" /\ xms_enabled =>
        /\ \A i \in XmsBufs : i \in xms_free <=> \A k \in 1 .. Len(frames) : frames[k].xms # i
        /\ \A j, k \in 1 .. Len(frames) : j # k /\ frames[j].xms # None => frames[j].xms # frames[k].xms

\* The state is well formed, and no way through the bottom half leaks a buffer
\* or hands one out twice.
BufferInv == TypeOK /\ StagingConserved /\ XmsConserved

\* The handler never overwrites a packet that is still being processed where
\* the handler staged it, however deep the upcalls nest.
HeldIsIntact ==
    \A k \in 1 .. Len(frames) : frames[k].buf # None => data[frames[k].buf] = frames[k].pkt

\* The abstract queue: the packet taken but not yet handed over, then the
\* packets in the queue.  Cleanup gives up all of them as it begins.
Waiting ==
    IF active /\ stage = "none"
    THEN (IF InnermostIs("have") THEN <<Innermost.pkt>> ELSE <<>>)
         \o [k \in 1 .. Length |-> data[QueuedBufs[k]]]
    ELSE <<>>

Abstract == INSTANCE RxFifo WITH waiting <- Waiting

\* The staging buffers, the SPSC queue and the nested loops together behave as
\* one first-in first-out queue that every packet leaves at most once.
DeliversInOrder == Abstract!Spec

\* A packet that is waiting is handed over, lost to a failed copy or thrown
\* away by cleanup in the end: the time limit of the loop only postpones it.
WaitingIsServed ==
    \A p \in Packets :
        (\E k \in 1 .. Len(Waiting) : Waiting[k] = p) ~> ~\E k \in 1 .. Len(Waiting) : Waiting[k] = p

\* "System not initialized - drop packet": the handler uses no staging buffer
\* once their memory has been given back.
StagingLive == ~dangling
=============================================================================
