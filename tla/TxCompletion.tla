---------------------------- MODULE TxCompletion ----------------------------
(***************************************************************************)
(* Transmit completion of the 3C515: _3c515_send_packet and the interrupt  *)
(* handler of src/c/3c515.c, and the queue between that handler and the    *)
(* bottom half in src/c/pktops.c.  A packet's DMA mapping is stored in its *)
(* descriptor, handed to the queue by the interrupt, and released by the   *)
(* bottom half, which alone may call VDS.                                  *)
(*                                                                         *)
(* There is one CPU.  The foreground (an application's send, or deferred   *)
(* work from an idle call) can be interrupted between any two of its       *)
(* steps; the interrupt handler is not interrupted, but the card goes on   *)
(* completing transfers while it scans the ring.  packet_recover_tx_       *)
(* overflow reads the ring through _3c515_nic_context_t although           *)
(* private_data is a _3c515_private_data_t: the model lets it see the      *)
(* transmit ring, as the code means it to.                                 *)
(***************************************************************************)
EXTENDS Naturals, FiniteSets

CONSTANTS
    Nics,        \* the 3C515 cards
    RingSize,    \* TX_RING_SIZE, 16 in the code
    QueueSize,   \* MAX_TX_COMPLETIONS, 128 in the code
    MaxBatch,    \* max_batch, 16 in the code
    MaxMaps      \* bound: mappings made; the next dma_map fails

ASSUME CompletionAssumption ==
    /\ RingSize \in Nat \ {0}
    /\ QueueSize \in Nat /\ QueueSize > 1
    /\ MaxBatch \in Nat \ {0}
    /\ MaxMaps \in Nat

Slots == 0 .. RingSize - 1
Descs == Nics \X Slots
Queue == 0 .. QueueSize - 1
Maps  == 1 .. MaxMaps
Null  == 0
MapsOrNull == Maps \cup {Null}

VARIABLES
    \* the rings
    status,      \* per descriptor: "idle" (0), "busy" (INTR_BIT), "complete"
    mapping,     \* per descriptor: desc->mapping
    tx_index,    \* per card: the descriptor the next send takes
    \* g_tx_completion_queue
    queue,       \* queue[].mapping
    error,       \* the entries with queue[].error set
    head, tail, pending, overflow, overflow_count,
    \* the foreground and the interrupt handler
    fg,          \* where the foreground is
    fg_nic,      \* its card, during a send
    processed,   \* its count of the current batch
    scan,        \* the descriptors packet_recover_tx_overflow has still to visit
    found,       \* the descriptor it found completed, a singleton or empty
    isr,         \* the descriptors the running handler has still to visit
    isr_nic,     \* its card, a singleton; empty when no handler runs
    \* history
    made,        \* mappings made so far
    unmapped,    \* mappings passed to dma_unmap_tx
    again,       \* mappings passed to dma_unmap_tx a second time
    lapped       \* a send took a descriptor still in flight

ringVars == <<status, mapping, tx_index>>
queueVars == <<queue, error, head, tail, overflow, overflow_count>>
isrVars == <<isr, isr_nic>>
scanVars == <<scan, found>>
unmapVars == <<unmapped, again>>
vars == <<ringVars, queueVars, pending, fg, fg_nic, processed, scanVars, isrVars,
          made, unmapVars, lapped>>

Next1(i) == (i + 1) % QueueSize

\* The entries the consumer may read: from tail up to, not including, head.
Published ==
    {i \in Queue : IF tail <= head THEN tail <= i /\ i < head ELSE tail <= i \/ i < head}

Queued == {queue[i] : i \in Published} \ {Null}
InRing == {mapping[d] : d \in Descs} \ {Null}

-----------------------------------------------------------------------------
Init ==
    /\ status = [d \in Descs |-> "idle"]
    /\ mapping = [d \in Descs |-> Null]
    /\ tx_index = [n \in Nics |-> 0]
    /\ queue = [i \in Queue |-> Null]
    /\ error = {}
    /\ head = 0 /\ tail = 0
    /\ pending = FALSE /\ overflow = FALSE /\ overflow_count = 0
    /\ fg = "idle" /\ fg_nic \in Nics /\ processed = 0
    /\ scan = {} /\ found = {}
    /\ isr = {} /\ isr_nic = {}
    /\ made = 0 /\ unmapped = {} /\ again = {}
    /\ lapped = FALSE

\* The foreground runs only when no handler does.
Foreground(at) == isr_nic = {} /\ fg = at

\* dma_unmap_tx: validate_mapping turns a null pointer away; a mapping that
\* is unmapped a second time is freed memory.
dma_unmap_tx(m) ==
    /\ unmapped' = IF m = Null THEN unmapped ELSE unmapped \cup {m}
    /\ again' = IF m \in unmapped THEN again \cup {m} ELSE again

-----------------------------------------------------------------------------
(* Sending.                                                                *)

Current(n) == <<n, tx_index[n]>>

\* Only a completed descriptor is refused.  Scatter-gather is stubbed out
\* (dma_analyze_packet_fragmentation returns 0), so the single buffer path
\* is the one taken.
_3c515_send_packet(n) ==
    /\ Foreground("idle")
    /\ status[Current(n)] # "complete"
    /\ made < MaxMaps
    /\ made' = made + 1
    /\ mapping' = [mapping EXCEPT ![Current(n)] = made + 1]
    /\ lapped' = (lapped \/ status[Current(n)] = "busy")
    /\ fg' = "sending"
    /\ fg_nic' = n
    /\ UNCHANGED <<status, tx_index, queueVars, pending, processed, scanVars, isrVars, unmapVars>>

\* The send returns -1: the descriptor is completed but not yet seen by the
\* handler, or no mapping can be made.
send_refused(n) ==
    /\ Foreground("idle")
    /\ status[Current(n)] = "complete" \/ made = MaxMaps
    /\ UNCHANGED vars

\* The second half of the send: the descriptor goes to the card.
start_dma_down ==
    /\ Foreground("sending")
    /\ status' = [status EXCEPT ![Current(fg_nic)] = "busy"]
    /\ tx_index' = [tx_index EXCEPT ![fg_nic] = (tx_index[fg_nic] + 1) % RingSize]
    /\ fg' = "idle"
    /\ UNCHANGED <<mapping, queueVars, pending, fg_nic, processed, scanVars, isrVars, made, unmapVars, lapped>>

\* The card: a transfer ends and its descriptor is marked complete.
down_complete(d) ==
    /\ status[d] = "busy"
    /\ status' = [status EXCEPT ![d] = "complete"]
    /\ UNCHANGED <<mapping, tx_index, queueVars, pending, fg, fg_nic, processed, scanVars, isrVars,
                   made, unmapVars, lapped>>

-----------------------------------------------------------------------------
(* The interrupt handler.                                                  *)

\* Mutant of the next definition: the loop stops one short of the ring's end.
HandlerMissesLast(n) ==
    /\ isr_nic = {}
    /\ \E i \in Slots : status[<<n, i>>] = "complete"
    /\ isr_nic' = {n}
    /\ isr' = Slots \ {RingSize - 1}
    /\ UNCHANGED <<ringVars, queueVars, pending, fg, fg_nic, processed, scanVars, made, unmapVars, lapped>>

_3c515_handle_interrupt(n) ==
    /\ isr_nic = {}
    /\ \E i \in Slots : status[<<n, i>>] = "complete"
    /\ isr_nic' = {n}
    /\ isr' = Slots
    /\ UNCHANGED <<ringVars, queueVars, pending, fg, fg_nic, processed, scanVars, made, unmapVars, lapped>>

\* The descriptor the handler looks at next.
Visits(n, i) == isr_nic = {n} /\ i \in isr /\ \A j \in isr : i <= j

Publishes(m) ==
    /\ queue' = [queue EXCEPT ![head] = m]
    /\ error' = error \ {head}
    /\ head' = Next1(head)
    /\ UNCHANGED <<tail, overflow, overflow_count>>

Overflows ==
    /\ overflow' = TRUE
    /\ overflow_count' = overflow_count + 1
    /\ UNCHANGED <<queue, error, head, tail, pending>>

\* Mutant of packet_queue_tx_completion: the queue is never found full.
EnqueueUnchecked(m) == Publishes(m) /\ pending' = TRUE

packet_queue_tx_completion(m) ==
    \/ Next1(head) # tail /\ Publishes(m) /\ pending' = TRUE
    \/ Next1(head) = tail /\ Overflows

\* Mutant of the next definition: the descriptor keeps a mapping the queue owns.
CompleteKeepsMapping(n, i) ==
    /\ Visits(n, i)
    /\ status[<<n, i>>] = "complete"
    /\ IF mapping[<<n, i>>] # Null THEN packet_queue_tx_completion(mapping[<<n, i>>])
       ELSE UNCHANGED <<queueVars, pending>>
    /\ status' = [status EXCEPT ![<<n, i>>] = "idle"]
    /\ isr' = isr \ {i}
    /\ UNCHANGED <<mapping, tx_index, fg, fg_nic, processed, scanVars, isr_nic, made, unmapVars, lapped>>

\* A completed descriptor hands its mapping to the queue and keeps it when
\* the queue is full; its status is cleared in either case.
isr_complete(n, i) ==
    /\ Visits(n, i)
    /\ status[<<n, i>>] = "complete"
    /\ \/ /\ mapping[<<n, i>>] # Null
          /\ packet_queue_tx_completion(mapping[<<n, i>>])
          /\ mapping' = IF Next1(head) = tail THEN mapping
                        ELSE [mapping EXCEPT ![<<n, i>>] = Null]
       \/ /\ mapping[<<n, i>>] = Null
          /\ UNCHANGED <<mapping, queueVars, pending>>
    /\ status' = [status EXCEPT ![<<n, i>>] = "idle"]
    /\ isr' = isr \ {i}
    /\ UNCHANGED <<tx_index, fg, fg_nic, processed, scanVars, isr_nic, made, unmapVars, lapped>>

isr_pass(n, i) ==
    /\ Visits(n, i)
    /\ status[<<n, i>>] # "complete"
    /\ isr' = isr \ {i}
    /\ UNCHANGED <<ringVars, queueVars, pending, fg, fg_nic, processed, scanVars, isr_nic, made, unmapVars, lapped>>

\* The interrupt is acknowledged and the handler returns.
isr_ack ==
    /\ isr_nic # {} /\ isr = {}
    /\ isr_nic' = {}
    /\ UNCHANGED <<ringVars, queueVars, pending, fg, fg_nic, processed, scanVars, isr, made, unmapVars, lapped>>

-----------------------------------------------------------------------------
(* The bottom half.                                                        *)

\* The entries the watchdog finds old: the oldest ones, in queue order.
Oldest(S) == \A i \in S : \A j \in Published :
                (j + QueueSize - tail) % QueueSize < (i + QueueSize - tail) % QueueSize => j \in S

\* packet_process_deferred_work, from an idle call, a receive or
\* pd_get_driver_info; packet_process_tx_completions starts with the watchdog,
\* which marks the entries that have waited too long.
packet_process_deferred_work ==
    /\ Foreground("idle")
    /\ pending
    /\ \E late \in SUBSET Published :
          /\ Oldest(late)
          /\ error' = error \cup {i \in late : queue[i] # Null}
    /\ processed' = 0
    /\ fg' = "loop"
    /\ UNCHANGED <<ringVars, queue, head, tail, overflow, overflow_count, pending, fg_nic, scanVars, isrVars,
                   made, unmapVars, lapped>>

More == tail # head /\ processed < MaxBatch

\* Mutant of the next definition: the tail stays on an entry marked late.
LateNotPassed ==
    /\ Foreground("loop")
    /\ More
    /\ dma_unmap_tx(queue[tail])
    /\ tail' = IF tail \in error THEN tail ELSE Next1(tail)
    /\ processed' = processed + 1
    /\ fg' = "test"
    /\ UNCHANGED <<ringVars, queue, error, head, overflow, overflow_count, pending, fg_nic, scanVars, isrVars,
                   made, lapped>>

\* One entry is unmapped and the tail moves past it.
packet_process_tx_completion ==
    /\ Foreground("loop")
    /\ More
    /\ dma_unmap_tx(queue[tail])
    /\ tail' = Next1(tail)
    /\ processed' = processed + 1
    /\ fg' = "test"
    /\ UNCHANGED <<ringVars, queue, error, head, overflow, overflow_count, pending, fg_nic, scanVars, isrVars,
                   made, lapped>>

\* "If queue becomes empty during processing, clear pending": the test and
\* the store are two steps.
test_empty ==
    /\ Foreground("test")
    /\ fg' = IF tail = head /\ ~overflow THEN "clear" ELSE "loop"
    /\ UNCHANGED <<ringVars, queueVars, pending, fg_nic, processed, scanVars, isrVars, made, unmapVars, lapped>>

clear_pending ==
    /\ Foreground("clear")
    /\ pending' = FALSE
    /\ fg' = "loop"
    /\ UNCHANGED <<ringVars, queueVars, fg_nic, processed, scanVars, isrVars, made, unmapVars, lapped>>

\* The loop is over; an overflow calls for recovery.
end_loop ==
    /\ Foreground("loop")
    /\ ~More
    /\ fg' = IF overflow THEN "recover" ELSE "idle"
    /\ scan' = IF overflow THEN Descs ELSE {}
    /\ UNCHANGED <<ringVars, queueVars, pending, fg_nic, processed, found, isrVars, made, unmapVars, lapped>>

\* packet_recover_tx_overflow looks at one descriptor.
recover_look(d) ==
    /\ Foreground("recover")
    /\ found = {} /\ d \in scan
    /\ scan' = scan \ {d}
    /\ found' = IF status[d] = "complete" /\ mapping[d] # Null THEN {d} ELSE {}
    /\ UNCHANGED <<ringVars, queueVars, pending, fg, fg_nic, processed, isrVars, made, unmapVars, lapped>>

\* It unmaps what the descriptor holds by now.
recover_unmap(d) ==
    /\ Foreground("recover")
    /\ found = {d}
    /\ dma_unmap_tx(mapping[d])
    /\ fg' = "recover_clear"
    /\ UNCHANGED <<ringVars, queueVars, pending, fg_nic, processed, scanVars, isrVars, made, lapped>>

\* It frees the descriptor.
recover_clear(d) ==
    /\ Foreground("recover_clear")
    /\ found = {d}
    /\ mapping' = [mapping EXCEPT ![d] = Null]
    /\ status' = [status EXCEPT ![d] = "idle"]
    /\ found' = {}
    /\ fg' = "recover"
    /\ UNCHANGED <<tx_index, queueVars, pending, fg_nic, processed, scan, isrVars, made, unmapVars, lapped>>

\* It then unmaps the entries of the queue that are stale.  The interrupt
\* handler does not touch a published entry, so one step is enough.
recover_stale ==
    /\ Foreground("recover")
    /\ found = {} /\ scan = {}
    /\ \E late \in SUBSET Published :
          LET stale == {i \in late : queue[i] # Null} IN
          /\ Oldest(late)
          /\ again' = again \cup ({queue[i] : i \in stale} \cap unmapped)
          /\ unmapped' = unmapped \cup {queue[i] : i \in stale}
          /\ queue' = [i \in Queue |-> IF i \in stale THEN Null ELSE queue[i]]
          /\ error' = error \cup stale
    /\ fg' = "reset"
    /\ UNCHANGED <<ringVars, head, tail, overflow, overflow_count, pending, fg_nic, processed, scanVars, isrVars,
                   made, lapped>>

reset_overflow ==
    /\ Foreground("reset")
    /\ overflow' = FALSE
    /\ fg' = "idle"
    /\ UNCHANGED <<ringVars, queue, error, head, tail, overflow_count, pending, fg_nic, processed, scanVars, isrVars,
                   made, unmapVars, lapped>>

-----------------------------------------------------------------------------
ForegroundStep ==
    \/ start_dma_down
    \/ packet_process_deferred_work
    \/ packet_process_tx_completion
    \/ test_empty
    \/ clear_pending
    \/ end_loop
    \/ \E d \in Descs : recover_look(d) \/ recover_unmap(d) \/ recover_clear(d)
    \/ recover_stale
    \/ reset_overflow

InterruptStep ==
    \/ \E n \in Nics : _3c515_handle_interrupt(n)
    \/ \E n \in Nics, i \in Slots : isr_complete(n, i) \/ isr_pass(n, i)
    \/ isr_ack

CardStep == \E d \in Descs : down_complete(d)

Next ==
    \/ \E n \in Nics : _3c515_send_packet(n) \/ send_refused(n)
    \/ ForegroundStep
    \/ InterruptStep
    \/ CardStep

Spec == Init /\ [][Next]_vars

(***************************************************************************)
(* Deferred work runs on every idle call (INT 28h calls it through         *)
(* dos_idle_background_processing), the foreground carries on with what it *)
(* began, a pending interrupt is served and the card finishes what it      *)
(* started.  Nothing makes an application send.                            *)
(***************************************************************************)
FairSpec == Spec /\ WF_vars(ForegroundStep) /\ WF_vars(InterruptStep) /\ WF_vars(CardStep)

-----------------------------------------------------------------------------
(* Properties.                                                             *)

\* Every variable keeps the range its C type and its users rely on.
TypeOK ==
    /\ status \in [Descs -> {"idle", "busy", "complete"}]
    /\ mapping \in [Descs -> MapsOrNull]
    /\ tx_index \in [Nics -> Slots]
    /\ queue \in [Queue -> MapsOrNull]
    /\ error \subseteq Queue
    /\ head \in Queue /\ tail \in Queue
    /\ pending \in BOOLEAN /\ overflow \in BOOLEAN
    /\ overflow_count \in Nat
    /\ fg \in {"idle", "sending", "loop", "test", "clear", "recover", "recover_clear", "reset"}
    /\ fg_nic \in Nics
    /\ processed \in 0 .. MaxBatch
    /\ scan \subseteq Descs
    /\ found = {} \/ \E d \in Descs : found = {d}
    /\ isr \subseteq Slots
    /\ isr_nic = {} \/ \E n \in Nics : isr_nic = {n}
    /\ made \in 0 .. MaxMaps
    /\ unmapped \subseteq Maps
    /\ again \subseteq Maps
    /\ lapped \in BOOLEAN

\* The number of places that hold a mapping: descriptors and published entries.
Owners(m) == Cardinality({d \in Descs : mapping[d] = m})
             + Cardinality({i \in Published : queue[i] = m})

\* As long as no send has lapped the ring and the queue has not overflowed, a
\* mapping has exactly one owner from the moment _3c515_send_packet makes it
\* until the bottom half unmaps it, and none afterwards; a transfer in flight
\* always has its mapping.
OneOwner ==
    ~lapped /\ overflow_count = 0 =>
        /\ \A m \in 1 .. made : Owners(m) = IF m \in unmapped THEN 0 ELSE 1
        /\ \A d \in Descs : status[d] = "busy" => mapping[d] # Null

\* Queue and rings are well formed and no mapping in them is lost or shared.
OwnershipInv == TypeOK /\ OneOwner

\* Whatever the sends do, a mapping is unmapped at most once unless the queue
\* overflows: the handler gives it to the queue and forgets it in one go.
UnmappedOnce == overflow_count = 0 => again = {}

\* A queued mapping never just disappears, through laps and overflows alike: it
\* stays queued until a step of the bottom half unmaps it.
QueuedUntilUnmapped ==
    [][\A m \in Queued : m \in Queued' \/ m \in unmapped']_vars

\* A completion was queued behind the back of clear_pending and nobody is told.
Stranded == fg = "idle" /\ tail # head /\ ~pending

\* Under fair idle calls every mapping that is made is unmapped in the end,
\* unless a lap, an overflow or a lost wake-up comes in between.
EveryMappingReleased ==
    \A m \in Maps :
        m <= made ~> m \in unmapped \/ lapped \/ overflow_count > 0 \/ Stranded

\* The comment on the descriptor test of _3c515_send_packet, "Check if
\* descriptor is free": a send never takes a descriptor still in flight.
FreeDescriptorTaken == ~lapped

\* The comments on the full queue, "Overflow recovery will handle it": once
\* recovery is through, no free descriptor still holds a mapping.
OverflowRecovered ==
    overflow_count > 0 /\ ~overflow /\ fg = "idle" /\ isr_nic = {}
        => \A d \in Descs : status[d] = "idle" => mapping[d] = Null

\* The comment on the hand-over, "mapping now owned by queue": no mapping is
\* unmapped a second time, recovery included.
NeverUnmappedTwice == again = {}

\* The comment on the flag, "bottom-half has work pending": with an entry
\* queued and the bottom half out of its loop, pending is set.
WakeupNotLost == isr_nic = {} => ~Stranded
=============================================================================
