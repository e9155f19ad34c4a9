# A TLA+ development for the 3Com packet driver

This directory holds a formal model of the 3Com packet driver, its resident part
and its start: TLA+ modules translated from the source, TLC configurations that
check them on small instances, and theorems about them that TLAPS checks.
Paths such as `src/c/api.c` are relative to the repository.

- [The system](#the-system)
- [Inventory](#inventory)
- [Modules and the code](#modules-and-the-code)
- [Runs](#runs)
- [Bounds](#bounds)
- [Fairness](#fairness)
- [Proofs](#proofs)
- [What the runs found](#what-the-runs-found)
- [Claims the code does not keep](#claims-the-code-does-not-keep)
- [Other observations](#other-observations)
- [What is not modelled](#what-is-not-modelled)
- [Plan](#plan)

## The system

The driver is a DOS TSR for 3Com Ethernet cards, from the 3C509B (programmed
I/O) over the 3C515 (ISA bus master) to the PCI families (Vortex, Boomerang,
Cyclone, Tornado).  Applications reach it through INT 60h, the Packet Driver
interface; the cards reach it through hardware interrupts; DOS reaches it
through INT 28h, the idle call.  There is one CPU and no scheduler, so the
concurrency is that of interrupts and callbacks:

- an **API call** runs from its INT 60h to its return; INT clears the interrupt
  flag, so nothing of the driver runs in between unless the driver calls out;
- a **hardware interrupt** may come between any two steps of code that runs
  with interrupts enabled, and is not itself interrupted by the driver;
- the **card** proceeds by itself: it completes transfers and sets bits in
  descriptors in memory at any time;
- a **receive upcall** calls application code out of the middle of a loop over
  driver tables, and that code may call INT 60h again before it returns;
- the **bottom half** does what an interrupt handler may not (unmapping DMA
  memory through VDS, copying to XMS, calling protocol code); it runs from
  INT 28h and from API calls, and can be re-entered through an upcall.

Most of what is hard to test follows from these five: the order of two steps of
a handler and of the code it interrupted, tables that change under a loop, and
resources (DMA mappings, staging buffers, XMS buffers, queue slots) that have to
come back on every one of many paths.

## Inventory

For each part: its state, its operations, the parts it touches, and what makes
it correct.  `PROJECT.json` lists the same parts with their files and status.

| part | state | operations | interacts with | correct when |
| --- | --- | --- | --- | --- |
| handles (`api.c`) | `handles[]`, `extended_handles[]`, `next_handle`, readiness flags | install, activate, cleanup, access_type, release, terminate, setters | receive loop, send path | the two tables agree, also when ids repeat, settings are not inherited |
| reception to handles (`api.c`) | loop index, the RX buffer | `api_process_received_packet`, upcalls | handles, applications | each listener is called once, whatever receivers do |
| sending and NIC choice (`api.c`) | load-balancing state, utilization, error counts, quota windows | `pd_send_packet`, the selectors, failure handling | routing, hardware layer | a present NIC is chosen whatever is stale, quotas hold, the default route leaves a failed NIC |
| transmit completion (`3c515.c`, `pktops.c`, `dmamap.c`) | descriptor ring, completion queue, flags | send, interrupt, deferred work, overflow recovery | card, VDS | each mapping is released, and once |
| deferred reception (`pktops.c`, `bufaloc.c`) | staging freelist, SPSC queue, XMS map | handler, bottom half, start, cleanup | card, protocol layer, XMS | no buffer lost or shared, order kept |
| Boomerang rings (`3cboom.c`) | descriptor rings, current and dirty indices | start_xmit, rx, interrupt | card | indices and descriptors agree, a full ring drains, reception keeps its order and goes on |
| Vortex (`3cvortex.c`) | FIFO status | start_xmit, rx, interrupt | card | errors are cleared, nothing is left in the FIFO |
| lazy transmit interrupts (`txlazy.c`) | counters since the last request | should_interrupt, reclaim | rings | the last packet of a burst is always reported |
| interrupt mitigation (`irqmit.c`) | batch and rate state | begin/end of a batch | handlers | bounded latency |
| buffer pools (`bufaloc.c`, `bufauto.c`, `memory.c`) | freelists, tiers | alloc, free, resize | everyone | conservation |
| DMA mapping and bounce buffers (`dmamap.c`, `dmabnd.c`) | mappings, two bounce pools | map, unmap, remap, batches, start, shutdown | VDS, card, send and receive paths | no bounce buffer or lock lost or shared, the card and the client see the right frame |
| DMA policy (`dmapol.c`, `dmacap.c`, ...) | policy file | test, load, save | DMA mapping | the policy is the one tested |
| VDS (`vds.c`, `vds_core.c`, `vdsmgr.c`, `vdssafe.c`) | lock registry, bounce blocks, interrupt context | lock, share, upgrade, unlock | DMA mapping, interrupts | a held region stays locked, every lock is known, blocks are not shared |
| XMS (`xms_core.c`) | handles, lock counts | alloc, lock, free | buffer pools | lock counts balance |
| ARP (`arp.c`) | entries, hash chains, free list | learn, resolve, retry, age, flush | routing, cards | no entry lost, a lookup finds what was heard last |
| routing, bridging, failover (`routing.c`, `statrt.c`) | bridge table, default route, failover state and counters | learn, monitor, fail over, fail back, configure | send path, timer | traffic settles on a live NIC, without storms, and the bridge forgets the dead one |
| flow control (`flowctl.c`) | PAUSE timer | receive PAUSE, expire | send path | a pause ends |
| initialisation (`main.c`, `init.c`, `unwind.c`) | phase, saved vectors, what is up | phases, unwind, cleanup | everyone | a failure undoes what was done, in an order the hardware survives |
| residency (`tsrmgr.c`, `nicirq.asm`) | vectors, interrupt masks, cascade | bind, enable, unbind | DOS, interrupt controllers | vectors and masks restored, the card can interrupt |
| run-time image, patches (`jit_*.c`, `smc*.c`) | image layout, patch state | select, lay out, relocate, patch | resident code | patched code is never run half-way |
| PCI services (`pci*.c`) | shim state, chain | INT 1Ah, INT 2Fh | BIOS | requests answered or passed on |
| PCMCIA (`pcm*.c`) | socket states | insert, remove | hardware layer | events are not lost |
| hardware layer (`hardware.c`, `nic_init.c`) | NIC table | attach, send, recover | API, NIC code | table and cards agree |
| configuration, detection, logging | options, probes, counters | parse, probe, print | - | pure input and output |

How they interact: `pd_send_packet` (API) checks the quota, asks the selectors,
which ask routing and the hardware layer, and ends in the card's send routine
(3C515: `_3c515_send_packet`), which maps the buffer and fills a descriptor.  The
card's interrupt takes the mapping off the descriptor into the completion queue;
`packet_process_deferred_work` unmaps it.  On reception the interrupt copies the
packet into a staging buffer and queues it; the same deferred work dequeues it,
moves it to XMS or to conventional memory, and passes it to
`api_process_received_packet`, which calls every matching handle.

The hard behaviours, each at its line, are the `hazards` of `PROJECT.json`.

## Modules and the code

| module | models | lines of code it comes from |
| --- | --- | --- |
| `PacketApi` | handles, extended handles, receive loop with upcalls | `api.c` |
| `SendPath` | quota, NIC selection, setters, failure of a NIC, the bridge table it selects by | `api.c`, `routing.c`, `hardware.c` |
| `TxCompletion` | 3C515 send, interrupt, completion queue, recovery | `3c515.c`, `pktops.c`, `dmamap.c` |
| `RxFifo` | abstract: what deferred reception promises | - |
| `RxBottomHalf` | handler, SPSC queue, staging and XMS, nested bottom half | `pktops.c`, `bufaloc.c` |
| `BoomerangRing` | Boomerang/Cyclone/Tornado transmit, receive, interrupt over the rings | `3cboom.c` |
| `DmaMapping` | mapping layer, bounce pools, 3C515 reception on top | `dmamap.c`, `dmabnd.c`, `vds_core.c`, `3c515.c` |
| `VdsManager` | shared VDS locks and bounce blocks | `vdsmgr.c`, `vdssafe.c`, `vds_core.c` |
| `Failover` | failover monitor, default route, bridge table | `routing.c` |
| `Arp` | ARP cache, requests and retries | `arp.c` |
| `Startup` | boot, failure of any phase, unwinding, removal | `main.c`, `init.c`, `memory.c`, `unwind.c`, `tsrmgr.c`, `hardware.c`, `nicirq.asm` |
| `PacketApiProofs`, `SendPathProofs`, `TxCompletionProofs`, `RxBottomHalfProofs`, `FailoverProofs`, `DmaMappingProofs`, `VdsManagerProofs`, `StartupProofs` | theorems about the component each is named after; those about `BoomerangRing` are in `SendPathProofs`, those about `Arp` in `FailoverProofs` | - |
| `MC...` | instances for TLC | - |

Operators keep the names of the C functions; an operator that stands for a part
of a function is named for that part.  A few definitions are marked *Mutant of*:
each is a plausible bug, used to show that the property named in `PROJECT.json`
would notice it, and plays no part in the specifications.

### PacketApi

`handles` and `extended` are the two tables, slot by slot; `next_handle` counts
the handles given out and its value modulo `IdSpace` is the 16-bit identifier.
`PD_INVALID_HANDLE` is the last identifier, so the wrap-around meets it, as in the
code.  `phase` stands for the three readiness flags, which only change together.
Each API call is one action because INT 60h clears the interrupt flag.  The receive
loop is not one action: `rx_begin`, one `rx_skip` or `rx_upcall` per slot,
`rx_return`, `rx_end`; while `rx_pc = "upcall"` every API call is enabled, which
is the re-entrance of a receiver.  The five extended setters are alike for this
module (upgrade, then set a flag) and are one action with the flag as parameter;
`SendPath` has them one by one.  `asked`, `born`, `upcalls` and `stayed` are
history variables that the properties read and no guard does.  Identifiers repeat once
the counter has wrapped, so a delivery is told by `born`, the opening that put the handle
into its slot, and not by its identifier; `asked` is what was asked for an identifier since
it was last released.

### SendPath

Handles are open throughout.  `ext[h]` is the extended handle with the fields the
selectors read; `present` is what `routing_validate_nic` answers.  A choice is a
record of the NIC and of `last_nic_used` afterwards, because
`api_round_robin_select_nic` has that side effect.  What `routing_decide` answers
is an input (any NIC or none).  `priority` keeps its eight bits.  The failure
handler passes a NULL packet to the selector, as the code does.  A frame the NIC cannot
send ends the call before the utilization is updated, so both outcomes are allowed.

`flows` is the bridge table, which the flow-aware selection reads and teaches and others
change meanwhile: `routing_decide` learns source addresses (for a frame `route_packet`
forwards, and, as on NIC 0, when the selection asks it), a full table evicts, entries age,
are removed or flushed, and a failover of `routing.c` purges those of the NIC it leaves and
sets the default route.  Timestamps are not kept, so any entry may be the oldest; nor is the
switch `g_learning_enabled`, so any call of `bridge_learn_mac` may be refused.  Whether
routing is on is chosen at the beginning and stays.  `peak` and `failed` are history.

### TxCompletion

The foreground (`fg`) is interruptible between its steps, and the steps are the
places where an interrupt makes a difference: between the two halves of a send,
between the test for an empty queue and the store to `pending`, between the look at
a descriptor, its unmapping and its clearing in `packet_recover_tx_overflow`.  The
handler visits the ring in order, one descriptor per step, because the card may
complete a later descriptor while it runs; the foreground does not run meanwhile.
The card's completion of a transfer is the one external action.  A mapping is a
number; unmapping it twice, which in C would be a use of freed memory, is recorded
in `again`.  The watchdog marks any number of the oldest entries late: how many
depends on the clock.

### RxBottomHalf and RxFifo

The handler is one step, since it runs with interrupts disabled.  `frames` is the
stack of activations of `process_deferred_packets`, each with the staging buffer
and the XMS buffer it holds.  The failure of a copy or of an allocation is a
nondeterministic choice (`from_staging`, and the loss in
`packet_process_from_xms`).  Cleanup is split where the handler can come in
between.  The abstract queue `RxFifo` is implemented with `waiting` mapped to the
packet taken but not yet handed over followed by the contents of the queue,
oldest first.

### BoomerangRing

`cur_tx`, `dirty_tx` and `cur_rx` are the free-running 16-bit indices, with `Counter`
values each; a descriptor is found by the index modulo the ring size.  The card's two
list pointers `dn` and `up` are slots, and a value outside the ring stands for the
null pointer.  A send is three steps (fill, advance, look at the card) and the handler
one step per descriptor, because the card works on meanwhile; the handler's
acknowledgements are steps of their own, because they clear a bit the card may just
have set again.  A send is modelled as interruptible.  If every caller reaches it with
interrupts disabled the model has more behaviours than the program, and the properties
hold all the same; `TxCompletion` treats its sends likewise.

The card is external.  What is assumed of it: it follows the links of the
descriptors, marks each complete, stalls reception at a descriptor not yet reset, and
forgets both list pointers when it is reset, which is why `boomerang_init_dma` writes
them after a reset.  `boomerang_interrupt` resets the card after a host error and
does not write them; the model shows what follows, see the observations.

Reception implements `RxFifo` too, with `waiting` mapped to the frames stored in
consecutive descriptors from `cur_rx` on.  A frame with an error and one for which no
packet could be allocated are losses of the abstract queue.

### DmaMapping

A mapping is set up in steps (`create_mapping`, the safety check, the VDS lock, the bounce
buffer after it, the end, and for a sender that names its device the check of its
constraints), because the interrupt that completes an earlier frame unmaps it in between;
the unmapping is one step.  Of a buffer's address only the findings of
`dma_check_buffer_safety` are kept, as the constant `Flaws`; of memory, which frame it
holds.  A pool buffer is a triple of pool, index and the start that allocated it, so that
a buffer of a pool that has been shut down is not confused with one of its successor.
Whether VDS grants a lock with an address the bus can reach, whether it gives a lock up,
whether a bounce buffer passes its second check, and whether a device accepts an address, is
left open.  A receive mapping may ask for `DMA_MAP_READ`, which makes it take a transmit
buffer.  `lost` and `refused` are history: the buffers that stay marked in use without a
mapping, and the locks VDS kept when it was asked to undo them.  `needs_bounce_for_alignment` is a stub that answers no.

### VdsManager

`registry` is the table, entry by entry; an id is found by a search from the front, as in
the code, which matters because a freed entry keeps no id and a failed one does.  `held`,
`region_of` and `blocks_of` say what clients believe; no guard reads them except the bound
`MaxRefs` and that a client unlocks what it holds.  `isr` is the interrupt context of
`vdssafe.c`.  VDS is the set of locks it has, each a buffer id with its region: the id is 0 or
one that no other lock has, an unlock names the id alone, and VDS may refuse it.  For id 0
`vds_unlock_safe` does not ask VDS at all.  Where there is no VDS (`present`) every handle is
0xFFFF and nothing is locked.  `next_id` is the 16-bit counter, which passes `Invalid` and
wraps: a client that is given `Invalid` takes its lock for failed, and `recycled` records that
an id was given out while an entry in use had it.  `vds_manager_cleanup` ignores what VDS
answers; `refused` records the locks that stay.  A call of the manager is one step, see the
observations for the window inside `vds_manager_unlock`.

### Failover

Times are ages: how long ago a timestamp was taken, cut off at `AgeCap`, no less than any threshold,
above which no comparison can tell them apart.  One call of `routing_monitor_failover` is
one step, in one of its branches, except that `perform_failover` is two: the switch, and
the purge of the bridge table, because frames arrive and are learned between them.  The
loss counts keep their eight bits as `CountSpan`.  `routing_set_failover_thresholds` stores any subset of
the fields, since 0 means no change.  `own`, `stale`, `storm_floor` and
`down_age` are history.

### Arp

The chains of the hash table are sequences, the front first; the free list is a set,
because no property depends on which free entry is taken.  Every reading of the clock adds
one, since `arp_get_timestamp` is a counter of its own calls; ages are cut off above the
time-outs.  `sent` is whether the card took the request.  `heard` is history: the station
last heard for an address.  `arp_send_request` sends before it links its entry
(`arp.c:541-559`); the two are one step, so a reply handled between them is outside the model.

### Startup

A step is a phase of the boot, or a row of `unwind_table`.  The machine is the vector
table, the masks of both interrupt controllers (as one set of lines), whether the cards
run, and whether the memory system is up.  A handler is a segment and the low byte of its
offset: `irq_handler_init` takes that byte for the vector's number, because the DOS call
that reads the old vector returns it in the register that held the number.  Every phase
whose code can return an error may fail.  The rows of the phases after `API_HOOKS` never
run, because nothing after them can fail.

## Runs

| run | shows |
| --- | --- |
| `packet_api` | The identifier counter wraps, gives out `PD_INVALID_HANDLE` and identifiers still in use; all the same the tables agree (`ExtendedBacked`), no handle has a setting nobody asked for since its identifier was last released (`SettingsAreOwn`), an upgrade always finds room (`UpgradeHasRoom`), each handle that listens throughout is called exactly once per frame although receivers open and release handles inside the loop (`EveryListenerOnce`), and the loop ends (`ReceiveEnds`). |
| `send_path` | As long as a NIC is present, selection yields a present one in the modes configured and with any stale preference, configuration or flow (`SentOnPresentNic`, in `SelectionInv`), however the bridge table is taught, evicted, aged and purged meanwhile; within a window no more is charged than the largest limit of that window (`QuotaKept`); the default route leaves a failed NIC and stays off it until a NIC comes or goes or a failover of `routing.c` sets it (`DefaultRouteMoved`). |
| `tx_completion` | Without laps and overflows a mapping has exactly one owner until it is unmapped (`OneOwner`, in `OwnershipInv`); it is unmapped at most once as long as the queue does not overflow, laps or not (`UnmappedOnce`); a queued mapping only leaves the queue by being unmapped, in all circumstances (`QueuedUntilUnmapped`); every mapping is released in the end, except behind a lap, an overflow or a lost wake-up (`EveryMappingReleased`).  The exceptions are the findings below. |
| `rx_bottom_half` | Staging and XMS buffers are conserved on every path and at every nesting (`StagingConserved` and `XmsConserved`, the parts of `BufferInv`), no packet is overwritten while it is processed in place (`HeldIsIntact`), the whole implements `RxFifo` (`DeliversInOrder`), and packets the time limit leaves behind are served later (`WaitingIsServed`). |
| `boomerang` | The indices and the descriptors agree across the wrap of the indices and through host errors, so the driver never overwrites a descriptor in flight (`RingAgrees`, in `RingInv`); frames leave in the order they were sent until a host error (`WireInOrder`); a full ring gets room again although an acknowledgement may wipe out the report of a completion (`FullDrains`); reception implements `RxFifo` through errors, failed allocations, stalls and resets (`ReceivesInOrder`). |
| `failover` | As long as nobody else sets it, the default route is on the active NIC and drops frames exactly in degraded mode (`RouteFollowsActive`, in `RouteInv`); a finished failover leaves no address on the NIC it left (`FailoverForgets`); two failovers are never closer than the storm time, whatever is reconfigured in between (`StormSpacing`); when one link stays up and the other down, the monitor ends on the one that is up (`SettlesOnLiveLink`). |
| `dma_mapping` | `ResourceInv` has two parts: through failed mappings, remapping, batches and restarts with live mappings a bounce buffer in use is held by one mapping, or is one of those the code loses and comes to no other (`BounceConserved`), and every lock VDS has belongs to a mapping that will undo it or was refused to be undone (`LocksOwned`); the card fetches the frame that was mapped (`DeviceSeesFrame`, which says nothing of a receive mapping with a bounce buffer before it is unmapped); a frame stored in a bounce buffer is in the client's buffer when the mapping is gone (`ReceivedOnUnmap`). |
| `vds_manager` | A region a client holds is locked, whatever other clients of the region do, until the counter comes round to an id in use (`GrantedStaysLocked`); `RegistryInv` has three parts: counts are the references held, until then (`RefsAreHeld`), each entry stands for a lock of its own and VDS has no other but those with buffer id 0 and those refused at a cleanup (`LocksAreKnown`), no unreferenced lock lingers unless it is persistent (`NothingStale`); the bounce blocks of a lock in force are neither freed by another's failure nor shared (`BounceKept`). |
| `startup` | From every state of vectors and masks and with a failure at every phase: the masks are as before when it is over (`MasksRestored`), no vector leads into the driver after a failed boot (`NoHandlerLeft`, in `HandlerInv`), a resident driver can be interrupted by its card (`Deliverable`), memory goes down after the cards unless it is the hardware phase that failed (`MemoryOutlivesCard`). |
| `arp` | Every entry is free or linked in one bucket, and counted (`EntriesAccounted`, in `CacheInv`); an address has at most one answered entry, it is the one a lookup meets first, and it holds the station last heard (`LastHeardIsFound`); a full pool evicts only what has timed out (`FreshIsKept`). |
| `rx_dangling`, `unwind` | A claim of the repository the code does not keep; see below. |

Each module has one type invariant, `TypeOK` (`RingTypeOK`, `ArpTypeOK`), checked in its passing run: by itself in
`packet_api`, and in the others as the first part of the invariant named `...Inv`.

Deadlock is checked in the runs of `TxCompletion`, `RxBottomHalf`, `SendPath` and
`BoomerangRing`; in the last it says little, since a refused send is a step too.
`Failover`, `DmaMapping`, `VdsManager` and `Arp` check it too.  `PacketApi` turns it off: after
`api_cleanup` the driver is gone and may stop; so does `Startup`, whose boot ends.

## Bounds

- `packet_api`: two slots in each table, three identifiers, four opens, one frame.
  Two slots are the least in which one receiver can disturb the slot the loop has
  passed and the slot it has still to reach.  Four opens with three identifiers reuse a
  slot, give out the identifier that marks a free slot, and repeat one still in use.
- `send_path`: one handle, two NICs, two interchangeable destinations (symmetry) and a
  bridge table of one entry, so that it overflows; the largest frame, a limit
  that admits one frame and not two, one whole window of time, priority 0 and QoS class 7
  (which wraps to 0), and load balancing by application and by flow, with the
  modes they fall back on, and round robin; the weighted mode is left to the theorem.  With two NICs a NIC can be absent, be the only one, or be the
  wrong one.
- `tx_completion`: one card with a ring of two, a queue of four (three usable)
  and batches of two, five mappings: the ring can be lapped, the queue can wrap and
  can overflow, a batch can be exhausted with entries left.  The violations use the
  smallest instance that shows them.
- `rx_bottom_half`: four staging buffers and a queue of four (three usable), so
  that either can run out first; two XMS buffers and two nested activations, so
  that both can hold one; four packets, so that the queue wraps.
- `boomerang`: rings of two descriptors, indices of four values, five sends and three
  arrivals: the transmit indices wrap, and both rings can be full, empty and in between
  at every phase of the indices.  One host error.

- `failover`: two NICs, one address, thresholds of one to three ticks in two settings (any
  mixture of which can be set), loss counts of six values so that they wrap past the
  threshold, one reconfiguration.
- `dma_mapping`: a clean buffer and one that crosses 64 KiB (one with another flaw would only
  fail its check, which any buffer may); one bounce buffer of each kind, so that the pools run
  out; two mappings, two starts, two frames, and one refused unlock of each buffer.  Mappings
  are interchangeable, and so are frames (symmetry).
- `vds_manager`: two regions of one block each, three entries, a pool of two blocks,
  upgrade after two uses, two references to a lock, three ids of which the last is the
  invalid one, two buffer ids of VDS beside 0, and the policies transient and auto (from
  which persistent is reached).  Nothing bounds the number of locks: the counter passes the
  invalid id and wraps for ever.  Regions and buffer ids are interchangeable (symmetry).
- `startup`: a line of each controller, IRQ 2 as an alias of IRQ 9, one software vector,
  all masks and old handlers.
- `arp`: three addresses, two of them in one bucket, three entries, two interchangeable
  stations (symmetry), time-outs of one and three readings, two retries.

`MaxOpens`, `MaxPackets`, `MaxMaps`, `MaxSends`, `MaxArrivals`, `MaxTime`, `MaxFailures`,
`MaxDepth`, `MaxConfigs`, `MaxRefs`, `MaxRefused` and `Starts` only
cut behaviours short; no property reads them except as a bound of a type.

## Fairness

Only `FairSpec`, and the `Spec` of `Failover`, have any.  In `PacketApi`: the steps of the receive loop itself and
the return of a receiver; nothing makes applications call.  A receiver that never
returns hangs a DOS machine, so its return is what the code relies on.  In
`TxCompletion`: the foreground carries on (when no handler runs, it is the only
thing that can), interrupts are served, the card completes a transfer it was
given.  Deferred work is called again and again because DOS issues INT 28h while
it waits for input.  In `RxBottomHalf` the same, and nothing makes packets arrive
or cleanup begin.  In `BoomerangRing` a raised interrupt is served to its end, a send
that has begun goes on, and the card sends what it is given; nothing makes frames
arrive.  In `Failover` time passes, and the monitor is called again and again, as the
comment on `routing_monitor_failover` asks of its caller; links are free to change for
ever, and the property speaks of those that stop.  All of it is weak fairness.

## Proofs

Each `...Proofs` module extends its component and proves, with TLAPS, what the run of that
component checks on a small instance, for every value of the constants that satisfies the
`ASSUME`s of the component (TLC evaluates those on every run).  Two components are proved
about in the module of the one that uses them, which extends both: the rings beside the send
path that fills them, the ARP cache beside routing, which asks it for stations.  Their
specifications are called `RingSpec` and `ArpSpec`, so that the names do not meet.  Each
proof has the same shape: an inductive invariant, one step or lemma per action, and theorems
that follow from it.  The invariants were checked with TLC before they were proved.

| module | theorem | states |
|---|---|---|
| `PacketApiProofs` | `TypeCorrect`, `TablesTogether`, `RoomForUpgrade` | `TypeOK`, `ExtendedBacked`, `UpgradeHasRoom` |
| | `SettingsNotInherited`, `ListenersCalledOnce` | `SettingsAreOwn`, `EveryListenerOnce` |
| `SendPathProofs` | `SelectionIsPresent`, `QuotaIsKept`, `RouteIsMoved` | `SelectionInv`, `QuotaKept`, `DefaultRouteMoved` |
| | `RingInvariant`, `WireKeepsOrder`, `RingReceivesInOrder` | `RingInv`, `WireInOrder`, `ReceivesInOrder` of `BoomerangRing` |
| `TxCompletionProofs` | `OwnedUntilUnmapped`, `UnmappedAtMostOnce`, `QueueLosesNothing` | `OwnershipInv`, `UnmappedOnce`, `QueuedUntilUnmapped` |
| `RxBottomHalfProofs` | `HeldStaysIntact`, `DeliveryRefines` | `HeldIsIntact`, `DeliversInOrder` |
| | `BuffersConserved` (if `XmsCount < MapBits`) | `BufferInv` |
| `FailoverProofs` | `RouteIsActive`, `FailoverHasForgotten`, `StormIsPrevented` | `RouteInv`, `FailoverForgets`, `StormSpacing` |
| | `CacheInvariant`, `LookupFindsLastHeard`, `FreshStaysKnown` | `CacheInv`, `LastHeardIsFound`, `FreshIsKept` of `Arp` |
| `DmaMappingProofs` | `ResourcesReturned`, `FrameIsSeen`, `ReceivedIsKept` | `ResourceInv`, `DeviceSeesFrame`, `ReceivedOnUnmap` |
| `VdsManagerProofs` | `LockedWhileHeld`, `RegistryIsSound`, `BounceIsKept` | `GrantedStaysLocked`, `RegistryInv`, `BounceKept` |
| `StartupProofs` | `MasksComeBack`, `HandlersRemoved`, `ResidentIsInterruptible`, `MemoryOutlives` | `MasksRestored`, `HandlerInv`, `Deliverable`, `MemoryOutlivesCard` |

`SendInvariant`, `TxInvariant`, `RxInvariant`, `FailoverInvariant`, `DmaInvariant`,
`VdsInvariant` and `BootInvariant` state the inductive invariants themselves.

**Handles.**  The constants satisfy `SizeAssumption` and `TypesAssumption` (at least as many
extended slots as slots, more than two identifiers); nothing is assumed of the number of
opens, so every theorem covers a counter that wraps.  The tables agree however often the
identifiers repeat, because release and upgrade search both tables for the same identifier.
`UpgradeHasRoom` follows by counting: were all
extended slots taken, each would belong to a basic slot other than the one that asks, and two
of them to the same one (`FS_PigeonHole`).
`ExtendedBacked` is inductive with `TypeOK`.  `SettingsAreOwn` needs the part of it that says no
identifier has two extended handles: a release clears the first it finds and with it what was
asked, and a second one would keep its settings.  `EveryListenerOnce` speaks of
the end of the loop only; `DeliveryInv`
says it of every moment: an opening that was called is not in the part of the table still
ahead, and one that must be called has been, or is ahead and still listening.  What makes it
inductive is that no call moves a handle to another slot, and `BornInv`: an opening is in one
slot only and is older than the counter, so a handle opened inside an upcall was never called.

**Sending.**  `QuotaKept` is about limited handles; the invariant says it of every extended
handle, and that the limit is below the window's peak, since a limit may be set in the middle
of a window.  `SelectionInv` is not about history at all: the fallbacks of
the selection make up for whatever is stale, any entry of the bridge table included, which is
a lemma about the operators (`SelectionFinds`).

**Descriptor rings.**  The proofs look at a ring from its oldest descriptor: `View(n, t, d)` is
the ring `t` turned so that slot `d % n` comes first.  Filling, completing and reclaiming a
descriptor are then a change at one place of the view (`Put`) or a turn by one (`Turn`), and the
wrap of the index is dealt with once, in `IndexWraps`: it is harmless because the size divides
the range of the index, which is what the "power of 2" in `3com_pci.h` is for.  `RingInv` with
its types is inductive.  `WireInOrder` is not: `OrderInv` adds that of the descriptors in use a
first part is complete and the rest filled, that they carry consecutive frames, and that the
card's list pointer is at the boundary.  It ends with the first host error, after which the list
pointers are not restored.  The refinement of `RxFifo` needs `RxInv`: the stored frames form one
run that starts at `cur_rx`, and the card, as long as it has a list, stores right behind it.

**ARP.**  The chains are seen through two relations, being on a chain (`On`) and coming before
another entry on it (`Before`).  Removal keeps both for what stays (`UnlinkedChain`), which is
why `Unlinked` is defined by the rank of an entry and not by recursion: ranks grow, so they are
distinct, so by counting every place of the shorter chain is one (`FS_PigeonHole`).  A new entry
goes to the head of its chain (`LinkedChain`).  `ArpInv` says that an entry is free when no
chain holds it, that it is else on the chain of its address, that `Before` is never both ways,
and that a complete entry comes before every other entry of its address.  The last is what makes
`LastHeardIsFound` inductive although retries pile up duplicates: a request is only sent for an
address without a complete entry, and learning completes the entry a lookup finds.  It also
gives `FreshIsKept`: what is not freed is still found.

**Transmit completion.**  `OneOwner` counts; the invariant speaks of places: while nothing has
overflowed, no mapping is in two of them (`Apart`) nor in one after it was unmapped (`Fresh`),
even when a send has lapped the ring; and while no send has lapped either, a mapping that is
not unmapped is in some place (`Kept`).  `QueuedUntilUnmapped` needs none of these
restrictions.

**Deferred reception.**  Every staging buffer is in exactly one of the freelist, the queue and
the stack of activations (`Placed`), all activations but the innermost are in an upcall, and a
held buffer still has its packet.  Lemmas about the circular queue say what adding and taking
do to the sequence of queued buffers.  `BufferInv` also speaks of XMS buffers and holds if the
pool is narrower than its bit map: `1UL << 32` is undefined, and a free map that starts empty
breaks it.  `DeliveryRefines` is the refinement of `RxFifo`: the waiting packets are the one in
the hand of the innermost activation followed by those in the queue; a packet that is staged
is an `Accept`, one that is not a `Refuse`, handing a packet over is `Deliver`, a copy that
fails `Lose`, the beginning of cleanup `Flush`, and everything else (taking a packet, nesting,
returning a buffer, the time limit, the steps of cleanup) leaves that sequence as it was.

**Failover.**  The ages of `Failover` count up to `AgeCap`, and no threshold exceeds it.  The
invariant adds that what is marked stale still names the NIC being left, and that storm
prevention is off only when the last failover is long enough ago.

**DMA mapping.**  A mapping that is being set up owns its buffer and its lock like one that is
live; the invariant follows it through the steps of the sender, says that no two owners share
an address, and that a buffer in use has an owner or was lost, over restarts of the pools.
`LostInv` says that what was lost stays marked in use and is nobody's, so a loss costs the pool
a buffer and never hands one out twice.
`ApartAssumption` says that no record is `None` and that clients do not map the pools' memory.

**VDS.**  `BounceKept` rests on `Prefix`: the allocated blocks are always the first of the pool,
because an unlock gives no blocks back, so the run that a failed lock frees is the last one and
freeing "until we hit unallocated" stops where it should.  The registry's invariant describes an
entry whose unlock VDS refused, which has lost its count and not its client.  What it says of
buffer ids holds throughout: an id other than 0 stands for one lock, and for one entry or for a
refusal at a cleanup.  What it says of clients (`GrantedStaysLocked`, `RefsAreHeld`) holds while
no id has been given out a second time with its entry still in use; `recycled` records that, and
is not an assumption on the constants, so the theorems cover counters that pass the invalid id
and wrap.

**Startup.**  The invariant says, for each point of the boot and of the unwinding, what the
handler remembers of the masks and vectors it found and how the machine differs from what it
was before.

Only model-checked:

- everything temporal (`ReceiveEnds`, `EveryMappingReleased`, `WaitingIsServed`, `FullDrains`,
  `SettlesOnLiveLink`), which rests on fairness and is outside what the proof system handles.

Every invariant, action property and refinement that a passing run checks is also a theorem.

## What the runs found

Two runs end in a violation of what the repository states.

1. **Cleanup leaves a window** (`rx_dangling`, `pktops.c:1284`).  `bottom_half_active`
   is cleared after the staging memory is freed, and the freelist still points to it.
2. **A failed boot does not restore the system** (`unwind`, `unwind.c:130`).  "Unwind
   complete - system restored" (`unwind.c:398`) is printed although vectors come back with
   offset 0, of which only segments were saved, and although a failure inside
   `hardware_init_all` leaves the cards running: its phase is marked only when all of it
   succeeded, so `unwind_hardware` is not called.  `MasksRestored`, `NoHandlerLeft` and
   `MemoryOutlivesCard` say what is restored all the same.

## Claims the code does not keep

The modules state more such claims.  No run is kept for them; adding the property to the
configuration of its module's run makes TLC print the behaviour (for `UnsafeIsBounced` with a
buffer that is not aligned besides).

| property | what the repository says | what the code does |
| --- | --- | --- |
| `PacketApi!UniqueIds` | "Unique handle identifier" (`docs/api/API_REFERENCE.md:485`) | `next_handle++` does not look at the table (`api.c:433`): after 65536 opens two open handles share an identifier. |
| `SendPath!HandlesSwitched` | "Switch to alternate NIC" (`api.c:1816`) | `api_handle_nic_failure` passes the selector a NULL packet, which it refuses: a failed NIC keeps its handles. |
| `TxCompletion!FreeDescriptorTaken` | "Check if descriptor is free" (`3c515.c:1265`) | Only a completed descriptor is refused; one in flight is taken and its mapping overwritten. |
| `TxCompletion!OverflowRecovered` | "Overflow recovery will handle it" (`3c515.c:1442`) | The handler clears the status recovery looks for, so the mapping that did not fit the queue is never found. |
| `TxCompletion!NeverUnmappedTwice` | "mapping now owned by queue" (`3c515.c:1439`) | An interrupt between the unmapping and the clearing of an orphan queues the freed mapping. |
| `TxCompletion!WakeupNotLost` | "bottom-half has work pending" (`pktops.c:255`) | An interrupt between the test for an empty queue and `pending = false`, on the last entry of a full batch, leaves an entry with `pending` clear. |
| `BoomerangRing!RestartsIfStalled` | "Restart RX if stalled" (`3cboom.c:392`) | A stalled card is restarted only if the pass received a packet; a pass over nothing but errors leaves it stalled for good. |
| `Failover!FailbackDelayed` | "Wait before failing back to primary" (`routing.c:1542`) | A switch resets the loss counts, so a primary that comes back is not tracked as new, and failback is due at once. |
| `DmaMapping!ReceiveIntact` | "Buffer to store received packet" (`3c515.c:1334`) | The buffer is mapped after the card has stored the frame: with a bounce buffer the caller gets that buffer's old contents. |
| `DmaMapping!UnsafeIsBounced` | "Determine if bounce buffer needed" (`dmamap.c:192`) | `dma_check_buffer_safety` reports a buffer in need of a bounce buffer as unsafe, and the mapping is refused before the question is asked. |
| `Arp!RetriesCount` | "Should timeout after max retries" (`tests/unit/test_arp.c:583`) | Each retry puts a second entry with a count of 1 in front, so the count never reaches its limit. |

## Other observations

Met while modelling; they are in the models where they concern modelled state, and no
run is spent on them.

- A receiver that releases its handle and opens another, which takes the same slot, has
  the packet counted for the new handle: the loop credits `handles[i]` (`api.c:975`).
- After a host error `boomerang_interrupt` resets and enables both engines and leaves the
  list pointers as the reset left them (`3cboom.c:469`): the next send restarts
  transmission at its own descriptor, past the ones in flight, a full ring never gets
  room again, and reception has no list.  `WireInOrder` and `FullDrains` except it.
- The acknowledgement of a receive interrupt may wipe out the report of a frame stored
  after the scan (`3cboom.c:460`); the frame waits for the next one.
- `unwind_execute` runs the undo function of every phase up to the current one, whether
  that phase was entered or skipped (`unwind.c:376`).
- `next_handle` wraps without a look at the table (`api.c:433`): after 65536 opens two
  open handles can share an identifier, and one can get `PD_INVALID_HANDLE`.
- `api_select_optimal_nic` asks `routing_decide` with source NIC 0, which then learns the
  sender's own address as being there (`routing.c:443`).
- `pd_validate_handle` accepts `PD_INVALID_HANDLE` while a slot is free (`api.c:905`).
- `pd_access_type` takes the function number as `uint8_t` while the extended function
  constants need more (`api.c:284`).
- A handle with no preference leaves by round robin, not by its own interface, once it
  has an extended handle (`api.c:562`).
- QoS class 7 becomes priority 0: `(7 + 1) * 32` in a `uint8_t` (`api.c:1477`).
- The "every second" of the quota is 1000 BIOS ticks, 55 seconds (`api.c:1769`).
- Round robin restarts at NIC 0 when the NIC whose turn it is is absent, so a NIC
  behind an absent one may get no turn (`api.c:1907`).
- Weighted selection divides by the sum of two weights nobody checked (`api.c:1921`).
- An XMS pool of 32 buffers shifts a 32-bit one by 32 (`bufaloc.c:1197`).
- `pd_send_packet` frees its buffer as soon as the card was told to fetch it
  (`api.c:590`).
- `packet_recover_tx_overflow` reads `private_data` as another structure than the one
  stored there (`pktops.c:600`).
- `vds_queue_deferred_unlock` has no caller, and scatter-gather is stubbed.
- DMA: a receive mapping with `DMA_MAP_READ` takes a transmit bounce buffer and returns it
  to the receive pool, which does not know it (`dmamap.c:201`, `:439`), though no caller in
  the tree passes that flag with a receive buffer; a bounce buffer that fails its second
  check is not released (`dmamap.c:309-312`); the result of an unlock is ignored
  (`dmamap.c:380`, `:444`), so a lock VDS refuses to undo is nobody's; the page lock of
  `dma_check_buffer_safety` is dead code, since memory that is not conventional needs a bounce
  buffer anyway (`dmabnd.c:151-155`); the receive pool is not checked for
  64 KiB crossings; `dma_validate_buffer_constraints` is a stub; a failed mapping in
  `_3c515_receive_packet` resets the descriptor and does not move on (`3c515.c:1370`).
- VDS: a lock with buffer id 0 is never undone (`vdssafe.c:503`); `vds_manager_cleanup` ignores
  refusals (`vdsmgr.c:85`) and leaves fields of the lock record it passes uninitialised; a lock
  that is given 0xFFFF as its id stays in the registry with nobody to unlock it
  (`vdsmgr.c:173`); the generation counters are kept and never compared; between the decrement
  of a count and the end of the unlock (`vdsmgr.c:241-280`) an interrupt's lock call can still
  hit the entry, which the model, where a call is one step, leaves out (no code in the tree
  calls `vds_manager_lock`).
- VDS: `vds_manager_unlock` builds a fresh lock record, so the bounce blocks of a lock are
  never returned; lazy locks are released at once; an existing lock is shared whatever the
  new constraints; `vds_manager_unlock` does not look whether it is in an interrupt;
  `vds_free_bounce_buffer` frees the allocated blocks behind its own, which first-fit
  makes harmless where it is called (`BounceKept`).
- Failover: only the primary's up-time is tracked; recovery from degraded mode does not wait
  and does not purge; `routing_configure_failover` leaves the default route alone; the
  entries a purge removes are not freed.
- ARP: hearing from a station with a permanent entry makes the entry dynamic; only a full
  pool is ever aged, and `arp_resolve` does not look at the age, although
  `docs/IMPLEMENTED_FEATURES.md:156` speaks of a five-minute time-out; time-outs in
  milliseconds are compared with a counter of calls; `arp_send_reply` swaps the two
  protocol addresses; `arp_is_local_ip` is true for any address of a configured subnet.
- Startup: the vector number is lost in `irq_handler_init` (`nicirq.asm:1980`), so the
  handler is installed at the vector named by the low byte of the old handler's offset;
  ELCR is not restored when enabling fails; the 3C509B enables its interrupts before a
  handler is bound; `api_cleanup` leaves `api_ready` set; the lock of `memory_init_dma` is
  never released; `driver_init` has no caller among the C sources (`main` goes through the
  assembly entry point).
- XMS: `xms_allocate` keeps AX, the success flag, as the handle; `xms_unlock` marks a
  block unlocked while its count is above 0; `memory_free` sends every DMA-capable block
  to XMS, where it is not found.

## What is not modelled

Contents of packets, lengths beyond what a property tells apart, checksums, formatting
and logging; port I/O and the timing of the hardware; the assembly of the resident
handlers, whose effect on the modelled state is that of the C functions they call.  The
repository also holds reference drivers, demonstrations, loadable-module prototypes, tests
and tools, which are not part of the driver that is built.  The parts of the inventory without a
module are listed in `PROJECT.json` with the reason.  Three have been looked at and left:

- the tiered allocator of `memory.c` and the XMS services: which memory an allocation comes
  from depends on the memory model of the build, extended memory is addressed through
  real-mode pointers, and the XMS handle kept is not a handle; there is no behaviour of
  the program as built to be faithful to;
- the advanced rings and the batched handler of the 3C515, which the driver does not reach;
- detection, configuration and diagnostics, which read and print.

## Plan

1. done: `PacketApi`, `SendPath`, `TxCompletion`, `RxBottomHalf`, `BoomerangRing` (the last
   two refining `RxFifo`), `DmaMapping`, `VdsManager`, `Failover`, `Arp`, `Startup`;
   and the proofs.
2. Theorems: done for all ten components, see Proofs.
3. `LazyTx`: the interrupt requests of `txlazy.c`; liveness: a burst's last packet is reported.
4. `BufferPools`: the pools of `bufaloc.c`, with `pd_send_packet` as a user.
5. `FlowControl`, `IrqMitigation`, `StaticRoutes`, `PciMux`, `SmcSerialization`, `Pcmcia`.
