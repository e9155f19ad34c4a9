------------------------------ MODULE DmaMapping ------------------------------
(***************************************************************************)
(* The DMA mapping layer (src/c/dmamap.c), the two pools of bounce buffers *)
(* under it (src/c/dmabnd.c), and the VDS lock it takes for a direct       *)
(* mapping (vds_lock_region_mapped of src/c/vds_core.c).                   *)
(*                                                                         *)
(* A sender maps its buffer in steps, because the interrupt that completes *)
(* an earlier frame unmaps in between; an interrupt runs to its end.  An   *)
(* address is a client's buffer or a pool buffer; of an address only what  *)
(* dma_check_buffer_safety finds out about it is kept, of the memory       *)
(* there only which frame it holds.                                        *)
(*                                                                         *)
(* Shutting the layer down frees the tables of the pools, not the buffers  *)
(* in them; a later start allocates others.                                *)
(***************************************************************************)
EXTENDS Naturals, FiniteSets

CONSTANTS
    Buffers,     \* buffers of the clients
    Flaws,       \* Buffers -> what dma_check_buffer_safety finds: a subset of
                 \* {"region", "high", "misaligned", "split", "crosses"}
    TxPool,      \* DMA_TX_POOL_SIZE
    RxPool,      \* DMA_RX_POOL_SIZE
    Starts,      \* bound: successful starts of the layer
    MaxRefused,  \* bound: unlocks of one buffer that VDS refuses
    MapIds,      \* mappings that can be live at once
    Frames,      \* contents of a buffer
    None         \* no mapping

ASSUME DmaAssumption ==
    /\ Flaws \in [Buffers -> SUBSET {"region", "high", "misaligned", "split", "crosses"}]
    /\ TxPool \in Nat /\ RxPool \in Nat /\ Starts \in Nat /\ MaxRefused \in Nat
    /\ MapIds # {} /\ Frames # {}

Dirs == {"tx", "rx"}

\* Pool buffers: the pool, the index, and the start that allocated it.
PoolSize == [d \in Dirs |-> IF d = "tx" THEN TxPool ELSE RxPool]
Slots == {s \in Dirs \X (1 .. TxPool + RxPool) \X (1 .. Starts) : s[2] <= PoolSize[s[1]]}
Addresses == Buffers \cup Slots

VARIABLES
    ready,       \* g_bounce_pools_initialized
    start,       \* successful starts so far: which buffers the pools hold
    in_use,      \* the pool buffers marked in use
    free_count,  \* per pool
    policy,      \* platform_get_dma_policy() = DMA_POLICY_COMMONBUF
    maps,        \* mapping id -> record, or None
    job,         \* the mapping a sender is setting up, or None
    batch,       \* mapping ids in a dma_mapping_batch_t
    mem,         \* contents of every address
    locks,       \* the locks VDS has on every buffer (external)
    \* history
    lost,        \* pool buffers in use that no mapping holds any more
    refused      \* the locks on every buffer that VDS did not give up

poolVars == <<ready, start, in_use, free_count, lost>>
vdsVars == <<locks, refused>>
vars == <<poolVars, policy, maps, job, batch, mem, vdsVars>>

Mapping ==
    [buf : Buffers, dir : Dirs, addr : Addresses, bounce : {"yes", "no"},
     vds : {"yes", "no"}, frame : Frames]

Jobs ==
    [id : MapIds, buf : Buffers, dir : Dirs, pool : Dirs, addr : Addresses,
     bounce : {"yes", "no"}, vds : {"yes", "no"}, frame : Frames,
     at : {"check", "lock", "fallback", "finish", "validate", "revalidate"},
     force : {"no", "yes", "again"}, zerocopy : {"yes", "no"}, device : {"yes", "no"}]

\* NULL is no mapping, and the pools are not carved out of a client's buffer.
ASSUME ApartAssumption ==
    /\ None \notin Mapping \cup Jobs
    /\ Buffers \cap Slots = {}

Init ==
    /\ ready = FALSE /\ start = 0
    /\ in_use = {} /\ free_count = [d \in Dirs |-> 0] /\ lost = {}
    /\ policy \in BOOLEAN
    /\ maps = [m \in MapIds |-> None] /\ job = None /\ batch = {}
    /\ \E f \in Frames : mem = [a \in Addresses |-> f]
    /\ locks = [b \in Buffers |-> 0] /\ refused = [b \in Buffers |-> 0]

Live == {m \in MapIds : maps[m] # None}

-----------------------------------------------------------------------------
(* The pools.                                                              *)

Pool(d) == {s \in Slots : s[1] = d /\ s[3] = start}

\* dma_init_bounce_pools: a buffer that fails its checks ends the start, and
\* the pools stay closed.
dma_mapping_init ==
    /\ job = None /\ ~ready /\ start < Starts
    /\ \/ /\ ready' = TRUE /\ start' = start + 1
          /\ in_use' = {} /\ free_count' = PoolSize /\ lost' = {}
       \/ UNCHANGED poolVars
    /\ UNCHANGED <<policy, maps, job, batch, mem, vdsVars>>

\* "Shutdown with %u active mappings" is a warning.
dma_mapping_shutdown ==
    /\ job = None /\ ready
    /\ ready' = FALSE
    /\ in_use' = {} /\ free_count' = [d \in Dirs |-> 0] /\ lost' = {}
    /\ UNCHANGED <<start, policy, maps, job, batch, mem, vdsVars>>

\* The first buffer that is not in use; the search and the mark are one
\* critical section.
Free(d) == IF ready THEN Pool(d) \ in_use ELSE {}
First(S) == CHOOSE s \in S : \A t \in S : s[2] <= t[2]

Take(d) ==
    /\ in_use' = in_use \cup {First(Free(d))}
    /\ free_count' = [free_count EXCEPT ![d] = @ - 1]

\* Mutant of the next definition: counted although it is not of this pool.
ReleaseUnchecked(s, d) ==
    IF ~ready THEN UNCHANGED <<in_use, free_count>>
    ELSE /\ in_use' = in_use \ {s}
         /\ free_count' = [free_count EXCEPT ![d] = @ + 1]

\* A buffer the pool does not know is reported and left.
Release(s, d) ==
    IF ready /\ s \in Pool(d)
    THEN /\ in_use' = in_use \ {s}
         /\ free_count' = [free_count EXCEPT ![d] = @ + 1]
    ELSE UNCHANGED <<in_use, free_count>>

-----------------------------------------------------------------------------
(* dma_check_buffer_safety: every flaw but a 64K crossing asks for a       *)
(* bounce buffer, and asking for one is what it returns as "not safe".     *)
(* Under DPMI the address is translated anew at every check, which may     *)
(* fail: of the same buffer, and of a pool buffer, one check may pass and  *)
(* the next one not.                                                       *)

needs_bounce(b) == Flaws[b] \ {"crosses"} # {}
crosses_64k(b) == "crosses" \in Flaws[b]

-----------------------------------------------------------------------------
(* Mapping: create_mapping, setup_dma_mapping and                          *)
(* dma_map_with_device_constraints.                                        *)

\* What the sender has in its hands is not the client's yet.
InHand == {j.id : j \in {job} \ {None}}

\* A buffer is mapped by one client at a time.
Mapped(b) == b \in {maps[m].buf : m \in Live} \cup {j.buf : j \in {job} \ {None}}

\* A 3C515 sender names the device, the other callers do not.  Outgoing frames
\* use the pool for transmission, and so does a receive mapping with
\* DMA_MAP_READ.
create_mapping ==
    /\ job = None
    /\ \E b \in Buffers, d, p \in Dirs, m \in MapIds \ Live, force, zc, dev \in {"yes", "no"} :
          /\ ~Mapped(b)
          /\ d = "tx" \/ dev = "yes" => p = d
          /\ dev = "yes" => force = "no" /\ zc = "no"
          /\ job' = [id |-> m, buf |-> b, dir |-> d, pool |-> p, addr |-> b, bounce |-> "no",
                     vds |-> "no", frame |-> mem[b], at |-> "check",
                     force |-> force, zerocopy |-> zc, device |-> dev]
    /\ UNCHANGED <<poolVars, policy, maps, batch, mem, vdsVars>>

\* The caller gets NULL.
Abandon == job' = None

\* The bounce buffer, filled for a frame that goes out.
Bounced(s) == [job EXCEPT !.addr = s, !.bounce = "yes"]
Filled(s) == IF job.pool = "tx" THEN [mem EXCEPT ![s] = mem[job.buf]] ELSE mem

WantsBounce == job.force # "no" \/ crosses_64k(job.buf)

setup_check ==
    /\ job # None /\ job.at = "check"
    /\ \/ Abandon /\ UNCHANGED <<mem, in_use, free_count>>
       \/ /\ ~needs_bounce(job.buf) /\ WantsBounce /\ Free(job.pool) # {}
          /\ Take(job.pool) /\ mem' = Filled(First(Free(job.pool)))
          /\ job' = [Bounced(First(Free(job.pool))) EXCEPT !.at = "finish"]
       \/ /\ ~needs_bounce(job.buf) /\ ~WantsBounce
          /\ job' = [job EXCEPT !.at = "lock"]
          /\ UNCHANGED <<mem, in_use, free_count>>
    /\ UNCHANGED <<ready, start, lost, policy, maps, batch, vdsVars>>

\* The region is locked and VDS does not give it up again.
LockStays(b) ==
    /\ refused[b] < MaxRefused
    /\ locks' = [locks EXCEPT ![b] = @ + 1] /\ refused' = [refused EXCEPT ![b] = @ + 1]

\* vds_lock_region_mapped, when the policy or the caller asks for it.  The
\* address VDS gives may be out of reach of the bus, or the lock may fail: a
\* bounce buffer then, after an unlock whose result is not looked at.
setup_lock ==
    /\ job # None /\ job.at = "lock"
    /\ IF policy \/ job.zerocopy = "yes"
       THEN \/ /\ locks' = [locks EXCEPT ![job.buf] = @ + 1] /\ UNCHANGED refused
               /\ job' = [job EXCEPT !.vds = "yes", !.at = "finish"]
            \/ UNCHANGED vdsVars /\ job' = [job EXCEPT !.at = "fallback"]
            \/ LockStays(job.buf) /\ job' = [job EXCEPT !.at = "fallback"]
       ELSE UNCHANGED vdsVars /\ job' = [job EXCEPT !.at = "finish"]
    /\ UNCHANGED <<poolVars, policy, maps, batch, mem>>

\* Mutant of the next definition: the frame is not copied here.
FallbackUnfilled ==
    /\ Take(job.pool) /\ UNCHANGED mem
    /\ job' = [Bounced(First(Free(job.pool))) EXCEPT !.at = "finish"]

FallbackBounce ==
    /\ Take(job.pool) /\ mem' = Filled(First(Free(job.pool)))
    /\ job' = [Bounced(First(Free(job.pool))) EXCEPT !.at = "finish"]

setup_fallback ==
    /\ job # None /\ job.at = "fallback"
    /\ IF Free(job.pool) = {}
       THEN Abandon /\ UNCHANGED <<mem, in_use, free_count>>
       ELSE FallbackBounce
    /\ UNCHANGED <<ready, start, lost, policy, maps, batch, vdsVars>>

Record ==
    [buf |-> job.buf, dir |-> job.dir, addr |-> job.addr, bounce |-> job.bounce,
     vds |-> job.vds, frame |-> job.frame]

\* A pool buffer is checked once more; when it fails, the mapping is freed and
\* the buffer is not given back.
setup_finish ==
    /\ job # None /\ job.at = "finish"
    /\ \/ /\ maps' = [maps EXCEPT ![job.id] = Record]
          /\ job' = IF job.device = "no" THEN None
                    ELSE [job EXCEPT !.at = IF job.force = "no" THEN "validate" ELSE "revalidate"]
          /\ UNCHANGED lost
       \/ /\ job.bounce = "yes" /\ Abandon
          /\ lost' = lost \cup (in_use \cap {job.addr})
          /\ UNCHANGED maps
    /\ UNCHANGED <<ready, start, in_use, free_count, policy, batch, mem, vdsVars>>

-----------------------------------------------------------------------------
(* Unmapping.                                                              *)

\* vds_unlock_region_mapped.  When VDS refuses, that is logged and the mapping
\* is freed all the same: the lock is nobody's then.
Unlock(r) ==
    IF r.vds = "yes"
    THEN \/ locks' = [locks EXCEPT ![r.buf] = @ - 1] /\ UNCHANGED refused
         \/ /\ refused[r.buf] < MaxRefused
            /\ refused' = [refused EXCEPT ![r.buf] = @ + 1] /\ UNCHANGED locks
    ELSE UNCHANGED vdsVars

\* Mutant of the next definition: nothing is copied back.
CopyBackLate(r) == mem

\* dma_unmap_rx copies the frame back, dma_unmap_tx has none.
CopiedBack(r) ==
    IF r.dir = "rx" /\ r.bounce = "yes" THEN [mem EXCEPT ![r.buf] = mem[r.addr]] ELSE mem

\* The pool that is told is the one of the direction, whichever pool the buffer
\* is of.
ReleaseOf(r) ==
    /\ IF r.bounce = "yes" THEN Release(r.addr, r.dir) ELSE UNCHANGED <<in_use, free_count>>
    /\ lost' = lost \cup {s \in in_use : s = r.addr /\ s[1] # r.dir}

dma_unmap_buffer(m) ==
    /\ mem' = CopiedBack(maps[m])
    /\ ReleaseOf(maps[m])
    /\ Unlock(maps[m])
    /\ maps' = [maps EXCEPT ![m] = None]

\* By the client, or from the interrupt that completes the frame.
unmap ==
    /\ \E m \in Live \ (batch \cup InHand) : dma_unmap_buffer(m)
    /\ UNCHANGED <<ready, start, policy, job, batch>>

\* The device's constraints (an external check) decide; the first time the
\* buffer is mapped again with a bounce buffer, the second time given up.
device_validate ==
    /\ job # None /\ job.at = "validate"
    /\ \/ job' = None /\ UNCHANGED <<in_use, free_count, lost, maps, mem, vdsVars>>
       \/ /\ dma_unmap_buffer(job.id)
          /\ job' = [job EXCEPT !.at = "check", !.force = "again", !.addr = job.buf,
                                !.bounce = "no", !.vds = "no", !.frame = mem[job.buf]]
    /\ UNCHANGED <<ready, start, policy, batch>>

GiveUp == dma_unmap_buffer(job.id) /\ job' = None

device_revalidate ==
    /\ job # None /\ job.at = "revalidate"
    /\ \/ job' = None /\ UNCHANGED <<in_use, free_count, lost, maps, mem, vdsVars>>
       \/ GiveUp
    /\ UNCHANGED <<ready, start, policy, batch>>

-----------------------------------------------------------------------------
(* Batches, the clients and the device.                                    *)

dma_batch_add_mapping ==
    /\ \E m \in Live \ (batch \cup InHand) : batch' = batch \cup {m}
    /\ UNCHANGED <<poolVars, policy, maps, job, mem, vdsVars>>

\* One turn of the loop of dma_unmap_batch.
dma_unmap_batch ==
    /\ \E m \in batch : dma_unmap_buffer(m) /\ batch' = batch \ {m}
    /\ UNCHANGED <<ready, start, policy, job>>

\* A client writes its next frame into a buffer that is not mapped.
client_write ==
    /\ \E b \in Buffers, f \in Frames :
          ~Mapped(b) /\ f # mem[b] /\ mem' = [mem EXCEPT ![b] = f]
    /\ UNCHANGED <<poolVars, policy, maps, job, batch, vdsVars>>

\* The card stores a frame at the address of a receive mapping.
device_store ==
    /\ \E m \in Live \ InHand, f \in Frames :
          /\ maps[m].dir = "rx"
          /\ f # maps[m].frame \/ f # mem[maps[m].addr]
          /\ mem' = [mem EXCEPT ![maps[m].addr] = f]
          /\ maps' = [maps EXCEPT ![m].frame = f]
    /\ UNCHANGED <<poolVars, policy, job, batch, vdsVars>>

\* _3c515_receive_packet, in the interrupt: the card has stored the frame in
\* the buffer of the descriptor; the buffer is mapped, the frame is copied
\* from the address of the mapping, and the mapping is dropped.  A VDS lock
\* that succeeds and its unlock leave nothing behind, unless the unlock is
\* refused; one that fails costs a bounce buffer here too, and a bounce buffer
\* that fails its check is lost here too.
_3c515_receive_packet ==
    /\ \E b \in Buffers :
          /\ ~Mapped(b) /\ ~needs_bounce(b)
          /\ UNCHANGED vdsVars \/ (policy /\ ~crosses_64k(b) /\ LockStays(b))
          /\ \/ ~crosses_64k(b) /\ UNCHANGED <<mem, in_use, free_count, lost>>
             \/ /\ (crosses_64k(b) \/ policy) /\ Free("rx") # {}
                /\ mem' = [mem EXCEPT ![b] = mem[First(Free("rx"))]]
                /\ UNCHANGED <<in_use, free_count, lost>>
             \/ /\ (crosses_64k(b) \/ policy) /\ Free("rx") # {}
                /\ Take("rx") /\ lost' = lost \cup {First(Free("rx"))}
                /\ UNCHANGED mem
    /\ UNCHANGED <<ready, start, policy, maps, job, batch>>

Next ==
    \/ dma_mapping_init \/ dma_mapping_shutdown
    \/ create_mapping \/ setup_check \/ setup_lock \/ setup_fallback \/ setup_finish
    \/ device_validate \/ device_revalidate
    \/ unmap \/ dma_batch_add_mapping \/ dma_unmap_batch
    \/ client_write \/ device_store \/ _3c515_receive_packet

Spec == Init /\ [][Next]_vars

-----------------------------------------------------------------------------
(* Properties.                                                             *)

\* Types; a batch lists live mappings only.
TypeOK ==
    /\ ready \in BOOLEAN /\ start \in 0 .. Starts /\ policy \in BOOLEAN
    /\ in_use \subseteq Slots /\ lost \subseteq Slots
    /\ free_count \in [Dirs -> 0 .. TxPool + RxPool]
    /\ maps \in [MapIds -> Mapping \cup {None}]
    /\ job \in Jobs \cup {None}
    /\ batch \subseteq Live
    /\ locks \in [Buffers -> 0 .. MaxRefused + 1] /\ refused \in [Buffers -> 0 .. MaxRefused]
    /\ mem \in [Addresses -> Frames]

\* Who holds a pool buffer: the live mappings, and the one being set up.
Holders(s) ==
    {m \in Live : maps[m].addr = s} \cup
    {m \in InHand : job.addr = s /\ job.at = "finish"}

\* The pools hand no buffer out twice and leak none but those the code loses,
\* whatever path a mapping took, failed on or was remapped by, and across a
\* restart of the layer with mappings alive: a buffer is in use exactly when one
\* mapping holds it or it was lost, and free_count counts the others.  Lost are
\* a bounce buffer that fails its second check, and the transmit buffer of a
\* receive mapping with DMA_MAP_READ.
BounceConserved ==
    /\ lost \subseteq in_use
    /\ ready => \A d \in Dirs :
          /\ \A s \in Pool(d) :
                Cardinality(Holders(s)) = (IF s \in in_use \ lost THEN 1 ELSE 0)
          /\ free_count[d] = PoolSize[d] - Cardinality(Pool(d) \cap in_use)

\* The mapping that is to unlock a buffer.
Lockers(b) ==
    {m \in Live : maps[m].buf = b /\ maps[m].vds = "yes"} \cup
    {m \in InHand : job.buf = b /\ job.at = "finish" /\ job.vds = "yes"}

\* Every lock VDS has on a buffer is one it refused to give up, or belongs to
\* a mapping that will unlock it.
LocksOwned ==
    \A b \in Buffers : locks[b] = refused[b] + (IF Lockers(b) = {} THEN 0 ELSE 1)

\* The state is well formed; bounce buffers and VDS locks are returned once on
\* every path but those that lose a buffer, and but for the unlocks that VDS
\* refuses.
ResourceInv == TypeOK /\ BounceConserved /\ LocksOwned

\* What the card fetches is the frame that was in the buffer when it was
\* mapped, and what a mapping of a receive buffer shows is what was stored:
\* bounce buffers of live mappings are never overwritten by another's frame.
DeviceSeesFrame ==
    \A m \in Live : (maps[m].dir = "tx" \/ maps[m].bounce = "no") => mem[maps[m].addr] = maps[m].frame

\* A frame the card has stored at a receive mapping is in the client's buffer
\* when the mapping is gone.
ReceivedOnUnmap ==
    [][\A m \in Live :
          maps[m].dir = "rx" /\ maps'[m] = None /\ mem[maps[m].addr] = maps[m].frame
          => mem'[maps[m].buf] = maps[m].frame]_vars

\* "Buffer to store received packet": what the caller gets is what the card
\* stored; the copy from the mapping does not change it.
ReceiveIntact == [][_3c515_receive_packet => mem' = mem]_vars

\* "Determine if bounce buffer needed": a buffer the check finds in need of a
\* bounce buffer gets one when the pool has one, and is not refused.
UnsafeIsBounced ==
    [][/\ job # None /\ job.at = "check" /\ needs_bounce(job.buf)
       /\ Free(job.pool) # {}
       => job' # None]_vars
=============================================================================
