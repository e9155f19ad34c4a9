------------------------------ MODULE VdsManager ------------------------------
(***************************************************************************)
(* The VDS lock manager (src/c/vdsmgr.c) over the safety layer             *)
(* (src/c/vdssafe.c): a registry of locks that clients share by reference  *)
(* count, and a lock call with three ways of recovery, the last of which   *)
(* is a run of blocks of the bounce pool.                                  *)
(*                                                                         *)
(* The VDS services are external: a lock succeeds with a buffer id or      *)
(* fails, an unlock succeeds or fails.  A buffer id is 0, or names one     *)
(* region for as long as VDS holds that locked; an unlock is by id alone.  *)
(* Without VDS every lock succeeds and there is nothing to unlock.  A      *)
(* region stands for an address and a length; whether it meets the         *)
(* constraints of a call, and how many blocks of the pool it needs, is     *)
(* given.                                                                  *)
(*                                                                         *)
(* vds_manager_cleanup_stale is not an action: it looks for entries that   *)
(* are locked, not referenced and not persistent, and NothingStale below   *)
(* says there never are any.                                               *)
(***************************************************************************)
EXTENDS Naturals, FiniteSets

CONSTANTS
    Regions,
    Blocks,        \* Regions -> blocks of the bounce pool it needs
    NumBlocks,     \* blocks of the bounce pool
    RegistrySize,  \* VDS_REGISTRY_SIZE, 64
    IdSpan,        \* number of values of the uint16_t manager id
    Handles,       \* buffer ids of VDS other than 0
    NoHandle,      \* 0xFFFF as a handle
    Asked,         \* bound: the policies clients ask for
    Often,         \* accesses after which a lock is upgraded, 10
    MaxRefs        \* bound: references clients hold to one lock

ASSUME VdsAssumption ==
    /\ Blocks \in [Regions -> Nat \ {0}]
    /\ NumBlocks \in Nat /\ RegistrySize \in Nat /\ Often \in Nat
    /\ MaxRefs \in Nat \ {0} /\ IdSpan \in Nat /\ IdSpan > 1
    /\ Asked \subseteq {"transient", "persistent", "lazy", "auto"}
    /\ 0 \notin Handles /\ NoHandle \notin Handles \cup {0}

Entries == 1 .. RegistrySize
Ids == 0 .. IdSpan - 1
Invalid == IdSpan - 1        \* VDS_INVALID_HANDLE: a value of the counter too
Pool == 0 .. NumBlocks - 1
Policies == {"transient", "persistent", "lazy", "auto"}

Entry ==
    [state : {"free", "locked", "error"}, id : Ids, region : Regions \cup {"none"},
     policy : Policies, refs : 0 .. MaxRefs, uses : 0 .. Often + 1,
     handle : Handles \cup {0, NoHandle}]

FreeEntry ==
    [state |-> "free", id |-> Invalid, region |-> "none", policy |-> "transient",
     refs |-> 0, uses |-> 0, handle |-> NoHandle]

\* A region VDS holds locked, with the buffer id it gave.
Lock == [handle : Handles \cup {0}, region : Regions]

VARIABLES
    ready,         \* manager_initialized
    registry,
    next_id,       \* next_manager_id
    isr,           \* isr_nesting_depth > 0
    map,           \* blocks of the pool marked allocated
    present,       \* vds_capabilities.present
    vds,           \* what VDS holds locked (external)
    \* history
    refused,       \* the locks VDS did not give up at a vds_manager_cleanup
    recycled,      \* an id was given out while an entry in use had it
    held,          \* id -> references clients hold
    region_of,     \* id -> the region it was granted for
    blocks_of      \* id -> the bounce blocks it was given

clients == <<held, region_of, blocks_of>>
vars == <<ready, registry, next_id, isr, map, present, vds, refused, recycled, clients>>

Init ==
    /\ ready = FALSE /\ isr = FALSE
    /\ registry = [e \in Entries |-> FreeEntry]
    /\ next_id = 1 /\ map = {}
    /\ present \in BOOLEAN /\ vds = {} /\ refused = {} /\ recycled = FALSE
    /\ held = [i \in Ids |-> 0] /\ region_of = [i \in Ids |-> "none"]
    /\ blocks_of = [i \in Ids |-> {}]

vds_manager_init ==
    /\ ~ready
    /\ ready' = TRUE
    /\ registry' = [e \in Entries |-> FreeEntry]
    /\ next_id' = 1
    /\ UNCHANGED <<isr, map, present, vds, refused, recycled, clients>>

InUse == {e \in Entries : registry[e].state # "free"}
LockOf(e) == [handle |-> registry[e].handle, region |-> registry[e].region]

\* vds_unlock_safe asks VDS only for a handle that is not 0, and VDS may then
\* refuse; without VDS there is nobody to refuse.
MayRefuse(e) == present /\ registry[e].handle # 0

\* What VDS holds when vds_unlock_safe has succeeded for the entries E.
GivenUp(E) == {l \in vds : l.handle = 0 \/ \A e \in E : registry[e].handle # l.handle}

\* Every entry is unlocked, whoever holds it, and the pool is freed; what VDS
\* answers is not looked at.  The ids that clients still have are void.
vds_manager_cleanup ==
    /\ ready /\ ~isr
    /\ ready' = FALSE
    /\ \E R \in SUBSET {e \in InUse : MayRefuse(e)} :
          /\ vds' = GivenUp(InUse \ R)
          /\ refused' = refused \cup {LockOf(e) : e \in R}
    /\ map' = {} /\ recycled' = FALSE
    /\ held' = [i \in Ids |-> 0] /\ region_of' = [i \in Ids |-> "none"]
    /\ blocks_of' = [i \in Ids |-> {}]
    /\ UNCHANGED <<registry, next_id, isr, present>>

\* vds_enter_isr_context and vds_exit_isr_context.
isr_context ==
    /\ isr' = ~isr
    /\ UNCHANGED <<ready, registry, next_id, map, present, vds, refused, recycled, clients>>

-----------------------------------------------------------------------------
(* The bounce pool.                                                        *)

Run(first, n) == first .. first + n - 1
FreeRuns(n) == {b \in Pool : Run(b, n) \subseteq Pool \ map}

\* Mutant of the next definition: the last run that fits.
LastRun(n) == CHOOSE b \in FreeRuns(n) : \A c \in FreeRuns(n) : c <= b

find_free_bounce_block(n) == CHOOSE b \in FreeRuns(n) : \A c \in FreeRuns(n) : b <= c

\* "we don't track size, so free until we hit unallocated".
vds_free_bounce_buffer(m, b) == {c \in m : c < b \/ ~((b .. c) \subseteq m)}

-----------------------------------------------------------------------------
(* vds_manager_lock.                                                       *)

Hits(r) == {e \in Entries : registry[e].state = "locked" /\ registry[e].region = r}
FirstOf(E) == CHOOSE e \in E : \A f \in E : e <= f
WithId(i) == {e \in Entries : registry[e].id = i}
EntryOf(i) == {e \in WithId(i) : registry[e].state # "free"}

\* Of a lock that was given the invalid id this returns just that, which the
\* caller takes for a miss.
find_existing_lock(r) == IF Hits(r) = {} THEN Invalid ELSE registry[FirstOf(Hits(r))].id

Upgraded(entry, policy) ==
    IF policy = "auto" /\ entry.uses + 1 > Often /\ entry.policy = "transient"
    THEN "persistent" ELSE entry.policy

\* Mutant of the next definition: a hit is not counted.
HitUncounted(entry, policy) ==
    [entry EXCEPT !.uses = IF entry.uses > Often THEN entry.uses ELSE entry.uses + 1]

HitEntry(entry, policy) ==
    [entry EXCEPT !.refs = entry.refs + 1, !.policy = Upgraded(entry, policy),
                  !.uses = IF entry.uses > Often THEN entry.uses ELSE entry.uses + 1]

\* The region is locked already: whatever the constraints, and in interrupts
\* too.
lock_hit ==
    /\ ready
    /\ \E r \in Regions, policy \in Asked :
          /\ find_existing_lock(r) # Invalid
          /\ LET i == find_existing_lock(r)
                 e == FirstOf(WithId(i))
             IN
             /\ held[i] < MaxRefs /\ registry[e].refs < MaxRefs
             /\ registry' = [registry EXCEPT ![e] = HitEntry(registry[e], policy)]
             /\ held' = [held EXCEPT ![i] = @ + 1]
    /\ UNCHANGED <<ready, next_id, isr, map, present, vds, refused, recycled, region_of, blocks_of>>

FreeEntries == {e \in Entries : registry[e].state = "free"}

\* vds_core_lock_region: the buffer id of the descriptor, or 0xFFFF where there
\* is no VDS and the address is taken as it is.
HandlesToGive ==
    IF present THEN {0} \cup (Handles \ {l.handle : l \in vds}) ELSE {NoHandle}

IdAfter(i) == (i + 1) % IdSpan

\* The new entry and what the client gets, with handle h of VDS and blocks b of
\* the pool.  A client that gets the invalid id takes the lock for failed.
Granted(r, policy, h, b) ==
    /\ registry' = [registry EXCEPT ![FirstOf(FreeEntries)] =
          [state |-> "locked", id |-> next_id, region |-> r, policy |-> policy,
           refs |-> 1, uses |-> 1, handle |-> h]]
    /\ next_id' = IdAfter(next_id)
    /\ vds' = vds \cup {l \in {[handle |-> h, region |-> r]} : present}
    /\ recycled' = (recycled \/ (next_id # Invalid /\ EntryOf(next_id) # {}))
    /\ IF next_id = Invalid THEN UNCHANGED clients
       ELSE /\ held' = [held EXCEPT ![next_id] = 1]
            /\ region_of' = [region_of EXCEPT ![next_id] = r]
            /\ blocks_of' = [blocks_of EXCEPT ![next_id] = b]
    /\ UNCHANGED <<present, refused>>

Missed(r) == ready /\ find_existing_lock(r) = Invalid

\* vds_lock_with_constraints refuses a call from an interrupt.
MayCallVds == ~isr

\* VDS locks the region, at the first attempt or as scatter/gather or as an
\* aligned chunk.
lock_direct ==
    /\ MayCallVds /\ FreeEntries # {}
    /\ \E r \in Regions, policy \in Asked, h \in HandlesToGive :
          Missed(r) /\ Granted(r, policy, h, {})
    /\ UNCHANGED <<ready, isr, map>>

\* The third recovery: a bounce buffer, locked in its turn.
lock_bounce ==
    /\ MayCallVds /\ FreeEntries # {}
    /\ \E r \in Regions, policy \in Asked, h \in HandlesToGive :
          /\ Missed(r) /\ FreeRuns(Blocks[r]) # {}
          /\ LET b == Run(find_free_bounce_block(Blocks[r]), Blocks[r]) IN
             map' = map \cup b /\ Granted(r, policy, h, b)
    /\ UNCHANGED <<ready, isr>>

\* "Even bounce buffer failed - free it"; the entry is freed too.
lock_bounce_refused ==
    /\ MayCallVds /\ present /\ FreeEntries # {}
    /\ \E r \in Regions :
          /\ Missed(r) /\ FreeRuns(Blocks[r]) # {}
          /\ LET b == find_free_bounce_block(Blocks[r]) IN
             map' = vds_free_bounce_buffer(map \cup Run(b, Blocks[r]), b)
    /\ UNCHANGED <<ready, registry, next_id, isr, present, vds, refused, recycled, clients>>

-----------------------------------------------------------------------------
(* vds_manager_unlock, for an id the client holds.                         *)

\* Mutant of the next definition: released with references left.
LastAlways(entry) == TRUE

\* This reference is the last, or an unlock that failed is tried again.
LastReference(entry) == entry.refs <= 1

Retained(entry) == entry.policy = "persistent"

Less(n) == IF n > 0 THEN n - 1 ELSE 0

unlock_shared ==
    /\ ready
    /\ \E i \in Ids : held[i] > 0 /\ EntryOf(i) # {} /\
          LET e == FirstOf(EntryOf(i)) IN
          /\ ~LastReference(registry[e])
          /\ registry' = [registry EXCEPT ![e].refs = @ - 1]
          /\ held' = [held EXCEPT ![i] = @ - 1]
    /\ UNCHANGED <<ready, next_id, isr, map, present, vds, refused, recycled, region_of, blocks_of>>

\* "Persistent locks aren't released even at refcount 0".
unlock_retained ==
    /\ ready
    /\ \E i \in Ids : held[i] > 0 /\ EntryOf(i) # {} /\
          LET e == FirstOf(EntryOf(i)) IN
          /\ LastReference(registry[e]) /\ Retained(registry[e])
          /\ registry' = [registry EXCEPT ![e].refs = Less(@)]
          /\ held' = [held EXCEPT ![i] = @ - 1]
    /\ UNCHANGED <<ready, next_id, isr, map, present, vds, refused, recycled, region_of, blocks_of>>

\* The lock structure is rebuilt from the handle alone: no bounce buffer in
\* it, so the blocks stay marked.  For handle 0 VDS is not called and keeps the
\* region locked; the entry is freed all the same.
UnlockEntry(e) ==
    /\ vds' = GivenUp({e})
    /\ registry' = [registry EXCEPT ![e] = FreeEntry]

unlock_last ==
    /\ ready
    /\ \E i \in Ids : held[i] > 0 /\ EntryOf(i) # {} /\
          LET e == FirstOf(EntryOf(i)) IN
          /\ LastReference(registry[e]) /\ ~Retained(registry[e])
          /\ UnlockEntry(e)
          /\ held' = [held EXCEPT ![i] = @ - 1]
          /\ region_of' = [region_of EXCEPT ![i] = "none"]
          /\ blocks_of' = [blocks_of EXCEPT ![i] = {}]
    /\ UNCHANGED <<ready, next_id, isr, map, present, refused, recycled>>

InError(entry) == [entry EXCEPT !.refs = Less(entry.refs), !.state = "error"]

\* VDS refuses: the client may try again, the region is still locked.
unlock_refused ==
    /\ ready
    /\ \E i \in Ids : held[i] > 0 /\ EntryOf(i) # {} /\
          LET e == FirstOf(EntryOf(i)) IN
          /\ LastReference(registry[e]) /\ ~Retained(registry[e]) /\ MayRefuse(e)
          /\ registry' = [registry EXCEPT ![e] = InError(registry[e])]
    /\ UNCHANGED <<ready, next_id, isr, map, present, vds, refused, recycled, clients>>

Next ==
    \/ vds_manager_init \/ vds_manager_cleanup \/ isr_context
    \/ lock_hit \/ lock_direct \/ lock_bounce \/ lock_bounce_refused
    \/ unlock_shared \/ unlock_retained \/ unlock_last \/ unlock_refused

Spec == Init /\ [][Next]_vars

-----------------------------------------------------------------------------
(* Properties.                                                             *)

\* Types; the ids given out fit their sixteen bits.
TypeOK ==
    /\ ready \in BOOLEAN /\ isr \in BOOLEAN /\ present \in BOOLEAN /\ recycled \in BOOLEAN
    /\ registry \in [Entries -> Entry]
    /\ next_id \in Ids /\ map \subseteq Pool
    /\ vds \subseteq Lock /\ refused \subseteq Lock
    /\ held \in [Ids -> 0 .. MaxRefs]
    /\ region_of \in [Ids -> Regions \cup {"none"}]
    /\ blocks_of \in [Ids -> SUBSET Pool]

Holding == {i \in Ids : held[i] > 0}

\* A client that holds an id has its region locked: whoever else locked or
\* unlocked the region, upgraded its policy or failed to, and whichever locks
\* have handle 0 with it, VDS still holds it.  This lasts until the counter
\* comes round to an id whose entry is still in use.
GrantedStaysLocked ==
    ~recycled => \A i \in Holding : \E e \in EntryOf(i) :
        registry[e].region = region_of[i] /\ (present => LockOf(e) \in vds)

\* The reference count of a lock is the number of references clients hold; a
\* lock with the invalid id is nobody's.
RefsAreHeld ==
    ready /\ ~recycled => \A e \in Entries :
        registry[e].state = "locked" /\ registry[e].id # Invalid
        => registry[e].refs = held[registry[e].id]

\* The registry and VDS agree: what an entry stands for is locked, no two
\* entries have one buffer id, and whatever VDS holds that no entry stands for
\* was locked without a buffer id or not given up at a cleanup.
LocksAreKnown ==
    ready /\ present =>
        /\ \A e \in InUse : LockOf(e) \in vds
        /\ \A e, f \in InUse : e # f /\ registry[e].handle # 0
                               => registry[e].handle # registry[f].handle
        /\ \A l \in vds \ refused : l.handle # 0 => \E e \in InUse : LockOf(e) = l

\* What vds_manager_cleanup_stale looks for does not exist: an entry that is
\* locked without a reference is persistent.
NothingStale ==
    ready => \A e \in Entries :
        registry[e].state = "locked" /\ registry[e].refs = 0
        => registry[e].policy = "persistent"

\* The registry is well formed and agrees with its clients on one side and with
\* VDS on the other.
RegistryInv == TypeOK /\ RefsAreHeld /\ LocksAreKnown /\ NothingStale

\* Freeing the run of blocks of a lock that failed never frees a block of a
\* lock in force, and no two locks in force share a block.
BounceKept ==
    ready => \A i, j \in Holding :
        /\ blocks_of[i] \subseteq map
        /\ i # j => blocks_of[i] \cap blocks_of[j] = {}
=============================================================================
