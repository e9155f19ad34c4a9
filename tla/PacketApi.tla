----------------------------- MODULE PacketApi -----------------------------
(***************************************************************************)
(* The Packet Driver API of src/c/api.c: the table of handles, the table   *)
(* of extended handles beside it, the calls that change them, and the      *)
(* receive loop that hands a frame to every matching handle by calling its *)
(* receiver.  A call runs with interrupts off (it is entered through INT   *)
(* 60h, which clears IF), so each is one action.  The receive loop is not: *)
(* it calls application code, and a receiver may itself use the API before *)
(* it returns, so the loop is one action per slot and the calls are        *)
(* enabled while an upcall is running.                                     *)
(***************************************************************************)
EXTENDS Naturals, FiniteSets, Sequences, TLC

CONSTANTS
    MaxHandles,   \* PD_MAX_HANDLES
    MaxExt,       \* PD_MAX_EXTENDED_HANDLES
    IdSpace,      \* number of values of the uint16_t handle
    Nics,         \* hardware_get_nic_count()
    Types,        \* packet types an application may ask for; 0 is "all"
    Options,      \* the extended settings an application may make
    MaxOpens,     \* bound: handles opened in a behaviour
    MaxPackets    \* bound: frames received in a behaviour

ASSUME SizeAssumption ==
    /\ MaxHandles \in Nat \ {0}
    /\ MaxExt \in Nat /\ MaxExt >= MaxHandles
    /\ IdSpace \in Nat /\ IdSpace > 2
    /\ Nics \in Nat
    /\ MaxOpens \in Nat
    /\ MaxPackets \in Nat

ASSUME TypesAssumption == Types \subseteq Nat

Slots == 0 .. MaxHandles - 1
ExtSlots == 0 .. MaxExt - 1
Ids == 0 .. IdSpace - 1
\* PD_INVALID_HANDLE is 0xFFFF, the last of the ids.
Invalid == IdSpace - 1

VARIABLES
    handles,      \* the handle table
    extended,     \* the extended handle table
    next_handle,  \* counts the handles given out; its low 16 bits are the id
    phase,        \* where api_ready, api_initialized, extended_api_initialized stand
    rx_pc,        \* the receive loop: idle, scanning a slot, in an upcall
    rx_type,      \* its eth_type
    rx_i,         \* its index
    rx_buf,       \* its rx_buffer
    packets,      \* frames received so far
    asked,        \* history: settings asked for each id since it was last released
    born,         \* history: which opening put the handle into each slot, 0 for none
    upcalls,      \* history: openings called for the current frame, in order
    stayed        \* history: openings that must be called for the current frame

table == <<handles, extended, next_handle>>
rx == <<rx_pc, rx_type, rx_i, rx_buf>>
history == <<asked, born, upcalls, stayed>>
vars == <<handles, extended, next_handle, phase, rx_pc, rx_type, rx_i, rx_buf, packets,
          asked, born, upcalls, stayed>>

Zeroed == [handle |-> 0, packet_type |-> 0, receiver |-> "NULL", received |-> 0, dropped |-> 0]
FreeHandle == [handle |-> Invalid, packet_type |-> 0, receiver |-> "NULL", received |-> 0, dropped |-> 0]
ZeroedExt == [id |-> 0, set |-> {}]
\* Mutant of the next definition: the memset is the last word.
ExtLeftZeroed == ZeroedExt
FreeExt == [id |-> Invalid, set |-> {}]

Receivers == {"NULL", "far"}
HandleRecords == [handle : Ids, packet_type : Types \cup {0}, receiver : Receivers,
                  received : Nat, dropped : Nat]
ExtRecords == [id : Ids, set : SUBSET Options]
Phases == {"loaded", "hooked", "active", "down"}

TypeOK ==
    /\ handles \in [Slots -> HandleRecords]
    /\ extended \in [ExtSlots -> ExtRecords]
    /\ next_handle \in Nat
    /\ phase \in Phases
    /\ rx_pc \in {"idle", "scan", "upcall"}
    /\ rx_type \in Nat
    /\ rx_i \in 0 .. MaxHandles
    /\ rx_pc = "upcall" => rx_i \in Slots
    /\ rx_buf \in {"NULL", "held"}
    /\ packets \in Nat
    /\ asked \in [Ids -> SUBSET Options]
    /\ born \in [Slots -> Nat]
    /\ upcalls \in Seq(Nat)
    /\ stayed \in SUBSET Nat

-----------------------------------------------------------------------------
(* Table lookups: every search of the code is a loop from slot 0 that      *)
(* stops at the first match.                                               *)

IsFirst(i, S) == i \in S /\ \A j \in S : i <= j

\* The slots a search of handles[] for h can stop at.
SlotsOf(h) == {i \in Slots : handles[i].handle = h}

\* The slots a search of extended_handles[] for h can stop at.
ExtSlotsOf(h) == {e \in ExtSlots : extended[e].id = h}

Open(i) == handles[i].handle # Invalid

\* pd_validate_handle compares and nothing else: PD_INVALID_HANDLE is found
\* in any free slot.
pd_validate_handle(h) == SlotsOf(h) # {}

-----------------------------------------------------------------------------
(* Lifecycle, in the order of main.c: hooks, activation, cleanup.          *)

Init ==
    /\ handles = [i \in Slots |-> Zeroed]
    /\ extended = [e \in ExtSlots |-> ZeroedExt]
    /\ next_handle = 1
    /\ phase = "loaded"
    /\ rx_pc = "idle"
    /\ rx_type = 0
    /\ rx_i = 0
    /\ rx_buf = "NULL"
    /\ packets = 0
    /\ asked = [h \in Ids |-> {}]
    /\ born = [i \in Slots |-> 0]
    /\ upcalls = <<>>
    /\ stayed = {}

api_install_hooks ==
    /\ phase = "loaded"
    /\ handles' = [i \in Slots |-> FreeHandle]
    /\ next_handle' = 1
    /\ phase' = "hooked"
    /\ UNCHANGED <<extended, rx, packets, history>>

\* The three flags change only here, so one variable stands for them:
\* api_ready in "active" and "down", the other two in "active".
\* api_activate, with api_init_extended_handles, which it calls.
api_activate ==
    /\ phase = "hooked"
    /\ phase' = "active"
    /\ extended' = [e \in ExtSlots |-> FreeExt]
    /\ UNCHANGED <<handles, next_handle, rx, packets, history>>

\* api_cleanup releases every handle, and api_cleanup_extended_handles then
\* zeroes the extended table: its ids become 0, not PD_INVALID_HANDLE.
\* api_ready stays set.  It runs when the driver unloads, never in an upcall.
api_cleanup ==
    /\ phase = "active" /\ rx_pc = "idle"
    /\ handles' = [i \in Slots |-> IF Open(i) THEN FreeHandle ELSE handles[i]]
    /\ extended' = [e \in ExtSlots |-> ZeroedExt]
    /\ phase' = "down"
    /\ asked' = [h \in Ids |-> {}]
    /\ UNCHANGED <<next_handle, rx, packets, born, upcalls, stayed>>

-----------------------------------------------------------------------------
(* The calls, made between frames or from inside an upcall.  A call that   *)
(* is refused (not ready, bad interface, no slot, bad handle) changes      *)
(* nothing; what such a call answers is the value of an operator.          *)

\* The gate of pd_access_type, before it looks at the function number's case.
Callable == rx_pc \in {"idle", "upcall"} /\ phase = "active"

\* What the calls that only need a valid handle answer (pd_get_address,
\* pd_reset_interface, pd_get_parameters, pd_set_rcv_mode, pd_get_rcv_mode,
\* pd_get_statistics): the search of pd_validate_handle decides.
Answer(h) == IF pd_validate_handle(h) THEN "ok" ELSE "bad_handle"

\* pd_handle_access_type takes the first free slot.  The id is the counter's
\* low 16 bits, whatever that value is: one that is in use, or the one that
\* marks a free slot.
pd_handle_access_type(type, number, receiver) ==
    /\ Callable
    /\ number < Nics
    /\ next_handle <= MaxOpens
    /\ \E i \in Slots :
         /\ IsFirst(i, SlotsOf(Invalid))
         /\ handles' = [handles EXCEPT ![i] =
              [handle |-> next_handle % IdSpace, packet_type |-> type, receiver |-> receiver,
               received |-> 0, dropped |-> 0]]
         /\ born' = [born EXCEPT ![i] = next_handle]
    /\ next_handle' = next_handle + 1
    /\ UNCHANGED <<extended, phase, rx, packets, asked, upcalls, stayed>>

\* Mutant of the next definition: the extended handle is forgotten.
ReleaseBasicOnly(h) ==
    /\ Callable
    /\ \E i \in Slots :
         /\ IsFirst(i, SlotsOf(h))
         /\ handles' = [handles EXCEPT ![i] = FreeHandle]
         /\ stayed' = stayed \ {born[i]}
    /\ asked' = [asked EXCEPT ![h] = {}]
    /\ UNCHANGED <<extended, next_handle, phase, rx, packets, born, upcalls>>

\* The two searches of pd_release_handle: the first extended handle with the
\* id is cleared, and then the first handle with it.
pd_release_handle(h) ==
    /\ Callable
    /\ \/ ExtSlotsOf(h) = {} /\ UNCHANGED extended
       \/ \E e \in ExtSlots :
            /\ IsFirst(e, ExtSlotsOf(h))
            /\ extended' = [extended EXCEPT ![e] = FreeExt]
    /\ \/ SlotsOf(h) = {} /\ UNCHANGED <<handles, stayed>>
       \/ \E i \in Slots :
            /\ IsFirst(i, SlotsOf(h))
            /\ handles' = [handles EXCEPT ![i] = FreeHandle]
            /\ stayed' = stayed \ {born[i]}
    /\ asked' = [asked EXCEPT ![h] = {}]
    /\ UNCHANGED <<next_handle, phase, rx, packets, born, upcalls>>

\* pd_terminate releases the caller's handle and never the driver.
pd_terminate(h) == h # Invalid /\ pd_validate_handle(h) /\ pd_release_handle(h)

\* The slot an extended setter works on: the one api_get_extended_handle
\* finds, or else the free one api_upgrade_handle takes for a valid handle.
api_get_or_upgrade(h, e) ==
    \/ IsFirst(e, ExtSlotsOf(h))
    \/ /\ ExtSlotsOf(h) = {}
       /\ pd_validate_handle(h)
       /\ IsFirst(e, ExtSlotsOf(Invalid))

\* Mutant of the next definition: the settings left in the slot are kept.
UpgradeKeepsSettings(h, e) == [extended[e] EXCEPT !.id = h]

\* What the slot holds then: api_upgrade_handle resets the one it takes.
api_upgrade_handle(h, e) == IF extended[e].id = h THEN extended[e] ELSE [id |-> h, set |-> {}]

\* pd_set_handle_priority, pd_set_load_balance, pd_set_qos_params,
\* pd_set_nic_preference, pd_set_bandwidth_limit: each turns its flag on.
pd_set_extended(h, option) ==
    /\ Callable
    /\ \E e \in ExtSlots :
         /\ api_get_or_upgrade(h, e)
         /\ extended' = [extended EXCEPT ![e] =
              [api_upgrade_handle(h, e) EXCEPT !.set = @ \cup {option}]]
    /\ asked' = IF h = Invalid THEN asked ELSE [asked EXCEPT ![h] = @ \cup {option}]
    /\ UNCHANGED <<handles, next_handle, phase, rx, packets, born, upcalls, stayed>>

\* pd_set_bandwidth_limit with a limit of 0 turns its flag off.
pd_clear_extended(h) ==
    /\ Callable
    /\ \E e \in ExtSlots :
         /\ api_get_or_upgrade(h, e)
         /\ extended' = [extended EXCEPT ![e] =
              [api_upgrade_handle(h, e) EXCEPT !.set = @ \ {"bandwidth"}]]
    /\ UNCHANGED <<handles, next_handle, phase, rx, packets, history>>

-----------------------------------------------------------------------------
(* The receive loop of api_process_received_packet.                        *)

\* should_deliver_packet
Matches(i, type) ==
    /\ Open(i)
    /\ handles[i].packet_type \in {0, type}

\* packets_received++ and packets_dropped++
Credit(x) == [x EXCEPT !.received = x.received + 1]
Drop(x) == [x EXCEPT !.dropped = x.dropped + 1]

HasReceiver(i) == handles[i].receiver # "NULL"

\* The handles that must be called for a frame of this type: they match and
\* have a receiver when the frame arrives.
Listeners(type) == {born[i] : i \in {j \in Slots : Matches(j, type) /\ HasReceiver(j)}}

rx_begin(type) ==
    /\ rx_pc = "idle"
    /\ phase = "active"
    /\ packets < MaxPackets
    /\ packets' = packets + 1
    /\ rx_pc' = "scan" /\ rx_type' = type /\ rx_i' = 0 /\ rx_buf' = "NULL"
    /\ upcalls' = <<>>
    /\ stayed' = Listeners(type)
    /\ UNCHANGED <<table, phase, asked, born>>

\* Mutant of the next definition: a handle without a receiver is retried.
SkipWithoutAdvance ==
    /\ rx_pc = "scan" /\ rx_i \in Slots
    /\ ~(Matches(rx_i, rx_type) /\ HasReceiver(rx_i))
    /\ rx_i' = IF Matches(rx_i, rx_type) THEN rx_i ELSE rx_i + 1
    /\ UNCHANGED <<table, rx_pc, rx_type, rx_buf, phase, packets, history>>

\* The loop body for a slot that takes no upcall: closed, another type, or
\* no receiver (deliver_packet_to_handler fails at once).
rx_skip ==
    /\ rx_pc = "scan" /\ rx_i \in Slots
    /\ ~(Matches(rx_i, rx_type) /\ HasReceiver(rx_i))
    /\ rx_i' = rx_i + 1
    /\ rx_buf' = IF Matches(rx_i, rx_type) THEN "held" ELSE rx_buf
    /\ handles' = IF Matches(rx_i, rx_type)
                  THEN [handles EXCEPT ![rx_i] = Drop(handles[rx_i])] ELSE handles
    /\ UNCHANGED <<rx_pc, rx_type, extended, next_handle, phase, packets, history>>

\* The first match could not get an RX buffer: the loop returns at once.
rx_no_buffer ==
    /\ rx_pc = "scan" /\ rx_i \in Slots
    /\ Matches(rx_i, rx_type) /\ rx_buf = "NULL"
    /\ rx_pc' = "idle" /\ rx_type' = 0 /\ rx_i' = 0 /\ rx_buf' = "NULL"
    /\ stayed' = {}
    /\ UNCHANGED <<table, phase, packets, asked, born, upcalls>>

\* packet_deliver_to_handler: the far call of the receiver.
rx_upcall ==
    /\ rx_pc = "scan" /\ rx_i \in Slots
    /\ Matches(rx_i, rx_type) /\ HasReceiver(rx_i)
    /\ rx_pc' = "upcall" /\ rx_buf' = "held"
    /\ upcalls' = Append(upcalls, born[rx_i])
    /\ UNCHANGED <<table, rx_type, rx_i, phase, packets, asked, born, stayed>>

\* Mutant of the next definition: the loop ends at the first delivery.
ReturnEndsLoop(taken) ==
    /\ rx_pc = "upcall"
    /\ rx_pc' = "scan" /\ rx_i' = IF taken THEN MaxHandles ELSE rx_i + 1
    /\ UNCHANGED <<table, rx_type, rx_buf, phase, packets, history>>

\* Mutant of the next definition: the body advances the index as well.
ReturnAdvancesTwice(taken) ==
    /\ rx_pc = "upcall"
    /\ rx_pc' = "scan" /\ rx_i' = rx_i + 2
    /\ UNCHANGED <<table, rx_type, rx_buf, phase, packets, history>>

\* The receiver returns, with 0 when it took the frame.  The slot is credited
\* by its index, whatever the receiver has done to the table meanwhile.
rx_return(taken) ==
    /\ rx_pc = "upcall"
    /\ rx_pc' = "scan" /\ rx_i' = rx_i + 1
    /\ handles' = IF taken
                  THEN [handles EXCEPT ![rx_i] = Credit(handles[rx_i])]
                  ELSE [handles EXCEPT ![rx_i] = Drop(handles[rx_i])]
    /\ UNCHANGED <<rx_type, rx_buf, extended, next_handle, phase, packets, history>>

\* After the loop: the RX buffer is freed and the frame counted.
rx_end ==
    /\ rx_pc = "scan" /\ rx_i = MaxHandles
    /\ rx_pc' = "idle" /\ rx_type' = 0 /\ rx_i' = 0 /\ rx_buf' = "NULL"
    /\ stayed' = {}
    /\ UNCHANGED <<table, phase, packets, asked, born, upcalls>>

-----------------------------------------------------------------------------
Calls ==
    \/ \E t \in Types, n \in 0 .. Nics, r \in Receivers : pd_handle_access_type(t, n, r)
    \/ \E h \in Ids :
         \/ pd_release_handle(h)
         \/ pd_terminate(h)
         \/ \E o \in Options : pd_set_extended(h, o)
         \/ pd_clear_extended(h)

Receive ==
    \/ \E t \in Types \ {0} : rx_begin(t)
    \/ rx_skip
    \/ rx_no_buffer
    \/ rx_upcall
    \/ \E taken \in BOOLEAN : rx_return(taken)
    \/ rx_end

Next ==
    \/ api_install_hooks
    \/ api_activate
    \/ api_cleanup
    \/ Calls
    \/ Receive

Spec == Init /\ [][Next]_vars

\* The interrupt handler runs until it is done, and a receiver returns.
RxFairness ==
    /\ WF_vars(rx_skip)
    /\ WF_vars(rx_upcall)
    /\ WF_vars(\E taken \in BOOLEAN : rx_return(taken))
    /\ WF_vars(rx_end)

FairSpec == Spec /\ RxFairness

-----------------------------------------------------------------------------
(* Properties.                                                             *)

\* Every extended handle in use belongs to an open handle, and a handle has
\* at most one: release and upgrade keep the two tables together although
\* each searches them on its own.
ExtendedBacked ==
    phase = "active" =>
        \A e \in ExtSlots : extended[e].id # Invalid =>
            /\ \E i \in Slots : handles[i].handle = extended[e].id
            /\ \A f \in ExtSlots : extended[f].id = extended[e].id => f = e

\* An extended handle has only the settings asked for under its id since that
\* id was last released, although slots are reused, the setters also accept
\* PD_INVALID_HANDLE and then write into a free slot, and ids come round again
\* (api_upgrade_handle resets the slot it takes).
SettingsAreOwn ==
    phase = "active" =>
        \A e \in ExtSlots : extended[e].id # Invalid =>
            extended[e].set \subseteq asked[extended[e].id]

\* An extended setter on a valid handle is never refused for want of an
\* extended slot: the extended table cannot fill up before the basic one.
UpgradeHasRoom ==
    phase = "active" =>
        \A i \in Slots : Open(i) /\ ExtSlotsOf(handles[i].handle) = {} => ExtSlotsOf(Invalid) # {}

\* When the receive loop is over, every handle that was listening when the
\* frame arrived and was not released meanwhile has been called, and no
\* handle has been called twice, whatever the receivers opened and released
\* and although two of the handles may share an id by then.
EveryListenerOnce ==
    /\ rx_pc = "scan" /\ rx_i = MaxHandles =>
         \A h \in stayed : \E k \in DOMAIN upcalls : upcalls[k] = h
    /\ rx_pc # "idle" =>
         \A k, m \in DOMAIN upcalls : upcalls[k] = upcalls[m] => k = m

\* A frame's receive loop comes to its end once the receivers return.
ReceiveEnds == rx_pc # "idle" ~> rx_pc = "idle"

\* A claim of docs/api/API_REFERENCE.md that the code does not keep.

\* "Unique handle identifier": no two open handles have the same id.
UniqueIds ==
    phase = "active" => \A i, j \in Slots : Open(i) /\ handles[i].handle = handles[j].handle => i = j
=============================================================================
