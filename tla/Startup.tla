------------------------------- MODULE Startup -------------------------------
(***************************************************************************)
(* The boot sequence of src/src/c/main.c (main, driver_init,               *)
(* driver_cleanup), the unwinding of a failed boot (src/src/c/unwind.c),   *)
(* the binding of the card's interrupt (src/src/asm/nicirq.asm) and its    *)
(* enabling (src/src/c/tsrmgr.c).                                          *)
(*                                                                         *)
(* One action is one phase of the boot or one row of unwind_table.  What   *)
(* the phases leave in the machine is kept: the interrupt vectors, the     *)
(* mask of the two interrupt controllers, whether the cards run and        *)
(* whether the memory system is up.                                        *)
(*                                                                         *)
(* Abstracted: the numbers of the vectors (the vector of a line has the    *)
(* line's number; 0 is INT 0, not a hardware one), the contents of the     *)
(* configuration, and the phases that only read.                           *)
(***************************************************************************)
EXTENDS Integers

CONSTANTS
    Hardware,   \* lines a card may use; also the numbers of their vectors
    Software    \* other vectors, set or not when the driver is started

Cascade == 2                        \* IRQ 2, the slave controller's input
Timer == 0                          \* IRQ 0
Vectors == {0} \cup Hardware \cup Software
Lines == {Timer, Cascade} \cup Hardware

ASSUME LineAssumption == /\ Hardware \subseteq 3..15 \ {8}
                         /\ Software \subseteq 16..255

(***************************************************************************)
(* A handler is a segment and an offset.  Of the offset its low byte is    *)
(* kept, which irq_handler_init takes for a vector number.                 *)
(***************************************************************************)
Handlers == [seg : 0..2, off : Vectors]
Unset == [seg |-> 0, off |-> 0]
Driver == [seg |-> 2, off |-> 0]    \* nic_irq_handler

(***************************************************************************)
(* unwind_phase_t, and the points of the boot.                             *)
(***************************************************************************)
NONE == 0
PLATFORM_PROBE == 3
CONFIG == 4
CHIPSET == 5
VDS == 6
MEMORY_CORE == 7
PACKET_OPS == 8
HARDWARE == 9
MEMORY_DMA == 10
TSR == 11
API_HOOKS == 12
INTERRUPTS == 13
COMPLETE == 15

Points == {"main", "config", "chipset", "vds", "memory", "pktops", "hardware",
           "dma", "tsr", "hooks", "bind", "enable", "activate", "resident",
           "unwind", "failed", "exited", "removed"}

NoCard == 0                         \* hardware_get_primary_nic() = NULL

VARIABLES
    at,         \* where the boot is
    phase,      \* g_unwind_state.current_phase; the row while unwinding
    err,        \* the phase unwind_execute is called for, or "none"
    vec,        \* the interrupt vector table
    vec0,       \* the same before the driver was started
    saved,      \* g_unwind_state.saved_vectors: segments
    mask,       \* the masked lines, of both controllers
    mask0,      \* the same before the driver was started
    irq,        \* the data of nicirq.asm about its binding
    hw,         \* g_hardware_initialized: the cards may run
    nic,        \* the IRQ of the primary NIC, or NoCard
    nicint,     \* its interrupt enable register is set
    mem,        \* g_memory_system.initialized
    api_ready   \* the API answers calls

vars == <<at, phase, err, vec, vec0, saved, mask, mask0, irq, hw, nic, nicint, mem,
          api_ready>>
machine == <<vec, mask, irq, hw, nic, nicint, mem, api_ready>>
before == <<vec0, mask0>>

Bindings == [line : Lines, vector : Vectors, old : Handlers,
             imr : SUBSET Lines, cascade : {0, 1}]
Unbound == [line |-> 0, vector |-> 0, old |-> Unset, imr |-> {}, cascade |-> 0]

(***************************************************************************)
(* The BIOS has set INT 0 and the hardware vectors; the timer runs.        *)
(***************************************************************************)
Init == /\ at = "main" /\ phase = NONE /\ err = "none"
        /\ vec0 \in [Vectors -> Handlers \ {Driver}]
        /\ \A v \in Vectors : /\ vec0[v].seg < 2
                              /\ v \notin Software => vec0[v].seg = 1
                              /\ vec0[v].seg = 0 => vec0[v] = Unset
        /\ vec = vec0
        /\ mask0 \in SUBSET (Lines \ {Timer})
        /\ mask = mask0
        /\ saved = [v \in Vectors |-> 0]
        /\ irq = Unbound
        /\ hw = FALSE /\ nic = NoCard /\ nicint = FALSE
        /\ mem = FALSE /\ api_ready = FALSE

-----------------------------------------------------------------------------
(***************************************************************************)
(* The card's interrupt: irq_bind.asm and nicirq.asm.                      *)
(***************************************************************************)
Effective(line) == IF line = Cascade THEN 9 ELSE line

Slave(line) == line >= 8

(***************************************************************************)
(* irq_handler_init masks the line, opens the cascade for a line of the    *)
(* slave controller, asks DOS for the vector (which returns the old        *)
(* handler in ES:BX, so BL no longer holds the vector's number) and stores *)
(* and sets the vector BL names.                                           *)
(***************************************************************************)
\* Mutant of the next definition: the line is masked before the masks are saved.
BindingLate(line) ==
    [line |-> line, vector |-> vec[line].off, old |-> vec[line],
     imr |-> mask \cup {line},
     cascade |-> IF Slave(line) /\ Cascade \in mask THEN 1 ELSE irq.cascade]

Binding(line) ==
    [line |-> line, vector |-> vec[line].off, old |-> vec[line], imr |-> mask,
     cascade |-> IF Slave(line) /\ Cascade \in mask THEN 1 ELSE irq.cascade]

BindMask(line) == (mask \cup {line}) \ (IF Slave(line) THEN {Cascade} ELSE {})

nic_irq_bind_and_install ==
    /\ at = "bind" /\ at' = "enable"
    /\ IF nic = NoCard
       THEN UNCHANGED <<irq, mask, vec>>
       ELSE LET line == Effective(nic)
            IN  /\ irq' = Binding(line)
                /\ mask' = BindMask(line)
                /\ vec' = [vec EXCEPT ![vec[line].off] = Driver]
    /\ UNCHANGED <<phase, err, saved, hw, nic, nicint, mem, api_ready, before>>

(***************************************************************************)
(* irq_handler_uninstall.  The old handler goes back to the vector it      *)
(* remembers, unless either is zero; the line gets its own bit of the      *)
(* saved mask back, and the cascade its bit if it was opened.              *)
(***************************************************************************)
Restorable == irq.vector # 0 /\ irq.old.seg # 0

\* Mutant of the next definition: the vectors are left to unwind_api_hooks.
VectorsKept(table) == table

VectorsWithout(table) ==
    IF Restorable THEN [table EXCEPT ![irq.vector] = irq.old] ELSE table

UninstallMask ==
    LET own == (mask \ {irq.line}) \cup (irq.imr \cap {irq.line})
    IN  IF irq.cascade = 0 THEN own
        ELSE (own \ {Cascade}) \cup (irq.imr \cap {Cascade})

UninstalledIrq ==
    IF Restorable THEN [irq EXCEPT !.vector = 0, !.old = Unset] ELSE irq

(***************************************************************************)
(* hardware_cleanup: nothing unless the layer is up.  The cards' own       *)
(* cleanup stops them.                                                     *)
(***************************************************************************)
hardware_cleanup(table) ==
    IF hw
    THEN /\ vec' = VectorsWithout(table)
         /\ mask' = UninstallMask
         /\ irq' = UninstalledIrq
         /\ hw' = FALSE /\ nic' = NoCard /\ nicint' = FALSE
    ELSE /\ vec' = table
         /\ UNCHANGED <<mask, irq, hw, nic, nicint>>

-----------------------------------------------------------------------------
(***************************************************************************)
(* The boot.  A phase that succeeds is marked; one that fails starts the   *)
(* unwinding at the last phase that was marked.                            *)
(***************************************************************************)
Marked(here, next, done) ==
    at = here /\ at' = next /\ phase' = done /\ err' = err

Unmarked(here, next) == Marked(here, next, phase)

Failed(here) == at = here /\ at' = "unwind" /\ phase' = phase /\ err' = here

(***************************************************************************)
(* main: unwind_init saves the segments of the vectors; the phases 0 to 2  *)
(* only read, and return without unwinding when they fail.                 *)
(***************************************************************************)
main_early == /\ \/ Marked("main", "config", PLATFORM_PROBE)
                 \/ Unmarked("main", "exited")
              /\ saved' = [v \in Vectors |-> vec[v].seg]
              /\ UNCHANGED <<machine, before>>

config_parse_params ==
    /\ Marked("config", "chipset", CONFIG) \/ Failed("config")
    /\ UNCHANGED <<saved, machine, before>>

detect_system_chipset == /\ Marked("chipset", "vds", CHIPSET)
                         /\ UNCHANGED <<saved, machine, before>>

\* Without VDS the phase is not marked, and the boot goes on.
vds_init == /\ Marked("vds", "memory", VDS) \/ Unmarked("vds", "memory")
            /\ UNCHANGED <<saved, machine, before>>

memory_init_core ==
    /\ Marked("memory", "pktops", MEMORY_CORE)
    /\ mem' = TRUE
    /\ UNCHANGED <<saved, vec, mask, irq, hw, nic, nicint, api_ready, before>>

packet_ops_init ==
    /\ Marked("pktops", "hardware", PACKET_OPS) \/ Failed("pktops")
    /\ UNCHANGED <<saved, machine, before>>

(***************************************************************************)
(* hardware_init_all: the layer and the cards come up before the checks    *)
(* that may fail it (PCI required, no NIC, DMA mapping), and some cards    *)
(* (3C509B) enable their interrupts then.  The primary NIC may be missing  *)
(* even so: it must be marked initialized.                                 *)
(***************************************************************************)
hardware_init_all ==
    /\ \/ /\ Marked("hardware", "dma", HARDWARE)
          /\ hw' = TRUE /\ nicint' \in BOOLEAN
          /\ nic' \in {NoCard} \cup Hardware \cup
                      (IF 9 \in Hardware THEN {Cascade} ELSE {})
       \/ /\ Failed("hardware")
          /\ hw' = TRUE /\ nicint' \in BOOLEAN /\ nic' = nic
       \/ /\ Failed("hardware")
          /\ UNCHANGED <<hw, nicint, nic>>
    /\ UNCHANGED <<saved, vec, mask, irq, mem, api_ready, before>>

memory_init_dma == /\ Marked("dma", "tsr", MEMORY_DMA) \/ Failed("dma")
                   /\ UNCHANGED <<saved, machine, before>>

\* Only a driver that is high already is "relocated".
tsr_relocate == /\ Marked("tsr", "hooks", TSR) \/ Unmarked("tsr", "hooks")
                /\ UNCHANGED <<saved, machine, before>>

api_install_hooks == /\ Marked("hooks", "bind", API_HOOKS)
                     /\ UNCHANGED <<saved, machine, before>>

(***************************************************************************)
(* enable_driver_interrupts clears the card, opens its line and, for the   *)
(* slave controller, the cascade; only then it enables the card, which may *)
(* fail.                                                                   *)
(***************************************************************************)
\* Mutant of the next definition: IRQ 2 is not taken for IRQ 9.
EnableMaskRaw == mask \ ({nic} \cup (IF Slave(nic) THEN {Cascade} ELSE {}))

EnableMask == LET line == Effective(nic)
              IN  mask \ ({line} \cup (IF Slave(line) THEN {Cascade} ELSE {}))

enable_driver_interrupts ==
    /\ \/ /\ nic = NoCard /\ Failed("enable")
          /\ UNCHANGED <<mask, nicint>>
       \/ /\ nic # NoCard
          /\ mask' = EnableMask
          /\ \/ Marked("enable", "activate", INTERRUPTS) /\ nicint' = TRUE
             \/ Failed("enable") /\ nicint' = FALSE
    /\ UNCHANGED <<saved, vec, irq, hw, nic, mem, api_ready, before>>

api_activate ==
    /\ Marked("activate", "resident", COMPLETE)
    /\ api_ready' = TRUE
    /\ UNCHANGED <<saved, vec, mask, irq, hw, nic, nicint, mem, before>>

(***************************************************************************)
(* driver_cleanup of a driver that was started; api_cleanup leaves         *)
(* api_ready as it is.                                                     *)
(***************************************************************************)
driver_cleanup ==
    /\ at = "resident" /\ at' = "removed"
    /\ hardware_cleanup(vec)
    /\ mem' = FALSE
    /\ UNCHANGED <<phase, err, saved, api_ready, before>>

-----------------------------------------------------------------------------
(***************************************************************************)
(* unwind_execute: the rows of unwind_table from the last marked phase     *)
(* down.  The phases after API_HOOKS cannot fail, so the rows above it are *)
(* never run.                                                              *)
(***************************************************************************)
Row(r, next) ==
    at = "unwind" /\ phase = r /\ phase' = next /\ at' = at /\ err' = err

(***************************************************************************)
(* restore_interrupt_vectors: a segment that was saved comes back with     *)
(* offset 0.                                                               *)
(***************************************************************************)
RestoredVectors ==
    [v \in Vectors |-> IF saved[v] = 0 THEN vec[v]
                       ELSE [seg |-> saved[v], off |-> 0]]

unwind_api_hooks == /\ Row(API_HOOKS, API_HOOKS - 1)
                    /\ api_ready' = FALSE
                    /\ vec' = RestoredVectors
                    /\ UNCHANGED <<saved, mask, irq, hw, nic, nicint, mem,
                                   before>>

\* Mutant of the next definition: the hardware layer is left as it is.
UnwindHardwareNot == /\ Row(HARDWARE, HARDWARE - 1)
                     /\ UNCHANGED <<saved, machine, before>>

unwind_hardware == /\ Row(HARDWARE, HARDWARE - 1)
                   /\ hardware_cleanup(vec)
                   /\ UNCHANGED <<saved, mem, api_ready, before>>

unwind_memory_core == /\ Row(MEMORY_CORE, MEMORY_CORE - 1)
                      /\ mem' = FALSE
                      /\ UNCHANGED <<saved, vec, mask, irq, hw, nic, nicint,
                                     api_ready, before>>

\* The rows with nothing to undo here: vds_manager_cleanup finds no lock.
unwind_other == /\ \E r \in 1..COMPLETE \ {API_HOOKS, HARDWARE, MEMORY_CORE} :
                       Row(r, r - 1)
                /\ UNCHANGED <<saved, machine, before>>

unwind_done == /\ at = "unwind" /\ phase = NONE
               /\ at' = "failed" /\ phase' = NONE /\ err' = err
               /\ UNCHANGED <<saved, machine, before>>

unwind_execute == \/ unwind_api_hooks \/ unwind_hardware \/ unwind_memory_core
                  \/ unwind_other \/ unwind_done

Next == \/ main_early \/ config_parse_params \/ detect_system_chipset
        \/ vds_init \/ memory_init_core \/ packet_ops_init
        \/ hardware_init_all \/ memory_init_dma \/ tsr_relocate
        \/ api_install_hooks \/ nic_irq_bind_and_install
        \/ enable_driver_interrupts \/ api_activate \/ driver_cleanup
        \/ unwind_execute

Spec == Init /\ [][Next]_vars

-----------------------------------------------------------------------------
(***************************************************************************)
(* Types; unwinding ends at the first row of the table.                    *)
(***************************************************************************)
TypeOK == /\ at \in Points /\ phase \in 0..COMPLETE
          /\ err \in Points \cup {"none"}
          /\ vec \in [Vectors -> Handlers] /\ vec0 \in [Vectors -> Handlers]
          /\ saved \in [Vectors -> 0..2]
          /\ mask \in SUBSET Lines /\ mask0 \in SUBSET Lines
          /\ irq \in Bindings
          /\ hw \in BOOLEAN /\ nicint \in BOOLEAN /\ mem \in BOOLEAN
          /\ api_ready \in BOOLEAN
          /\ nic \in {NoCard, Cascade} \cup Hardware

Over == at \in {"failed", "exited", "removed"}

(***************************************************************************)
(* Whatever the boot got to, afterwards both interrupt controllers mask    *)
(* what they masked before: the line of the card, the cascade that was     *)
(* opened for it, and the timer's line, which irq_handler_uninstall masks  *)
(* and opens when no card was ever bound.                                  *)
(***************************************************************************)
MasksRestored == Over => mask = mask0

(***************************************************************************)
(* After a failed boot no vector leads into the driver, whichever vector   *)
(* irq_handler_init wrote: restore_interrupt_vectors overwrites those that *)
(* were set and irq_handler_uninstall the one it remembers.                *)
(***************************************************************************)
NoHandlerLeft == at = "failed" => \A v \in Vectors : vec[v] # Driver

(***************************************************************************)
(* At every point of the boot the state is well formed, and a boot that    *)
(* has failed left no handler behind.                                      *)
(***************************************************************************)
HandlerInv == TypeOK /\ NoHandlerLeft

(***************************************************************************)
(* A driver that is resident can be interrupted by its card: the line the  *)
(* boot masked when it bound the handler is open again, whichever          *)
(* controller it is on, and so is the cascade.                             *)
(***************************************************************************)
Deliverable ==
    at = "resident" => LET line == Effective(nic)
                       IN  /\ nicint
                           /\ line \notin mask
                           /\ Slave(line) => Cascade \notin mask

(***************************************************************************)
(* The memory system goes down only when no card can interrupt into it any *)
(* more, in unwinding as in driver_cleanup, unless it is the hardware      *)
(* phase that failed: then it is not unwound, and a card it had enabled    *)
(* stays enabled (SystemRestored is refuted by that).                      *)
(***************************************************************************)
MemoryOutlivesCard ==
    [][mem /\ ~mem' /\ err # "hardware" => ~nicint']_vars

(***************************************************************************)
(* What unwind_execute says of itself: "Unwind complete - system           *)
(* restored".  The vectors and masks are the old ones and no card runs.    *)
(***************************************************************************)
SystemRestored == at = "failed" => vec = vec0 /\ mask = mask0 /\ ~hw
=============================================================================
