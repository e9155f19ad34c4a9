--------------------------- MODULE StartupProofs ---------------------------
(***************************************************************************)
(* What holds of every boot and every unwinding of Startup, whichever      *)
(* lines a card may use, whatever the vectors held and the controllers     *)
(* masked before.                                                          *)
(***************************************************************************)
EXTENDS Startup, TLAPS

Early == {"main", "config", "chipset", "vds", "memory", "pktops", "hardware"}
Unhooked == {"dma", "tsr", "hooks", "bind"}
Hooked == {"enable", "activate", "resident"}

(***************************************************************************)
(* What was there before: every vector that is not a software one was set, *)
(* none led into the driver, and the timer's line was open.                *)
(***************************************************************************)
Before == /\ \A v \in Vectors : /\ vec0[v].seg < 2
                                /\ v \notin Software => vec0[v].seg = 1
          /\ Timer \notin mask0
          /\ at # "main" => \A v \in Vectors : saved[v] = vec0[v].seg

Intact == irq = Unbound /\ vec = vec0 /\ mask = mask0

(***************************************************************************)
(* While the handler is bound, nicirq.asm remembers what                   *)
(* irq_handler_uninstall needs: the old handler and the old mask.  The     *)
(* masks differ from the old ones in the line only, and in the cascade     *)
(* only if it was recorded as opened.                                      *)
(***************************************************************************)
Opened == IF irq.cascade = 1 THEN {Cascade} ELSE {}

Bound == /\ irq.line \in Hardware
         /\ irq.line = Effective(nic)
         /\ irq.imr = mask0
         /\ Slave(irq.line) => Cascade \notin mask
         /\ mask \ ({irq.line} \cup Opened) = mask0 \ ({irq.line} \cup Opened)

(***************************************************************************)
(* A vector that leads into the driver is the one nicirq.asm remembers,    *)
(* and the handler it remembers for it was set by somebody else.  Below    *)
(* the row of the API hooks only a vector that was unset is left; below    *)
(* the row of the hardware none is.                                        *)
(***************************************************************************)
Ours == /\ irq.old.seg < 2
        /\ \A v \in Vectors : vec[v] = Driver =>
              /\ v = irq.vector
              /\ irq.old.seg = 1
              /\ at \in {"unwind", "failed"} =>
                    /\ phase >= HARDWARE
                    /\ phase < API_HOOKS => v \in Software

(***************************************************************************)
(* How far the boot, or its unwinding, has come.                           *)
(***************************************************************************)
Progress ==
    /\ nic # NoCard => Effective(nic) \in Hardware
    /\ at \in Early => /\ Intact /\ ~hw /\ ~nicint /\ nic = NoCard
                       /\ phase < HARDWARE /\ err = "none"
    /\ at \in Unhooked => Intact /\ hw /\ phase >= HARDWARE /\ phase <= API_HOOKS
    /\ at \in {"bind", "enable"} => phase = API_HOOKS
    /\ at \in Hooked => /\ hw
                        /\ IF nic = NoCard THEN Intact ELSE Bound
    /\ at \in {"activate", "resident"} =>
          /\ nic # NoCard /\ nicint
          /\ irq.line \notin mask
    /\ at = "unwind" =>
          /\ phase <= API_HOOKS
          /\ phase >= HARDWARE => hw
          /\ hw => \/ irq = Unbound /\ mask = mask0
                   \/ nic # NoCard /\ Bound /\ phase >= HARDWARE
          /\ ~hw => mask = mask0
          /\ phase < HARDWARE /\ err # "hardware" => ~hw /\ ~nicint
    /\ Over => mask = mask0
    /\ at = "failed" => phase = NONE

BootInv == TypeOK /\ Before /\ Ours /\ Progress

-----------------------------------------------------------------------------
\* A card's line is neither a software vector nor the cascade nor the timer.
LEMMA HardwareLines ==
    \A line \in Hardware : line \notin Software /\ line # Cascade /\ line # 0
<1> SUFFICES ASSUME NEW line \in Hardware
             PROVE  line \notin Software /\ line # Cascade /\ line # 0
  OBVIOUS
<1>1. line \in 3..15
  BY LineAssumption
<1>2. \A v \in Software : v > 15
  BY LineAssumption
<1>3. QED
  BY <1>1, <1>2 DEF Cascade

\* What an unbound nicirq.asm holds has the type of its data.
LEMMA UnboundType == Unbound \in Bindings /\ Unset \in Handlers /\ Driver \in Handlers
  BY DEF Unbound, Bindings, Unset, Driver, Handlers, Lines, Vectors, Timer

\* irq_handler_uninstall gives both controllers their masks back, bound or not.
LEMMA UninstallRestores ==
    ASSUME TypeOK, Timer \notin mask0,
           (irq = Unbound /\ mask = mask0) \/ Bound
    PROVE  UninstallMask = mask0
<1>1. CASE irq = Unbound /\ mask = mask0
  BY <1>1 DEF UninstallMask, Unbound, Timer
<1>2. CASE Bound
  <2>1. irq.cascade \in {0, 1}
    BY DEF TypeOK, Bindings
  <2>2. QED
    BY <1>2, <2>1 DEF Bound, UninstallMask, Opened
<1>3. QED
  BY <1>1, <1>2

\* The old mask, and the line and the cascade of the binding, are lines.
LEMMA BindType ==
    ASSUME TypeOK, NEW line \in Hardware
    PROVE  /\ Binding(line) \in Bindings
           /\ BindMask(line) \in SUBSET Lines
           /\ vec[line].off \in Vectors /\ line \in Vectors
<1>1. line \in Vectors /\ line \in Lines
  BY DEF Vectors, Lines
<1>2. vec[line] \in Handlers /\ vec[line].off \in Vectors
  BY <1>1 DEF TypeOK, Handlers
<1>3. irq.cascade \in {0, 1} /\ mask \in SUBSET Lines
  BY DEF TypeOK, Bindings
<1>4. Binding(line) \in Bindings
  BY <1>1, <1>2, <1>3 DEF Binding, Bindings
<1>5. QED
  BY <1>1, <1>2, <1>3, <1>4 DEF BindMask

\* hardware_cleanup keeps the types, and afterwards the masks are the old ones.
LEMMA CleanupStep ==
    ASSUME TypeOK, hw, Timer \notin mask0, irq.old.seg < 2,
           (irq = Unbound /\ mask = mask0) \/ Bound,
           hardware_cleanup(vec)
    PROVE  /\ vec' \in [Vectors -> Handlers] /\ irq' \in Bindings
           /\ mask' = mask0
           /\ hw' = FALSE /\ nicint' = FALSE /\ nic' = NoCard
           /\ irq'.old.seg < 2
           /\ \A v \in Vectors : v # irq.vector => vec'[v] = vec[v]
           /\ IF irq.vector # 0 /\ irq.old.seg # 0 THEN vec'[irq.vector] = irq.old
                                                  ELSE vec' = vec /\ irq' = irq
<1>1. irq.vector \in Vectors /\ irq.old \in Handlers /\ irq \in Bindings
  BY DEF TypeOK, Bindings
<1>2. [irq EXCEPT !.vector = 0, !.old = Unset] \in Bindings
  BY <1>1, UnboundType DEF Bindings, Vectors
<1>3. [irq EXCEPT !.vector = 0, !.old = Unset].old.seg = 0
  BY <1>1 DEF Bindings, Unset
<1>4. irq' \in Bindings /\ irq'.old.seg < 2
  <2>1. irq' = irq \/ irq' = [irq EXCEPT !.vector = 0, !.old = Unset]
    BY DEF hardware_cleanup, UninstalledIrq
  <2> DEFINE gone == [irq EXCEPT !.vector = 0, !.old = Unset]
  <2>2. gone \in Bindings /\ gone.old.seg = 0 /\ (irq' = irq \/ irq' = gone)
    BY <1>2, <1>3, <2>1
  <2> HIDE DEF gone
  <2>3. QED
    BY <1>1, <2>2
<1>5. QED
  BY <1>1, <1>4, UninstallRestores DEF hardware_cleanup, TypeOK, VectorsWithout,
     UninstalledIrq, Restorable

\* A phase that leaves the machine alone leaves the binding as it is.
LEMMA SameMachine ==
    ASSUME UNCHANGED <<machine, before>>
    PROVE  /\ Bound' <=> Bound
           /\ Intact' <=> Intact
  BY DEF machine, before, Bound, Intact, Opened

\* A phase that leaves the machine alone keeps what the vectors show, unless
\* an unwinding starts or goes on.
LEMMA QuietStep ==
    ASSUME Before, Ours, UNCHANGED <<machine, before, saved>>, at # "main",
           at' \in {"unwind", "failed"} => vec = vec0
    PROVE  Before' /\ Ours'
<1>1. Before'
  BY DEF Before, before
<1>2. Ours'
  BY DEF Before, Ours, machine, Driver
<1>3. QED
  BY <1>1, <1>2

\* The inductive invariant of the boot.
THEOREM BootInvariant == Spec => []BootInv
<1>1. Init => BootInv
  <2> SUFFICES ASSUME Init PROVE BootInv
    OBVIOUS
  <2>1. TypeOK
    <3>1. vec \in [Vectors -> Handlers] /\ vec0 \in [Vectors -> Handlers]
      BY DEF Init
    <3>2. mask \in SUBSET Lines /\ mask0 \in SUBSET Lines
      BY DEF Init
    <3>3. saved \in [Vectors -> 0..2]
      BY DEF Init
    <3>4. at \in Points /\ phase \in 0..COMPLETE /\ err \in Points \cup {"none"}
      BY DEF Init, Points, NONE, COMPLETE
    <3>5. QED
      BY <3>1, <3>2, <3>3, <3>4, UnboundType DEF Init, TypeOK
  <2>2. Before
    BY DEF Init, Before
  <2>3. Ours
    <3>1. \A v \in Vectors : vec[v] # Driver
      BY DEF Init
    <3>2. QED
      BY <3>1 DEF Ours, Init, Unbound, Unset
  <2>4. Progress
    BY DEF Init, Progress, Early, Unhooked, Hooked, Intact, Over, NONE, NoCard, HARDWARE
  <2>5. QED
    BY <2>1, <2>2, <2>3, <2>4 DEF BootInv
<1>2. BootInv /\ [Next]_vars => BootInv'
  <2> SUFFICES ASSUME BootInv, [Next]_vars PROVE BootInv'
    OBVIOUS
  <2> USE DEF BootInv
  <2>1. CASE main_early
    <3>1. TypeOK'
      BY <2>1 DEF main_early, Marked, Unmarked, machine, before, TypeOK, Points,
         PLATFORM_PROBE, COMPLETE, Handlers
    <3>2. Before' /\ Ours'
      <4>1. vec = vec0 /\ at' \in {"config", "exited"}
        BY <2>1 DEF main_early, Marked, Unmarked, Progress, Early, Intact
      <4>2. Before'
        BY <2>1, <4>1 DEF main_early, Before, before, TypeOK
      <4>3. Ours'
        BY <2>1, <4>1 DEF main_early, Ours, machine
      <4>4. QED
        BY <4>2, <4>3
    <3>3. Progress'
      BY <2>1, SameMachine DEF main_early, Marked, Unmarked, machine, before, Progress,
         Early, Unhooked, Hooked, Over, PLATFORM_PROBE, HARDWARE, Intact, TypeOK
    <3>4. QED
      BY <3>1, <3>2, <3>3
  <2>2. CASE config_parse_params
    <3>1. TypeOK'
      BY <2>2 DEF config_parse_params, Marked, Failed, machine, before, TypeOK, Points,
         CONFIG, COMPLETE
    <3>2. Before' /\ Ours'
      BY <2>2, QuietStep DEF config_parse_params, Marked, Failed, Progress, Early, Intact
    <3>3. Progress'
      BY <2>2, SameMachine DEF config_parse_params, Marked, Failed, machine, before, Progress,
         Early, Unhooked, Hooked, Over, CONFIG, HARDWARE, API_HOOKS, Intact, TypeOK
    <3>4. QED
      BY <3>1, <3>2, <3>3
  <2>3. CASE detect_system_chipset
    <3>1. TypeOK'
      BY <2>3 DEF detect_system_chipset, Marked, CHIPSET, machine, before, TypeOK, Points,
         COMPLETE
    <3>2. Before' /\ Ours'
      BY <2>3, QuietStep DEF detect_system_chipset, Marked, CHIPSET, Progress,
         Early, Unhooked, Intact
    <3>3. Progress'
      BY <2>3, SameMachine DEF detect_system_chipset, Marked, CHIPSET, machine,
         before, Progress, Early, Unhooked, Hooked, Over, HARDWARE, API_HOOKS,
         Intact, TypeOK
    <3>4. QED
      BY <3>1, <3>2, <3>3
  <2>4. CASE vds_init
    <3>1. TypeOK'
      BY <2>4 DEF vds_init, Marked, Unmarked, VDS, machine, before, TypeOK, Points,
         COMPLETE
    <3>2. Before' /\ Ours'
      BY <2>4, QuietStep DEF vds_init, Marked, Unmarked, VDS, Progress,
         Early, Unhooked, Intact
    <3>3. Progress'
      BY <2>4, SameMachine DEF vds_init, Marked, Unmarked, VDS, machine,
         before, Progress, Early, Unhooked, Hooked, Over, HARDWARE, API_HOOKS,
         Intact, TypeOK
    <3>4. QED
      BY <3>1, <3>2, <3>3
  <2>5. CASE memory_init_core
    <3>1. TypeOK'
      BY <2>5 DEF memory_init_core, Marked, MEMORY_CORE, before, TypeOK, Points, COMPLETE
    <3>2. Before' /\ Ours'
      BY <2>5 DEF memory_init_core, Marked, before, Before, Ours, TypeOK
    <3>3. Progress'
      BY <2>5 DEF memory_init_core, Marked, MEMORY_CORE, before, Progress, Early, Unhooked,
         Hooked, Over, HARDWARE, Intact
    <3>4. QED
      BY <3>1, <3>2, <3>3
  <2>6. CASE packet_ops_init
    <3>1. TypeOK'
      BY <2>6 DEF packet_ops_init, Marked, Failed, PACKET_OPS, machine, before, TypeOK, Points,
         COMPLETE
    <3>2. Before' /\ Ours'
      BY <2>6, QuietStep DEF packet_ops_init, Marked, Failed, PACKET_OPS, Progress,
         Early, Unhooked, Intact
    <3>3. Progress'
      BY <2>6, SameMachine DEF packet_ops_init, Marked, Failed, PACKET_OPS, machine,
         before, Progress, Early, Unhooked, Hooked, Over, HARDWARE, API_HOOKS,
         Intact, TypeOK
    <3>4. QED
      BY <3>1, <3>2, <3>3
  <2>7. CASE hardware_init_all
    <3>1. TypeOK'
      <4>1. nic' \in {NoCard, Cascade} \cup Hardware
        BY <2>7 DEF hardware_init_all, TypeOK
      <4>2. hw' \in BOOLEAN /\ nicint' \in BOOLEAN
        BY <2>7 DEF hardware_init_all, TypeOK
      <4>3. QED
        BY <2>7, <4>1, <4>2 DEF hardware_init_all, Marked, Failed, before, TypeOK, Points,
           COMPLETE, HARDWARE
    <3>2. Before' /\ Ours'
      <4>1. vec = vec0 /\ at = "hardware"
        BY <2>7 DEF hardware_init_all, Marked, Failed, Progress, Early, Intact
      <4>2. \A v \in Vectors : vec[v] # Driver
        BY <4>1 DEF Before, Driver
      <4>3. QED
        BY <2>7, <4>1, <4>2 DEF hardware_init_all, before, Before, Ours
    <3>3. Progress'
      <4>1. nic' # NoCard => Effective(nic') \in Hardware
        BY <2>7, LineAssumption DEF hardware_init_all, Progress, Effective, Cascade, NoCard,
           Marked, Failed, Early
      <4>2. QED
        BY <2>7, <4>1 DEF hardware_init_all, Marked, Failed, before, Progress, Early, Unhooked,
           Hooked, Over, HARDWARE, API_HOOKS, Intact, TypeOK
    <3>4. QED
      BY <3>1, <3>2, <3>3
  <2>8. CASE memory_init_dma
    <3>1. TypeOK'
      BY <2>8 DEF memory_init_dma, Marked, Failed, MEMORY_DMA, machine, before, TypeOK, Points,
         COMPLETE
    <3>2. Before' /\ Ours'
      BY <2>8, QuietStep DEF memory_init_dma, Marked, Failed, MEMORY_DMA, Progress,
         Early, Unhooked, Intact
    <3>3. Progress'
      BY <2>8, SameMachine DEF memory_init_dma, Marked, Failed, MEMORY_DMA, machine,
         before, Progress, Early, Unhooked, Hooked, Over, HARDWARE, API_HOOKS,
         Intact, TypeOK
    <3>4. QED
      BY <3>1, <3>2, <3>3
  <2>9. CASE tsr_relocate
    <3>1. TypeOK'
      BY <2>9 DEF tsr_relocate, Marked, Unmarked, TSR, machine, before, TypeOK, Points,
         COMPLETE
    <3>2. Before' /\ Ours'
      BY <2>9, QuietStep DEF tsr_relocate, Marked, Unmarked, TSR, Progress,
         Early, Unhooked, Intact
    <3>3. Progress'
      BY <2>9, SameMachine DEF tsr_relocate, Marked, Unmarked, TSR, machine,
         before, Progress, Early, Unhooked, Hooked, Over, HARDWARE, API_HOOKS,
         Intact, TypeOK
    <3>4. QED
      BY <3>1, <3>2, <3>3
  <2>10. CASE api_install_hooks
    <3>1. TypeOK'
      BY <2>10 DEF api_install_hooks, Marked, machine, before, TypeOK, Points,
         COMPLETE, API_HOOKS
    <3>2. Before' /\ Ours'
      BY <2>10, QuietStep DEF api_install_hooks, Marked, Progress,
         Early, Unhooked, Intact
    <3>3. Progress'
      BY <2>10, SameMachine DEF api_install_hooks, Marked, machine,
         before, Progress, Early, Unhooked, Hooked, Over, HARDWARE, API_HOOKS,
         Intact, TypeOK
    <3>4. QED
      BY <3>1, <3>2, <3>3
  <2>11. CASE nic_irq_bind_and_install
    <3> DEFINE line == Effective(nic)
    <3>1. /\ at = "bind" /\ at' = "enable" /\ Intact /\ hw /\ phase = API_HOOKS
          /\ UNCHANGED <<phase, err, saved, hw, nic, nicint, mem, api_ready, before>>
          /\ nic # NoCard => line \in Hardware
      BY <2>11 DEF nic_irq_bind_and_install, Progress, Unhooked
    <3>2. CASE nic = NoCard
      <4>1. UNCHANGED <<irq, mask, vec>>
        BY <2>11, <3>2 DEF nic_irq_bind_and_install
      <4>2. (Bound' <=> Bound) /\ (Intact' <=> Intact)
        BY <3>1, <4>1 DEF Bound, Intact, Opened, before
      <4>3. TypeOK'
        BY <3>1, <4>1 DEF TypeOK, Points, before
      <4>4. Before' /\ Ours'
        BY <3>1, <4>1 DEF Before, Ours, before
      <4>5. Progress'
        BY <3>1, <3>2, <4>1 DEF Progress, Early, Unhooked, Hooked, Over, Intact, before
      <4>6. QED
        BY <4>3, <4>4, <4>5
    <3>3. CASE nic # NoCard
      <4>1. /\ irq' = Binding(line) /\ mask' = BindMask(line)
            /\ vec' = [vec EXCEPT ![vec[line].off] = Driver]
        BY <2>11, <3>3 DEF nic_irq_bind_and_install
      <4>2. /\ line \in Hardware /\ line \in Vectors /\ vec[line].off \in Vectors
            /\ irq' \in Bindings /\ mask' \in SUBSET Lines
        BY <3>1, <3>3, <4>1, BindType
      <4>3. vec' \in [Vectors -> Handlers]
        BY <4>1, <4>2, UnboundType DEF TypeOK
      <4>4. TypeOK'
        BY <3>1, <4>2, <4>3 DEF TypeOK, Points, before
      <4>5. Before'
        BY <3>1 DEF Before, before
      <4>6. Ours'
        <5>1. vec = vec0 /\ \A v \in Vectors : vec[v] # Driver
          BY <3>1 DEF Intact, Before, Driver
        <5>2. irq'.vector = vec[line].off /\ irq'.old = vec[line]
          BY <4>1 DEF Binding
        <5>3. vec[line].seg = 1
          <6>1. line \notin Software
            BY <4>2, HardwareLines
          <6>2. QED
            BY <6>1, <5>1, <4>2 DEF Before
        <5>4. QED
          BY <3>1, <4>1, <4>2, <5>1, <5>2, <5>3 DEF Ours, TypeOK
      <4>7. Bound'
        <5>1. /\ irq'.line = line /\ irq'.imr = mask0 /\ mask = mask0
              /\ irq'.cascade = IF Slave(line) /\ Cascade \in mask0 THEN 1 ELSE 0
          BY <3>1, <4>1 DEF Binding, Intact, Unbound
        <5>2. line # Cascade
          BY <4>2, HardwareLines
        <5>3. QED
          BY <3>1, <4>1, <4>2, <5>1, <5>2 DEF Bound, Opened, BindMask, before
      <4>8. Progress'
        BY <3>1, <3>3, <4>7 DEF Progress, Early, Unhooked, Hooked, Over
      <4>9. QED
        BY <4>4, <4>5, <4>6, <4>8
    <3>4. QED
      BY <3>2, <3>3
  <2>12. CASE enable_driver_interrupts
    <3>1. /\ at = "enable" /\ at' \in {"activate", "unwind"} /\ hw /\ phase = API_HOOKS
          /\ IF nic = NoCard THEN Intact ELSE Bound
          /\ UNCHANGED <<saved, vec, irq, hw, nic, mem, api_ready, before>>
      BY <2>12 DEF enable_driver_interrupts, Progress, Hooked, Marked, Failed
    <3>2. mask' \in SUBSET Lines /\ nicint' \in BOOLEAN
      BY <2>12 DEF enable_driver_interrupts, EnableMask, TypeOK
    <3>3. TypeOK'
      BY <2>12, <3>1, <3>2 DEF enable_driver_interrupts, Marked, Failed, TypeOK, Points, before,
         INTERRUPTS, COMPLETE
    <3>4. Before'
      BY <3>1 DEF Before, before
    <3>5. Ours'
      BY <2>12, <3>1 DEF enable_driver_interrupts, Marked, Failed, Ours, API_HOOKS, HARDWARE
    <3>6. CASE nic = NoCard
      BY <2>12, <3>1, <3>3, <3>4, <3>5, <3>6 DEF enable_driver_interrupts, Failed, Progress, Early,
         Unhooked, Hooked, Over, Intact, before, API_HOOKS, HARDWARE
    <3>7. CASE nic # NoCard
      <4>1. mask' = EnableMask /\ Bound
        BY <2>12, <3>1, <3>7 DEF enable_driver_interrupts
      <4>2. Bound' /\ irq'.line \notin mask'
        <5>1. mask' = mask \ {irq.line}
          BY <4>1 DEF Bound, EnableMask
        <5>2. QED
          BY <3>1, <4>1, <5>1 DEF Bound, Opened, before
      <4>3. Progress'
        BY <2>12, <3>1, <3>7, <4>2 DEF enable_driver_interrupts, Marked, Failed, Progress, Early,
           Unhooked, Hooked, Over, API_HOOKS, HARDWARE
      <4>4. QED
        BY <3>3, <3>4, <3>5, <4>3
    <3>8. QED
      BY <3>6, <3>7
  <2>13. CASE api_activate
    <3>1. TypeOK'
      BY <2>13 DEF api_activate, Marked, before, TypeOK, Points, COMPLETE
    <3>2. Before' /\ Ours'
      BY <2>13 DEF api_activate, Marked, before, Before, Ours
    <3>3. Bound'
      BY <2>13 DEF api_activate, Marked, before, Progress, Hooked, Bound, Opened
    <3>4. Progress'
      BY <2>13, <3>3 DEF api_activate, Marked, before, Progress, Early, Unhooked, Hooked, Over
    <3>5. QED
      BY <3>1, <3>2, <3>4
  <2>14. CASE driver_cleanup
    <3>1. /\ at = "resident" /\ at' = "removed" /\ hw /\ Bound
          /\ UNCHANGED <<phase, err, saved, api_ready, before>> /\ mem' = FALSE
          /\ hardware_cleanup(vec)
      BY <2>14 DEF driver_cleanup, Progress, Hooked
    <3>2. /\ vec' \in [Vectors -> Handlers] /\ irq' \in Bindings
          /\ mask' = mask0
          /\ hw' = FALSE /\ nicint' = FALSE /\ nic' = NoCard
          /\ irq'.old.seg < 2
          /\ \A v \in Vectors : v # irq.vector => vec'[v] = vec[v]
          /\ IF irq.vector # 0 /\ irq.old.seg # 0 THEN vec'[irq.vector] = irq.old
                                                 ELSE vec' = vec /\ irq' = irq
      BY <3>1, CleanupStep DEF Before, Ours
    <3>3. TypeOK'
      BY <3>1, <3>2 DEF TypeOK, Points, before
    <3>4. Before'
      BY <3>1 DEF Before, before
    <3>5. Ours'
      BY <3>1, <3>2 DEF Ours, Driver
    <3>6. Progress'
      BY <3>1, <3>2 DEF Progress, Early, Unhooked, Hooked, Over, before
    <3>7. QED
      BY <3>3, <3>4, <3>5, <3>6
  <2>15. CASE unwind_api_hooks
    <3>1. /\ at = "unwind" /\ at' = "unwind" /\ phase = API_HOOKS /\ phase' = 11
          /\ vec' = RestoredVectors /\ api_ready' = FALSE
          /\ UNCHANGED <<err, saved, mask, irq, hw, nic, nicint, mem, before>>
      BY <2>15 DEF unwind_api_hooks, Row, API_HOOKS
    <3>2. vec' \in [Vectors -> Handlers]
      <4>1. \A v \in Vectors : [seg |-> saved[v], off |-> 0] \in Handlers
        BY DEF TypeOK, Handlers, Vectors
      <4>2. QED
        BY <3>1, <4>1 DEF RestoredVectors, TypeOK
    <3>3. TypeOK'
      <4>1. phase' \in 0..COMPLETE /\ at' \in Points
        BY <3>1 DEF COMPLETE, Points
      <4>2. QED
        BY <3>1, <3>2, <4>1 DEF TypeOK, before
    <3>4. Before'
      BY <3>1 DEF Before, before
    <3>5. Ours'
      <4> SUFFICES ASSUME NEW v \in Vectors, vec'[v] = Driver
                   PROVE  v = irq.vector /\ irq.old.seg = 1 /\ v \in Software
        BY <3>1 DEF Ours, HARDWARE
      <4>1. saved[v] = 0
        <5>1. saved[v] # 2
          BY <3>1 DEF Before, TypeOK
        <5>2. QED
          BY <3>1, <5>1 DEF RestoredVectors, Driver
      <4>2. vec[v] = Driver /\ v \in Software
        BY <3>1, <4>1 DEF RestoredVectors, Before
      <4>3. QED
        BY <4>2 DEF Ours
    <3>6. Bound' <=> Bound
      BY <3>1 DEF Bound, Opened, before
    <3>7. Progress'
      BY <3>1, <3>6 DEF Progress, Early, Unhooked, Hooked, Over, HARDWARE, API_HOOKS, before
    <3>8. QED
      BY <3>3, <3>4, <3>5, <3>7
  <2>16. CASE unwind_hardware
    <3>1. /\ at = "unwind" /\ at' = "unwind" /\ phase = HARDWARE /\ phase' = 8
          /\ (irq = Unbound /\ mask = mask0) \/ Bound
          /\ hw /\ hardware_cleanup(vec)
          /\ UNCHANGED <<err, saved, mem, api_ready, before>>
      BY <2>16 DEF unwind_hardware, Row, HARDWARE, Progress
    <3>2. /\ vec' \in [Vectors -> Handlers] /\ irq' \in Bindings
          /\ mask' = mask0
          /\ hw' = FALSE /\ nicint' = FALSE /\ nic' = NoCard
          /\ irq'.old.seg < 2
          /\ \A v \in Vectors : v # irq.vector => vec'[v] = vec[v]
          /\ IF irq.vector # 0 /\ irq.old.seg # 0 THEN vec'[irq.vector] = irq.old
                                                 ELSE vec' = vec /\ irq' = irq
      BY <3>1, CleanupStep DEF Before, Ours
    <3>3. TypeOK'
      <4>1. phase' \in 0..COMPLETE /\ at' \in Points
        BY <3>1 DEF COMPLETE, Points
      <4>2. QED
        BY <3>1, <3>2, <4>1 DEF TypeOK, before
    <3>4. Before'
      BY <3>1 DEF Before, before
    <3>5. \A v \in Vectors : vec'[v] # Driver
      <4> SUFFICES ASSUME NEW v \in Vectors, vec'[v] = Driver
                   PROVE  FALSE
        OBVIOUS
      <4>1. CASE v # irq.vector
        BY <3>1, <3>2, <4>1 DEF Ours
      <4>2. CASE v = irq.vector /\ vec[v] = Driver
        <5>1. irq.old.seg = 1 /\ v \in Software
          BY <3>1, <4>2 DEF Ours, HARDWARE, API_HOOKS
        <5>2. v # 0
          BY <5>1, LineAssumption
        <5>3. QED
          BY <3>2, <4>2, <5>1, <5>2 DEF Driver
      <4>3. CASE v = irq.vector /\ vec[v] # Driver
        BY <3>1, <3>2, <4>3 DEF Ours, Driver
      <4>4. QED
        BY <4>1, <4>2, <4>3
    <3>6. Ours'
      BY <3>2, <3>5 DEF Ours
    <3>7. Progress'
      BY <3>1, <3>2 DEF Progress, Early, Unhooked, Hooked, Over, HARDWARE, API_HOOKS, before
    <3>8. QED
      BY <3>3, <3>4, <3>6, <3>7
  <2>17. CASE unwind_memory_core
    <3>1. /\ at = "unwind" /\ at' = "unwind" /\ phase = 7 /\ phase' = 6
          /\ mem' = FALSE
          /\ UNCHANGED <<err, saved, vec, mask, irq, hw, nic, nicint, api_ready, before>>
      BY <2>17 DEF unwind_memory_core, Row, MEMORY_CORE
    <3>2. TypeOK'
      <4>1. phase' \in 0..COMPLETE /\ at' \in Points
        BY <3>1 DEF COMPLETE, Points
      <4>2. QED
        BY <3>1, <4>1 DEF TypeOK, before
    <3>3. Before' /\ Ours'
      BY <3>1 DEF Before, Ours, before, HARDWARE
    <3>4. Bound' <=> Bound
      BY <3>1 DEF Bound, Opened, before
    <3>5. Progress'
      BY <3>1, <3>4 DEF Progress, Early, Unhooked, Hooked, Over, HARDWARE, API_HOOKS, before
    <3>6. QED
      BY <3>2, <3>3, <3>5
  <2>18. CASE unwind_other
    <3>1. PICK r \in 1..COMPLETE \ {API_HOOKS, HARDWARE, MEMORY_CORE} : Row(r, r - 1)
      BY <2>18 DEF unwind_other
    <3>2. /\ at = "unwind" /\ at' = "unwind" /\ phase \in 1..15 /\ phase' = phase - 1
          /\ phase # HARDWARE /\ phase # API_HOOKS
          /\ err' = err
          /\ UNCHANGED <<saved, machine, before>>
      BY <2>18, <3>1 DEF unwind_other, Row, COMPLETE
    <3>3. TypeOK'
      BY <3>2 DEF TypeOK, machine, before, COMPLETE, Points
    <3>4. Before' /\ Ours'
      BY <3>2 DEF Before, Ours, machine, before, HARDWARE, API_HOOKS, Progress
    <3>5. Progress'
      BY <3>2, SameMachine DEF Progress, Early, Unhooked, Hooked, Over, HARDWARE, API_HOOKS,
         machine, before
    <3>6. QED
      BY <3>3, <3>4, <3>5
  <2>19. CASE unwind_done
    <3>1. /\ at = "unwind" /\ at' = "failed" /\ phase = 0 /\ phase' = 0 /\ err' = err
          /\ UNCHANGED <<saved, machine, before>>
      BY <2>19 DEF unwind_done, NONE
    <3>2. TypeOK'
      BY <3>1 DEF TypeOK, machine, before, Points
    <3>3. Before' /\ Ours'
      BY <3>1 DEF Before, Ours, machine, before
    <3>4. Progress'
      BY <3>1 DEF Progress, Early, Unhooked, Hooked, Over, HARDWARE, machine, before, NONE
    <3>5. QED
      BY <3>2, <3>3, <3>4
  <2>20. CASE UNCHANGED vars
    BY <2>20 DEF vars, TypeOK, Before, Ours, Progress, Bound, Opened, Intact, Over
  <2>21. QED
    BY <2>1, <2>2, <2>3, <2>4, <2>5, <2>6, <2>7, <2>8, <2>9, <2>10, <2>11, <2>12, <2>13,
       <2>14, <2>15, <2>16, <2>17, <2>18, <2>19, <2>20 DEF Next, unwind_execute
<1>3. QED
  BY <1>1, <1>2, PTL DEF Spec

\* After a failed, an abandoned or an ended boot both interrupt controllers
\* mask what they masked before, whatever card was bound and whichever phase
\* failed.
THEOREM MasksComeBack == Spec => []MasksRestored
<1>1. BootInv => MasksRestored
  BY DEF BootInv, Progress, MasksRestored
<1>2. QED
  BY <1>1, BootInvariant, PTL

\* A boot that has failed left no vector that leads into the driver, even
\* though irq_handler_init may write a vector other than its line's.
THEOREM HandlersRemoved == Spec => []HandlerInv
<1>1. BootInv => HandlerInv
  BY DEF BootInv, Ours, Progress, HandlerInv, NoHandlerLeft, NONE, HARDWARE
<1>2. QED
  BY <1>1, BootInvariant, PTL

\* A resident driver can be interrupted: its card is enabled, and its line and
\* the cascade are open in the controllers.
THEOREM ResidentIsInterruptible == Spec => []Deliverable
<1>1. BootInv => Deliverable
  BY DEF BootInv, Progress, Hooked, Bound, Deliverable
<1>2. QED
  BY <1>1, BootInvariant, PTL

\* The memory system outlives the card's interrupts, in unwinding and in
\* driver_cleanup, except after a failed hardware phase.
THEOREM MemoryOutlives == Spec => MemoryOutlivesCard
<1>1. BootInv /\ [Next]_vars => [mem /\ ~mem' /\ err # "hardware" => ~nicint']_vars
  <2> SUFFICES ASSUME BootInv, Next, mem, ~mem', err # "hardware"
               PROVE  ~nicint'
    OBVIOUS
  <2>1. CASE driver_cleanup
    BY <2>1 DEF driver_cleanup, hardware_cleanup, BootInv, Progress, Hooked
  <2>2. CASE unwind_memory_core
    BY <2>2 DEF unwind_memory_core, Row, BootInv, Progress, MEMORY_CORE, HARDWARE
  <2>3. QED
    BY <2>1, <2>2 DEF Next, unwind_execute, main_early, config_parse_params,
       detect_system_chipset, vds_init, memory_init_core, packet_ops_init,
       hardware_init_all, memory_init_dma, tsr_relocate, api_install_hooks,
       nic_irq_bind_and_install, enable_driver_interrupts, api_activate,
       unwind_api_hooks, unwind_hardware, unwind_other, unwind_done, machine
<1>2. QED
  BY <1>1, BootInvariant, PTL DEF Spec, MemoryOutlivesCard
=============================================================================
