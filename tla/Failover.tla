------------------------------- MODULE Failover -------------------------------
(***************************************************************************)
(* Multi-NIC failover of src/c/routing.c: routing_configure_failover,      *)
(* routing_set_failover_thresholds, routing_monitor_failover with          *)
(* perform_failover, and what they share with the rest of the routing      *)
(* code: the default route and the learned addresses of the bridge table.  *)
(*                                                                         *)
(* Timestamps are kept as ages, in ticks, each capped at the largest       *)
(* threshold: the code only compares differences with thresholds.  A       *)
(* failover that succeeds is two steps, because perform_failover masks     *)
(* interrupts only while it switches: a frame routed before it has walked  *)
(* the bridge table may learn an address.  No driver of the repository     *)
(* supplies the suspend and resume operations it would call.               *)
(***************************************************************************)
EXTENDS Integers, FiniteSets, FiniteSetsExt

CONSTANTS
    NICs,        \* 0 .. MAX_NICS - 1, all present
    MACs,        \* addresses the bridge may learn
    Configs,     \* arguments of routing_set_failover_thresholds, as records
    Default,     \* g_failover_config as it is compiled
    CountSpan,   \* number of values of g_link_loss_count, 256
    AgeCap,      \* bound: ages are not told apart beyond this one
    MaxConfigs   \* bound: calls of the three configuration functions

Fields == {"check", "loss", "storm", "failback", "stable"}
Thresholds == [Fields -> Nat \ {0}]

ASSUME FailoverAssumption ==
    /\ NICs \subseteq Nat /\ 0 \in NICs /\ 1 \in NICs
    /\ Configs \subseteq Thresholds /\ Default \in Configs
    /\ CountSpan \in Nat /\ \A c \in Configs : c["loss"] < CountSpan
    /\ AgeCap \in Nat /\ \A c \in Configs, f \in Fields : c[f] <= AgeCap
    /\ MaxConfigs \in Nat

NoNic == -1
Ages == 0 .. AgeCap

VARIABLES
    link,         \* the NICs with link (external)
    primary, secondary, active,   \* g_failover_state
    failover_active, storm, degraded,
    config,       \* g_failover_config
    loss,         \* g_link_loss_count
    up_age,       \* per NIC: time since g_last_link_up_time
    tracked,      \* the NICs whose g_last_link_up_time is not 0
    check_age,    \* time since last_link_check
    failover_age, \* time since last_failover_time
    default_nic, default_decision,   \* g_routing_table
    learned,      \* bridge table: address -> NIC or NoNic
    purging,      \* the NIC perform_failover is leaving, or NoNic
    configs,      \* configuration calls made
    \* history
    own,          \* the parts of the default route the monitor set last
    stale,        \* addresses that named the NIC a failover left when it did
    storm_floor,  \* least storm threshold in force since the last failover
    down_age      \* time since the monitor last found the primary down

roleVars == <<primary, secondary, active, failover_active>>
timeVars == <<up_age, tracked, check_age, failover_age, down_age>>
routeVars == <<default_nic, default_decision, own>>
bridgeVars == <<learned, stale>>
vars == <<link, roleVars, storm, degraded, config, loss, timeVars, routeVars,
          bridgeVars, purging, configs, storm_floor>>

\* Every timestamp is 0, which is as long ago as the clock has run.
Init ==
    /\ link \in SUBSET NICs
    /\ primary = 0 /\ secondary = 1 /\ active = 0
    /\ failover_active = FALSE /\ storm = FALSE /\ degraded = FALSE
    /\ config = Default
    /\ loss = [n \in NICs |-> 0]
    /\ \E clock \in Ages :
          /\ up_age = [n \in NICs |-> clock]
          /\ check_age = clock /\ failover_age = clock
    /\ tracked = {}
    /\ default_nic = 0 /\ default_decision = "forward"
    /\ learned = [m \in MACs |-> NoNic]
    /\ purging = NoNic /\ configs = 0
    /\ own = {} /\ stale = {} /\ storm_floor = 0 /\ down_age = AgeCap

-----------------------------------------------------------------------------
(* The environment: links and the clock.                                   *)

Older(a) == Min({a + 1, AgeCap})

Tick ==
    /\ up_age' = [n \in NICs |-> Older(up_age[n])]
    /\ check_age' = Older(check_age)
    /\ failover_age' = Older(failover_age)
    /\ down_age' = Older(down_age)
    /\ UNCHANGED <<link, roleVars, storm, degraded, config, loss, tracked,
                   routeVars, bridgeVars, purging, configs, storm_floor>>

LinkChange ==
    /\ \E n \in NICs :
          link' = IF n \in link THEN link \ {n} ELSE link \cup {n}
    /\ UNCHANGED <<roleVars, storm, degraded, config, loss, timeVars, routeVars,
                   bridgeVars, purging, configs, storm_floor>>

-----------------------------------------------------------------------------
(* Configuration.                                                          *)

Foreground == purging = NoNic

\* Mutant of the next definition: the storm prevention is reset too.
ConfigureClearsStorm(p, s) ==
    /\ primary' = p /\ secondary' = s /\ active' = p
    /\ failover_active' = FALSE /\ storm' = FALSE
    /\ loss' = [loss EXCEPT ![p] = 0, ![s] = 0]

\* Neither degraded_mode nor the default route is touched.
ConfigureState(p, s) ==
    /\ primary' = p /\ secondary' = s /\ active' = p
    /\ failover_active' = FALSE
    /\ loss' = [loss EXCEPT ![p] = 0, ![s] = 0]
    /\ UNCHANGED storm

routing_configure_failover ==
    /\ Foreground
    /\ configs < MaxConfigs /\ configs' = configs + 1
    /\ \E p, s \in NICs : p # s /\ ConfigureState(p, s)
    /\ own' = own \ {"nic"} /\ down_age' = AgeCap
    /\ UNCHANGED <<link, degraded, config, up_age, tracked, check_age, failover_age,
                   default_nic, default_decision, bridgeVars, purging, storm_floor>>

\* The fields are tested and stored one after the other: a zero keeps a
\* field, and one out of range ends the call after some have been stored.
routing_set_failover_thresholds ==
    /\ Foreground
    /\ configs < MaxConfigs /\ configs' = configs + 1
    /\ \E c \in Configs, stored \in SUBSET Fields :
          config' = [f \in Fields |-> IF f \in stored THEN c[f] ELSE config[f]]
    /\ storm_floor' = Min({storm_floor, config'["storm"]})
    /\ UNCHANGED <<link, roleVars, storm, degraded, loss, timeVars, routeVars,
                   bridgeVars, purging>>

\* Where it goes is the application's choice; api.c passes the decision back.
routing_set_default_route ==
    /\ Foreground
    /\ configs < MaxConfigs /\ configs' = configs + 1
    /\ default_nic' \in NICs
    /\ default_decision' \in {"forward", "broadcast", "drop"}
    /\ own' = {}
    /\ UNCHANGED <<link, roleVars, storm, degraded, config, loss, timeVars,
                   bridgeVars, purging, storm_floor>>

-----------------------------------------------------------------------------
(* The bridge table, as far as failover uses it.                           *)

\* A frame from m on NIC n is routed; the entry is made or updated.
bridge_learn_mac ==
    /\ \E m \in MACs, n \in NICs :
          /\ learned' = [learned EXCEPT ![m] = n]
          /\ stale' = stale \ {m}
    /\ UNCHANGED <<link, roleVars, storm, degraded, config, loss, timeVars,
                   routeVars, purging, configs, storm_floor>>

\* bridge_remove_mac, bridge_age_entries, bridge_flush_table and the eviction
\* of bridge_learn_mac all take entries out.
bridge_forget ==
    /\ \E gone \in SUBSET MACs :
          /\ gone # {}
          /\ learned' = [m \in MACs |-> IF m \in gone THEN NoNic ELSE learned[m]]
          /\ stale' = stale \ gone
    /\ UNCHANGED <<link, roleVars, storm, degraded, config, loss, timeVars,
                   routeVars, purging, configs, storm_floor>>

-----------------------------------------------------------------------------
(* routing_monitor_failover.                                               *)

Up(n) == n \in link

Count(l, n) == [l EXCEPT ![n] = (@ + 1) % CountSpan]

\* A check is due; the time of this one is recorded, and the storm prevention
\* lapses when its time is over.
CheckDue == Foreground /\ check_age >= config["check"]
StormLeft == storm /\ failover_age < config["storm"]

BothDown == ~Up(primary) /\ ~Up(secondary)

\* Entering or staying in degraded mode; nothing is counted.
monitor_degraded ==
    /\ CheckDue /\ BothDown
    /\ check_age' = 0 /\ down_age' = 0
    /\ storm' = StormLeft
    /\ degraded' = TRUE
    /\ default_decision' = IF degraded THEN default_decision ELSE "drop"
    /\ own' = IF degraded THEN own ELSE own \cup {"decision"}
    /\ UNCHANGED <<link, roleVars, config, loss, up_age, tracked, failover_age,
                   default_nic, bridgeVars, purging, configs, storm_floor>>

\* Leaving degraded mode: the primary first.  What follows in the same call
\* still works on the NIC that was active before.
Selected == IF Up(primary) THEN primary ELSE secondary

RecoveredActive == IF degraded THEN Selected ELSE active
RecoveredNic == IF degraded THEN Selected ELSE default_nic

RecoveredDecision == IF degraded THEN "forward" ELSE default_decision
RecoveredOwn == IF degraded THEN {"nic", "decision"} ELSE own

\* The loss count of the primary, and its up time when it comes back.
PrimaryBack == Up(primary) /\ loss[primary] > 0
PrimaryLoss ==
    IF Up(primary) THEN [loss EXCEPT ![primary] = 0] ELSE Count(loss, primary)

TrackPrimary ==
    /\ up_age' = IF PrimaryBack THEN [up_age EXCEPT ![primary] = 0] ELSE up_age
    /\ tracked' = IF PrimaryBack THEN tracked \cup {primary} ELSE tracked
    /\ down_age' = IF Up(primary) THEN down_age ELSE 0

FailbackDue ==
    /\ failover_active /\ active = secondary
    /\ Up(primary)
    /\ (IF PrimaryBack THEN 0 ELSE up_age[primary]) >= config["failback"]

\* The active link is up.
monitor_up ==
    /\ CheckDue /\ ~BothDown /\ Up(active)
    /\ check_age' = 0
    /\ storm' = StormLeft /\ degraded' = FALSE
    /\ TrackPrimary
    /\ loss' = [PrimaryLoss EXCEPT ![active] = 0]
    /\ active' = IF FailbackDue THEN primary ELSE RecoveredActive
    /\ failover_active' = (failover_active /\ ~FailbackDue)
    /\ default_nic' = IF FailbackDue THEN primary ELSE RecoveredNic
    /\ default_decision' = RecoveredDecision
    /\ own' = RecoveredOwn \cup (IF FailbackDue THEN {"nic"} ELSE {})
    /\ UNCHANGED <<link, primary, secondary, config, failover_age, bridgeVars,
                   purging, configs, storm_floor>>

\* Mutant of the next definition: the secondary is always the target.
TargetSecondary == secondary

Target == IF active = primary THEN secondary ELSE primary

\* The active link is down: counted, and counted twice when it is the primary.
CountedLoss == Count(PrimaryLoss, active)
LossReached == CountedLoss[active] >= config["loss"]

\* The checks of perform_failover.
FailoverPermitted ==
    /\ ~StormLeft
    /\ Up(Target)
    /\ LET back == Target = primary /\ PrimaryBack IN
       Target \in tracked \/ back =>
           (IF back THEN 0 ELSE up_age[Target]) >= config["stable"]

\* No failover: too few losses, or perform_failover refuses.
monitor_down ==
    /\ CheckDue /\ ~BothDown /\ ~Up(active)
    /\ ~(LossReached /\ FailoverPermitted)
    /\ check_age' = 0
    /\ storm' = StormLeft /\ degraded' = FALSE
    /\ TrackPrimary
    /\ loss' = CountedLoss
    /\ active' = RecoveredActive
    /\ default_nic' = RecoveredNic /\ default_decision' = RecoveredDecision
    /\ own' = RecoveredOwn
    /\ UNCHANGED <<link, primary, secondary, failover_active, config, failover_age,
                   bridgeVars, purging, configs, storm_floor>>

\* Mutant of the next definition: the default route is left where it is.
SwitchStateOnly ==
    /\ active' = Target /\ failover_active' = TRUE
    /\ failover_age' = 0
    /\ default_nic' = RecoveredNic

\* What perform_failover does with interrupts masked.
SwitchTo ==
    /\ active' = Target /\ failover_active' = TRUE
    /\ failover_age' = 0
    /\ default_nic' = Target

perform_failover ==
    /\ CheckDue /\ ~BothDown /\ ~Up(active)
    /\ LossReached /\ FailoverPermitted
    /\ check_age' = 0
    /\ storm' = StormLeft /\ degraded' = FALSE
    /\ TrackPrimary
    /\ loss' = CountedLoss
    /\ SwitchTo
    /\ default_decision' = RecoveredDecision
    /\ own' = RecoveredOwn \cup {"nic"}
    /\ purging' = active
    /\ stale' = {m \in MACs : learned[m] = active}
    /\ storm_floor' = config["storm"]
    /\ UNCHANGED <<link, primary, secondary, config, learned, configs>>

\* Mutant of the next definition: the entries of the new NIC are removed.
PurgeNew == [m \in MACs |-> IF learned[m] = active THEN NoNic ELSE learned[m]]

Purged == [m \in MACs |-> IF learned[m] = purging THEN NoNic ELSE learned[m]]

\* The rest of perform_failover, and of the check that called it.
failover_purge ==
    /\ ~Foreground
    /\ learned' = Purged
    /\ stale' = {m \in stale : Purged[m] # NoNic}
    /\ storm' = TRUE
    /\ loss' = [loss EXCEPT ![purging] = 0]
    /\ purging' = NoNic
    /\ UNCHANGED <<link, roleVars, degraded, config, timeVars, routeVars, configs,
                   storm_floor>>

routing_monitor_failover ==
    monitor_degraded \/ monitor_up \/ monitor_down \/ perform_failover \/ failover_purge

Next ==
    \/ Tick \/ LinkChange
    \/ routing_configure_failover \/ routing_set_failover_thresholds
    \/ routing_set_default_route
    \/ bridge_learn_mac \/ bridge_forget
    \/ routing_monitor_failover

\* Time passes, and the monitor "should be called periodically (e.g., from
\* timer interrupt or main loop)".
Spec == Init /\ [][Next]_vars /\ WF_vars(Tick) /\ WF_vars(routing_monitor_failover)

-----------------------------------------------------------------------------
(* Properties.                                                             *)

\* Types; the active NIC is one of the configured pair, and only the call
\* that runs perform_failover is ever left half done.
TypeOK ==
    /\ link \subseteq NICs
    /\ primary \in NICs /\ secondary \in NICs /\ primary # secondary
    /\ active \in {primary, secondary}
    /\ failover_active \in BOOLEAN /\ storm \in BOOLEAN /\ degraded \in BOOLEAN
    /\ config \in Thresholds
    /\ loss \in [NICs -> 0 .. CountSpan - 1]
    /\ up_age \in [NICs -> Ages] /\ tracked \subseteq NICs
    /\ check_age \in Ages /\ failover_age \in Ages /\ down_age \in Ages
    /\ default_nic \in NICs /\ default_decision \in {"forward", "broadcast", "drop"}
    /\ learned \in [MACs -> NICs \cup {NoNic}]
    /\ purging \in {NoNic, primary, secondary} \ {active}
    /\ own \subseteq {"nic", "decision"} /\ stale \subseteq MACs
    /\ storm_floor \in 0 .. AgeCap /\ configs \in 0 .. MaxConfigs

\* As long as nobody else has set it, the default route is where the monitor
\* wants it: on the active NIC after a failover, a failback or a recovery,
\* and dropping frames exactly in degraded mode.
RouteFollowsActive ==
    /\ "nic" \in own => default_nic = active
    /\ "decision" \in own => (degraded <=> default_decision = "drop")

\* The state of the monitor is well formed and agrees with the default route.
RouteInv == TypeOK /\ RouteFollowsActive

\* "Clear bridge table to force relearning": when a failover is complete no
\* address still names the NIC it left that was not learned there since.
FailoverForgets == Foreground => \A m \in stale : learned[m] = NoNic

\* "Minimum time between failovers": two failovers are never closer than the
\* least threshold in force since the first, whatever was reconfigured.
StormSpacing ==
    [][Foreground /\ purging' # NoNic => failover_age >= storm_floor]_vars

\* When one of the pair keeps its link and the other stays without, the
\* monitor settles on the one with link: no counter, storm or stability check
\* can hold it back for ever.
SettlesOnLiveLink ==
    \A n \in NICs :
        <>[](link \cap {primary, secondary} = {n}) => <>[](active = n)

\* "Wait before failing back to primary": outside degraded mode the monitor
\* returns to the primary only when it has not found it down for that long.
FailbackDelayed ==
    [][/\ active = secondary /\ active' = primary
       /\ ~degraded /\ configs' = configs /\ purging' = NoNic
       => down_age >= config["failback"]]_vars
=============================================================================
