--------------------------- MODULE FailoverProofs ---------------------------
(***************************************************************************)
(* What holds of the failover monitor for any number of NICs and learned   *)
(* addresses, any thresholds and any number of configuration calls; and of *)
(* the ARP cache that routing asks for a station, for any pool of entries. *)
(***************************************************************************)
EXTENDS Failover, Arp, FiniteSetTheorems, WellFoundedInduction, TLAPS

(***************************************************************************)
(* The thresholds in force are within the range ages are told apart in,    *)
(* and none has been below storm_floor since the last failover.            *)
(***************************************************************************)
Bounded == /\ \A f \in Fields : config[f] <= AgeCap
           /\ storm_floor <= config["storm"]

(***************************************************************************)
(* What is marked stale still names the NIC that is being left, and        *)
(* nothing is once the table has been walked.                              *)
(***************************************************************************)
StaleNamesOld == \A m \in stale : ~Foreground /\ learned[m] = purging

(***************************************************************************)
(* Storm prevention is off only when the last failover is long enough ago. *)
(***************************************************************************)
StormGuard == Foreground /\ ~storm => failover_age >= storm_floor

FailoverInv == RouteInv /\ Bounded /\ StaleNamesOld /\ StormGuard

-----------------------------------------------------------------------------
\* The parts of the assumption, one at a time.
LEMMA FailoverConstants ==
    /\ NICs \subseteq Nat /\ 0 \in NICs /\ 1 \in NICs /\ NoNic \notin NICs
    /\ Configs \subseteq Thresholds /\ Default \in Thresholds
    /\ CountSpan \in Nat \ {0} /\ AgeCap \in Nat /\ MaxConfigs \in Nat
    /\ \A c \in Configs, f \in Fields : c[f] \in Nat \ {0} /\ c[f] <= AgeCap
    /\ Default \in Configs
<1>1. NoNic \notin NICs
  BY FailoverAssumption DEF NoNic
<1>2. "loss" \in Fields
  BY DEF Fields
<1>3. Default["loss"] \in Nat /\ Default["loss"] < CountSpan
  BY <1>2, FailoverAssumption DEF Thresholds
<1>4. QED
  BY <1>1, <1>3, FailoverAssumption DEF Thresholds

\* The smaller of two numbers.
LEMMA MinOfTwo ==
    ASSUME NEW a \in Nat, NEW b \in Nat
    PROVE  Min({a, b}) = IF a <= b THEN a ELSE b
<1> DEFINE m == IF a <= b THEN a ELSE b
<1>1. m \in {a, b} /\ \A y \in {a, b} : m <= y
  OBVIOUS
<1>2. \A x \in {a, b} : (\A y \in {a, b} : x <= y) => x = m
  OBVIOUS
<1>3. QED
  BY <1>1, <1>2 DEF Min

\* Time only makes ages greater, up to the cap.
LEMMA OlderType ==
    ASSUME NEW a \in Ages
    PROVE  Older(a) \in Ages /\ Older(a) >= a
<1>1. a \in Nat /\ a + 1 \in Nat /\ a <= AgeCap /\ AgeCap \in Nat
  BY FailoverConstants DEF Ages
<1>2. QED
  BY <1>1, MinOfTwo DEF Older, Ages

\* Counting a loss wraps around within the counter.
LEMMA CountType ==
    ASSUME NEW l \in [NICs -> 0 .. CountSpan - 1], NEW n \in NICs
    PROVE  Count(l, n) \in [NICs -> 0 .. CountSpan - 1]
<1>1. \A a \in Nat, b \in Nat \ {0} : a % b \in 0 .. b - 1
  OBVIOUS
<1>2. l[n] + 1 \in Nat
  BY FailoverConstants
<1>3. (l[n] + 1) % CountSpan \in 0 .. CountSpan - 1
  BY <1>1, <1>2, FailoverConstants
<1>4. QED
  BY <1>3 DEF Count

\* The loss counts a call of the monitor may leave are bytes.
LEMMA LossTypes ==
    ASSUME TypeOK
    PROVE  /\ PrimaryLoss \in [NICs -> 0 .. CountSpan - 1]
           /\ CountedLoss \in [NICs -> 0 .. CountSpan - 1]
           /\ 0 \in 0 .. CountSpan - 1
<1>1. 0 \in 0 .. CountSpan - 1
  BY FailoverConstants
<1>2. PrimaryLoss \in [NICs -> 0 .. CountSpan - 1]
  BY <1>1, CountType DEF TypeOK, PrimaryLoss
<1>3. active \in NICs
  BY DEF TypeOK
<1>4. QED
  BY <1>1, <1>2, <1>3, CountType DEF CountedLoss

\* What every check does with the primary's up time.
LEMMA TrackTypes ==
    ASSUME TypeOK, TrackPrimary
    PROVE  up_age' \in [NICs -> Ages] /\ tracked' \subseteq NICs /\ down_age' \in Ages
<1>1. 0 \in Ages
  BY FailoverConstants DEF Ages
<1>2. QED
  BY <1>1 DEF TypeOK, TrackPrimary

\* What every check of the monitor does to storm prevention keeps its guard.
LEMMA StormStep ==
    ASSUME TypeOK, Bounded, StormGuard, Foreground, storm' = StormLeft,
           UNCHANGED <<failover_age, storm_floor>>
    PROVE  StormGuard' /\ storm' \in BOOLEAN
<1>1. config["storm"] \in Nat /\ failover_age \in Nat /\ storm_floor \in Nat
  BY FailoverConstants DEF TypeOK, Thresholds, Fields, Ages
<1>2. storm' \in BOOLEAN
  BY Zenon DEF StormLeft
<1>3. ~StormLeft => failover_age >= storm_floor
  BY <1>1 DEF StormLeft, Bounded, StormGuard
<1>4. QED
  BY <1>2, <1>3 DEF StormGuard

\* The inductive invariant of failover.
THEOREM FailoverInvariant == Spec => []FailoverInv
<1>1. Init => FailoverInv
  <2> SUFFICES ASSUME Init PROVE FailoverInv
    OBVIOUS
  <2>1. PICK clock \in Ages : /\ up_age = [n \in NICs |-> clock]
                              /\ check_age = clock /\ failover_age = clock
    BY DEF Init
  <2>2. "storm" \in Fields /\ AgeCap \in Ages /\ 0 \in 0 .. AgeCap /\ 0 \in 0 .. CountSpan - 1
    BY FailoverConstants DEF Fields, Ages
  <2>3. failover_active \in BOOLEAN /\ storm \in BOOLEAN /\ degraded \in BOOLEAN
    BY Zenon DEF Init
  <2>4. /\ loss \in [NICs -> 0 .. CountSpan - 1] /\ up_age \in [NICs -> Ages]
        /\ learned \in [MACs -> NICs \cup {NoNic}] /\ 0 \in 0 .. MaxConfigs
    BY <2>1, <2>2, FailoverConstants DEF Init
  <2>5. primary \in NICs /\ secondary \in NICs /\ primary # secondary /\ active = primary
    BY FailoverConstants DEF Init
  <2>6. TypeOK
    BY <2>1, <2>2, <2>3, <2>4, <2>5, FailoverConstants DEF Init, TypeOK
  <2>7. Bounded
    BY <2>2, FailoverConstants DEF Init, Bounded
  <2>8. RouteFollowsActive /\ StaleNamesOld
    BY DEF Init, RouteFollowsActive, StaleNamesOld
  <2>9. StormGuard
    BY <2>1, FailoverConstants DEF Init, StormGuard, Ages
  <2>10. QED
    BY <2>6, <2>7, <2>8, <2>9 DEF FailoverInv, RouteInv
<1>2. FailoverInv /\ [Next]_vars => FailoverInv'
  <2> SUFFICES ASSUME FailoverInv, [Next]_vars PROVE FailoverInv'
    OBVIOUS
  <2>0. TypeOK /\ RouteFollowsActive /\ Bounded /\ StaleNamesOld /\ StormGuard
    BY DEF FailoverInv, RouteInv
  <2> USE DEF roleVars, timeVars, routeVars, bridgeVars
  <2>1. CASE Tick
    <3>1. up_age' \in [NICs -> Ages]
      BY <2>0, <2>1, OlderType DEF Tick, TypeOK
    <3>2. /\ check_age' \in Ages /\ down_age' \in Ages
          /\ failover_age' \in Ages /\ failover_age' >= failover_age
      BY <2>0, <2>1, OlderType DEF Tick, TypeOK
    <3>3. TypeOK'
      BY <2>0, <2>1, <3>1, <3>2 DEF Tick, TypeOK
    <3>4. StormGuard'
      <4>1. failover_age \in Int /\ failover_age' \in Int /\ storm_floor \in Int
        BY <2>0, <3>2, FailoverConstants DEF TypeOK, Ages
      <4>2. QED
        BY <2>0, <2>1, <3>2, <4>1 DEF Tick, StormGuard, Foreground
    <3>5. QED
      BY <2>0, <2>1, <3>3, <3>4 DEF Tick, FailoverInv, RouteInv, RouteFollowsActive, Bounded,
         StaleNamesOld, Foreground
  <2>2. CASE LinkChange
    <3>1. link' \subseteq NICs
      BY <2>0, <2>2 DEF LinkChange, TypeOK
    <3>2. QED
      BY <2>0, <2>2, <3>1 DEF LinkChange, TypeOK, FailoverInv, RouteInv, RouteFollowsActive,
         Bounded, StaleNamesOld, StormGuard, Foreground
  <2>3. CASE routing_configure_failover
    <3>1. PICK p \in NICs, s \in NICs : p # s /\ ConfigureState(p, s)
      BY <2>3 DEF routing_configure_failover
    <3>2. loss' \in [NICs -> 0 .. CountSpan - 1]
      BY <2>0, <3>1, LossTypes DEF ConfigureState, TypeOK
    <3>3. configs' \in 0 .. MaxConfigs /\ down_age' \in Ages
      BY <2>0, <2>3, FailoverConstants DEF routing_configure_failover, TypeOK, Ages
    <3>4. failover_active' \in BOOLEAN
      BY <3>1, Zenon DEF ConfigureState
    <3>5. TypeOK'
      BY <2>0, <2>3, <3>1, <3>2, <3>3, <3>4, FailoverConstants DEF routing_configure_failover,
         ConfigureState, TypeOK, Foreground
    <3>6. QED
      BY <2>0, <2>3, <3>1, <3>5 DEF routing_configure_failover, ConfigureState, FailoverInv,
         RouteInv, RouteFollowsActive, Bounded, StaleNamesOld, StormGuard, Foreground
  <2>4. CASE routing_set_failover_thresholds
    <3>1. PICK c \in Configs, stored \in SUBSET Fields :
             config' = [f \in Fields |-> IF f \in stored THEN c[f] ELSE config[f]]
      BY <2>4 DEF routing_set_failover_thresholds
    <3>2. /\ config' \in Thresholds
          /\ \A f \in Fields : config'[f] <= AgeCap
      BY <2>0, <3>1, FailoverConstants DEF TypeOK, Thresholds, Bounded
    <3>3. config'["storm"] \in Nat /\ storm_floor \in Nat
      BY <2>0, <3>2, FailoverConstants DEF TypeOK, Thresholds, Fields
    <3>4. storm_floor' \in Nat /\ storm_floor' <= storm_floor /\ storm_floor' <= config'["storm"]
      BY <2>4, <3>3, MinOfTwo DEF routing_set_failover_thresholds
    <3>5. storm_floor' \in 0 .. AgeCap /\ configs' \in 0 .. MaxConfigs
      BY <2>0, <2>4, <3>3, <3>4, FailoverConstants DEF routing_set_failover_thresholds, TypeOK
    <3>6. TypeOK'
      BY <2>0, <2>4, <3>2, <3>5 DEF routing_set_failover_thresholds, TypeOK
    <3>7. StormGuard'
      <4>1. failover_age \in Int
        BY <2>0, FailoverConstants DEF TypeOK, Ages
      <4>2. QED
        BY <2>0, <2>4, <3>3, <3>4, <4>1 DEF routing_set_failover_thresholds, StormGuard, Foreground
    <3>8. QED
      BY <2>0, <2>4, <3>2, <3>4, <3>6, <3>7 DEF routing_set_failover_thresholds, FailoverInv,
         RouteInv, RouteFollowsActive, Bounded, StaleNamesOld, Foreground
  <2>5. CASE routing_set_default_route
    <3>1. configs' \in 0 .. MaxConfigs
      BY <2>0, <2>5, FailoverConstants DEF routing_set_default_route, TypeOK
    <3>2. TypeOK'
      BY <2>0, <2>5, <3>1 DEF routing_set_default_route, TypeOK
    <3>3. QED
      BY <2>0, <2>5, <3>2 DEF routing_set_default_route, FailoverInv, RouteInv,
         RouteFollowsActive, Bounded, StaleNamesOld, StormGuard, Foreground
  <2>6. CASE bridge_learn_mac
    <3>1. PICK m \in MACs, n \in NICs : /\ learned' = [learned EXCEPT ![m] = n]
                                        /\ stale' = stale \ {m}
      BY <2>6 DEF bridge_learn_mac
    <3>2. TypeOK'
      BY <2>0, <2>6, <3>1 DEF bridge_learn_mac, TypeOK
    <3>3. StaleNamesOld'
      BY <2>0, <2>6, <3>1 DEF bridge_learn_mac, StaleNamesOld, Foreground, TypeOK
    <3>4. QED
      BY <2>0, <2>6, <3>2, <3>3 DEF bridge_learn_mac, FailoverInv, RouteInv,
         RouteFollowsActive, Bounded, StormGuard, Foreground
  <2>7. CASE bridge_forget
    <3>1. PICK gone \in SUBSET MACs :
             /\ learned' = [m \in MACs |-> IF m \in gone THEN NoNic ELSE learned[m]]
             /\ stale' = stale \ gone
      BY <2>7 DEF bridge_forget
    <3>2. TypeOK'
      BY <2>0, <2>7, <3>1 DEF bridge_forget, TypeOK
    <3>3. StaleNamesOld'
      BY <2>0, <2>7, <3>1 DEF bridge_forget, StaleNamesOld, Foreground, TypeOK
    <3>4. QED
      BY <2>0, <2>7, <3>2, <3>3 DEF bridge_forget, FailoverInv, RouteInv,
         RouteFollowsActive, Bounded, StormGuard, Foreground
  <2>8. CASE monitor_degraded
    <3>1. Foreground /\ storm' = StormLeft /\ UNCHANGED <<failover_age, storm_floor>>
      BY <2>8 DEF monitor_degraded, CheckDue
    <3>2. StormGuard' /\ storm' \in BOOLEAN
      BY <2>0, <3>1, StormStep
    <3>3. 0 \in Ages /\ degraded' \in BOOLEAN
      <4>1. degraded' \in BOOLEAN
        BY <2>8, Zenon DEF monitor_degraded
      <4>2. QED
        BY <4>1, FailoverConstants DEF Ages
    <3>4. own' \subseteq {"nic", "decision"}
      BY <2>0, <2>8 DEF monitor_degraded, TypeOK
    <3>5. TypeOK'
      BY <2>0, <2>8, <3>2, <3>3, <3>4 DEF monitor_degraded, TypeOK
    <3>6. RouteFollowsActive'
      BY <2>0, <2>8 DEF monitor_degraded, RouteFollowsActive, TypeOK
    <3>7. QED
      BY <2>0, <2>8, <3>2, <3>5, <3>6 DEF monitor_degraded, FailoverInv, RouteInv, Bounded,
         StaleNamesOld, Foreground
  <2>9. CASE monitor_up
    <3>1. Foreground /\ storm' = StormLeft /\ UNCHANGED <<failover_age, storm_floor>>
      BY <2>9 DEF monitor_up, CheckDue
    <3>2. StormGuard' /\ storm' \in BOOLEAN
      BY <2>0, <3>1, StormStep
    <3>3. 0 \in Ages /\ degraded' \in BOOLEAN /\ failover_active' \in BOOLEAN
      <4>1. degraded' \in BOOLEAN /\ failover_active' \in BOOLEAN
        BY <2>9, Zenon DEF monitor_up
      <4>2. QED
        BY <4>1, FailoverConstants DEF Ages
    <3>4. /\ loss' \in [NICs -> 0 .. CountSpan - 1]
          /\ up_age' \in [NICs -> Ages] /\ tracked' \subseteq NICs /\ down_age' \in Ages
      BY <2>0, <2>9, LossTypes, TrackTypes DEF monitor_up, TypeOK
    <3>5. own' \subseteq {"nic", "decision"}
      BY <2>0, <2>9 DEF monitor_up, RecoveredOwn, TypeOK
    <3>6. /\ active' \in {primary, secondary} /\ default_nic' \in NICs
          /\ default_decision' \in {"forward", "broadcast", "drop"}
      BY <2>0, <2>9 DEF monitor_up, RecoveredActive, RecoveredNic, RecoveredDecision, Selected,
         TypeOK
    <3>7. purging' = NoNic /\ NoNic # active'
      BY <2>0, <2>9, <3>1, <3>6, FailoverConstants DEF monitor_up, Foreground, TypeOK
    <3>8. TypeOK'
      BY <2>0, <2>9, <3>2, <3>3, <3>4, <3>5, <3>6, <3>7 DEF monitor_up, TypeOK
    <3>9. RouteFollowsActive'
      <4>1. "nic" \in own' => default_nic' = active'
        BY <2>0, <2>9 DEF monitor_up, RouteFollowsActive, RecoveredActive, RecoveredNic,
           RecoveredOwn
      <4>2. "decision" \in own' => default_decision' # "drop"
        BY <2>0, <2>9 DEF monitor_up, RouteFollowsActive, RecoveredDecision, RecoveredOwn
      <4>3. QED
        BY <2>9, <4>1, <4>2 DEF monitor_up, RouteFollowsActive
    <3>10. QED
      BY <2>0, <2>9, <3>2, <3>8, <3>9 DEF monitor_up, FailoverInv, RouteInv, Bounded,
         StaleNamesOld, Foreground
  <2>10. CASE monitor_down
    <3>1. Foreground /\ storm' = StormLeft /\ UNCHANGED <<failover_age, storm_floor>>
      BY <2>10 DEF monitor_down, CheckDue
    <3>2. StormGuard' /\ storm' \in BOOLEAN
      BY <2>0, <3>1, StormStep
    <3>3. 0 \in Ages /\ degraded' \in BOOLEAN
      <4>1. degraded' \in BOOLEAN
        BY <2>10, Zenon DEF monitor_down
      <4>2. QED
        BY <4>1, FailoverConstants DEF Ages
    <3>4. /\ loss' \in [NICs -> 0 .. CountSpan - 1]
          /\ up_age' \in [NICs -> Ages] /\ tracked' \subseteq NICs /\ down_age' \in Ages
      BY <2>0, <2>10, LossTypes, TrackTypes DEF monitor_down, TypeOK
    <3>5. own' \subseteq {"nic", "decision"}
      BY <2>0, <2>10 DEF monitor_down, RecoveredOwn, TypeOK
    <3>6. /\ active' \in {primary, secondary} /\ default_nic' \in NICs
          /\ default_decision' \in {"forward", "broadcast", "drop"}
      BY <2>0, <2>10 DEF monitor_down, RecoveredActive, RecoveredNic, RecoveredDecision,
         Selected, TypeOK
    <3>7. purging' = NoNic /\ NoNic # active'
      BY <2>0, <2>10, <3>1, <3>6, FailoverConstants DEF monitor_down, Foreground, TypeOK
    <3>8. TypeOK'
      BY <2>0, <2>10, <3>2, <3>3, <3>4, <3>5, <3>6, <3>7 DEF monitor_down, TypeOK
    <3>9. RouteFollowsActive'
      BY <2>0, <2>10 DEF monitor_down, RouteFollowsActive, RecoveredActive, RecoveredNic,
         RecoveredDecision, RecoveredOwn
    <3>10. QED
      BY <2>0, <2>10, <3>2, <3>8, <3>9 DEF monitor_down, FailoverInv, RouteInv, Bounded,
         StaleNamesOld, Foreground
  <2>11. CASE perform_failover
    <3>1. Foreground /\ storm' = StormLeft /\ active # Target /\ Target \in {primary, secondary}
      BY <2>0, <2>11 DEF perform_failover, CheckDue, Target, TypeOK
    <3>2. storm' \in BOOLEAN /\ degraded' \in BOOLEAN /\ failover_active' \in BOOLEAN
      BY <2>11, Zenon DEF perform_failover, SwitchTo, StormLeft
    <3>3. /\ 0 \in Ages /\ failover_age' = 0
          /\ storm_floor' \in 0 .. AgeCap /\ storm_floor' = config["storm"]
      BY <2>0, <2>11, FailoverConstants DEF perform_failover, SwitchTo, Ages, TypeOK, Bounded,
         Thresholds, Fields
    <3>4. /\ loss' \in [NICs -> 0 .. CountSpan - 1]
          /\ up_age' \in [NICs -> Ages] /\ tracked' \subseteq NICs /\ down_age' \in Ages
      BY <2>0, <2>11, LossTypes, TrackTypes DEF perform_failover
    <3>5. own' \subseteq {"nic", "decision"}
      BY <2>0, <2>11 DEF perform_failover, RecoveredOwn, TypeOK
    <3>6. /\ active' = Target /\ default_nic' = Target /\ Target \in NICs
          /\ default_decision' \in {"forward", "broadcast", "drop"}
          /\ purging' = active /\ active \in NICs
      BY <2>0, <2>11, <3>1 DEF perform_failover, SwitchTo, RecoveredDecision, TypeOK
    <3>7. TypeOK'
      BY <2>0, <2>11, <3>1, <3>2, <3>3, <3>4, <3>5, <3>6 DEF perform_failover, TypeOK
    <3>8. RouteFollowsActive'
      BY <2>0, <2>11, <3>6 DEF perform_failover, RouteFollowsActive, RecoveredDecision,
         RecoveredOwn
    <3>9. StaleNamesOld' /\ StormGuard'
      <4>1. purging' # NoNic
        BY <3>6, FailoverConstants
      <4>2. QED
        BY <2>11, <3>6, <4>1 DEF perform_failover, StaleNamesOld, StormGuard, Foreground
    <3>10. Bounded'
      <4>1. config["storm"] \in Nat
        BY <2>0 DEF TypeOK, Thresholds, Fields
      <4>2. QED
        BY <2>0, <2>11, <3>3, <4>1 DEF perform_failover, Bounded
    <3>11. QED
      BY <3>7, <3>8, <3>9, <3>10 DEF FailoverInv, RouteInv
  <2>12. CASE failover_purge
    <3>1. purging \in NICs /\ NoNic \notin NICs
      BY <2>0, <2>12, FailoverConstants DEF failover_purge, Foreground, TypeOK
    <3>2. stale' = {}
      BY <2>0, <2>12 DEF failover_purge, Purged, StaleNamesOld, TypeOK
    <3>3. learned' \in [MACs -> NICs \cup {NoNic}]
      BY <2>0, <2>12 DEF failover_purge, Purged, TypeOK
    <3>4. loss' \in [NICs -> 0 .. CountSpan - 1]
      BY <2>0, <2>12, <3>1, LossTypes DEF failover_purge, TypeOK
    <3>5. storm' = TRUE /\ storm' \in BOOLEAN
      BY <2>12, Zenon DEF failover_purge
    <3>6. TypeOK'
      BY <2>0, <2>12, <3>1, <3>2, <3>3, <3>4, <3>5 DEF failover_purge, TypeOK
    <3>7. QED
      BY <2>0, <2>12, <3>2, <3>5, <3>6 DEF failover_purge, FailoverInv, RouteInv,
         RouteFollowsActive, Bounded, StaleNamesOld, StormGuard
  <2>13. CASE UNCHANGED vars
    BY <2>0, <2>13 DEF vars, TypeOK, FailoverInv, RouteInv, RouteFollowsActive, Bounded,
       StaleNamesOld, StormGuard, Foreground
  <2>14. QED
    BY <2>1, <2>2, <2>3, <2>4, <2>5, <2>6, <2>7, <2>8, <2>9, <2>10, <2>11, <2>12, <2>13
       DEF Next, routing_monitor_failover
<1>3. QED
  BY <1>1, <1>2, PTL DEF Spec

\* The active NIC is one of the configured pair, and the default route is on
\* it and drops frames exactly in degraded mode, until somebody else sets it.
THEOREM RouteIsActive == Spec => []RouteInv
  BY FailoverInvariant, PTL DEF FailoverInv

\* A completed failover leaves no address on the NIC it left, other than
\* those learned there since.
THEOREM FailoverHasForgotten == Spec => []FailoverForgets
<1>1. FailoverInv => FailoverForgets
  BY DEF FailoverInv, StaleNamesOld, FailoverForgets
<1>2. QED
  BY <1>1, FailoverInvariant, PTL

\* Two failovers are never closer than the least storm threshold in force
\* since the first, however the thresholds and the pair are reconfigured.
THEOREM StormIsPrevented == Spec => StormSpacing
<1>1. FailoverInv /\ [Next]_vars
        => [Foreground /\ purging' # NoNic => failover_age >= storm_floor]_vars
  <2> SUFFICES ASSUME FailoverInv, Next, Foreground, purging' # NoNic
               PROVE  failover_age >= storm_floor
    OBVIOUS
  <2>1. CASE perform_failover
    <3>1. config["storm"] \in Nat /\ failover_age \in Nat /\ storm_floor \in Nat
      BY FailoverConstants DEF FailoverInv, RouteInv, TypeOK, Thresholds, Fields, Ages
    <3>2. QED
      BY <2>1, <3>1 DEF perform_failover, FailoverPermitted, StormLeft, FailoverInv, Bounded,
         StormGuard
  <2>2. CASE ~perform_failover
    BY <2>2 DEF Next, routing_monitor_failover, Tick, LinkChange, routing_configure_failover,
       routing_set_failover_thresholds, routing_set_default_route, bridge_learn_mac,
       bridge_forget, monitor_degraded, monitor_up, monitor_down, failover_purge, Foreground
  <2>3. QED
    BY <2>1, <2>2
<1>2. QED
  BY <1>1, FailoverInvariant, PTL DEF Spec, StormSpacing

-----------------------------------------------------------------------------
(***************************************************************************)
(* The ARP cache.                                                          *)
(***************************************************************************)

\* Whether e is on a chain, and whether it comes before f on it.
On(s, e) == \E i \in DOMAIN s : s[i] = e

Before(s, e, f) == \E i, j \in DOMAIN s : i < j /\ s[i] = e /\ s[j] = f

\* Every nonempty set of naturals has a least element.
LEMMA LeastNumber ==
    ASSUME NEW S \in SUBSET Nat, S # {}
    PROVE  \E n \in S : \A m \in S : n <= m
<1> DEFINE R == {ss \in Nat \X Nat : ss[1] < ss[2]}
<1>1. R = OpToRel(<, Nat)
  BY Zenon DEF OpToRel
<1>2. IsWellFoundedOn(R, Nat)
  BY <1>1, NatLessThanWellFounded, Zenon
<1> HIDE DEF R
<1>3. PICK n \in S : \A m \in S : ~ (<<m, n>> \in R)
  BY <1>2, WFMin
<1>4. ASSUME NEW m \in Nat, NEW k \in Nat, m < k PROVE <<m, k>> \in R
  <2>1. <<m, k>> \in Nat \X Nat /\ <<m, k>>[1] = m /\ <<m, k>>[2] = k
    OBVIOUS
  <2>2. <<m, k>>[1] < <<m, k>>[2]
    BY <1>4, <2>1
  <2>3. QED
    BY <2>1, <2>2, Zenon DEF R
<1>5. ASSUME NEW m \in S PROVE n <= m
  <2>1. m \in Nat /\ n \in Nat
    OBVIOUS
  <2>2. ~ (m < n)
    BY <1>3, <1>4, <2>1, Zenon
  <2>3. QED
    BY <2>1, <2>2
<1>6. QED
  BY <1>5

\* Ranks are places of the shortened chain, in the same order.
LEMMA RankGrows ==
    ASSUME NEW E, NEW s \in Seq(E), NEW S
    PROVE  /\ IsFiniteSet(Kept(s, S))
           /\ \A i \in Kept(s, S) : Rank(s, S, i) \in 1 .. Cardinality(Kept(s, S))
           /\ \A i, j \in Kept(s, S) : i < j => Rank(s, S, i) < Rank(s, S, j)
<1> DEFINE K == Kept(s, S)
<1> DEFINE U(i) == {j \in K : j <= i}
<1>1. Len(s) \in Nat /\ DOMAIN s = 1 .. Len(s) /\ K \subseteq 1 .. Len(s)
  BY DEF Kept
<1>2. IsFiniteSet(K)
  <2>1. IsFiniteSet(1 .. Len(s))
    BY <1>1, FS_Interval
  <2>2. QED
    BY <1>1, <2>1, FS_Subset
<1> HIDE DEF K
<1>3. \A i : U(i) \subseteq K /\ IsFiniteSet(U(i)) /\ Cardinality(U(i)) <= Cardinality(K)
  BY <1>2, FS_Subset
<1> HIDE DEF U
<1>4. \A i : Cardinality(U(i)) \in Nat
  BY <1>3, FS_CardinalityType
<1>5. Cardinality(K) \in Nat
  BY <1>2, FS_CardinalityType
<1>6. ASSUME NEW i \in K
      PROVE  Cardinality(U(i)) \in 1 .. Cardinality(K)
  <2>1. i \in U(i)
    BY <1>1 DEF U
  <2>2. Cardinality(U(i)) # 0
    BY <1>3, <2>1, FS_EmptySet
  <2>3. QED
    BY <2>2, <1>3, <1>4, <1>5
<1>7. ASSUME NEW i \in K, NEW j \in K, i < j
      PROVE  Cardinality(U(i)) < Cardinality(U(j))
  <2>1. U(i) \subseteq U(j) /\ j \in U(j) /\ j \notin U(i)
    <3>1. i \in Nat /\ j \in Nat /\ K \subseteq Nat
      BY <1>1
    <3>2. \A m \in K : m <= i => m <= j
      BY <3>1, <1>7
    <3>3. j <= j /\ ~ (j <= i)
      BY <3>1, <1>7
    <3>4. QED
      BY <3>2, <3>3, Zenon DEF U
  <2>2. Cardinality(U(i)) <= Cardinality(U(j))
        /\ Cardinality(U(i)) # Cardinality(U(j))
    BY <2>1, <1>3, FS_Subset
  <2>3. QED
    BY <2>2, <1>4
<1>8. \A i : Rank(s, S, i) = Cardinality(U(i))
  BY DEF Rank, U, K
<1>9. QED
  BY <1>2, <1>6, <1>7, <1>8 DEF K

\* Every place of the shortened chain is the rank of exactly one that stays.
LEMMA RankOnto ==
    ASSUME NEW E, NEW s \in Seq(E), NEW S, NEW k \in 1 .. Cardinality(Kept(s, S))
    PROVE  \E i \in Kept(s, S) : Rank(s, S, i) = k
<1> DEFINE K == Kept(s, S)
<1> DEFINE n == Cardinality(K)
<1> DEFINE R == [i \in K |-> Rank(s, S, i)]
<1> DEFINE T == (1 .. n) \ {k}
<1>1. IsFiniteSet(K) /\ n \in Nat
  BY RankGrows, FS_CardinalityType
<1>2. IsFiniteSet(T) /\ Cardinality(T) < n
  <2>1. IsFiniteSet(1 .. n) /\ Cardinality(1 .. n) = n
    BY <1>1, FS_Interval
  <2>2. Cardinality(T) = n - 1 /\ IsFiniteSet(T)
    BY <2>1, FS_RemoveElement
  <2>3. QED
    BY <2>2, <1>1
<1>3. SUFFICES ASSUME \A i \in K : Rank(s, S, i) # k
               PROVE  FALSE
  OBVIOUS
<1>4. R \in [K -> T]
  BY <1>3, RankGrows
<1>5. K \subseteq Nat
  BY DEF Kept
<1> HIDE DEF K, T, R, n
<1>6. PICK i, j \in K : i # j /\ R[i] = R[j]
  BY <1>1, <1>2, <1>4, FS_PigeonHole DEF n
<1>7. Rank(s, S, i) = Rank(s, S, j)
  BY <1>6 DEF R
<1>8. Rank(s, S, i) \in Nat /\ Rank(s, S, j) \in Nat
  BY RankGrows DEF K
<1>9. i < j \/ j < i
  BY <1>5, <1>6
<1>10. QED
  BY <1>7, <1>8, <1>9, RankGrows DEF K

\* What is left of a chain when S is taken out: the others, in their order.
LEMMA UnlinkedChain ==
    ASSUME NEW E, NEW s \in Seq(E), NEW S
    PROVE  LET u == Unlinked(s, S) IN
           /\ u \in Seq(E)
           /\ \A e : On(u, e) <=> On(s, e) /\ e \notin S
           /\ \A e, f : Before(u, e, f) <=> Before(s, e, f) /\ e \notin S /\ f \notin S
<1> DEFINE K == Kept(s, S)
<1> DEFINE n == Cardinality(K)
<1> DEFINE g(k) == CHOOSE i \in K : Rank(s, S, i) = k
<1> DEFINE u == [k \in 1 .. n |-> s[g(k)]]
<1>1. IsFiniteSet(K) /\ n \in Nat
  BY RankGrows, FS_CardinalityType
<1>2. Unlinked(s, S) = u
  BY Zenon DEF Unlinked
<1>3. \A k \in 1 .. n : g(k) \in K /\ Rank(s, S, g(k)) = k
  BY RankOnto
<1>4. K \subseteq 1 .. Len(s) /\ DOMAIN s = 1 .. Len(s) /\ Len(s) \in Nat
      /\ \A i \in 1 .. Len(s) : s[i] \in E
  BY DEF Kept
<1>5. \A i \in 1 .. Len(s) : i \in K <=> s[i] \notin S
  BY <1>4 DEF Kept
<1>6. \A i \in K : Rank(s, S, i) \in 1 .. n
  BY RankGrows
<1>7. \A i, j \in K : i < j => Rank(s, S, i) < Rank(s, S, j)
  BY RankGrows
<1>8. \A i \in K : g(Rank(s, S, i)) = i
  <2>1. SUFFICES ASSUME NEW i \in K, g(Rank(s, S, i)) # i
                 PROVE  FALSE
    OBVIOUS
  <2>2. PICK j \in K : j = g(Rank(s, S, i)) /\ Rank(s, S, j) = Rank(s, S, i)
    BY <1>3, <1>6
  <2>3. i < j \/ j < i
    BY <1>4, <2>1, <2>2
  <2>4. QED
    BY <2>2, <2>3, <1>6, <1>7
<1>9. \A k, m \in 1 .. n : k < m <=> g(k) < g(m)
  <2>1. SUFFICES ASSUME NEW k \in 1 .. n, NEW m \in 1 .. n
                 PROVE  k < m <=> g(k) < g(m)
    OBVIOUS
  <2>2. PICK i \in K : i = g(k) /\ Rank(s, S, i) = k
    BY <1>3
  <2>3. PICK j \in K : j = g(m) /\ Rank(s, S, j) = m
    BY <1>3
  <2>4. i \in Nat /\ j \in Nat /\ (i < j \/ j < i \/ i = j)
    BY <1>4
  <2>5. QED
    BY <2>2, <2>3, <2>4, <1>7, <1>1
<1> HIDE DEF K, n, g
<1>10. DOMAIN u = 1 .. n /\ \A k \in 1 .. n : u[k] = s[g(k)]
  OBVIOUS
<1>11. u \in Seq(E)
  <2>1. \A k \in 1 .. n : s[g(k)] \in E
    BY <1>3, <1>4
  <2>2. QED
    BY <1>1, <2>1
<1> HIDE DEF u
<1>12. ASSUME NEW e
       PROVE  On(u, e) <=> On(s, e) /\ e \notin S
  <2>1. ASSUME On(u, e)
        PROVE  On(s, e) /\ e \notin S
    <3>1. PICK k \in 1 .. n : s[g(k)] = e
      BY <2>1, <1>10 DEF On
    <3>2. QED
      BY <3>1, <1>3, <1>4, <1>5 DEF On
  <2>2. ASSUME On(s, e), e \notin S
        PROVE  On(u, e)
    <3>1. PICK i \in K : s[i] = e
      BY <2>2, <1>4, <1>5 DEF On
    <3>2. QED
      BY <3>1, <1>6, <1>8, <1>10 DEF On
  <2>3. QED
    BY <2>1, <2>2
<1>13. ASSUME NEW e, NEW f
       PROVE  Before(u, e, f) <=> Before(s, e, f) /\ e \notin S /\ f \notin S
  <2>1. ASSUME Before(u, e, f)
        PROVE  Before(s, e, f) /\ e \notin S /\ f \notin S
    <3>1. PICK k, m \in 1 .. n : k < m /\ s[g(k)] = e /\ s[g(m)] = f
      BY <2>1, <1>10 DEF Before
    <3>2. QED
      BY <3>1, <1>3, <1>4, <1>5, <1>9 DEF Before
  <2>2. ASSUME Before(s, e, f), e \notin S, f \notin S
        PROVE  Before(u, e, f)
    <3>1. PICK i, j \in K : i < j /\ s[i] = e /\ s[j] = f
      BY <2>2, <1>4, <1>5 DEF Before
    <3>2. u[Rank(s, S, i)] = e /\ u[Rank(s, S, j)] = f
      BY <3>1, <1>6, <1>8, <1>10
    <3>3. QED
      BY <3>1, <3>2, <1>6, <1>7, <1>10 DEF Before
  <2>3. QED
    BY <2>1, <2>2
<1>14. QED
  BY <1>2, <1>11, <1>12, <1>13, Zenon

\* A chain with a new head.
LEMMA LinkedChain ==
    ASSUME NEW E, NEW s \in Seq(E), NEW x \in E
    PROVE  LET u == <<x>> \o s IN
           /\ u \in Seq(E)
           /\ \A e : On(u, e) <=> e = x \/ On(s, e)
           /\ \A e, f : Before(u, e, f) <=> (e = x /\ On(s, f)) \/ Before(s, e, f)
<1> DEFINE u == <<x>> \o s
<1>1. u \in Seq(E) /\ Len(s) \in Nat /\ DOMAIN u = 1 .. Len(s) + 1 /\ DOMAIN s = 1 .. Len(s)
  OBVIOUS
<1>2. u[1] = x /\ \A i \in 1 .. Len(s) : u[i + 1] = s[i]
  OBVIOUS
<1> HIDE DEF u
<1>3. \A i \in 1 .. Len(s) + 1 : i = 1 \/ (i - 1 \in 1 .. Len(s) /\ u[i] = s[i - 1])
  BY <1>1, <1>2
<1>4. ASSUME NEW e
      PROVE  On(u, e) <=> e = x \/ On(s, e)
  <2>1. ASSUME On(u, e)
        PROVE  e = x \/ On(s, e)
    <3>1. PICK i \in 1 .. Len(s) + 1 : u[i] = e
      BY <2>1, <1>1 DEF On
    <3>2. i = 1 \/ (i - 1 \in DOMAIN s /\ s[i - 1] = e)
      BY <3>1, <1>1, <1>3
    <3>3. QED
      BY <3>1, <3>2, <1>2 DEF On
  <2>2. e = x => On(u, e)
    BY <1>1, <1>2 DEF On
  <2>3. On(s, e) => On(u, e)
    BY <1>1, <1>2 DEF On
  <2>4. QED
    BY <2>1, <2>2, <2>3
<1>5. ASSUME NEW e, NEW f
      PROVE  Before(u, e, f) <=> (e = x /\ On(s, f)) \/ Before(s, e, f)
  <2>1. ASSUME Before(u, e, f)
        PROVE  (e = x /\ On(s, f)) \/ Before(s, e, f)
    <3>1. PICK i, j \in 1 .. Len(s) + 1 : i < j /\ u[i] = e /\ u[j] = f
      BY <2>1, <1>1 DEF Before
    <3>2. j - 1 \in 1 .. Len(s) /\ s[j - 1] = f
      BY <3>1, <1>1, <1>3
    <3>3. CASE i = 1
      BY <3>1, <3>2, <3>3, <1>1, <1>2 DEF On
    <3>4. CASE i # 1
      <4>1. i - 1 \in 1 .. Len(s) /\ s[i - 1] = e /\ i - 1 < j - 1
        BY <3>1, <3>4, <1>1, <1>3
      <4>2. QED
        BY <4>1, <3>2, <1>1 DEF Before
    <3>5. QED
      BY <3>3, <3>4
  <2>2. ASSUME e = x, On(s, f)
        PROVE  Before(u, e, f)
    <3>1. PICK j \in 1 .. Len(s) : s[j] = f
      BY <2>2, <1>1 DEF On
    <3>2. 1 \in DOMAIN u /\ j + 1 \in DOMAIN u /\ 1 < j + 1 /\ u[j + 1] = f
      BY <3>1, <1>1, <1>2
    <3>3. QED
      BY <3>2, <2>2, <1>2 DEF Before
  <2>3. ASSUME Before(s, e, f)
        PROVE  Before(u, e, f)
    <3>1. PICK i, j \in 1 .. Len(s) : i < j /\ s[i] = e /\ s[j] = f
      BY <2>3, <1>1 DEF Before
    <3>2. i + 1 \in DOMAIN u /\ j + 1 \in DOMAIN u /\ i + 1 < j + 1
          /\ u[i + 1] = e /\ u[j + 1] = f
      BY <3>1, <1>1, <1>2
    <3>3. QED
      BY <3>2 DEF Before
  <2>4. QED
    BY <2>1, <2>2, <2>3
<1>6. QED
  BY <1>1, <1>4, <1>5, Zenon DEF u

(***************************************************************************)
(* The inductive invariant of the cache.  Chains are seen through On and   *)
(* Before.  An entry is free when no chain holds it, else it is on the     *)
(* chain of its address, once; a complete entry comes before all others of *)
(* its address, which is what a lookup depends on.                         *)
(***************************************************************************)
CacheType == [slot : [Entries -> Entry], free : SUBSET Entries,
              chain : [Buckets -> Seq(Entries)], count : Nat]

LinkInv(c) ==
    /\ \A e \in Entries : (c.slot[e].state = "FREE") <=> (e \in c.free)
    /\ \A e \in Entries : e \in c.free <=> \A b \in Buckets : ~ On(c.chain[b], e)
    /\ \A b \in Buckets, e \in Entries :
          On(c.chain[b], e) => Hash[c.slot[e].ip] = b
    /\ \A b \in Buckets, e, f \in Entries :
          ~ (Before(c.chain[b], e, f) /\ Before(c.chain[b], f, e))

CountInv(c) == c.count = Cardinality(Entries \ c.free)

FirstOf(c, e) == \A f \in Entries : f # e /\ c.slot[f].ip = c.slot[e].ip
                    => Before(c.chain[Hash[c.slot[e].ip]], e, f)

FirstInv(c) == \A e \in Entries : c.slot[e].state = "COMPLETE" => FirstOf(c, e)

CacheOK(c) == c \in CacheType /\ LinkInv(c) /\ CountInv(c) /\ FirstInv(c)

\* What the three kinds of entries have in them.
LEMMA EntryKinds ==
    ASSUME NEW r \in Entry
    PROVE  /\ r.state \in {"FREE", "INCOMPLETE", "COMPLETE"}
           /\ r.state = "FREE" => r.ip = Nobody /\ r.ip \notin IP
           /\ r.state # "FREE" => r.ip \in IP
           /\ r.state = "COMPLETE" => r.station \in Station
           /\ r.state = "INCOMPLETE" => r.retry \in 1 .. MaxRetries
           /\ r.age \in Nat
BY ArpAssumption DEF Entry

\* The entries the operations put in a slot.
LEMMA NewEntries ==
    ASSUME NEW ip \in IP, NEW st \in Station, NEW fl \in Flags
    PROVE  /\ FreeEntry \in Entry /\ FreeEntry.state = "FREE"
           /\ Incomplete(ip) \in Entry
           /\ Incomplete(ip).state = "INCOMPLETE" /\ Incomplete(ip).ip = ip
           /\ Complete(ip, st, fl) \in Entry
           /\ Complete(ip, st, fl).state = "COMPLETE"
           /\ Complete(ip, st, fl).ip = ip
           /\ Complete(ip, st, fl).station = st
BY ArpAssumption DEF Entry, FreeEntry, Incomplete, Complete

\* A tick changes the age of an entry, by at most one.
LEMMA AgedEntryIs ==
    ASSUME NEW r \in Entry
    PROVE  LET o == AgedEntry(r) IN
           /\ o \in Entry
           /\ o.state = r.state /\ o.ip = r.ip /\ o.station = r.station
           /\ o.flags = r.flags /\ o.retry = r.retry
           /\ o.age <= r.age + 1
<1> DEFINE o == AgedEntry(r)
<1>1. r.age \in Nat /\ r.state \in {"FREE", "INCOMPLETE", "COMPLETE"}
  BY EntryKinds
<1>2. CASE r.state = "FREE" \/ r.flags = "permanent" \/ r.age > Limit(r)
  <2>1. o = r
    BY <1>2 DEF AgedEntry
  <2>2. QED
    BY <2>1, <1>1
<1>3. CASE ~ (r.state = "FREE" \/ r.flags = "permanent" \/ r.age > Limit(r))
  <2>1. o = [r EXCEPT !.age = @ + 1]
    BY <1>3 DEF AgedEntry
  <2>2. CASE r.state = "INCOMPLETE"
    <3>1. r \in [state : {"INCOMPLETE"}, ip : IP, station : {Nobody}, flags : {"dynamic"},
                 age : 0 .. RequestTimeout + 1, retry : 1 .. MaxRetries]
      BY <2>2 DEF Entry
    <3>2. r.age <= RequestTimeout /\ RequestTimeout \in Nat
      BY <1>3, <2>2, <3>1, ArpAssumption DEF Limit
    <3>3. o \in [state : {"INCOMPLETE"}, ip : IP, station : {Nobody}, flags : {"dynamic"},
                 age : 0 .. RequestTimeout + 1, retry : 1 .. MaxRetries]
      BY <2>1, <3>1, <3>2
    <3>4. QED
      BY <2>1, <3>1, <3>3 DEF Entry
  <2>3. CASE r.state = "COMPLETE"
    <3>1. r \in [state : {"COMPLETE"}, ip : IP, station : Station, flags : Flags,
                 age : 0 .. EntryTimeout + 1, retry : {0}]
      BY <2>3 DEF Entry
    <3>2. r.age <= EntryTimeout /\ EntryTimeout \in Nat
      BY <1>3, <2>3, <3>1, ArpAssumption DEF Limit
    <3>3. o \in [state : {"COMPLETE"}, ip : IP, station : Station, flags : Flags,
                 age : 0 .. EntryTimeout + 1, retry : {0}]
      BY <2>1, <3>1, <3>2
    <3>4. QED
      BY <2>1, <3>1, <3>3 DEF Entry
  <2>4. QED
    BY <1>1, <1>3, <2>2, <2>3
<1>4. QED
  BY <1>2, <1>3

\* The operations that leave free list and chains alone: what they put in the
\* slots keeps the address of every entry, frees none, and completes only what
\* comes first.
LEMMA Relabelled ==
    ASSUME NEW c, CacheOK(c), NEW d \in CacheType,
           d.free = c.free, d.chain = c.chain, d.count = c.count,
           \A e \in Entries : /\ (d.slot[e].state = "FREE") <=> (c.slot[e].state = "FREE")
                              /\ d.slot[e].ip = c.slot[e].ip,
           \A e \in Entries : d.slot[e].state = "COMPLETE"
                                 => c.slot[e].state = "COMPLETE" \/ FirstOf(c, e)
    PROVE  CacheOK(d)
<1>1. LinkInv(d)
  BY DEF CacheOK, LinkInv
<1>2. CountInv(d)
  BY DEF CacheOK, CountInv
<1>3. FirstInv(d)
  BY DEF CacheOK, FirstInv, FirstOf
<1>4. QED
  BY <1>1, <1>2, <1>3 DEF CacheOK

\* The fields of a cache.
LEMMA CacheFields ==
    ASSUME NEW c \in CacheType
    PROVE  /\ c.slot \in [Entries -> Entry] /\ c.free \subseteq Entries
           /\ c.chain \in [Buckets -> Seq(Entries)] /\ c.count \in Nat
BY DEF CacheType

\* An entry in use is on the chain of its address, and no other.
LEMMA InUseIsOn ==
    ASSUME NEW c, CacheOK(c), NEW e \in Entries, c.slot[e].ip \in IP
    PROVE  c.slot[e].state # "FREE" /\ On(c.chain[Hash[c.slot[e].ip]], e)
<1>1. c.slot[e] \in Entry
  BY CacheFields DEF CacheOK
<1>2. c.slot[e].state # "FREE"
  BY <1>1, EntryKinds
<1>3. PICK b \in Buckets : On(c.chain[b], e)
  BY <1>2 DEF CacheOK, LinkInv
<1>4. Hash[c.slot[e].ip] = b
  BY <1>3 DEF CacheOK, LinkInv
<1>5. QED
  BY <1>2, <1>3, <1>4

\* An address is known when some entry has it.
LEMMA KnownIs ==
    ASSUME NEW c, CacheOK(c), NEW ip \in IP
    PROVE  Known(c, ip) <=> \E e \in Entries : c.slot[e].ip = ip
<1> DEFINE s == c.chain[Hash[ip]]
<1>1. Hash[ip] \in Buckets /\ s \in Seq(Entries)
  BY CacheFields, ArpAssumption DEF CacheOK
<1>2. \A i \in DOMAIN s : s[i] \in Entries
  BY <1>1
<1>3. Known(c, ip) <=> \E i \in DOMAIN s : c.slot[s[i]].ip = ip
  BY DEF Known, Positions
<1>4. ASSUME NEW e \in Entries, c.slot[e].ip = ip
      PROVE  \E i \in DOMAIN s : s[i] = e
  BY <1>4, InUseIsOn DEF On
<1> HIDE DEF s
<1>5. QED
  BY <1>2, <1>3, <1>4

\* A lookup finds the entry that comes before all others of the address.
LEMMA LookupIs ==
    ASSUME NEW c, CacheOK(c), NEW ip \in IP, Known(c, ip)
    PROVE  LET e == arp_cache_lookup(c, ip) IN
           /\ e \in Entries /\ c.slot[e].ip = ip
           /\ FirstOf(c, e)
<1> DEFINE s == c.chain[Hash[ip]]
<1> DEFINE P == Positions(c, ip)
<1> DEFINE e == arp_cache_lookup(c, ip)
<1>1. Hash[ip] \in Buckets /\ s \in Seq(Entries)
  BY CacheFields, ArpAssumption DEF CacheOK
<1>2. DOMAIN s \subseteq Nat /\ \A i \in DOMAIN s : s[i] \in Entries
  BY <1>1
<1>3. P = {i \in DOMAIN s : c.slot[s[i]].ip = ip} /\ P # {}
  BY DEF Known, Positions
<1>4. P \in SUBSET Nat
  BY <1>2, <1>3
<1>5. e = s[CHOOSE i \in P : \A j \in P : i <= j]
  BY DEF arp_cache_lookup
<1> HIDE DEF P, e
<1>6. \E i \in P : \A j \in P : i <= j
  BY <1>3, <1>4, LeastNumber
<1>7. PICK i \in P : e = s[i] /\ \A j \in P : i <= j
  BY <1>5, <1>6
<1>8. i \in DOMAIN s /\ e \in Entries /\ c.slot[e].ip = ip
  BY <1>2, <1>3, <1>7
<1>9. ASSUME NEW f \in Entries, f # e, c.slot[f].ip = ip
      PROVE  Before(s, e, f)
  <2>1. PICK j \in DOMAIN s : s[j] = f
    BY <1>9, InUseIsOn DEF On
  <2>2. j \in P /\ j # i
    BY <1>3, <1>7, <1>9, <2>1
  <2>3. i < j
    BY <1>4, <1>7, <2>2
  <2>4. QED
    BY <1>7, <1>8, <2>1, <2>3 DEF Before
<1>10. FirstOf(c, e)
  BY <1>8, <1>9 DEF FirstOf
<1>11. QED
  BY <1>8, <1>10 DEF e

\* A complete entry is the one a lookup of its address finds.
LEMMA CompleteIsFound ==
    ASSUME NEW c, CacheOK(c), NEW e \in Entries,
           c.slot[e].state = "COMPLETE"
    PROVE  /\ c.slot[e].ip \in IP /\ Known(c, c.slot[e].ip)
           /\ e = arp_cache_lookup(c, c.slot[e].ip)
<1> DEFINE ip == c.slot[e].ip
<1> DEFINE f == arp_cache_lookup(c, ip)
<1>1. c.slot[e] \in Entry
  BY CacheFields DEF CacheOK
<1>2. ip \in IP
  BY <1>1, EntryKinds
<1>3. Known(c, ip)
  BY <1>2, KnownIs
<1>4. f \in Entries /\ c.slot[f].ip = ip /\ FirstOf(c, f)
  BY <1>2, <1>3, LookupIs
<1>5. FirstOf(c, e)
  BY DEF CacheOK, FirstInv
<1>6. Hash[ip] \in Buckets
  BY <1>2, ArpAssumption
<1> HIDE DEF f
<1>7. f = e
  BY <1>4, <1>5, <1>6 DEF FirstOf, CacheOK, LinkInv
<1>8. QED
  BY <1>2, <1>3, <1>7 DEF f

\* The passing of time.
LEMMA Ticked ==
    ASSUME NEW c, CacheOK(c)
    PROVE  LET d == arp_get_timestamp(c) IN
           /\ CacheOK(d)
           /\ d.free = c.free /\ d.chain = c.chain /\ d.count = c.count
           /\ \A e \in Entries : d.slot[e] = AgedEntry(c.slot[e])
           /\ \A e \in Entries : /\ d.slot[e].state = c.slot[e].state
                                 /\ d.slot[e].ip = c.slot[e].ip
                                 /\ d.slot[e].station = c.slot[e].station
<1> DEFINE d == arp_get_timestamp(c)
<1>1. c \in CacheType /\ c.slot \in [Entries -> Entry]
  BY CacheFields DEF CacheOK
<1>2. d = [c EXCEPT !.slot = [e \in Entries |-> AgedEntry(c.slot[e])]]
  BY DEF arp_get_timestamp
<1>3. \A e \in Entries : AgedEntry(c.slot[e]) \in Entry
  BY <1>1, AgedEntryIs
<1>4. d \in CacheType /\ d.free = c.free /\ d.chain = c.chain /\ d.count = c.count
      /\ d.slot = [e \in Entries |-> AgedEntry(c.slot[e])]
  BY <1>1, <1>2, <1>3 DEF CacheType
<1> HIDE DEF d
<1>5. \A e \in Entries : d.slot[e] = AgedEntry(c.slot[e])
  BY <1>4
<1>6. \A e \in Entries : /\ d.slot[e].state = c.slot[e].state
                         /\ d.slot[e].ip = c.slot[e].ip
                         /\ d.slot[e].station = c.slot[e].station
  BY <1>1, <1>5, AgedEntryIs
<1>7. CacheOK(d)
  BY <1>4, <1>6, Relabelled
<1>8. QED
  BY <1>4, <1>5, <1>6, <1>7 DEF d

\* Entries in use go back to the free list.
LEMMA FreedCache ==
    ASSUME NEW c, CacheOK(c), NEW S \in SUBSET (Entries \ c.free)
    PROVE  LET d == Freed(c, S) IN
           /\ CacheOK(d)
           /\ \A e \in Entries : d.slot[e] = IF e \in S THEN FreeEntry ELSE c.slot[e]
<1> DEFINE d == Freed(c, S)
<1>1. c \in CacheType /\ c.slot \in [Entries -> Entry] /\ c.free \subseteq Entries
      /\ c.chain \in [Buckets -> Seq(Entries)] /\ c.count \in Nat
  BY CacheFields DEF CacheOK
<1>2. IsFiniteSet(Entries)
  BY ArpAssumption
<1>3. /\ IsFiniteSet(S) /\ Cardinality(S) \in Nat
      /\ c.count - Cardinality(S) = Cardinality(Entries \ (c.free \cup S))
      /\ c.count - Cardinality(S) \in Nat
  <2>1. IsFiniteSet(Entries \ c.free) /\ IsFiniteSet((Entries \ c.free) \ S)
    BY <1>2, FS_Subset
  <2>2. IsFiniteSet(S) /\ Cardinality(S) \in Nat
    BY <2>1, FS_Subset, FS_CardinalityType
  <2>3. Cardinality(((Entries \ c.free) \ S) \cup S)
          = Cardinality((Entries \ c.free) \ S) + Cardinality(S)
    <3>1. ((Entries \ c.free) \ S) \cap S = {}
      OBVIOUS
    <3>2. Cardinality(((Entries \ c.free) \ S) \cup S)
            = Cardinality((Entries \ c.free) \ S) + Cardinality(S) - Cardinality({})
      BY <2>1, <2>2, <3>1, FS_Union
    <3>3. Cardinality((Entries \ c.free) \ S) \in Nat
      BY <2>1, FS_CardinalityType
    <3>4. QED
      BY <2>2, <3>2, <3>3, FS_EmptySet
  <2>4. ((Entries \ c.free) \ S) \cup S = Entries \ c.free
        /\ (Entries \ c.free) \ S = Entries \ (c.free \cup S)
    OBVIOUS
  <2>5. Cardinality(Entries \ (c.free \cup S)) \in Nat
    BY <2>1, <2>4, FS_CardinalityType
  <2>6. c.count = Cardinality(Entries \ c.free)
    BY DEF CacheOK, CountInv
  <2>7. c.count = Cardinality(Entries \ (c.free \cup S)) + Cardinality(S)
    BY <2>3, <2>4, <2>6
  <2>8. QED
    BY <2>2, <2>5, <2>7, <1>1
<1>4. \A b \in Buckets :
        /\ Unlinked(c.chain[b], S) \in Seq(Entries)
        /\ \A e : On(Unlinked(c.chain[b], S), e) <=> On(c.chain[b], e) /\ e \notin S
        /\ \A e, f : Before(Unlinked(c.chain[b], S), e, f)
              <=> Before(c.chain[b], e, f) /\ e \notin S /\ f \notin S
  BY <1>1, UnlinkedChain
<1>5. FreeEntry \in Entry /\ FreeEntry.state = "FREE"
      /\ FreeEntry.ip = Nobody
  BY DEF FreeEntry, Entry
<1>6. d = [c EXCEPT !.slot = [e \in Entries |-> IF e \in S THEN FreeEntry ELSE c.slot[e]],
                    !.chain = [b \in Buckets |-> Unlinked(c.chain[b], S)],
                    !.free = c.free \cup S,
                    !.count = c.count - Cardinality(S)]
  BY <1>1 DEF Freed, CacheType
<1>7. /\ d.slot = [e \in Entries |-> IF e \in S THEN FreeEntry ELSE c.slot[e]]
      /\ d.chain = [b \in Buckets |-> Unlinked(c.chain[b], S)]
      /\ d.free = c.free \cup S
      /\ d.count = c.count - Cardinality(S)
      /\ d = [slot |-> d.slot, free |-> d.free, chain |-> d.chain, count |-> d.count]
  BY <1>1, <1>6 DEF CacheType
<1> HIDE DEF d
<1>8. d.slot \in [Entries -> Entry]
  BY <1>1, <1>5, <1>7
<1>9. d.chain \in [Buckets -> Seq(Entries)]
  BY <1>4, <1>7
<1>10. d \in CacheType
  BY <1>3, <1>7, <1>8, <1>9, <1>1 DEF CacheType
<1>11. \A e \in Entries : d.slot[e] = IF e \in S THEN FreeEntry ELSE c.slot[e]
  BY <1>7
<1>12. \A b \in Buckets :
        /\ \A e : On(d.chain[b], e) <=> On(c.chain[b], e) /\ e \notin S
        /\ \A e, f : Before(d.chain[b], e, f)
              <=> Before(c.chain[b], e, f) /\ e \notin S /\ f \notin S
  BY <1>4, <1>7
<1>13. LinkInv(d)
  <2>1. \A e \in Entries : (d.slot[e].state = "FREE") <=> (e \in d.free)
    BY <1>5, <1>7, <1>11 DEF CacheOK, LinkInv
  <2>2. \A e \in Entries : e \in d.free <=> \A b \in Buckets : ~ On(d.chain[b], e)
    BY <1>7, <1>12 DEF CacheOK, LinkInv
  <2>3. \A b \in Buckets, e \in Entries : On(d.chain[b], e) => Hash[d.slot[e].ip] = b
    BY <1>11, <1>12 DEF CacheOK, LinkInv
  <2>4. \A b \in Buckets, e, f \in Entries :
           ~ (Before(d.chain[b], e, f) /\ Before(d.chain[b], f, e))
    BY <1>12 DEF CacheOK, LinkInv
  <2>5. QED
    BY <2>1, <2>2, <2>3, <2>4 DEF LinkInv
<1>14. CountInv(d)
  BY <1>3, <1>7 DEF CountInv
<1>15. FirstInv(d)
  <2>1. SUFFICES ASSUME NEW e \in Entries, d.slot[e].state = "COMPLETE",
                        NEW f \in Entries, f # e, d.slot[f].ip = d.slot[e].ip
                 PROVE  Before(d.chain[Hash[d.slot[e].ip]], e, f)
    BY DEF FirstInv, FirstOf
  <2>2. e \notin S /\ d.slot[e] = c.slot[e]
    BY <1>5, <1>11, <2>1
  <2>3. c.slot[e].ip \in IP /\ Nobody \notin IP
    BY <1>1, <2>1, <2>2, EntryKinds, ArpAssumption
  <2>4. f \notin S /\ d.slot[f] = c.slot[f]
    BY <1>5, <1>11, <2>1, <2>2, <2>3
  <2>5. Before(c.chain[Hash[c.slot[e].ip]], e, f)
    BY <2>1, <2>2, <2>4 DEF CacheOK, FirstInv, FirstOf
  <2>6. Hash[c.slot[e].ip] \in Buckets
    BY <2>3, ArpAssumption
  <2>7. QED
    BY <1>12, <2>2, <2>4, <2>5, <2>6
<1>16. CacheOK(d)
  BY <1>10, <1>13, <1>14, <1>15 DEF CacheOK
<1>17. QED
  BY <1>11, <1>16 DEF d

\* An entry is taken from the free list and put at the head of its chain.
LEMMA LinkedCache ==
    ASSUME NEW c, CacheOK(c), c.free # {},
           NEW r \in Entry, r.state # "FREE",
           \A e \in Entries : c.slot[e].ip = r.ip => c.slot[e].state # "COMPLETE"
    PROVE  LET d == Linking(c, r) IN
           /\ CacheOK(d)
           /\ \E x \in c.free : \A e \in Entries :
                 d.slot[e] = IF e = x THEN r ELSE c.slot[e]
<1> DEFINE d == Linking(c, r)
<1>1. c \in CacheType /\ c.slot \in [Entries -> Entry] /\ c.free \subseteq Entries
      /\ c.chain \in [Buckets -> Seq(Entries)] /\ c.count \in Nat
  BY CacheFields DEF CacheOK
<1>2. PICK x \in c.free : x = CHOOSE y \in c.free : TRUE
  OBVIOUS
<1>3. PICK h \in Buckets : h = Hash[r.ip]
  BY EntryKinds, ArpAssumption
<1>4. d = [c EXCEPT !.free = c.free \ {x}, !.slot = [c.slot EXCEPT ![x] = r],
                    !.chain = [c.chain EXCEPT ![h] = <<x>> \o c.chain[h]],
                    !.count = c.count + 1]
  BY <1>1, <1>2, <1>3 DEF Linking, CacheType
<1>5. /\ d.slot = [c.slot EXCEPT ![x] = r]
      /\ d.chain = [c.chain EXCEPT ![h] = <<x>> \o c.chain[h]]
      /\ d.free = c.free \ {x}
      /\ d.count = c.count + 1
      /\ d = [slot |-> d.slot, free |-> d.free, chain |-> d.chain, count |-> d.count]
  BY <1>1, <1>4 DEF CacheType
<1> HIDE DEF d
<1>6. /\ <<x>> \o c.chain[h] \in Seq(Entries)
      /\ \A e : On(<<x>> \o c.chain[h], e) <=> e = x \/ On(c.chain[h], e)
      /\ \A e, f : Before(<<x>> \o c.chain[h], e, f)
            <=> (e = x /\ On(c.chain[h], f)) \/ Before(c.chain[h], e, f)
  <2>1. c.chain[h] \in Seq(Entries) /\ x \in Entries
    BY <1>1
  <2>2. QED
    BY <2>1, LinkedChain
<1>7. \A e \in Entries : d.slot[e] = IF e = x THEN r ELSE c.slot[e]
  BY <1>1, <1>5
<1>8. d.chain[h] = <<x>> \o c.chain[h] /\ \A b \in Buckets : b # h => d.chain[b] = c.chain[b]
  BY <1>1, <1>5
<1>9. /\ \A e : On(d.chain[h], e) <=> e = x \/ On(c.chain[h], e)
      /\ \A e, f : Before(d.chain[h], e, f)
            <=> (e = x /\ On(c.chain[h], f)) \/ Before(c.chain[h], e, f)
  BY <1>6, <1>8
<1>10. d.chain \in [Buckets -> Seq(Entries)]
  BY <1>1, <1>5, <1>6
<1>11. d.slot \in [Entries -> Entry]
  BY <1>1, <1>5
<1>12. d \in CacheType
  <2>1. d.free \in SUBSET Entries /\ d.count \in Nat
    BY <1>1, <1>5
  <2>2. QED
    BY <1>5, <1>10, <1>11, <2>1 DEF CacheType
<1>13. \A b \in Buckets : ~ On(c.chain[b], x)
  BY <1>1 DEF CacheOK, LinkInv
<1>14. \A b \in Buckets : \A e : ~ Before(c.chain[b], x, e) /\ ~ Before(c.chain[b], e, x)
  BY <1>13 DEF On, Before
<1>15. LinkInv(d)
  <2>1. \A e \in Entries : (d.slot[e].state = "FREE") <=> (e \in d.free)
    BY <1>5, <1>7 DEF CacheOK, LinkInv
  <2>2. \A e \in Entries : e \in d.free <=> \A b \in Buckets : ~ On(d.chain[b], e)
    <3>1. SUFFICES ASSUME NEW e \in Entries
                   PROVE  e \in d.free <=> \A b \in Buckets : ~ On(d.chain[b], e)
      OBVIOUS
    <3>2. CASE e = x
      BY <1>5, <1>9, <3>2
    <3>3. CASE e # x
      <4>1. \A b \in Buckets : On(d.chain[b], e) <=> On(c.chain[b], e)
        BY <1>8, <1>9, <3>3
      <4>2. QED
        BY <1>5, <3>3, <4>1 DEF CacheOK, LinkInv
    <3>4. QED
      BY <3>2, <3>3
  <2>3. \A b \in Buckets, e \in Entries : On(d.chain[b], e) => Hash[d.slot[e].ip] = b
    <3>1. SUFFICES ASSUME NEW b \in Buckets, NEW e \in Entries, On(d.chain[b], e)
                   PROVE  Hash[d.slot[e].ip] = b
      OBVIOUS
    <3>2. CASE e = x
      <4>1. b = h
        BY <1>8, <1>13, <3>1, <3>2
      <4>2. QED
        BY <1>3, <1>7, <3>2, <4>1
    <3>3. CASE e # x
      <4>1. On(c.chain[b], e)
        BY <1>8, <1>9, <3>1, <3>3
      <4>2. QED
        BY <1>7, <3>3, <4>1 DEF CacheOK, LinkInv
    <3>4. QED
      BY <3>2, <3>3
  <2>4. ASSUME NEW b \in Buckets, NEW e \in Entries, NEW f \in Entries
        PROVE  ~ (Before(d.chain[b], e, f) /\ Before(d.chain[b], f, e))
    <3>1. ~ (Before(c.chain[b], e, f) /\ Before(c.chain[b], f, e))
      BY DEF CacheOK, LinkInv
    <3>2. CASE b # h
      BY <1>8, <3>1, <3>2
    <3>3. CASE b = h
      BY <1>9, <1>13, <1>14, <3>1, <3>3
    <3>4. QED
      BY <3>2, <3>3
  <2>5. QED
    BY <2>1, <2>2, <2>3, <2>4 DEF LinkInv
<1>16. CountInv(d)
  <2>1. IsFiniteSet(Entries \ c.free)
    BY FS_Subset, ArpAssumption
  <2>2. Cardinality((Entries \ c.free) \cup {x}) = Cardinality(Entries \ c.free) + 1
    BY <2>1, FS_AddElement
  <2>3. (Entries \ c.free) \cup {x} = Entries \ d.free
    BY <1>1, <1>5
  <2>4. QED
    BY <2>2, <2>3, <1>5 DEF CacheOK, CountInv
<1>17. FirstInv(d)
  <2>1. SUFFICES ASSUME NEW e \in Entries, d.slot[e].state = "COMPLETE",
                        NEW f \in Entries, f # e, d.slot[f].ip = d.slot[e].ip
                 PROVE  Before(d.chain[Hash[d.slot[e].ip]], e, f)
    BY DEF FirstInv, FirstOf
  <2>2. CASE e = x
    <3>1. d.slot[e] = r /\ d.slot[f] = c.slot[f] /\ r.ip \in IP
      BY <1>7, <2>1, <2>2, EntryKinds
    <3>2. On(c.chain[h], f)
      BY <1>3, <2>1, <3>1, InUseIsOn
    <3>3. QED
      BY <1>3, <1>9, <2>2, <3>1, <3>2
  <2>3. CASE e # x
    <3>1. d.slot[e] = c.slot[e]
      BY <1>7, <2>3
    <3>2. f # x
      BY <1>7, <2>1, <3>1
    <3>3. d.slot[f] = c.slot[f]
      BY <1>7, <3>2
    <3>4. Before(c.chain[Hash[c.slot[e].ip]], e, f)
      BY <2>1, <3>1, <3>3 DEF CacheOK, FirstInv, FirstOf
    <3>5. Hash[c.slot[e].ip] \in Buckets
      BY <1>1, <2>1, <3>1, EntryKinds, ArpAssumption
    <3>6. CASE Hash[c.slot[e].ip] = h
      BY <1>9, <3>1, <3>4, <3>6
    <3>7. CASE Hash[c.slot[e].ip] # h
      BY <1>8, <3>1, <3>4, <3>5, <3>7
    <3>8. QED
      BY <3>6, <3>7
  <2>4. QED
    BY <2>2, <2>3
<1>18. CacheOK(d)
  BY <1>12, <1>15, <1>16, <1>17 DEF CacheOK
<1>19. QED
  BY <1>7, <1>18 DEF d

-----------------------------------------------------------------------------
(***************************************************************************)
(* What an operation may do to the answers the cache c holds, d being what *)
(* it leaves: give no new one, lose none, lose none that is fresh.         *)
(***************************************************************************)
NoNew(c, d) == \A e \in Entries : d.slot[e].state = "COMPLETE" =>
    /\ c.slot[e].state = "COMPLETE" /\ d.slot[e].ip = c.slot[e].ip
    /\ d.slot[e].station = c.slot[e].station

Stays(c, d) == \A e \in Entries : c.slot[e].state = "COMPLETE" =>
    d.slot[e].state = "COMPLETE" /\ d.slot[e].ip = c.slot[e].ip

FreshStays(c, d) == \A e \in Entries :
    c.slot[e].state = "COMPLETE" /\ c.slot[e].age < EntryTimeout =>
        d.slot[e].state = "COMPLETE" /\ d.slot[e].ip = c.slot[e].ip

\* And no address but ip turns up in it.
NoAddress(c, d) == \A e \in Entries : d.slot[e].ip \in IP => d.slot[e].ip = c.slot[e].ip

\* The entries the chains hold are those in use.
LEMMA LinkedAre ==
    ASSUME NEW c, CacheOK(c)
    PROVE  Linked(c) = Entries \ c.free
<1>1. \A e \in Entries : e \in Linked(c) <=> \E b \in Buckets : On(c.chain[b], e)
  BY DEF Linked, On
<1>2. Linked(c) \subseteq Entries
  BY DEF Linked
<1>3. \A e \in Entries : e \in c.free <=> \A b \in Buckets : ~ On(c.chain[b], e)
  BY DEF CacheOK, LinkInv
<1>4. QED
  BY <1>1, <1>2, <1>3

\* Ageing takes what has expired, and nothing fresh.
LEMMA AgedOutCache ==
    ASSUME NEW c, CacheOK(c)
    PROVE  LET d == AgedOut(c) IN
           CacheOK(d) /\ NoNew(c, d) /\ FreshStays(c, d) /\ NoAddress(c, d)
<1> DEFINE t == arp_get_timestamp(c)
<1> DEFINE S == {e \in Linked(t) : Expired(t.slot[e])}
<1> DEFINE d == Freed(t, S)
<1>1. AgedOut(c) = d
  BY DEF AgedOut
<1>2. /\ CacheOK(t) /\ \A e \in Entries : t.slot[e] = AgedEntry(c.slot[e])
      /\ \A e \in Entries : /\ t.slot[e].state = c.slot[e].state
                            /\ t.slot[e].ip = c.slot[e].ip
                            /\ t.slot[e].station = c.slot[e].station
  BY Ticked
<1> HIDE DEF t
<1>3. S \in SUBSET (Entries \ t.free)
  BY <1>2, LinkedAre
<1>4. \A e \in S : Expired(t.slot[e])
  OBVIOUS
<1> HIDE DEF S
<1>5. CacheOK(d) /\ \A e \in Entries :
                       d.slot[e] = IF e \in S THEN FreeEntry ELSE t.slot[e]
  BY <1>2, <1>3, FreedCache
<1> HIDE DEF d
<1>6. FreeEntry.state = "FREE" /\ FreeEntry.ip \notin IP
  BY ArpAssumption DEF FreeEntry
<1>7. NoNew(c, d)
  BY <1>2, <1>5, <1>6 DEF NoNew
<1>8. NoAddress(c, d)
  BY <1>2, <1>5, <1>6 DEF NoAddress
<1>9. ASSUME NEW e \in Entries, c.slot[e].state = "COMPLETE", c.slot[e].age < EntryTimeout
      PROVE  e \notin S
  <2>1. c.slot[e] \in Entry
    BY CacheFields DEF CacheOK
  <2>2. t.slot[e].age <= c.slot[e].age + 1
    BY <1>2, <2>1, AgedEntryIs
  <2>3. c.slot[e].age \in Nat /\ t.slot[e].age \in Nat
    <3>1. t.slot[e] \in Entry
      BY <1>2, CacheFields DEF CacheOK
    <3>2. QED
      BY <2>1, <3>1, EntryKinds
  <2>4. EntryTimeout \in Nat
    BY ArpAssumption
  <2>5. Limit(t.slot[e]) = EntryTimeout
    BY <1>2, <1>9 DEF Limit
  <2>6. ~ (t.slot[e].age > Limit(t.slot[e]))
    BY <1>9, <2>2, <2>3, <2>4, <2>5
  <2>7. QED
    BY <1>4, <2>6 DEF Expired
<1>10. FreshStays(c, d)
  BY <1>2, <1>5, <1>9 DEF FreshStays
<1>11. QED
  BY <1>1, <1>5, <1>7, <1>8, <1>10

\* What is learned: the address has the station it was given, and what was
\* known of other addresses is unchanged.
Learns(c, d, ip, st) == \A e \in Entries : d.slot[e].state = "COMPLETE" =>
    IF d.slot[e].ip = ip THEN d.slot[e].station = st
    ELSE /\ c.slot[e].state = "COMPLETE" /\ d.slot[e].ip = c.slot[e].ip
         /\ d.slot[e].station = c.slot[e].station

\* arp_cache_add for an address that has an entry.
LEMMA LearnedKnown ==
    ASSUME NEW c, CacheOK(c), NEW ip \in IP, NEW st \in Station,
           NEW fl \in Flags, Known(c, ip)
    PROVE  LET d == Learned(c, ip, st, fl) IN
           CacheOK(d) /\ Learns(c, d, ip, st) /\ FreshStays(c, d)
<1> DEFINE t == arp_get_timestamp(c)
<1> DEFINE x == arp_cache_lookup(c, ip)
<1> DEFINE r == Complete(ip, st, fl)
<1> DEFINE d == [t EXCEPT !.slot = [t.slot EXCEPT ![x] = r]]
<1>1. /\ CacheOK(t) /\ t.free = c.free /\ t.chain = c.chain /\ t.count = c.count
      /\ \A e \in Entries : /\ t.slot[e].state = c.slot[e].state
                            /\ t.slot[e].ip = c.slot[e].ip
                            /\ t.slot[e].station = c.slot[e].station
  BY Ticked
<1>2. x \in Entries /\ c.slot[x].ip = ip /\ FirstOf(c, x)
  BY LookupIs
<1>3. c.slot[x].state # "FREE"
  BY <1>2, InUseIsOn
<1>4. r \in Entry /\ r.state = "COMPLETE" /\ r.ip = ip /\ r.station = st
  BY NewEntries
<1>5. t \in CacheType /\ t.slot \in [Entries -> Entry]
  BY <1>1, CacheFields DEF CacheOK
<1>6. Learned(c, ip, st, fl) = d
  BY <1>5 DEF Learned, CacheType
<1> HIDE DEF t, x, r
<1>7. d \in CacheType /\ d.free = t.free /\ d.chain = t.chain /\ d.count = t.count
      /\ d.slot = [t.slot EXCEPT ![x] = r]
  BY <1>2, <1>4, <1>5 DEF CacheType
<1> HIDE DEF d
<1>8. \A e \in Entries : d.slot[e] = IF e = x THEN r ELSE t.slot[e]
  BY <1>2, <1>5, <1>7
<1>9. CacheOK(d)
  <2>1. \A e \in Entries : /\ (d.slot[e].state = "FREE") <=> (c.slot[e].state = "FREE")
                           /\ d.slot[e].ip = c.slot[e].ip
    BY <1>1, <1>2, <1>3, <1>4, <1>8
  <2>2. \A e \in Entries : d.slot[e].state = "COMPLETE"
                              => c.slot[e].state = "COMPLETE" \/ FirstOf(c, e)
    BY <1>1, <1>2, <1>8
  <2>3. d.free = c.free /\ d.chain = c.chain /\ d.count = c.count
    BY <1>1, <1>7
  <2>4. QED
    BY <1>7, <2>1, <2>2, <2>3, Relabelled
<1>10. Learns(c, d, ip, st)
  <2>1. \A e \in Entries : c.slot[e].state = "COMPLETE" /\ c.slot[e].ip = ip => e = x
    BY CompleteIsFound DEF x
  <2>2. QED
    BY <1>1, <1>4, <1>8, <2>1 DEF Learns
<1>11. FreshStays(c, d)
  BY <1>1, <1>2, <1>4, <1>8 DEF FreshStays
<1>12. QED
  BY <1>6, <1>9, <1>10, <1>11

\* arp_cache_add for an address that has none.
LEMMA LearnedUnknown ==
    ASSUME NEW c, CacheOK(c), NEW ip \in IP, NEW st \in Station,
           NEW fl \in Flags, ~ Known(c, ip)
    PROVE  LET d == Learned(c, ip, st, fl) IN
           CacheOK(d) /\ Learns(c, d, ip, st) /\ FreshStays(c, d)
<1> DEFINE a == IF c.free = {} THEN AgedOut(c) ELSE c
<1> DEFINE t == arp_get_timestamp(a)
<1> DEFINE r == Complete(ip, st, fl)
<1> DEFINE d == IF a.free = {} THEN a ELSE Linking(t, r)
<1>1. Learned(c, ip, st, fl) = d
  BY Zenon DEF Learned
<1>2. CacheOK(a) /\ NoNew(c, a) /\ FreshStays(c, a) /\ NoAddress(c, a)
  <2>1. CASE c.free = {}
    BY <2>1, AgedOutCache
  <2>2. CASE c.free # {}
    BY <2>2 DEF NoNew, FreshStays, NoAddress
  <2>3. QED
    BY <2>1, <2>2
<1> HIDE DEF a
<1>3. \A e \in Entries : a.slot[e].ip # ip
  BY <1>2, KnownIs DEF NoAddress
<1>4. CASE a.free = {}
  <2>1. d = a
    BY <1>4
  <2>2. Learns(c, a, ip, st)
    BY <1>2, <1>3 DEF Learns, NoNew
  <2>3. QED
    BY <1>1, <1>2, <2>1, <2>2
<1>5. CASE a.free # {}
  <2>1. d = Linking(t, r)
    BY <1>5
  <2>2. /\ CacheOK(t) /\ t.free = a.free
        /\ \A e \in Entries : /\ t.slot[e].state = a.slot[e].state
                              /\ t.slot[e].ip = a.slot[e].ip
                              /\ t.slot[e].station = a.slot[e].station
    BY <1>2, Ticked
  <2>3. r \in Entry /\ r.state = "COMPLETE" /\ r.ip = ip /\ r.station = st
    BY NewEntries
  <2> HIDE DEF t, r, d
  <2>4. CacheOK(d) /\ \E x \in t.free : \A e \in Entries :
                         d.slot[e] = IF e = x THEN r ELSE t.slot[e]
    <3>1. \A e \in Entries : t.slot[e].ip = r.ip => t.slot[e].state # "COMPLETE"
      BY <1>3, <2>2, <2>3
    <3>2. t.free # {} /\ r.state # "FREE"
      BY <1>5, <2>2, <2>3
    <3>3. QED
      BY <2>1, <2>2, <2>3, <3>1, <3>2, LinkedCache
  <2>5. PICK x \in t.free : \A e \in Entries : d.slot[e] = IF e = x THEN r ELSE t.slot[e]
    BY <2>4
  <2>6. x \in Entries /\ t.slot[x].state = "FREE"
    BY <2>2, CacheFields DEF CacheOK, LinkInv
  <2>7. Learns(c, d, ip, st)
    BY <1>2, <1>3, <2>2, <2>3, <2>5 DEF Learns, NoNew
  <2>8. FreshStays(c, d)
    BY <1>2, <2>2, <2>5, <2>6 DEF FreshStays
  <2>9. QED
    BY <1>1, <2>4, <2>7, <2>8
<1>6. QED
  BY <1>4, <1>5

\* arp_send_request for an address that is not resolved.
LEMMA RequestedCache ==
    ASSUME NEW c, CacheOK(c), NEW ip \in IP, NEW sent,
           \A e \in Entries : c.slot[e].ip = ip => c.slot[e].state # "COMPLETE"
    PROVE  LET d == Requested(c, ip, sent) IN
           CacheOK(d) /\ NoNew(c, d) /\ Stays(c, d)
<1> DEFINE t == arp_get_timestamp(c)
<1> DEFINE u == arp_get_timestamp(t)
<1> DEFINE r == Incomplete(ip)
<1> DEFINE d == Requested(c, ip, sent)
<1>1. CASE ~ (sent /\ c.free # {})
  <2>1. d = c
    BY <1>1 DEF Requested
  <2>2. QED
    BY <2>1 DEF NoNew, Stays
<1>2. CASE sent /\ c.free # {}
  <2>1. d = Linking(u, r)
    BY <1>2 DEF Requested
  <2>2. /\ CacheOK(t) /\ t.free = c.free
        /\ \A e \in Entries : /\ t.slot[e].state = c.slot[e].state
                              /\ t.slot[e].ip = c.slot[e].ip
                              /\ t.slot[e].station = c.slot[e].station
    BY Ticked
  <2> HIDE DEF t
  <2>3. /\ CacheOK(u) /\ u.free = t.free
        /\ \A e \in Entries : /\ u.slot[e].state = t.slot[e].state
                              /\ u.slot[e].ip = t.slot[e].ip
                              /\ u.slot[e].station = t.slot[e].station
    BY <2>2, Ticked
  <2>4. r \in Entry /\ r.state = "INCOMPLETE" /\ r.ip = ip
    BY ArpAssumption DEF Incomplete, Entry
  <2> HIDE DEF u, r, d
  <2>5. CacheOK(d) /\ \E x \in u.free : \A e \in Entries :
                         d.slot[e] = IF e = x THEN r ELSE u.slot[e]
    <3>1. \A e \in Entries : u.slot[e].ip = r.ip => u.slot[e].state # "COMPLETE"
      BY <2>2, <2>3, <2>4
    <3>2. u.free # {} /\ r.state # "FREE"
      BY <1>2, <2>2, <2>3, <2>4
    <3>3. QED
      BY <2>1, <2>3, <2>4, <3>1, <3>2, LinkedCache
  <2>6. PICK x \in u.free : \A e \in Entries : d.slot[e] = IF e = x THEN r ELSE u.slot[e]
    BY <2>5
  <2>7. x \in Entries /\ u.slot[x].state = "FREE"
    BY <2>3, CacheFields DEF CacheOK, LinkInv
  <2>8. NoNew(c, d)
    BY <2>2, <2>3, <2>4, <2>6 DEF NoNew
  <2>9. Stays(c, d)
    BY <2>2, <2>3, <2>6, <2>7 DEF Stays
  <2>10. QED
    BY <2>5, <2>8, <2>9 DEF d
<1>3. QED
  BY <1>1, <1>2

\* Giving up on entries that are not complete.
LEMMA FreedPending ==
    ASSUME NEW c, CacheOK(c), NEW x \in Entries,
           c.slot[x].state = "INCOMPLETE"
    PROVE  LET d == Freed(c, {x}) IN
           CacheOK(d) /\ NoNew(c, d) /\ Stays(c, d)
<1> DEFINE d == Freed(c, {x})
<1>1. {x} \in SUBSET (Entries \ c.free)
  BY DEF CacheOK, LinkInv
<1>2. CacheOK(d) /\ \A e \in Entries :
                       d.slot[e] = IF e \in {x} THEN FreeEntry ELSE c.slot[e]
  BY <1>1, FreedCache
<1> HIDE DEF d
<1>3. FreeEntry.state = "FREE"
  BY DEF FreeEntry
<1>4. NoNew(c, d) /\ Stays(c, d)
  BY <1>2, <1>3 DEF NoNew, Stays
<1>5. QED
  BY <1>2, <1>4 DEF d

\* arp_resolve_async for a pending address.
LEMMA RetriedCache ==
    ASSUME NEW c, CacheOK(c), NEW x \in Entries, NEW sent,
           c.slot[x].state = "INCOMPLETE",
           \A e \in Entries : c.slot[e].ip = c.slot[x].ip => c.slot[e].state # "COMPLETE"
    PROVE  LET d == Retried(c, x, sent) IN
           CacheOK(d) /\ NoNew(c, d) /\ Stays(c, d)
<1> DEFINE ip == c.slot[x].ip
<1> DEFINE d == Retried(c, x, sent)
<1> DEFINE r == [c.slot[x] EXCEPT !.retry = c.slot[x].retry + 1, !.age = 0]
<1> DEFINE b == [c EXCEPT !.slot = [c.slot EXCEPT ![x] = r]]
<1>1. c \in CacheType /\ c.slot \in [Entries -> Entry] /\ c.slot[x] \in Entry
  BY CacheFields DEF CacheOK
<1>2. ip \in IP /\ c.slot[x].age \in Nat /\ c.slot[x].retry \in 1 .. MaxRetries
      /\ RequestTimeout \in Nat /\ MaxRetries \in Nat
  BY <1>1, EntryKinds, ArpAssumption
<1>3. CASE c.slot[x].age <= RequestTimeout
  <2>1. ~ (c.slot[x].age > RequestTimeout)
    BY <1>2, <1>3
  <2>2. d = c
    BY <1>3, <2>1 DEF Retried
  <2>3. QED
    BY <2>2 DEF NoNew, Stays
<1>4. CASE c.slot[x].age > RequestTimeout /\ ~ (c.slot[x].retry < MaxRetries)
  <2>1. ~ (c.slot[x].age <= RequestTimeout)
    BY <1>2, <1>4
  <2>2. d = Freed(c, {x})
    BY <1>4, <2>1 DEF Retried
  <2>3. QED
    BY <2>2, FreedPending
<1>5. CASE c.slot[x].age > RequestTimeout /\ c.slot[x].retry < MaxRetries
  <2>1. ~ (c.slot[x].age <= RequestTimeout)
    BY <1>2, <1>5
  <2>2. [c EXCEPT !.slot[x].retry = @ + 1, !.slot[x].age = 0] = b
    BY <1>1 DEF CacheType, Entry
  <2>3. d = Requested(b, ip, sent)
    BY <1>5, <2>1, <2>2 DEF Retried
  <2>4. r \in Entry /\ r.state = "INCOMPLETE" /\ r.ip = ip
    <3>1. c.slot[x] \in [state : {"INCOMPLETE"}, ip : IP, station : {Nobody},
                         flags : {"dynamic"}, age : 0 .. RequestTimeout + 1,
                         retry : 1 .. MaxRetries]
      BY <1>1 DEF Entry
    <3>2. c.slot[x].retry + 1 \in 1 .. MaxRetries /\ 0 \in 0 .. RequestTimeout + 1
      BY <1>2, <1>5
    <3>3. r \in [state : {"INCOMPLETE"}, ip : IP, station : {Nobody},
                 flags : {"dynamic"}, age : 0 .. RequestTimeout + 1,
                 retry : 1 .. MaxRetries]
      BY <3>1, <3>2
    <3>4. r.ip = ip
      BY <3>1
    <3>5. QED
      BY <3>3, <3>4 DEF Entry
  <2> HIDE DEF r
  <2>5. b \in CacheType /\ b.free = c.free /\ b.chain = c.chain /\ b.count = c.count
        /\ b.slot = [c.slot EXCEPT ![x] = r]
    BY <1>1, <2>4 DEF CacheType
  <2> HIDE DEF b
  <2>6. \A e \in Entries : b.slot[e] = IF e = x THEN r ELSE c.slot[e]
    BY <1>1, <2>5
  <2>7. CacheOK(b)
    <3>1. \A e \in Entries : /\ (b.slot[e].state = "FREE") <=> (c.slot[e].state = "FREE")
                             /\ b.slot[e].ip = c.slot[e].ip
      BY <2>4, <2>6
    <3>2. \A e \in Entries : b.slot[e].state = "COMPLETE"
                                => c.slot[e].state = "COMPLETE" \/ FirstOf(c, e)
      BY <2>4, <2>6
    <3>3. QED
      BY <2>5, <3>1, <3>2, Relabelled
  <2>8. NoNew(c, b) /\ Stays(c, b)
    BY <2>4, <2>6 DEF NoNew, Stays
  <2>9. \A e \in Entries : b.slot[e].ip = ip => b.slot[e].state # "COMPLETE"
    BY <2>4, <2>6
  <2>10. CacheOK(d) /\ NoNew(b, d) /\ Stays(b, d)
    BY <1>2, <2>3, <2>7, <2>9, RequestedCache
  <2>11. NoNew(c, d) /\ Stays(c, d)
    BY <2>8, <2>10 DEF NoNew, Stays
  <2>12. QED
    BY <2>10, <2>11
<1>6. QED
  BY <1>2, <1>3, <1>4, <1>5

-----------------------------------------------------------------------------
(***************************************************************************)
(* The invariant of the specification: the cache is in order, what it      *)
(* answers is what was last heard, and there is nothing in it while it is  *)
(* off.                                                                    *)
(***************************************************************************)
HeardInv(c, h) == \A e \in Entries : c.slot[e].state = "COMPLETE"
                                        => c.slot[e].station = h[c.slot[e].ip]

ArpInv == /\ mode \in {"off", "idle", "enabled"}
          /\ heard \in [IP -> Station \cup {Nobody}]
          /\ CacheOK(cache) /\ HeardInv(cache, heard)
          /\ mode = "off" => cache = EmptyCache

\* A step keeps what is fresh, but for the address that is deleted and but for
\* a flush and the end.
Spares(ip) == \/ arp_cache_delete(ip) \/ arp_cache_flush \/ arp_cleanup
              \/ \A e \in Entries :
                    /\ cache.slot[e].ip = ip /\ cache.slot[e].state = "COMPLETE"
                    /\ cache.slot[e].age < EntryTimeout
                    => cache'.slot[e].state = "COMPLETE" /\ cache'.slot[e].ip = ip

\* The cache arp_cache_init makes.
LEMMA EmptyIsOK ==
    /\ CacheOK(EmptyCache)
    /\ \A e \in Entries : EmptyCache.slot[e].state = "FREE"
<1> DEFINE d == EmptyCache
<1>1. d.slot = [e \in Entries |-> FreeEntry] /\ d.free = Entries
      /\ d.chain = [b \in Buckets |-> <<>>] /\ d.count = 0
  BY DEF EmptyCache
<1>2. FreeEntry \in Entry /\ FreeEntry.state = "FREE"
  BY DEF FreeEntry, Entry
<1>3. d \in CacheType
  BY <1>2 DEF EmptyCache, CacheType
<1> HIDE DEF d
<1>4. \A e \in Entries : d.slot[e].state = "FREE"
  BY <1>1, <1>2
<1>5. \A b \in Buckets : d.chain[b] = <<>>
  BY <1>1
<1>6. DOMAIN <<>> = {}
  OBVIOUS
<1>7. \A b \in Buckets : \A e, f : ~ On(d.chain[b], e) /\ ~ Before(d.chain[b], e, f)
  BY <1>5, <1>6 DEF On, Before
<1>8. LinkInv(d)
  BY <1>1, <1>4, <1>7 DEF LinkInv
<1>9. CountInv(d)
  <2>1. Entries \ d.free = {}
    BY <1>1
  <2>2. QED
    BY <1>1, <2>1, FS_EmptySet DEF CountInv
<1>10. FirstInv(d)
  BY <1>4 DEF FirstInv
<1>11. QED
  BY <1>3, <1>4, <1>8, <1>9, <1>10 DEF CacheOK, d

\* The initial state.
LEMMA ArpInvInit ==
    ASSUME ArpInit
    PROVE  ArpInv
<1>1. CacheOK(cache) /\ HeardInv(cache, heard)
  BY EmptyIsOK DEF ArpInit, HeardInv
<1>2. QED
  BY <1>1 DEF ArpInv, ArpInit

\* Start, end and enabling.
LEMMA ModeSteps ==
    ASSUME ArpInv,
           \/ arp_init \/ arp_cleanup \/ UNCHANGED arpVars
           \/ \E on \in BOOLEAN : arp_enable(on)
    PROVE  ArpInv' /\ \A ip \in IP : Spares(ip)
<1>1. CASE arp_init
  <2>1. CacheOK(cache') /\ HeardInv(cache', heard')
    BY <1>1, EmptyIsOK DEF arp_init, HeardInv
  <2>2. ArpInv'
    BY <1>1, <2>1 DEF ArpInv, arp_init
  <2>3. \A e \in Entries : cache.slot[e].state = "FREE"
    BY <1>1, EmptyIsOK DEF ArpInv, arp_init
  <2>4. QED
    BY <2>2, <2>3 DEF Spares
<1>2. CASE arp_cleanup
  <2>1. CacheOK(cache') /\ HeardInv(cache', heard')
    BY <1>2, EmptyIsOK DEF arp_cleanup, HeardInv
  <2>2. QED
    BY <1>2, <2>1 DEF ArpInv, arp_cleanup, Spares
<1>3. CASE UNCHANGED arpVars \/ \E on \in BOOLEAN : arp_enable(on)
  <2>1. cache' = cache /\ heard' = heard
    BY <1>3 DEF arpVars, arp_enable
  <2>2. mode' \in {"off", "idle", "enabled"} /\ (mode' = "off" => mode = "off")
    BY <1>3 DEF arpVars, arp_enable, ArpInv
  <2>3. QED
    BY <2>1, <2>2 DEF ArpInv, Spares
<1>4. QED
  BY <1>1, <1>2, <1>3

\* The operations that leave the mode and what was heard alone, and give no
\* answer the cache did not have.
LEMMA QuietStep ==
    ASSUME ArpInv, mode = "enabled", mode' = mode, heard' = heard,
           CacheOK(cache'), NoNew(cache, cache')
    PROVE  ArpInv'
<1>1. HeardInv(cache', heard')
  BY DEF ArpInv, HeardInv, NoNew
<1>2. QED
  BY <1>1 DEF ArpInv

\* What is learned of an address is the last that was heard of it.
LEMMA LearnSteps ==
    ASSUME ArpInv, NEW ip \in IP, NEW st \in Station,
           NEW fl \in Flags, arp_cache_add(ip, st, fl)
    PROVE  ArpInv' /\ \A i \in IP : Spares(i)
<1>1. mode = "enabled" /\ mode' = mode /\ heard' = [heard EXCEPT ![ip] = st]
      /\ cache' = Learned(cache, ip, st, fl) /\ CacheOK(cache)
  BY DEF arp_cache_add, ArpInv
<1>2. CacheOK(cache') /\ Learns(cache, cache', ip, st) /\ FreshStays(cache, cache')
  <2>1. CASE Known(cache, ip)
    BY <1>1, <2>1, LearnedKnown
  <2>2. CASE ~ Known(cache, ip)
    BY <1>1, <2>2, LearnedUnknown
  <2>3. QED
    BY <2>1, <2>2
<1>3. heard' \in [IP -> Station \cup {Nobody}] /\ heard'[ip] = st
      /\ \A i \in IP : i # ip => heard'[i] = heard[i]
  BY <1>1 DEF ArpInv
<1>4. HeardInv(cache', heard')
  <2>1. SUFFICES ASSUME NEW e \in Entries, cache'.slot[e].state = "COMPLETE"
                 PROVE  cache'.slot[e].station = heard'[cache'.slot[e].ip]
    BY DEF HeardInv
  <2>2. cache'.slot[e].ip \in IP
    BY <1>2, <2>1, CompleteIsFound
  <2>3. CASE cache'.slot[e].ip = ip
    BY <1>2, <1>3, <2>1, <2>3 DEF Learns
  <2>4. CASE cache'.slot[e].ip # ip
    BY <1>2, <1>3, <2>1, <2>2, <2>4 DEF Learns, ArpInv, HeardInv
  <2>5. QED
    BY <2>3, <2>4
<1>5. ArpInv'
  BY <1>1, <1>2, <1>3, <1>4 DEF ArpInv
<1>6. QED
  BY <1>2, <1>5 DEF Spares, FreshStays

\* Deletion, flush and ageing.
LEMMA FreeingSteps ==
    ASSUME ArpInv,
           \/ \E ip \in IP : arp_cache_delete(ip)
           \/ arp_cache_flush \/ arp_cache_age_entries
    PROVE  ArpInv' /\ \A ip \in IP : Spares(ip)
<1>1. CacheOK(cache) /\ FreeEntry.state = "FREE"
  BY DEF ArpInv, FreeEntry
<1>2. ASSUME NEW S \in SUBSET (Entries \ cache.free), cache' = Freed(cache, S)
      PROVE  /\ CacheOK(cache') /\ NoNew(cache, cache')
             /\ \A e \in Entries \ S : cache'.slot[e] = cache.slot[e]
  <2>1. CacheOK(cache') /\ \A e \in Entries :
           cache'.slot[e] = IF e \in S THEN FreeEntry ELSE cache.slot[e]
    BY <1>1, <1>2, FreedCache
  <2>2. QED
    BY <1>1, <2>1 DEF NoNew
<1>3. ASSUME NEW ip \in IP, arp_cache_delete(ip)
      PROVE  ArpInv' /\ \A i \in IP : Spares(i)
  <2> DEFINE x == arp_cache_lookup(cache, ip)
  <2>1. x \in Entries /\ cache.slot[x].ip = ip
    BY <1>1, <1>3, LookupIs DEF arp_cache_delete
  <2>2. {x} \in SUBSET (Entries \ cache.free)
    BY <1>1, <2>1, InUseIsOn DEF CacheOK, LinkInv
  <2>3. cache' = Freed(cache, {x})
    BY <1>3 DEF arp_cache_delete
  <2> HIDE DEF x
  <2>4. /\ CacheOK(cache') /\ NoNew(cache, cache')
        /\ \A e \in Entries \ {x} : cache'.slot[e] = cache.slot[e]
    BY <1>2, <2>2, <2>3
  <2>5. ArpInv'
    BY <1>3, <2>4, QuietStep DEF arp_cache_delete
  <2>6. \A i \in IP : Spares(i)
    BY <1>3, <2>1, <2>4 DEF Spares
  <2>7. QED
    BY <2>5, <2>6
<1>4. CASE arp_cache_flush
  <2> DEFINE S == {e \in Linked(cache) : cache.slot[e].flags # "permanent"}
  <2>1. S \in SUBSET (Entries \ cache.free)
    BY <1>1, LinkedAre
  <2>2. cache' = Freed(cache, S)
    BY <1>4 DEF arp_cache_flush
  <2> HIDE DEF S
  <2>3. CacheOK(cache') /\ NoNew(cache, cache')
    BY <1>2, <2>1, <2>2
  <2>4. ArpInv'
    BY <1>4, <2>3, QuietStep DEF arp_cache_flush
  <2>5. QED
    BY <1>4, <2>4 DEF Spares
<1>5. CASE arp_cache_age_entries
  <2>1. CacheOK(cache') /\ NoNew(cache, cache') /\ FreshStays(cache, cache')
    BY <1>1, <1>5, AgedOutCache DEF arp_cache_age_entries
  <2>2. ArpInv'
    BY <1>5, <2>1, QuietStep DEF arp_cache_age_entries
  <2>3. QED
    BY <2>1, <2>2 DEF Spares, FreshStays
<1>6. QED
  BY <1>3, <1>4, <1>5

\* Resolution: the first request and the following ones.
LEMMA ResolveSteps ==
    ASSUME ArpInv, NEW ip \in IP, NEW sent \in BOOLEAN,
           arp_resolve_first(ip, sent) \/ arp_resolve_again(ip, sent)
    PROVE  ArpInv' /\ \A i \in IP : Spares(i)
<1>1. CacheOK(cache) /\ mode = "enabled" /\ mode' = mode /\ heard' = heard
  BY DEF ArpInv, arp_resolve_first, arp_resolve_again
<1>2. CASE arp_resolve_first(ip, sent)
  <2>1. \A e \in Entries : cache.slot[e].ip # ip
    BY <1>1, <1>2, KnownIs DEF arp_resolve_first, Unknown
  <2>2. CacheOK(cache') /\ NoNew(cache, cache') /\ Stays(cache, cache')
    BY <1>1, <1>2, <2>1, RequestedCache DEF arp_resolve_first
  <2>3. ArpInv'
    BY <1>1, <2>2, QuietStep
  <2>4. QED
    BY <2>2, <2>3 DEF Spares, Stays
<1>3. CASE arp_resolve_again(ip, sent)
  <2> DEFINE t == arp_get_timestamp(cache)
  <2> DEFINE x == arp_cache_lookup(cache, ip)
  <2>1. /\ Known(cache, ip) /\ cache.slot[x].state = "INCOMPLETE"
        /\ cache' = Retried(t, x, sent)
    BY <1>3 DEF arp_resolve_again, Pending
  <2>2. x \in Entries /\ cache.slot[x].ip = ip
    BY <1>1, <2>1, LookupIs
  <2>3. /\ CacheOK(t)
        /\ \A e \in Entries : /\ t.slot[e].state = cache.slot[e].state
                              /\ t.slot[e].ip = cache.slot[e].ip
                              /\ t.slot[e].station = cache.slot[e].station
    BY <1>1, Ticked
  <2>4. \A e \in Entries : cache.slot[e].state = "COMPLETE" /\ cache.slot[e].ip = ip => e = x
    BY <1>1, CompleteIsFound
  <2> HIDE DEF t, x
  <2>5. /\ t.slot[x].state = "INCOMPLETE"
        /\ \A e \in Entries : t.slot[e].ip = t.slot[x].ip => t.slot[e].state # "COMPLETE"
    BY <2>1, <2>2, <2>3, <2>4
  <2>6. CacheOK(cache') /\ NoNew(t, cache') /\ Stays(t, cache')
    BY <2>1, <2>2, <2>3, <2>5, RetriedCache
  <2>7. NoNew(cache, cache') /\ Stays(cache, cache')
    BY <2>3, <2>6 DEF NoNew, Stays
  <2>8. ArpInv'
    BY <1>1, <2>6, <2>7, QuietStep
  <2>9. QED
    BY <2>7, <2>8 DEF Spares, Stays
<1>4. QED
  BY <1>2, <1>3

\* Every step.
LEMMA ArpStep ==
    ASSUME ArpInv, [ArpNext]_arpVars
    PROVE  ArpInv' /\ \A ip \in IP : Spares(ip)
<1>1. "dynamic" \in Flags /\ "permanent" \in Flags
  BY DEF Flags
<1>2. CASE \E ip \in IP, st \in Station : arp_process_packet(ip, st)
  BY <1>1, <1>2, LearnSteps DEF arp_process_packet
<1>3. CASE \E ip \in IP, st \in Station : arp_cache_add(ip, st, "permanent")
  BY <1>1, <1>3, LearnSteps
<1>4. CASE \E ip \in IP, sent \in BOOLEAN :
              arp_resolve_first(ip, sent) \/ arp_resolve_again(ip, sent)
  BY <1>4, ResolveSteps
<1>5. CASE \/ \E ip \in IP : arp_cache_delete(ip)
           \/ arp_cache_flush \/ arp_cache_age_entries
  BY <1>5, FreeingSteps
<1>6. CASE \/ arp_init \/ arp_cleanup \/ UNCHANGED arpVars
           \/ \E on \in BOOLEAN : arp_enable(on)
  BY <1>6, ModeSteps
<1>7. QED
  BY <1>2, <1>3, <1>4, <1>5, <1>6, Zenon DEF ArpNext

\* What the invariant says of the pool and of lookups.
LEMMA ArpInvGives ==
    ASSUME ArpInv
    PROVE  CacheInv /\ LastHeardIsFound
<1>1. CacheOK(cache) /\ cache \in CacheType
  BY DEF ArpInv, CacheOK
<1>2. cache.slot \in [Entries -> Entry] /\ cache.free \subseteq Entries
      /\ cache.chain \in [Buckets -> Seq(Entries)] /\ cache.count \in Nat
  BY <1>1, CacheFields
<1>3. Linked(cache) = Entries \ cache.free
  BY <1>1, LinkedAre
<1>4. cache.count = Cardinality(Entries \ cache.free)
  BY <1>1 DEF CacheOK, CountInv
<1>5. cache.count <= Cardinality(Entries) /\ Cardinality(Entries) \in Nat
  BY <1>4, FS_Subset, FS_CardinalityType, ArpAssumption
<1>6. ArpTypeOK
  <2>1. DOMAIN cache.chain = Buckets
    BY <1>2
  <2>2. \A b \in Buckets : \A i \in DOMAIN cache.chain[b] : cache.chain[b][i] \in Entries
    BY <1>2
  <2>3. cache.count \in 0 .. Cardinality(Entries)
    BY <1>2, <1>5
  <2>4. QED
    BY <1>2, <2>1, <2>2, <2>3 DEF ArpTypeOK, ArpInv
<1>7. EntriesAccounted
  <2>1. \A e \in Entries : (cache.slot[e].state = "FREE") <=> (e \in cache.free)
    BY <1>1 DEF CacheOK, LinkInv
  <2>2. ASSUME NEW b \in Buckets, NEW i \in DOMAIN cache.chain[b],
               NEW j \in DOMAIN cache.chain[b]
        PROVE  /\ cache.chain[b][i] = cache.chain[b][j] => i = j
               /\ Hash[cache.slot[cache.chain[b][i]].ip] = b
    <3>1. cache.chain[b] \in Seq(Entries)
      BY <1>2
    <3>2. i \in Nat /\ j \in Nat /\ cache.chain[b][i] \in Entries
      BY <3>1
    <3>3. On(cache.chain[b], cache.chain[b][i])
      BY DEF On
    <3>4. Hash[cache.slot[cache.chain[b][i]].ip] = b
      BY <1>1, <3>2, <3>3 DEF CacheOK, LinkInv
    <3>5. ASSUME cache.chain[b][i] = cache.chain[b][j], i # j
          PROVE  FALSE
      <4>1. i < j \/ j < i
        BY <3>2, <3>5
      <4>2. Before(cache.chain[b], cache.chain[b][i], cache.chain[b][i])
        BY <3>5, <4>1 DEF Before
      <4>3. QED
        BY <1>1, <3>2, <4>2 DEF CacheOK, LinkInv
    <3>6. QED
      BY <3>4, <3>5
  <2>3. cache.free = Entries \ Linked(cache)
    BY <1>2, <1>3
  <2>4. cache.count = Cardinality(Linked(cache))
    BY <1>3, <1>4
  <2>5. QED
    BY <2>1, <2>2, <2>3, <2>4 DEF EntriesAccounted
<1>8. LastHeardIsFound
  BY <1>1, CompleteIsFound DEF ArpInv, HeardInv, LastHeardIsFound
<1>9. QED
  BY <1>6, <1>7, <1>8 DEF CacheInv

\* ArpInv is an invariant of the cache, given the assumption on its constants.
LEMMA ArpAlways == ArpSpec => []ArpInv
<1>1. ArpInit => ArpInv
  BY ArpInvInit
<1>2. ArpInv /\ [ArpNext]_arpVars => ArpInv'
  BY ArpStep
<1>3. QED
  BY <1>1, <1>2, PTL DEF ArpSpec

\* For any pool, hash function, time-outs and number of retries, every entry of
\* the pool is on the free list or in one place of the bucket of its address,
\* and entry_count counts the latter, whatever is learned, deleted, flushed,
\* aged out, retried and given up.
THEOREM CacheInvariant == ArpSpec => []CacheInv
<1>1. ArpInv => CacheInv
  BY ArpInvGives
<1>2. QED
  BY <1>1, ArpAlways, PTL

\* The entry arp_cache_lookup finds for a resolved address is the resolved one,
\* with the station last heard of, however many pending entries the retries of
\* arp_send_request left behind it.
THEOREM LookupFindsLastHeard == ArpSpec => []LastHeardIsFound
<1>1. ArpInv => LastHeardIsFound
  BY ArpInvGives
<1>2. QED
  BY <1>1, ArpAlways, PTL

\* No step but its deletion, a flush or the end of the cache loses a resolved
\* address before its time-out, however full the pool is.
THEOREM FreshStaysKnown == ArpSpec => FreshIsKept
<1> DEFINE StaysKnown(ip) ==
      LET e == arp_cache_lookup(cache, ip) IN
      ( /\ Known(cache, ip)
        /\ cache.slot[e].state = "COMPLETE"
        /\ cache.slot[e].age < EntryTimeout
        /\ ~ (arp_cache_delete(ip) \/ arp_cache_flush \/ arp_cleanup) )
      => /\ Known(cache', ip)
         /\ cache'.slot[arp_cache_lookup(cache', ip)].state = "COMPLETE"
<1>1. ASSUME ArpInv, [ArpNext]_arpVars
      PROVE  \A ip \in IP : StaysKnown(ip)
  <2>1. SUFFICES ASSUME NEW ip \in IP, Known(cache, ip),
                        cache.slot[arp_cache_lookup(cache, ip)].state = "COMPLETE",
                        cache.slot[arp_cache_lookup(cache, ip)].age < EntryTimeout,
                        ~ (\/ arp_cache_delete(ip) \/ arp_cache_flush
                           \/ arp_cleanup)
                 PROVE  /\ Known(cache', ip)
                        /\ cache'.slot[arp_cache_lookup(cache', ip)].state = "COMPLETE"
    BY Zenon
  <2> DEFINE e == arp_cache_lookup(cache, ip)
  <2>2. CacheOK(cache) /\ CacheOK(cache')
    BY <1>1, ArpStep DEF ArpInv
  <2>3. e \in Entries /\ cache.slot[e].ip = ip
    BY <2>1, <2>2, LookupIs
  <2>4. Spares(ip)
    BY <1>1, ArpStep
  <2>5. cache'.slot[e].state = "COMPLETE" /\ cache'.slot[e].ip = ip
    BY <2>1, <2>3, <2>4 DEF Spares
  <2>6. Known(cache', ip) /\ e = arp_cache_lookup(cache', ip)
    BY <2>2, <2>3, <2>5, CompleteIsFound
  <2>7. QED
    BY <2>5, <2>6
<1>2. FreshIsKept <=> [][\A ip \in IP : StaysKnown(ip)]_arpVars
  BY DEF FreshIsKept
<1>3. ArpInv /\ [ArpNext]_arpVars => [\A ip \in IP : StaysKnown(ip)]_arpVars
  BY <1>1
<1>4. QED
  BY <1>2, <1>3, ArpAlways, PTL DEF ArpSpec
=============================================================================
