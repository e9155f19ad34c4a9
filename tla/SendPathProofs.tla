--------------------------- MODULE SendPathProofs ---------------------------
(***************************************************************************)
(* What holds of the send path for any number of NICs, handles and         *)
(* destinations, any configuration an application may set and any window;  *)
(* and of the descriptor rings the frames then pass through, for any size. *)
(***************************************************************************)
EXTENDS SendPath, BoomerangRing, SequenceTheorems, WellFoundedInduction, TLAPS

-----------------------------------------------------------------------------
(* The choice of a NIC.                                                    *)

\* The parts of the assumption, one at a time.
LEMMA SendConstants ==
    /\ NicCount \in Nat \ {0} /\ NicCount < NoPreference
    /\ HandleNic \in [Handles -> Nics]
    /\ NullPacket \notin Dests
    /\ Sizes \subseteq Nat /\ Limits \subseteq Nat /\ Classes \subseteq Nat
    /\ Priorities \subseteq 0 .. 255
    /\ MaxFailures \in Nat
    /\ Delays \subseteq Nat
<1>1. Sizes \subseteq 60 .. 1514 /\ Classes \subseteq 0 .. 7
  BY SendAssumption
<1>2. Delays \subseteq Nat \ {0}
  BY SendAssumption
<1>3. Sizes \subseteq Nat /\ Classes \subseteq Nat /\ Delays \subseteq Nat
  BY <1>1, <1>2
<1>4. QED
  BY <1>3, SendAssumption

\* Every nonempty set of naturals has a least element.
LEMMA LeastExists ==
    ASSUME NEW S \in SUBSET Nat, S # {}
    PROVE  \E n \in S : \A m \in S : n <= m
<1> DEFINE R == {ss \in Nat \X Nat : ss[1] < ss[2]}
<1>1. R = OpToRel(<, Nat)
  BY Zenon DEF OpToRel
<1>2. IsWellFoundedOn(R, Nat)
  BY <1>1, NatLessThanWellFounded, Zenon
<1> HIDE DEF R
<1>3. PICK n \in S : \A m \in S : ~ (<<m, n>> \in R)
  BY <1>2, WFMin
<1>4. ASSUME NEW m \in Nat, NEW k \in Nat, m < k PROVE <<m, k>> \in R
  <2>1. <<m, k>> \in Nat \X Nat /\ <<m, k>>[1] = m /\ <<m, k>>[2] = k
    OBVIOUS
  <2>2. <<m, k>>[1] < <<m, k>>[2]
    BY <1>4, <2>1
  <2>3. QED
    BY <2>1, <2>2, Zenon DEF R
<1>5. ASSUME NEW m \in S PROVE n <= m
  <2>1. m \in Nat /\ n \in Nat
    OBVIOUS
  <2>2. ~ (m < n)
    BY <1>3, <1>4, <2>1, Zenon
  <2>3. QED
    BY <2>1, <2>2
<1>6. QED
  BY <1>5

\* The least NIC of a nonempty set is in the set.
LEMMA LowestIn ==
    ASSUME NEW S \in SUBSET Nics, S # {}
    PROVE  Lowest(S) \in S
<1>1. S \in SUBSET Nat
  BY SendAssumption DEF Nics
<1>2. \E n \in S : \A m \in S : n <= m
  BY <1>1, LeastExists
<1>3. QED
  BY <1>2 DEF Lowest

\* A NIC's score is a number, so some present NIC has the best one.
LEMMA PerformanceFinds ==
    ASSUME TypeOK, present # {}
    PROVE  api_performance_select_nic.nic \in present
<1> DEFINE best == {n \in present : \A m \in present : Score(n) <= Score(m)}
           scores == {Score(n) : n \in present}
<1>1. \A n \in present : Score(n) \in Nat
  <2> SUFFICES ASSUME NEW n \in present PROVE Score(n) \in Nat
    OBVIOUS
  <2>1. util[n] \in Nat /\ errors[n] \in Nat
    <3>1. n \in Nics /\ util[n] \in 0 .. 100 /\ errors[n] \in 0 .. MaxFailures
      BY DEF TypeOK
    <3>2. QED
      BY <3>1, SendConstants
  <2>2. QED
    BY <2>1 DEF Score
<1>2. scores \in SUBSET Nat /\ scores # {}
  BY <1>1
<1>3. PICK s \in scores : \A t \in scores : s <= t
  BY <1>2, LeastExists
<1>4. best # {} /\ best \in SUBSET Nics
  BY <1>3 DEF TypeOK
<1>5. Lowest(best) \in best
  BY <1>4, LowestIn
<1>6. QED
  BY <1>5 DEF api_performance_select_nic, Choose

\* With a NIC present round robin ends on one, and it remembers a NIC.
LEMMA RoundRobinFinds ==
    ASSUME TypeOK
    PROVE  /\ present # {} => api_round_robin_select_nic.nic \in present
           /\ api_round_robin_select_nic.nic \in present \cup {NoNic}
           /\ api_round_robin_select_nic.last \in Nics
<1>1. (last_nic_used + 1) % NicCount \in Nics
  <2>1. \A a \in Nat, b \in Nat \ {0} : a % b \in 0 .. b - 1
    OBVIOUS
  <2>2. last_nic_used + 1 \in Nat
    BY SendConstants DEF TypeOK, Nics
  <2>3. QED
    BY <2>1, <2>2, SendAssumption DEF Nics
<1>2. present # {} => Lowest(present) \in present
  BY LowestIn DEF TypeOK
<1>3. QED
  BY <1>1, <1>2 DEF TypeOK, api_round_robin_select_nic

\* What every selection returns: a present NIC, or NoNic when there is none.
LEMMA SelectionFinds ==
    ASSUME TypeOK, NEW h \in Handles, NEW d \in Dests, NEW route \in Nics \cup {NoNic}
    PROVE  LET choice == api_select_optimal_nic(h, d, route)
           IN  /\ present # {} => choice.nic \in present
               /\ choice.nic \in present \cup {NoNic}
               /\ choice.last \in Nics
<1> DEFINE Good(c) == /\ present # {} => c.nic \in present
                      /\ c.nic \in present \cup {NoNic}
                      /\ c.last \in Nics
<1>1. Good(api_round_robin_select_nic)
  BY RoundRobinFinds
<1>2. Good(api_performance_select_nic)
  <2>1. api_performance_select_nic.last \in Nics
    BY DEF api_performance_select_nic, Choose, TypeOK
  <2>2. present = {} => api_performance_select_nic.nic = NoNic
    BY DEF api_performance_select_nic, Choose
  <2>3. QED
    BY <2>1, <2>2, PerformanceFinds
<1>3. \A n \in present : Good(Choose(n))
  BY DEF Choose, TypeOK
<1>4. Good(api_weighted_select_nic)
  BY <1>1, <1>3 DEF api_weighted_select_nic
<1>5. Good(api_application_select_nic(h))
  BY <1>2, <1>3 DEF api_application_select_nic
<1>6. Good(api_flow_aware_select_nic(d))
  BY <1>2, <1>3 DEF api_flow_aware_select_nic
<1> HIDE DEF Good
<1>7. Good(api_load_balance_select_nic(h, d))
  BY <1>1, <1>2, <1>4, <1>5, <1>6 DEF api_load_balance_select_nic
<1>8. d # NullPacket
  BY SendAssumption
<1>9. Good(api_select_optimal_nic(h, d, route))
  BY <1>1, <1>3, <1>7, <1>8 DEF api_select_optimal_nic, Prefers
<1>10. QED
  BY <1>9 DEF Good

-----------------------------------------------------------------------------
(* The inductive invariant.                                                *)

ExtRecords == [flags : SUBSET FlagNames, iface : Nics \cup {NoNic}, prio : 0 .. 255,
               pref : Nics \cup {NoPreference}, limit : Nat, bytes : Nat,
               start : Nat, peak : Nat]

(***************************************************************************)
(* The quota of an extended handle.  It holds of a handle that is not      *)
(* limited too, so that a limit may be set in the middle of a window.      *)
(***************************************************************************)
WithinPeak == {x \in ExtRecords : x.bytes <= x.peak /\ x.limit <= x.peak}

QuotaInv == ext \in [Handles -> WithinPeak]

SendInv == TypeOK /\ QuotaInv /\ DefaultRouteMoved

\* The handle a setter writes to, upgraded or not.
LEMMA ExtOfType ==
    ASSUME QuotaInv, NEW h \in Handles
    PROVE  ExtOf(h) \in WithinPeak
<1>1. NewExt(h) \in WithinPeak
  <2>1. HandleNic[h] \in Nics
    BY SendConstants
  <2>2. NewExt(h) \in ExtRecords
    BY <2>1 DEF NewExt, ExtRecords, FlagNames
  <2>3. QED
    BY <2>2 DEF WithinPeak, NewExt
<1>2. QED
  BY <1>1 DEF ExtOf, QuotaInv

\* Each setter, and the move to another interface, keeps the quota.
LEMMA SetterKeeps ==
    ASSUME NEW x \in WithinPeak
    PROVE  /\ \A p \in 0 .. 255 : [x EXCEPT !.prio = p] \in WithinPeak
           /\ \A f \in FlagNames : [x EXCEPT !.flags = @ \cup {f}] \in WithinPeak
           /\ \A n \in Nics : [x EXCEPT !.iface = n] \in WithinPeak
           /\ \A n \in Nics \cup {NoPreference} :
                [x EXCEPT !.pref = n, !.flags = @ \cup {"nic"}] \in WithinPeak
           /\ \A l \in Nat, f \in SUBSET FlagNames :
                [x EXCEPT !.limit = l, !.flags = f,
                          !.peak = IF l > @ THEN l ELSE @] \in WithinPeak
<1>0. x \in ExtRecords
  BY DEF WithinPeak
<1>1. \A p \in 0 .. 255 : [x EXCEPT !.prio = p] \in WithinPeak
  BY <1>0 DEF WithinPeak, ExtRecords
<1>2. \A f \in FlagNames : [x EXCEPT !.flags = @ \cup {f}] \in WithinPeak
  BY <1>0 DEF WithinPeak, ExtRecords
<1>3. \A n \in Nics : [x EXCEPT !.iface = n] \in WithinPeak
  BY <1>0 DEF WithinPeak, ExtRecords
<1>4. \A n \in Nics \cup {NoPreference} :
        [x EXCEPT !.pref = n, !.flags = @ \cup {"nic"}] \in WithinPeak
  BY <1>0 DEF WithinPeak, ExtRecords, FlagNames
<1>5. \A l \in Nat, f \in SUBSET FlagNames :
        [x EXCEPT !.limit = l, !.flags = f, !.peak = IF l > @ THEN l ELSE @] \in WithinPeak
  <2> SUFFICES ASSUME NEW l \in Nat, NEW f \in SUBSET FlagNames
               PROVE  [x EXCEPT !.limit = l, !.flags = f,
                                !.peak = IF l > @ THEN l ELSE @] \in WithinPeak
    OBVIOUS
  <2> DEFINE y == [x EXCEPT !.limit = l, !.flags = f, !.peak = IF l > @ THEN l ELSE @]
  <2>1. y \in ExtRecords
    BY <1>0 DEF ExtRecords
  <2>2. y.bytes = x.bytes /\ y.limit = l /\ y.peak = IF l > x.peak THEN l ELSE x.peak
    BY <1>0 DEF ExtRecords
  <2>3. x.bytes \in Nat /\ x.peak \in Nat /\ x.bytes <= x.peak
    BY <1>0 DEF ExtRecords, WithinPeak
  <2> HIDE DEF y
  <2>4. y \in WithinPeak
    BY <2>1, <2>2, <2>3 DEF WithinPeak
  <2>5. QED
    BY <2>4 DEF y
<1>6. QED
  BY <1>1, <1>2, <1>3, <1>4, <1>5

\* A window that has run out starts anew with the limit in force.
LEMMA WindowedType ==
    ASSUME QuotaInv, now \in Nat, NEW h \in Handles
    PROVE  Windowed(h) \in WithinPeak /\ Windowed(h).limit = ext[h].limit
<1>1. ext[h] \in WithinPeak
  BY DEF QuotaInv
<1>2. ASSUME NEW x \in WithinPeak
      PROVE  /\ [x EXCEPT !.bytes = 0, !.start = now, !.peak = x.limit] \in WithinPeak
             /\ [x EXCEPT !.bytes = 0, !.start = now, !.peak = x.limit].limit = x.limit
  <2> DEFINE y == [x EXCEPT !.bytes = 0, !.start = now, !.peak = x.limit]
  <2>1. y \in ExtRecords /\ x.limit \in Nat
    BY DEF WithinPeak, ExtRecords
  <2>2. y.bytes = 0 /\ y.limit = x.limit /\ y.peak = x.limit
    BY DEF WithinPeak, ExtRecords
  <2> HIDE DEF y
  <2>3. y \in WithinPeak /\ y.limit = x.limit
    BY <2>1, <2>2 DEF WithinPeak
  <2>4. QED
    BY <2>3 DEF y
<1>3. QED
  BY <1>1, <1>2 DEF Windowed

FlowTables == [Dests -> Nics \cup {NoNic}]

\* Whatever is learned, evicted or refused, the table holds NICs.
LEMMA LearnedType ==
    ASSUME TypeOK, NEW d \in Dests, NEW n
    PROVE  bridge_learn_mac(d, n) \subseteq FlowTables
<1>1. flows \in FlowTables
  BY DEF TypeOK, FlowTables
<1>2. \A f \in FlowTables, e \in Dests, m \in Nics \cup {NoNic} : [f EXCEPT ![e] = m] \in FlowTables
  BY DEF FlowTables
<1>3. Evicted \subseteq FlowTables
  BY <1>1, <1>2 DEF Evicted, Learned
<1>4. n \in present => n \in Nics
  BY DEF TypeOK
<1>5. QED
  BY <1>1, <1>2, <1>3, <1>4 DEF bridge_learn_mac

\* The inductive invariant of the send path.
THEOREM SendInvariant == Spec => []SendInv
<1>1. Init => SendInv
  <2> SUFFICES ASSUME Init PROVE SendInv
    OBVIOUS
  <2>1. NoExt \in WithinPeak
    <3>1. NoExt \in ExtRecords
      BY DEF NoExt, ExtRecords
    <3>2. QED
      BY <3>1 DEF WithinPeak, NoExt
  <2>2. QuotaInv /\ DefaultRouteMoved
    BY <2>1 DEF Init, QuotaInv, DefaultRouteMoved
  <2>3. 0 \in Nics /\ 0 \in 0 .. MaxFailures
    BY SendConstants DEF Nics
  <2>4. TypeOK
    <3>1. ext \in [Handles -> ExtRecords]
      BY <2>2 DEF QuotaInv, WithinPeak
    <3>2. lb \in [mode : Modes, primary : Nat, secondary : Nat, wp : Nat, ws : Nat]
      BY DEF Init, Modes
    <3>3. util \in [Nics -> 0 .. 100] /\ errors \in [Nics -> 0 .. MaxFailures]
      BY <2>3 DEF Init
    <3>4. lb_on \in BOOLEAN /\ routing \in BOOLEAN
      BY Zenon DEF Init
    <3>5. now \in Nat /\ present \subseteq Nics
      BY DEF Init
    <3>6. QED
      BY <2>3, <3>1, <3>2, <3>3, <3>4, <3>5 DEF Init, TypeOK, ExtRecords
  <2>5. QED
    BY <2>2, <2>4 DEF SendInv
<1>2. SendInv /\ [Next]_vars => SendInv'
  <2> SUFFICES ASSUME SendInv, [Next]_vars PROVE SendInv'
    OBVIOUS
  <2> DEFINE Others == <<present, lb, lb_on, last_nic_used, util, errors, routing,
                         default_nic, flows, now, failed>>
  <2>0. TypeOK /\ QuotaInv /\ DefaultRouteMoved
    BY DEF SendInv
  \* A step that changes the extended handles only has to keep the quota.
  <2>1. ASSUME UNCHANGED Others, ext' \in [Handles -> WithinPeak]
        PROVE  SendInv'
    BY <2>0, <2>1 DEF SendInv, TypeOK, QuotaInv, DefaultRouteMoved, WithinPeak,
       ExtRecords
  <2>2. ASSUME NEW h \in Handles, NEW x \in WithinPeak
        PROVE  [ext EXCEPT ![h] = x] \in [Handles -> WithinPeak]
    BY <2>0 DEF QuotaInv
  <2>3. ASSUME NEW h \in Handles, NEW p \in Priorities, pd_set_handle_priority(h, p)
        PROVE  SendInv'
    <3>1. p \in 0 .. 255
      BY SendConstants
    <3>2. QED
      BY <2>0, <2>1, <2>2, <2>3, <3>1, ExtOfType, SetterKeeps DEF pd_set_handle_priority
  <2>4. ASSUME NEW h \in Handles, NEW c \in Configs, pd_set_load_balance(h, c)
        PROVE  SendInv'
    <3>1. ext' \in [Handles -> WithinPeak]
      BY <2>0, <2>2, <2>4, ExtOfType, SetterKeeps DEF pd_set_load_balance, FlagNames
    <3>2. c \in [mode : Modes, primary : Nat, secondary : Nat, wp : Nat, ws : Nat]
      <4>1. c \in [mode : Modes, primary : Nics, secondary : Nics, wp : Nat, ws : Nat]
        BY SendAssumption
      <4>2. Nics \subseteq Nat
        BY SendConstants DEF Nics
      <4>3. QED
        BY <4>1, <4>2
    <3>3. TypeOK'
      BY <2>0, <2>4, <3>1, <3>2 DEF TypeOK, WithinPeak, ExtRecords, pd_set_load_balance
    <3>4. QED
      BY <2>0, <2>4, <3>1, <3>3 DEF SendInv, QuotaInv, DefaultRouteMoved,
         pd_set_load_balance
  <2>5. ASSUME NEW h \in Handles, NEW c \in Classes, NEW l \in Limits,
               pd_set_qos_params(h, c, l)
        PROVE  SendInv'
    <3>1. ((c + 1) * 32) % 256 \in 0 .. 255 /\ l \in Nat
      BY SendConstants
    <3> DEFINE x == [ExtOf(h) EXCEPT !.prio = ((c + 1) * 32) % 256]
    <3>2. x \in WithinPeak
      BY <2>0, <3>1, ExtOfType, SetterKeeps
    <3> DEFINE y == [x EXCEPT !.limit = l, !.flags = @ \cup {"bandwidth"},
                              !.peak = IF l > @ THEN l ELSE @]
    <3>3. ext' = [ext EXCEPT ![h] = IF l = 0 THEN x ELSE y] /\ UNCHANGED Others
      BY <2>5 DEF pd_set_qos_params
    <3> HIDE DEF x
    <3>4. y \in WithinPeak
      <4>1. x.flags \cup {"bandwidth"} \in SUBSET FlagNames
        BY <3>2 DEF WithinPeak, ExtRecords, FlagNames
      <4>2. QED
        BY <3>1, <3>2, <4>1, SetterKeeps
    <3> HIDE DEF y
    <3>5. QED
      BY <2>1, <2>2, <3>2, <3>3, <3>4
  <2>6. ASSUME NEW h \in Handles, NEW n \in Nics \cup {NoPreference},
               pd_set_nic_preference(h, n)
        PROVE  SendInv'
    BY <2>0, <2>1, <2>2, <2>6, ExtOfType, SetterKeeps DEF pd_set_nic_preference
  <2>7. ASSUME NEW h \in Handles, NEW l \in Limits, pd_set_bandwidth_limit(h, l)
        PROVE  SendInv'
    <3> DEFINE x == ExtOf(h)
               f == IF l > 0 THEN x.flags \cup {"bandwidth"} ELSE x.flags \ {"bandwidth"}
               y == [x EXCEPT !.limit = l, !.flags = f, !.peak = IF l > @ THEN l ELSE @]
    <3>1. x \in WithinPeak /\ l \in Nat
      BY <2>0, ExtOfType, SendConstants
    <3>2. ext' = [ext EXCEPT ![h] = y] /\ UNCHANGED Others
      BY <2>7 DEF pd_set_bandwidth_limit
    <3>3. f \in SUBSET FlagNames
      BY <3>1 DEF WithinPeak, ExtRecords, FlagNames
    <3> HIDE DEF x, f
    <3>4. y \in WithinPeak
      BY <3>1, <3>3, SetterKeeps
    <3> HIDE DEF y
    <3>5. QED
      BY <2>1, <2>2, <3>2, <3>4
  <2>8. ASSUME NEW h \in Handles, NEW size \in Sizes, pd_send_refused(h, size)
        PROVE  SendInv'
    <3>1. Windowed(h) \in WithinPeak
      BY <2>0, WindowedType DEF TypeOK
    <3>2. QED
      BY <2>1, <2>2, <2>8, <3>1 DEF pd_send_refused
  <2>9. ASSUME NEW h \in Handles, NEW size \in Sizes, NEW d \in Dests,
               NEW route \in Nics \cup {NoNic}, pd_send_packet(h, size, d, route)
        PROVE  SendInv'
    <3> DEFINE choice == api_select_optimal_nic(h, d, route)
               nic == IF choice.nic = NoNic THEN HandleNic[h] ELSE choice.nic
               charged == IF Limited(h) THEN [Windowed(h) EXCEPT !.bytes = @ + size]
                          ELSE ext[h]
               paid == IF HasExt(h) /\ nic # HandleNic[h] THEN [charged EXCEPT !.iface = nic]
                       ELSE charged
    <3>1. /\ ~OverQuota(h, size)
          /\ ext' = [ext EXCEPT ![h] = paid]
          /\ last_nic_used' = choice.last
          /\ util' \in {util, [util EXCEPT ![nic] = Busier(@, size)]}
          /\ flows' \in Taught(h, d, choice.nic)
          /\ UNCHANGED <<present, lb, lb_on, errors, routing, default_nic, now, failed>>
      BY <2>9 DEF pd_send_packet
    <3>2. /\ present # {} => choice.nic \in present
          /\ choice.nic \in present \cup {NoNic} /\ choice.last \in Nics
      BY <2>0, SelectionFinds
    <3>3. flows' \in FlowTables
      <4>1. \A e \in Dests : bridge_learn_mac(e, 0) \subseteq FlowTables
        BY <2>0, LearnedType
      <4>2. bridge_learn_mac(d, choice.nic) \subseteq FlowTables
        BY <2>0, LearnedType
      <4>3. flows \in FlowTables
        BY <2>0 DEF TypeOK, FlowTables
      <4> HIDE DEF choice
      <4>4. QED
        BY <3>1, <4>1, <4>2, <4>3 DEF Taught
    <3> HIDE DEF choice
    <3>4. nic \in Nics /\ choice.nic \in Nics \cup {NoNic}
      BY <2>0, <3>2, SendConstants DEF TypeOK
    <3>5. charged \in WithinPeak
      <4>1. Windowed(h) \in WithinPeak /\ Windowed(h).limit = ext[h].limit /\ size \in Nat
        BY <2>0, WindowedType, SendConstants DEF TypeOK
      <4>2. CASE Limited(h)
        <5>1. Windowed(h).bytes + size <= Windowed(h).limit
          <6>1. ~ (Windowed(h).bytes + size > ext[h].limit)
            BY <3>1, <4>2 DEF OverQuota
          <6>2. Windowed(h).bytes \in Nat /\ ext[h].limit \in Nat
            BY <4>1 DEF WithinPeak, ExtRecords
          <6>3. QED
            BY <4>1, <6>1, <6>2
        <5>2. ASSUME NEW x \in WithinPeak, x.bytes + size <= x.limit
              PROVE  [x EXCEPT !.bytes = @ + size] \in WithinPeak
          BY <4>1, <5>2 DEF WithinPeak, ExtRecords
        <5>3. QED
          BY <4>1, <4>2, <5>1, <5>2
      <4>3. CASE ~Limited(h)
        BY <2>0, <4>3 DEF QuotaInv
      <4>4. QED
        BY <4>2, <4>3
    <3> HIDE DEF charged
    <3>6. paid \in WithinPeak
      BY <3>4, <3>5, SetterKeeps
    <3> HIDE DEF paid
    <3>7. ext' \in [Handles -> WithinPeak]
      BY <2>2, <3>1, <3>6
    <3>8. util' \in [Nics -> 0 .. 100]
      <4>1. \A u \in 0 .. 100 : Busier(u, size) \in 0 .. 100
        BY SendConstants DEF Busier
      <4>2. util \in [Nics -> 0 .. 100]
        BY <2>0 DEF TypeOK
      <4>3. [util EXCEPT ![nic] = Busier(@, size)] \in [Nics -> 0 .. 100]
        BY <3>4, <4>1, <4>2
      <4>4. QED
        BY <3>1, <4>2, <4>3
    <3> HIDE DEF nic
    <3>9. TypeOK'
      BY <2>0, <3>1, <3>2, <3>3, <3>7, <3>8 DEF TypeOK, WithinPeak, ExtRecords, FlowTables
    <3>10. QED
      BY <2>0, <3>1, <3>7, <3>9 DEF SendInv, QuotaInv, DefaultRouteMoved
  <2>10. ASSUME NEW n \in Nics, api_handle_nic_failure(n)
         PROVE  SendInv'
    <3>1. /\ n \in present /\ errors[n] < MaxFailures
          /\ errors' = [errors EXCEPT ![n] = @ + 1]
          /\ default_nic' = api_coordinate_recovery_with_routing(n)
          /\ ext' = [h \in Handles |-> Moved(h, n)]
          /\ failed' = n
          /\ UNCHANGED <<present, lb, lb_on, last_nic_used, util, routing, flows, now>>
      BY <2>10 DEF api_handle_nic_failure
    <3>2. ASSUME NEW h \in Handles PROVE Moved(h, n) \in WithinPeak
      \* A NULL packet is refused, so no handle is moved.
      <4>1. api_select_optimal_nic(h, NullPacket, NoNic).nic = NoNic
        BY DEF api_select_optimal_nic, Choose
      <4>2. QED
        BY <2>0, <4>1 DEF Moved, QuotaInv
    <3>3. present \ {n} # {} => Lowest(present \ {n}) \in present \ {n}
      BY <2>0, LowestIn DEF TypeOK
    <3>4. /\ default_nic' \in Nics
          /\ routing /\ present \ {n} # {} => default_nic' # n
      BY <2>0, <3>1, <3>3 DEF api_coordinate_recovery_with_routing, TypeOK
    <3>5. errors' \in [Nics -> 0 .. MaxFailures]
      BY <2>0, <3>1, SendConstants DEF TypeOK
    <3>6. ext' \in [Handles -> WithinPeak]
      BY <3>1, <3>2
    <3>7. TypeOK'
      BY <2>0, <3>1, <3>4, <3>5, <3>6 DEF TypeOK, WithinPeak, ExtRecords
    <3>8. QED
      BY <2>0, <3>1, <3>4, <3>6, <3>7 DEF SendInv, QuotaInv, DefaultRouteMoved
  <2>11. ASSUME NEW n \in Nics, nic_presence(n)
         PROVE  SendInv'
    BY <2>0, <2>11 DEF SendInv, TypeOK, QuotaInv, DefaultRouteMoved, nic_presence
  <2>12. ASSUME NEW t \in Delays, timer(t)
         PROVE  SendInv'
    <3>1. now' \in Nat
      BY <2>0, <2>12, SendConstants DEF timer, TypeOK
    <3>2. QED
      BY <2>0, <2>12, <3>1 DEF SendInv, TypeOK, QuotaInv, DefaultRouteMoved, timer
  <2>13. CASE UNCHANGED vars
    BY <2>0, <2>13 DEF SendInv, TypeOK, QuotaInv, DefaultRouteMoved, vars
  \* Changes of the bridge table by its other users.
  <2>14. ASSUME flows' \in FlowTables, UNCHANGED <<present, ext, lb, lb_on, last_nic_used,
                util, errors, routing, default_nic, now, failed>>
         PROVE  SendInv'
    BY <2>0, <2>14 DEF SendInv, TypeOK, QuotaInv, DefaultRouteMoved, FlowTables
  <2>15. ASSUME NEW d \in Dests, NEW n \in Nics, routing_decide(d, n)
         PROVE  SendInv'
    BY <2>0, <2>14, <2>15, LearnedType DEF routing_decide
  <2>16. ASSUME NEW S \in SUBSET Learned, bridge_forget(S)
         PROVE  SendInv'
    <3>1. flows' \in FlowTables
      BY <2>0, <2>16 DEF bridge_forget, FlowTables, TypeOK
    <3>2. QED
      BY <2>14, <2>16, <3>1 DEF bridge_forget
  <2>17. ASSUME NEW from \in Nics, NEW to \in Nics, perform_failover(from, to)
         PROVE  SendInv'
    <3>1. flows' \in FlowTables
      BY <2>0, <2>17 DEF perform_failover, FlowTables, TypeOK
    <3>2. /\ default_nic' = to /\ failed' = NoNic
          /\ UNCHANGED <<present, ext, lb, lb_on, last_nic_used, util, errors, routing, now>>
      BY <2>17 DEF perform_failover
    <3>3. QED
      BY <2>0, <3>1, <3>2 DEF SendInv, TypeOK, QuotaInv, DefaultRouteMoved, FlowTables
  <2>18. QED
    BY <2>3, <2>4, <2>5, <2>6, <2>7, <2>8, <2>9, <2>10, <2>11, <2>12, <2>13, <2>15, <2>16, <2>17
       DEF Next
<1>3. QED
  BY <1>1, <1>2, PTL DEF Spec

\* In every reachable state the selection finds a present NIC for every
\* handle, destination and routing answer, if one is present at all: the
\* fallbacks of the five modes make up for any stale preference,
\* configuration or learned flow.
THEOREM SelectionIsPresent == Spec => []SelectionInv
<1>1. SendInv => SelectionInv
  BY SelectionFinds DEF SendInv, SelectionInv, SentOnPresentNic
<1>2. QED
  BY <1>1, SendInvariant, PTL

\* However an application changes its limit, in one window it is charged no
\* more than the highest limit it had in it.
THEOREM QuotaIsKept == Spec => []QuotaKept
<1>1. SendInv => QuotaKept
  BY DEF SendInv, QuotaInv, QuotaKept, WithinPeak
<1>2. QED
  BY <1>1, SendInvariant, PTL

\* After a failure has been handled the default route is off the failed NIC.
THEOREM RouteIsMoved == Spec => []DefaultRouteMoved
  BY SendInvariant, PTL DEF SendInv

-----------------------------------------------------------------------------
(***************************************************************************)
(* The rings a frame is sent through and received from, for any size of    *)
(* the rings that divides the range of the indices.                        *)
(***************************************************************************)

\* A remainder and its quotient.
LEMMA Quotient ==
    ASSUME NEW n \in Nat \ {0}, NEW a \in Nat
    PROVE  a % n \in 0 .. n - 1 /\ \E q \in Nat : a = n * q + (a % n)
<1>1. a \div n \in Nat
  OBVIOUS
<1>2. a = n * (a \div n) + (a % n)
  BY <1>1
<1>3. a % n \in 0 .. n - 1
  OBVIOUS
<1>4. \E q \in Nat : a = n * q + (a % n)
  BY <1>1, <1>2, Zenon
<1>5. QED
  BY <1>3, <1>4

\* What remains is what is left over.
LEMMA Remainder ==
    ASSUME NEW n \in Nat \ {0}, NEW q \in Nat, NEW r \in 0 .. n - 1
    PROVE  (n * q + r) % n = r
OBVIOUS

\* The k-th slot after an index, in terms of the slot of the index.
LEMMA SlotAfter ==
    ASSUME NEW n \in Nat \ {0}, NEW a \in Nat, NEW k \in 0 .. n
    PROVE  (a + k) % n = IF (a % n) + k < n THEN (a % n) + k ELSE (a % n) + k - n
<1>1. PICK q \in Nat : a = n * q + (a % n)
  BY Quotient
<1>2. PICK r \in 0 .. n - 1 : r = a % n
  BY Quotient
<1>3. a = n * q + r
  BY <1>1, <1>2
<1>4. CASE r + k < n
  <2>1. a + k = n * q + (r + k) /\ r + k \in 0 .. n - 1
    BY <1>3, <1>4
  <2>2. (n * q + (r + k)) % n = r + k
    BY <2>1, Remainder
  <2>3. QED
    BY <2>1, <2>2, <1>2, <1>4
<1>5. CASE r + k >= n
  <2>1. n * (q + 1) = n * q + n
    OBVIOUS
  <2>2. a + k = n * (q + 1) + (r + k - n) /\ r + k - n \in 0 .. n - 1
    BY <1>3, <1>5, <2>1
  <2>3. \A p \in Nat, w \in 0 .. n - 1 : (n * p + w) % n = w
    BY Remainder
  <2>4. (n * (q + 1) + (r + k - n)) % n = r + k - n
    <3>1. q + 1 \in Nat
      OBVIOUS
    <3>2. QED
      BY <2>2, <2>3, <3>1, Zenon
  <2>5. (a + k) % n = r + k - n
    BY <2>2, <2>4
  <2>6. QED
    BY <2>5, <1>2, <1>5
<1>6. QED
  BY <1>4, <1>5

\* A whole number of turns of the ring leads back to the slot.
LEMMA SlotWraps ==
    ASSUME NEW n \in Nat \ {0}, NEW c \in Nat, c % n = 0, NEW a \in Nat
    PROVE  (a + c) % n = a % n
<1>1. PICK q \in Nat : a = n * q + (a % n)
  BY Quotient
<1>2. PICK r \in 0 .. n - 1 : r = a % n
  BY Quotient
<1>3. PICK p \in Nat : c = n * p + (c % n)
  BY Quotient
<1>4. c = n * p
  BY <1>3
<1>5. n * (q + p) = n * q + n * p
  OBVIOUS
<1>6. a + c = n * (q + p) + r
  <2>1. a = n * q + r
    BY <1>1, <1>2, Zenon
  <2>2. QED
    BY <2>1, <1>4, <1>5
<1>7. (n * (q + p) + r) % n = r
  BY Remainder
<1>8. (a + c) % n = r
  BY <1>6, <1>7
<1>9. QED
  BY <1>8, <1>2, Zenon

\* The slots that follow an index are different, and are all of the ring.
LEMMA SlotsDiffer ==
    ASSUME NEW n \in Nat \ {0}, NEW a \in Nat
    PROVE  /\ \A k \in 0 .. n : (a + k) % n \in 0 .. n - 1
           /\ \A j, k \in 0 .. n - 1 : (a + j) % n = (a + k) % n => j = k
           /\ \A s \in 0 .. n - 1 : \E k \in 0 .. n - 1 : s = (a + k) % n
<1>1. PICK m \in 0 .. n - 1 : m = a % n
  BY Quotient
<1>2. \A k \in 0 .. n : (a + k) % n = IF m + k < n THEN m + k ELSE m + k - n
  BY <1>1, SlotAfter
<1> HIDE <1>1
<1>3. \A k \in 0 .. n : (a + k) % n \in 0 .. n - 1
  BY <1>2
<1>4. \A j, k \in 0 .. n - 1 : (a + j) % n = (a + k) % n => j = k
  <2>1. SUFFICES ASSUME NEW j \in 0 .. n - 1, NEW k \in 0 .. n - 1,
                        (a + j) % n = (a + k) % n
                 PROVE  j = k
    OBVIOUS
  <2>2. j \in 0 .. n /\ k \in 0 .. n
    OBVIOUS
  <2>3. (IF m + j < n THEN m + j ELSE m + j - n) = (IF m + k < n THEN m + k ELSE m + k - n)
    BY <1>2, <2>1, <2>2
  <2>4. QED
    BY <2>3
<1>5. \A s \in 0 .. n - 1 : \E k \in 0 .. n - 1 : s = (a + k) % n
  <2>1. SUFFICES ASSUME NEW s \in 0 .. n - 1 PROVE \E k \in 0 .. n - 1 : s = (a + k) % n
    OBVIOUS
  <2>2. PICK k \in 0 .. n - 1 : k = IF s >= m THEN s - m ELSE s + n - m
    OBVIOUS
  <2>3. (IF m + k < n THEN m + k ELSE m + k - n) = s
    BY <2>2
  <2>4. k \in 0 .. n
    OBVIOUS
  <2>5. s = (a + k) % n
    BY <2>3, <2>4, <1>2
  <2>6. QED
    BY <2>5
<1>6. QED
  BY <1>3, <1>4, <1>5

\* An index that wraps at a multiple of the ring keeps its place in the ring.
LEMMA IndexWraps ==
    ASSUME NEW n \in Nat \ {0}, NEW c \in Nat \ {0}, c % n = 0, NEW a \in 0 .. c - 1, NEW k \in 0 .. n
    PROVE  (((a + 1) % c) + k) % n = (a + (k + 1)) % n
<1>1. CASE a + 1 = c
  <2>1. (a + 1) % c = 0
    BY <1>1
  <2>2. (k + c) % n = k % n
    <3>1. k \in Nat
      OBVIOUS
    <3>2. QED
      BY <3>1, SlotWraps, Zenon
  <2>3. a + (k + 1) = k + c
    BY <1>1
  <2>4. (((a + 1) % c) + k) % n = k % n
    BY <2>1
  <2>5. QED
    BY <2>2, <2>3, <2>4, Zenon
<1>2. CASE a + 1 < c
  <2>1. (a + 1) % c = a + 1
    BY <1>2
  <2>2. (a + 1) + k = a + (k + 1)
    OBVIOUS
  <2>3. QED
    BY <2>1, <2>2
<1>3. QED
  BY <1>1, <1>2

-----------------------------------------------------------------------------
(* A ring as it is seen from an index.                                     *)

View(n, t, d) == [k \in 0 .. n - 1 |-> t[(d + k) % n]]

\* The view with another j-th descriptor, and the view from one slot further.
Put(n, v, j, x) == [k \in 0 .. n - 1 |-> IF k = j THEN x ELSE v[k]]
Turn(n, v) == [k \in 0 .. n - 1 |-> v[IF k = n - 1 THEN 0 ELSE k + 1]]

\* Seen from the oldest descriptor, the first p descriptors are in use.
InUse(n, v, p) == \A k \in 0 .. n - 1 : (v[k] = "free") <=> (k >= p)

\* Changing the j-th descriptor from an index.
LEMMA ViewSet ==
    ASSUME NEW n \in Nat \ {0}, NEW t, NEW d \in Nat,
           NEW j \in 0 .. n - 1, NEW b, b = (d + j) % n, NEW x,
           NEW u, \A a \in 0 .. n - 1 : u[a] = IF a = b THEN x ELSE t[a]
    PROVE  View(n, u, d) = Put(n, View(n, t, d), j, x)
<1>1. \A k \in 0 .. n - 1 : (d + k) % n \in 0 .. n - 1
  BY SlotsDiffer
<1>2. \A k \in 0 .. n - 1 : (d + k) % n = (d + j) % n => k = j
  BY SlotsDiffer
<1>3. \A k \in 0 .. n - 1 : u[(d + k) % n] = IF k = j THEN x ELSE t[(d + k) % n]
  <2>1. SUFFICES ASSUME NEW k \in 0 .. n - 1
                 PROVE  u[(d + k) % n] = IF k = j THEN x ELSE t[(d + k) % n]
    OBVIOUS
  <2>2. PICK a \in 0 .. n - 1 : a = (d + k) % n
    BY <1>1
  <2>3. (a = b) <=> (k = j)
    BY <2>2, <1>2
  <2>4. u[a] = IF a = b THEN x ELSE t[a]
    OBVIOUS
  <2>5. QED
    BY <2>2, <2>3, <2>4
<1>4. QED
  BY <1>3 DEF View, Put

\* The ring seen from the next index, also when the index wraps.
LEMMA ViewNext ==
    ASSUME NEW n \in Nat \ {0}, NEW c \in Nat \ {0}, c % n = 0, NEW d \in 0 .. c - 1, NEW t
    PROVE  View(n, t, (d + 1) % c) = Turn(n, View(n, t, d))
<1>1. \A k \in 0 .. n - 1 : (((d + 1) % c) + k) % n = (d + (k + 1)) % n
  <2>1. \A k \in 0 .. n : (((d + 1) % c) + k) % n = (d + (k + 1)) % n
    BY IndexWraps, ZenonT(60)
  <2>2. \A k \in 0 .. n - 1 : k \in 0 .. n
    OBVIOUS
  <2>3. QED
    BY <2>1, <2>2, Zenon
<1>2. (d + n) % n = (d + 0) % n
  <2>1. n % n = 0 /\ n \in Nat /\ d \in Nat
    OBVIOUS
  <2>2. (d + n) % n = d % n
    BY <2>1, SlotWraps
  <2>3. QED
    BY <2>2
<1>3. \A k \in 0 .. n - 1 : (d + (k + 1)) % n = (d + (IF k = n - 1 THEN 0 ELSE k + 1)) % n
  <2>1. SUFFICES ASSUME NEW k \in 0 .. n - 1
                 PROVE  (d + (k + 1)) % n = (d + (IF k = n - 1 THEN 0 ELSE k + 1)) % n
    OBVIOUS
  <2>2. CASE k = n - 1
    BY <2>2, <1>2
  <2>3. CASE k # n - 1
    BY <2>3
  <2>4. QED
    BY <2>2, <2>3
<1>4. \A k \in 0 .. n - 1 : (IF k = n - 1 THEN 0 ELSE k + 1) \in 0 .. n - 1
  OBVIOUS
<1>5. \A k \in 0 .. n - 1 :
         t[(((d + 1) % c) + k) % n] = View(n, t, d)[IF k = n - 1 THEN 0 ELSE k + 1]
  <2>1. SUFFICES ASSUME NEW k \in 0 .. n - 1
                 PROVE  t[(((d + 1) % c) + k) % n] = View(n, t, d)[IF k = n - 1 THEN 0 ELSE k + 1]
    OBVIOUS
  <2>2. PICK j \in 0 .. n - 1 : j = IF k = n - 1 THEN 0 ELSE k + 1
    BY <1>4
  <2>3. View(n, t, d)[j] = t[(d + j) % n]
    BY DEF View
  <2>4. (((d + 1) % c) + k) % n = (d + j) % n
    BY <1>1, <1>3, <2>2
  <2>5. QED
    BY <2>2, <2>3, <2>4
<1>6. QED
  BY <1>5 DEF View, Turn

\* What is in use of a ring, slot by slot and seen from the index.
LEMMA InUseSlots ==
    ASSUME NEW n \in Nat \ {0}, NEW t, NEW d \in Nat, NEW p \in 0 .. n
    PROVE  (\A s \in 0 .. n - 1 : (t[s] = "free") <=> (s \notin {(d + k) % n : k \in 0 .. p - 1}))
             <=> InUse(n, View(n, t, d), p)
<1> DEFINE W == {(d + k) % n : k \in 0 .. p - 1}
<1>1. \A k \in 0 .. n - 1 : ((d + k) % n \in W) <=> (k < p)
  <2>1. SUFFICES ASSUME NEW k \in 0 .. n - 1 PROVE ((d + k) % n \in W) <=> (k < p)
    OBVIOUS
  <2>2. ASSUME (d + k) % n \in W PROVE k < p
    <3>1. PICK j \in 0 .. p - 1 : (d + k) % n = (d + j) % n
      BY <2>2
    <3>2. j \in 0 .. n - 1
      OBVIOUS
    <3>3. k = j
      BY <3>1, <3>2, SlotsDiffer
    <3>4. QED
      BY <3>3
  <2>3. ASSUME k < p PROVE (d + k) % n \in W
    <3>1. k \in 0 .. p - 1
      BY <2>3
    <3>2. QED
      BY <3>1
  <2>4. QED
    BY <2>2, <2>3
<1>2. \A k \in 0 .. n - 1 : View(n, t, d)[k] = t[(d + k) % n] /\ (d + k) % n \in 0 .. n - 1
  BY SlotsDiffer DEF View
<1>3. \A s \in 0 .. n - 1 : \E k \in 0 .. n - 1 : s = (d + k) % n
  BY SlotsDiffer
<1>4. \A k \in 0 .. n - 1 : (k >= p) <=> ~(k < p)
  OBVIOUS
<1> HIDE DEF W
<1>5. ASSUME \A s \in 0 .. n - 1 : (t[s] = "free") <=> (s \notin W)
      PROVE  InUse(n, View(n, t, d), p)
  BY <1>5, <1>1, <1>2, <1>4, Zenon DEF InUse
<1>6. ASSUME InUse(n, View(n, t, d), p)
      PROVE  \A s \in 0 .. n - 1 : (t[s] = "free") <=> (s \notin W)
  <2>1. SUFFICES ASSUME NEW s \in 0 .. n - 1 PROVE (t[s] = "free") <=> (s \notin W)
    OBVIOUS
  <2>2. PICK k \in 0 .. n - 1 : s = (d + k) % n
    BY <1>3
  <2>3. (View(n, t, d)[k] = "free") <=> (k >= p)
    BY <1>6 DEF InUse
  <2>4. QED
    BY <2>2, <2>3, <1>1, <1>2, <1>4, Zenon
<1>7. QED
  BY <1>5, <1>6 DEF W

\* One more descriptor in use, one less, and one that stays in use.
LEMMA InUseMoves ==
    ASSUME NEW n \in Nat \ {0}, NEW v, NEW p \in 0 .. n, InUse(n, v, p)
    PROVE  /\ \A x : x # "free" /\ p < n => InUse(n, Put(n, v, p, x), p + 1)
           /\ p > 0 => InUse(n, Turn(n, Put(n, v, 0, "free")), p - 1)
           /\ \A x : \A j \in 0 .. n - 1 :
                 x # "free" /\ v[j] # "free" => InUse(n, Put(n, v, j, x), p)
<1>1. ASSUME NEW x, x # "free", p < n PROVE InUse(n, Put(n, v, p, x), p + 1)
  BY <1>1 DEF InUse, Put
<1>2. ASSUME p > 0
      PROVE  InUse(n, Turn(n, Put(n, v, 0, "free")), p - 1)
  <2>1. PICK u : u = Put(n, v, 0, "free")
    OBVIOUS
  <2>2. u[0] = "free" /\ \A k \in 1 .. n - 1 : (u[k] = "free") <=> (k >= p)
    BY <2>1 DEF InUse, Put
  <2>3. \A k \in 0 .. n - 1 : (u[IF k = n - 1 THEN 0 ELSE k + 1] = "free") <=> (k >= p - 1)
    <3>1. SUFFICES ASSUME NEW k \in 0 .. n - 1
                   PROVE  (u[IF k = n - 1 THEN 0 ELSE k + 1] = "free") <=> (k >= p - 1)
      OBVIOUS
    <3>2. CASE k = n - 1
      BY <3>2, <2>2, <1>2
    <3>3. CASE k # n - 1
      <4>1. k + 1 \in 1 .. n - 1
        BY <3>3
      <4>2. (u[k + 1] = "free") <=> (k + 1 >= p)
        BY <4>1, <2>2
      <4>3. QED
        BY <4>2, <3>3
    <3>4. QED
      BY <3>2, <3>3
  <2>4. QED
    BY <2>1, <2>3 DEF InUse, Turn
<1>3. ASSUME NEW x, NEW j \in 0 .. n - 1, x # "free", v[j] # "free"
      PROVE  InUse(n, Put(n, v, j, x), p)
  BY <1>3 DEF InUse, Put
<1>4. QED
  BY <1>1, <1>2, <1>3

-----------------------------------------------------------------------------
(* The transmit ring.                                                      *)

\* How far one index is behind another.
Gap(c, d) == (c + Counter - d) % Counter

\* The slots in use, from the indices and the state of a send.
Ahead(c, d, s) == Gap(c, d) + IF s = "filled" THEN 1 ELSE 0

\* The constants, one by one.
LEMMA RingNumbers ==
    /\ TxRing \in Nat \ {0} /\ RxRing \in Nat \ {0}
    /\ Counter \in Nat \ {0} /\ Counter > TxRing /\ Counter > RxRing
    /\ Counter % TxRing = 0 /\ Counter % RxRing = 0
    /\ MaxSends \in Nat /\ MaxArrivals \in Nat
BY RingAssumption

\* The difference of two indices, across the wrap.
LEMMA GapFacts ==
    ASSUME NEW c \in 0 .. Counter - 1, NEW d \in 0 .. Counter - 1
    PROVE  /\ Gap(c, d) = IF c >= d THEN c - d ELSE c + Counter - d
           /\ Gap(c, d) \in 0 .. Counter - 1
           /\ c % TxRing = (d + Gap(c, d)) % TxRing
<1> USE RingNumbers
<1>1. Gap(c, d) = IF c >= d THEN c - d ELSE c + Counter - d
  <2>1. CASE c >= d
    <3>1. PICK g \in 0 .. Counter - 1 : g = c - d
      BY <2>1
    <3>2. c + Counter - d = Counter * 1 + g
      BY <3>1
    <3>3. (Counter * 1 + g) % Counter = g
      BY Remainder
    <3>4. QED
      BY <2>1, <3>1, <3>2, <3>3 DEF Gap
  <2>2. CASE c < d
    <3>1. PICK g \in 0 .. Counter - 1 : g = c + Counter - d
      BY <2>2
    <3>2. g % Counter = g
      OBVIOUS
    <3>3. QED
      BY <2>2, <3>1, <3>2 DEF Gap
  <2>3. QED
    BY <2>1, <2>2
<1>2. c % TxRing = (d + Gap(c, d)) % TxRing
  <2>1. CASE c >= d
    <3>1. d + Gap(c, d) = c
      BY <1>1, <2>1
    <3>2. QED
      BY <3>1
  <2>2. CASE c < d
    <3>1. d + Gap(c, d) = c + Counter
      BY <1>1, <2>2
    <3>2. (c + Counter) % TxRing = c % TxRing
      <4>1. c \in Nat
        OBVIOUS
      <4>2. QED
        BY <4>1, SlotWraps
    <3>3. QED
      BY <3>1, <3>2
  <2>3. QED
    BY <2>1, <2>2
<1>3. QED
  BY <1>1, <1>2

\* Advancing an index by one.
LEMMA GapMoves ==
    ASSUME NEW c \in 0 .. Counter - 1, NEW d \in 0 .. Counter - 1
    PROVE  /\ (c + 1) % Counter \in 0 .. Counter - 1
           /\ (d + 1) % Counter \in 0 .. Counter - 1
           /\ Gap(c, d) < Counter - 1 => Gap((c + 1) % Counter, d) = Gap(c, d) + 1
           /\ c # d => Gap(c, d) > 0 /\ Gap(c, (d + 1) % Counter) = Gap(c, d) - 1
<1> USE RingNumbers
<1>1. \A a \in 0 .. Counter - 1 : /\ (a + 1) % Counter \in 0 .. Counter - 1
                                  /\ (a + 1) % Counter = IF a + 1 = Counter THEN 0 ELSE a + 1
  <2>1. SUFFICES ASSUME NEW a \in 0 .. Counter - 1
                 PROVE  /\ (a + 1) % Counter \in 0 .. Counter - 1
                        /\ (a + 1) % Counter = IF a + 1 = Counter THEN 0 ELSE a + 1
    OBVIOUS
  <2>2. CASE a + 1 = Counter
    <3>1. (a + 1) % Counter = 0
      BY <2>2
    <3>2. QED
      BY <3>1, <2>2
  <2>3. CASE a + 1 < Counter
    <3>1. (a + 1) % Counter = a + 1
      BY <2>3
    <3>2. QED
      BY <3>1, <2>3
  <2>4. QED
    BY <2>2, <2>3
<1>2. \A a, b \in 0 .. Counter - 1 : Gap(a, b) = IF a >= b THEN a - b ELSE a + Counter - b
  BY GapFacts
<1>3. PICK c1 \in 0 .. Counter - 1 : c1 = (c + 1) % Counter
  BY <1>1
<1>4. PICK d1 \in 0 .. Counter - 1 : d1 = (d + 1) % Counter
  BY <1>1
<1>5. /\ c1 = IF c + 1 = Counter THEN 0 ELSE c + 1
      /\ d1 = IF d + 1 = Counter THEN 0 ELSE d + 1
  BY <1>1, <1>3, <1>4
<1>6. Gap(c, d) < Counter - 1 => Gap(c1, d) = Gap(c, d) + 1
  BY <1>2, <1>5
<1>7. c # d => Gap(c, d) > 0 /\ Gap(c, d1) = Gap(c, d) - 1
  BY <1>2, <1>5
<1>8. QED
  BY <1>3, <1>4, <1>6, <1>7

\* RingAgrees, seen from dirty_tx; in this state and in the next.
LEMMA AgreesView ==
    /\ RingTypeOK =>
         (RingAgrees <=>
             /\ Ahead(cur_tx, dirty_tx, send) <= TxRing
             /\ InUse(TxRing, View(TxRing, tx, dirty_tx), Ahead(cur_tx, dirty_tx, send)))
    /\ RingTypeOK' =>
         (RingAgrees' <=>
             /\ Ahead(cur_tx', dirty_tx', send') <= TxRing
             /\ InUse(TxRing, View(TxRing, tx', dirty_tx'), Ahead(cur_tx', dirty_tx', send')))
<1> USE RingNumbers
<1>1. \A c, d \in 0 .. Counter - 1 : \A s : Ahead(c, d, s) \in Nat
  <2>1. \A c, d \in 0 .. Counter - 1 : Gap(c, d) \in 0 .. Counter - 1
    BY GapFacts
  <2>2. \A c, d \in 0 .. Counter - 1 : Gap(c, d) \in Nat
    BY <2>1
  <2>3. QED
    BY <2>2 DEF Ahead
<1>2. \A d \in 0 .. Counter - 1, p \in 0 .. TxRing : \A t :
         (\A s \in 0 .. TxRing - 1 : (t[s] = "free") <=> (s \notin {(d + k) % TxRing : k \in 0 .. p - 1}))
             <=> InUse(TxRing, View(TxRing, t, d), p)
  <2>1. \A d \in Nat, p \in 0 .. TxRing : \A t :
         (\A s \in 0 .. TxRing - 1 : (t[s] = "free") <=> (s \notin {(d + k) % TxRing : k \in 0 .. p - 1}))
             <=> InUse(TxRing, View(TxRing, t, d), p)
    BY InUseSlots
  <2>2. \A d \in 0 .. Counter - 1 : d \in Nat
    OBVIOUS
  <2>3. QED
    BY <2>1, <2>2, Zenon
<1>3. ASSUME RingTypeOK
      PROVE  RingAgrees <=>
                /\ Ahead(cur_tx, dirty_tx, send) <= TxRing
                /\ InUse(TxRing, View(TxRing, tx, dirty_tx), Ahead(cur_tx, dirty_tx, send))
  <2>1. cur_tx \in 0 .. Counter - 1 /\ dirty_tx \in 0 .. Counter - 1
    BY <1>3 DEF RingTypeOK
  <2>2. PICK p \in Nat : p = Ahead(cur_tx, dirty_tx, send)
    BY <1>1, <2>1
  <2>3. Pending = p
    BY <2>2 DEF Pending, InFlight, Ahead, Gap
  <2>4. p <= TxRing => p \in 0 .. TxRing
    OBVIOUS
  <2>5. RingAgrees <=>
          /\ p <= TxRing
          /\ \A s \in 0 .. TxRing - 1 : (tx[s] = "free")
                 <=> (s \notin {(dirty_tx + k) % TxRing : k \in 0 .. p - 1})
    BY <2>3, Zenon DEF RingAgrees, TxSlots, RingWindow
  <2>6. QED
    BY <1>2, <2>1, <2>2, <2>4, <2>5, Zenon
<1>4. ASSUME RingTypeOK'
      PROVE  RingAgrees' <=>
                /\ Ahead(cur_tx', dirty_tx', send') <= TxRing
                /\ InUse(TxRing, View(TxRing, tx', dirty_tx'), Ahead(cur_tx', dirty_tx', send'))
  <2>1. cur_tx' \in 0 .. Counter - 1 /\ dirty_tx' \in 0 .. Counter - 1
    BY <1>4 DEF RingTypeOK
  <2>2. PICK p \in Nat : p = Ahead(cur_tx', dirty_tx', send')
    BY <1>1, <2>1
  <2>3. Pending' = p
    BY <2>2 DEF Pending, InFlight, Ahead, Gap
  <2>4. p <= TxRing => p \in 0 .. TxRing
    OBVIOUS
  <2>5. RingAgrees' <=>
          /\ p <= TxRing
          /\ \A s \in 0 .. TxRing - 1 : (tx'[s] = "free")
                 <=> (s \notin {(dirty_tx' + k) % TxRing : k \in 0 .. p - 1})
    BY <2>3, Zenon DEF RingAgrees, TxSlots, RingWindow
  <2>6. QED
    BY <1>2, <2>1, <2>2, <2>4, <2>5, Zenon
<1>5. QED
  BY <1>3, <1>4

\* The handler goes from one known place to another.
LEMMA AfterPlaces ==
    ASSUME NEW at, NEW bits
    PROVE  After(at, bits) \in {"none", "tx", "rx", "host"}
BY DEF After

\* Every index has a slot.
LEMMA HasSlot ==
    ASSUME NEW n \in Nat \ {0}, NEW c, NEW i \in 0 .. c - 1, c \in Nat
    PROVE  /\ i % n \in 0 .. n - 1 /\ (i + 1) % n \in 0 .. n - 1
           /\ c > 0 => (i + c - 1) % n \in 0 .. n - 1
<1>1. i \in Nat /\ i + 1 \in Nat /\ (c > 0 => i + c - 1 \in Nat)
  OBVIOUS
<1>2. \A a \in Nat : a % n \in 0 .. n - 1
  BY Quotient
<1>3. QED
  BY <1>1, <1>2, Zenon

\* The steps by which TypeOK is kept: those of a send, of the card and of the
\* handler.
LEMMA SendTypes ==
    ASSUME RingTypeOK,
           \/ boomerang_start_xmit \/ xmit_refused \/ Sending
    PROVE  RingTypeOK'
<1> USE DEF RingTypeOK, TxSlots, RxSlots, NoDn, NoUp, Frames,
                        txVars, rxVars, isrVars, cardVars
<1>1. CASE boomerang_start_xmit
  <2>1. Entry \in 0 .. TxRing - 1
    BY RingNumbers, HasSlot DEF Entry
  <2>2. sent + 1 \in 0 .. MaxSends
    BY <1>1, RingNumbers DEF boomerang_start_xmit
  <2>3. /\ tx' \in [0 .. TxRing - 1 -> {"free", "filled", "complete"}]
        /\ tx_frame' \in [0 .. TxRing - 1 -> 0 .. MaxSends]
        /\ sent' \in 0 .. MaxSends /\ send' \in {"none", "filled", "kick"}
    BY <1>1, <2>1, <2>2 DEF boomerang_start_xmit
  <2>4. QED
    BY <1>1, <2>3 DEF boomerang_start_xmit
<1>2. CASE xmit_refused
  BY <1>2 DEF xmit_refused, ringVars
<1>3. CASE xmit_advance
  <2>1. cur_tx' \in 0 .. Counter - 1
    BY <1>3, GapMoves DEF xmit_advance
  <2>2. QED
    BY <1>3, <2>1 DEF xmit_advance
<1>4. CASE xmit_kick
  <2>1. Counter \in Nat /\ Counter > 0
    BY RingNumbers
  <2>2. (cur_tx + Counter - 1) % TxRing \in 0 .. TxRing - 1
    BY <2>1, RingNumbers, HasSlot
  <2>3. dn' \in 0 .. TxRing - 1 \cup {TxRing}
    BY <1>4, <2>2 DEF xmit_kick
  <2>4. QED
    BY <1>4, <2>3 DEF xmit_kick
<1>5. QED
  BY <1>1, <1>2, <1>3, <1>4 DEF Sending

\* The card stores and sends within the rings.
LEMMA CardTypes ==
    ASSUME RingTypeOK,
           Card \/ card_stall \/ card_host_error
    PROVE  RingTypeOK'
<1> USE DEF RingTypeOK, TxSlots, RxSlots, NoDn, NoUp, Frames,
                        Bits, txVars, rxVars, isrVars, cardVars
<1>1. CASE card_download
  <2>1. dn \in 0 .. TxRing - 1
    BY <1>1 DEF card_download
  <2>2. dn' \in 0 .. TxRing - 1
    BY <1>1, <2>1, RingNumbers, HasSlot DEF card_download
  <2>3. tx_frame[dn] \in 0 .. MaxSends
    BY <2>1
  <2>4. wire' \in Seq(0 .. MaxSends)
    BY <1>1, <2>3 DEF card_download
  <2>5. tx' \in [0 .. TxRing - 1 -> {"free", "filled", "complete"}]
    BY <1>1, <2>1 DEF card_download
  <2>6. QED
    BY <1>1, <2>2, <2>4, <2>5 DEF card_download
<1>2. ASSUME NEW q \in {"good", "bad"}, card_upload(q)
      PROVE  RingTypeOK'
  <2>1. up \in 0 .. RxRing - 1
    BY <1>2 DEF card_upload
  <2>2. up' \in 0 .. RxRing - 1
    BY <1>2, <2>1, RingNumbers, HasSlot DEF card_upload
  <2>3. arrived' \in 0 .. MaxArrivals /\ arrived' = arrived + 1
    <3>1. arrived < MaxArrivals /\ arrived' = arrived + 1
      BY <1>2 DEF card_upload
    <3>2. arrived \in 0 .. MaxArrivals /\ MaxArrivals \in Nat
      BY RingNumbers
    <3> HIDE DEF RingTypeOK
    <3>3. QED
      BY <3>1, <3>2
  <2>4. /\ rx' \in [0 .. RxRing - 1 -> {"free", "good", "bad"}]
        /\ rx_frame' \in [0 .. RxRing - 1 -> 0 .. MaxArrivals]
    BY <1>2, <2>1, <2>3 DEF card_upload
  <2>5. QED
    BY <1>2, <2>2, <2>3, <2>4 DEF card_upload
<1>3. CASE card_stall
  <2>1. up_stalled' \in BOOLEAN
    BY <1>3, Zenon DEF card_stall
  <2>2. QED
    BY <1>3, <2>1 DEF card_stall
<1>4. CASE card_host_error
  <2>1. host_errors' \in 0 .. 1 /\ status' \subseteq {"tx", "rx", "host"}
    BY <1>4 DEF card_host_error
  <2>2. QED
    BY <1>4, <2>1 DEF card_host_error
<1>5. QED
  BY <1>1, <1>2, <1>3, <1>4, Zenon DEF Card

\* The handler keeps the indices in their range and counts no further than
\* the ring.
LEMMA HandlerTypes ==
    ASSUME RingTypeOK, Handler
    PROVE  RingTypeOK'
<1> USE DEF RingTypeOK, TxSlots, RxSlots, NoDn, NoUp, Frames,
                        Bits, txVars, rxVars, isrVars, cardVars
<1>1. CASE boomerang_interrupt
  <2>1. isr' \in {"none", "tx", "rx", "host"}
    BY <1>1, AfterPlaces DEF boomerang_interrupt
  <2>2. count' \in 0 .. RxRing
    BY <1>1, RingNumbers DEF boomerang_interrupt
  <2>3. QED
    BY <1>1, <2>1, <2>2 DEF boomerang_interrupt
<1>2. CASE tx_reclaim
  <2>1. dirty_tx' \in 0 .. Counter - 1
    BY <1>2, GapMoves DEF tx_reclaim
  <2>2. Dirty \in 0 .. TxRing - 1
    BY RingNumbers, HasSlot DEF Dirty
  <2>3. tx' \in [0 .. TxRing - 1 -> {"free", "filled", "complete"}]
    BY <1>2, <2>2 DEF tx_reclaim
  <2>4. QED
    BY <1>2, <2>1, <2>3 DEF tx_reclaim
<1>3. CASE tx_done
  BY <1>3 DEF tx_done
<1>4. CASE tx_ack
  <2>1. isr' \in {"none", "tx", "rx", "host"}
    BY <1>4, AfterPlaces DEF tx_ack
  <2>2. QED
    BY <1>4, <2>1 DEF tx_ack
<1>5. CASE boomerang_rx
  <2>1. cur_rx' \in 0 .. Counter - 1
    BY <1>5, GapMoves DEF boomerang_rx
  <2>2. RxEntry \in 0 .. RxRing - 1
    BY RingNumbers, HasSlot DEF RxEntry
  <2>3. rx' \in [0 .. RxRing - 1 -> {"free", "good", "bad"}]
    BY <1>5, <2>2 DEF boomerang_rx
  <2>4. /\ count < RxRing
        /\ \/ received' = Append(received, rx_frame[RxEntry]) /\ count' = count + 1
           \/ received' = received /\ count' = count
    BY <1>5, Zenon DEF boomerang_rx, MoreRx
  <2>5. count' \in 0 .. RxRing
    <3>1. count \in 0 .. RxRing /\ RxRing \in Nat
      BY RingNumbers
    <3> HIDE DEF RingTypeOK
    <3>2. QED
      BY <2>4, <3>1
  <2>6. received' \in Seq(0 .. MaxArrivals)
    <3>1. rx_frame[RxEntry] \in 0 .. MaxArrivals /\ received \in Seq(0 .. MaxArrivals)
      BY <2>2
    <3> HIDE DEF RingTypeOK
    <3>2. \A f \in 0 .. MaxArrivals : Append(received, f) \in Seq(0 .. MaxArrivals)
      BY <3>1
    <3>3. QED
      BY <2>4, <3>1, <3>2, Zenon
  <2>7. QED
    BY <1>5, <2>1, <2>3, <2>5, <2>6 DEF boomerang_rx
<1>6. CASE rx_restart
  <2>1. up_stalled' \in BOOLEAN
    BY <1>6, Zenon DEF rx_restart
  <2>2. QED
    BY <1>6, <2>1 DEF rx_restart
<1>7. CASE rx_ack
  <2>1. isr' \in {"none", "tx", "rx", "host"}
    BY <1>7, AfterPlaces DEF rx_ack
  <2>2. QED
    BY <1>7, <2>1 DEF rx_ack
<1>8. CASE host_reset
  <2>1. up_stalled' \in BOOLEAN
    BY <1>8, Zenon DEF host_reset
  <2>2. QED
    BY <1>8, <2>1 DEF host_reset
<1>9. QED
  BY <1>1, <1>2, <1>3, <1>4, <1>5, <1>6, <1>7, <1>8 DEF Handler

\* The steps that change the transmit ring, seen from dirty_tx: filling the
\* next descriptor, completing one, taking the oldest back.
LEMMA RingFilled ==
    ASSUME RingTypeOK, boomerang_start_xmit,
           NEW p, p = Ahead(cur_tx, dirty_tx, send)
    PROVE  /\ p \in 0 .. TxRing - 1 /\ Ahead(cur_tx', dirty_tx', send') = p + 1
           /\ View(TxRing, tx', dirty_tx') = Put(TxRing, View(TxRing, tx, dirty_tx), p, "filled")
           /\ View(TxRing, tx_frame', dirty_tx') = Put(TxRing, View(TxRing, tx_frame, dirty_tx), p, sent + 1)
<1>1. /\ cur_tx \in 0 .. Counter - 1 /\ dirty_tx \in 0 .. Counter - 1 /\ dirty_tx \in Nat
      /\ tx \in [0 .. TxRing - 1 -> {"free", "filled", "complete"}]
      /\ tx_frame \in [0 .. TxRing - 1 -> 0 .. MaxSends]
  BY DEF RingTypeOK, TxSlots, Frames
<1>2. /\ send = "none" /\ send' = "filled" /\ cur_tx' = cur_tx /\ dirty_tx' = dirty_tx
      /\ ~(Gap(cur_tx, dirty_tx) >= TxRing)
      /\ \A s \in 0 .. TxRing - 1 : tx'[s] = IF s = cur_tx % TxRing THEN "filled" ELSE tx[s]
      /\ \A s \in 0 .. TxRing - 1 :
            tx_frame'[s] = IF s = cur_tx % TxRing THEN sent + 1 ELSE tx_frame[s]
  BY <1>1 DEF boomerang_start_xmit, Full, InFlight, Gap, Entry
<1>3. p = Gap(cur_tx, dirty_tx)
  <2>1. Gap(cur_tx, dirty_tx) \in 0 .. Counter - 1
    BY <1>1, GapFacts
  <2>2. QED
    BY <1>2, <2>1 DEF Ahead
<1>4. p \in 0 .. TxRing - 1 /\ cur_tx % TxRing = (dirty_tx + p) % TxRing
  <2>1. p \in 0 .. Counter - 1 /\ cur_tx % TxRing = (dirty_tx + p) % TxRing
    BY <1>1, <1>3, GapFacts
  <2>2. QED
    BY <1>2, <1>3, <2>1, RingNumbers
<1>5. Ahead(cur_tx', dirty_tx', send') = p + 1
  BY <1>2, <1>3 DEF Ahead
<1>6. TxRing \in Nat \ {0}
  BY RingNumbers
<1>7. PICK b : b = cur_tx % TxRing
  OBVIOUS
<1>8. /\ b = (dirty_tx + p) % TxRing
      /\ \A s \in 0 .. TxRing - 1 : tx'[s] = IF s = b THEN "filled" ELSE tx[s]
      /\ \A s \in 0 .. TxRing - 1 : tx_frame'[s] = IF s = b THEN sent + 1 ELSE tx_frame[s]
  BY <1>2, <1>4, <1>7
<1>9. dirty_tx \in Nat /\ p \in 0 .. TxRing - 1
  BY <1>1, <1>4
<1>10. View(TxRing, tx', dirty_tx) = Put(TxRing, View(TxRing, tx, dirty_tx), p, "filled")
  BY <1>6, <1>8, <1>9, ViewSet
<1>11. View(TxRing, tx_frame', dirty_tx) = Put(TxRing, View(TxRing, tx_frame, dirty_tx), p, sent + 1)
  BY <1>6, <1>8, <1>9, ViewSet
<1>12. QED
  BY <1>2, <1>4, <1>5, <1>10, <1>11, Zenon

\* The card completes the descriptor it is at.
LEMMA RingCompleted ==
    ASSUME RingTypeOK, card_download
    PROVE  \E j \in 0 .. TxRing - 1 :
              /\ dn = (dirty_tx + j) % TxRing
              /\ View(TxRing, tx, dirty_tx)[j] = "filled"
              /\ View(TxRing, tx_frame, dirty_tx)[j] = tx_frame[dn]
              /\ View(TxRing, tx', dirty_tx') = Put(TxRing, View(TxRing, tx, dirty_tx), j, "complete")
<1>1. /\ dirty_tx \in Nat /\ dn \in 0 .. TxRing - 1
      /\ tx \in [0 .. TxRing - 1 -> {"free", "filled", "complete"}]
  BY DEF RingTypeOK, TxSlots, card_download, NoDn
<1>2. /\ dirty_tx' = dirty_tx /\ tx[dn] = "filled" 
      /\ \A s \in 0 .. TxRing - 1 : tx'[s] = IF s = dn THEN "complete" ELSE tx[s]
  BY <1>1 DEF card_download
<1>3. TxRing \in Nat \ {0}
  BY RingNumbers
<1>4. PICK j \in 0 .. TxRing - 1 : dn = (dirty_tx + j) % TxRing
  BY <1>1, <1>3, SlotsDiffer
<1>5. View(TxRing, tx', dirty_tx) = Put(TxRing, View(TxRing, tx, dirty_tx), j, "complete")
  BY <1>1, <1>2, <1>3, <1>4, ViewSet
<1>6. /\ View(TxRing, tx, dirty_tx)[j] = tx[dn]
      /\ View(TxRing, tx_frame, dirty_tx)[j] = tx_frame[dn]
  BY <1>4 DEF View
<1>7. QED
  BY <1>2, <1>4, <1>5, <1>6, Zenon

\* The oldest descriptor is taken back, and the ring is seen from the next.
LEMMA RingReclaimed ==
    ASSUME RingTypeOK, tx_reclaim,
           NEW p, p = Ahead(cur_tx, dirty_tx, send)
    PROVE  /\ p \in Nat /\ p > 0 /\ Ahead(cur_tx', dirty_tx', send') = p - 1
           /\ View(TxRing, tx, dirty_tx)[0] = "complete"
           /\ View(TxRing, tx', dirty_tx')
                = Turn(TxRing, Put(TxRing, View(TxRing, tx, dirty_tx), 0, "free"))
           /\ View(TxRing, tx_frame', dirty_tx') = Turn(TxRing, View(TxRing, tx_frame, dirty_tx))
           /\ \A k \in 0 .. TxRing : (dirty_tx' + k) % TxRing = (dirty_tx + (k + 1)) % TxRing
<1>1. /\ cur_tx \in 0 .. Counter - 1 /\ dirty_tx \in 0 .. Counter - 1 /\ dirty_tx \in Nat
      /\ tx \in [0 .. TxRing - 1 -> {"free", "filled", "complete"}]
  BY DEF RingTypeOK, TxSlots
<1>2. /\ send' = send /\ cur_tx' = cur_tx /\ dirty_tx' = (dirty_tx + 1) % Counter
      /\ dirty_tx # cur_tx /\ tx[dirty_tx % TxRing] = "complete"
      /\ \A s \in 0 .. TxRing - 1 : tx'[s] = IF s = dirty_tx % TxRing THEN "free" ELSE tx[s]
      /\ tx_frame' = tx_frame
  BY <1>1 DEF tx_reclaim, MoreTx, Dirty
<1>3. /\ TxRing \in Nat \ {0} /\ 0 \in 0 .. TxRing - 1 /\ dirty_tx + 0 = dirty_tx
      /\ Counter \in Nat \ {0} /\ Counter % TxRing = 0
  BY <1>1, RingNumbers
<1>4. p \in Nat /\ p > 0 /\ Ahead(cur_tx', dirty_tx', send') = p - 1
  <2>1. PICK g \in Nat : g = Gap(cur_tx, dirty_tx)
    BY <1>1, GapFacts
  <2>2. g > 0 /\ Gap(cur_tx', dirty_tx') = g - 1
    BY <1>1, <1>2, <2>1, GapMoves
  <2>3. QED
    BY <1>2, <2>1, <2>2 DEF Ahead
<1>5. View(TxRing, tx, dirty_tx)[0] = "complete"
  BY <1>2, <1>3 DEF View
<1>6. View(TxRing, tx', dirty_tx) = Put(TxRing, View(TxRing, tx, dirty_tx), 0, "free")
  <2>1. dirty_tx % TxRing = (dirty_tx + 0) % TxRing
    BY <1>3
  <2>2. QED
    BY <2>1, <1>1, <1>2, <1>3, ViewSet
<1>7. \A t : View(TxRing, t, (dirty_tx + 1) % Counter) = Turn(TxRing, View(TxRing, t, dirty_tx))
  BY <1>1, <1>3, ViewNext, ZenonT(60)
<1>8. /\ View(TxRing, tx', dirty_tx')
            = Turn(TxRing, Put(TxRing, View(TxRing, tx, dirty_tx), 0, "free"))
      /\ View(TxRing, tx_frame', dirty_tx') = Turn(TxRing, View(TxRing, tx_frame, dirty_tx))
  BY <1>2, <1>6, <1>7
<1>9. \A k \in 0 .. TxRing : (((dirty_tx + 1) % Counter) + k) % TxRing = (dirty_tx + (k + 1)) % TxRing
  BY <1>1, <1>3, IndexWraps, ZenonT(60)
<1>10. QED
  BY <1>2, <1>4, <1>5, <1>8, <1>9

\* Advancing cur_tx ends the filling of a descriptor and changes nothing else.
LEMMA RingAdvanced ==
    ASSUME RingTypeOK, xmit_advance,
           Ahead(cur_tx, dirty_tx, send) <= TxRing
    PROVE  Ahead(cur_tx', dirty_tx', send') = Ahead(cur_tx, dirty_tx, send)
<1>1. cur_tx \in 0 .. Counter - 1 /\ dirty_tx \in 0 .. Counter - 1
  BY DEF RingTypeOK
<1>2. /\ send = "filled" /\ send' = "kick" /\ cur_tx' = (cur_tx + 1) % Counter
      /\ dirty_tx' = dirty_tx
  BY DEF xmit_advance
<1>3. PICK g \in Nat : g = Gap(cur_tx, dirty_tx)
  BY <1>1, GapFacts
<1>4. g < Counter - 1
  BY <1>2, <1>3, RingNumbers DEF Ahead
<1>5. Gap(cur_tx', dirty_tx') = g + 1
  BY <1>1, <1>2, <1>3, <1>4, GapMoves
<1>6. QED
  BY <1>2, <1>3, <1>5 DEF Ahead

\* Steps that leave the transmit ring and its indices alone.
TxRingSame == /\ UNCHANGED <<tx, tx_frame, cur_tx, dirty_tx, sent>>
              /\ send' = send \/ (send = "kick" /\ send' = "none")

\* A step fills, advances, completes or takes back, or leaves the ring alone.
LEMMA TxRingSteps ==
    ASSUME [RingNext]_ringVars
    PROVE  \/ boomerang_start_xmit \/ xmit_advance \/ card_download \/ tx_reclaim
           \/ TxRingSame
<1> USE DEF TxRingSame, txVars
<1>1. ASSUME xmit_kick PROVE TxRingSame
  BY <1>1 DEF xmit_kick
<1>2. ASSUME NEW q, card_upload(q) PROVE TxRingSame
  BY <1>2 DEF card_upload
<1>3. ASSUME card_stall \/ card_host_error PROVE TxRingSame
  BY <1>3 DEF card_stall, card_host_error
<1>4. ASSUME \/ boomerang_interrupt \/ tx_done \/ tx_ack \/ boomerang_rx
             \/ rx_restart \/ rx_ack \/ host_reset
      PROVE  TxRingSame
  BY <1>4 DEF boomerang_interrupt, tx_done, tx_ack, boomerang_rx,
              rx_restart, rx_ack, host_reset
<1>5. ASSUME UNCHANGED ringVars PROVE TxRingSame
  BY <1>5 DEF ringVars
<1> HIDE DEF TxRingSame
<1>6. QED
  BY <1>1, <1>2, <1>3, <1>4, <1>5, Zenon
  DEF RingNext, Sending, Card, Handler, xmit_refused

\* A step keeps the agreement of the ring with its indices.
LEMMA RingUse ==
    ASSUME RingInv, [RingNext]_ringVars, RingTypeOK'
    PROVE  RingAgrees'
<1>1. RingTypeOK /\ RingAgrees
  BY DEF RingInv
<1>2. PICK p : p = Ahead(cur_tx, dirty_tx, send)
  OBVIOUS
<1>3. PICK v : v = View(TxRing, tx, dirty_tx)
  OBVIOUS
<1>4. p <= TxRing /\ InUse(TxRing, v, p)
  BY <1>1, <1>2, <1>3, AgreesView
<1>5. TxRing \in Nat \ {0} /\ p \in 0 .. TxRing
  <2>1. cur_tx \in 0 .. Counter - 1 /\ dirty_tx \in 0 .. Counter - 1
    BY <1>1 DEF RingTypeOK
  <2>2. Gap(cur_tx, dirty_tx) \in Nat
    BY <2>1, GapFacts
  <2>3. QED
    BY <2>2, <1>2, <1>4, RingNumbers DEF Ahead
<1>6. SUFFICES /\ Ahead(cur_tx', dirty_tx', send') <= TxRing
               /\ InUse(TxRing, View(TxRing, tx', dirty_tx'), Ahead(cur_tx', dirty_tx', send'))
  BY AgreesView
<1>7. CASE boomerang_start_xmit
  <2>1. /\ p \in 0 .. TxRing - 1 /\ Ahead(cur_tx', dirty_tx', send') = p + 1
        /\ View(TxRing, tx', dirty_tx') = Put(TxRing, v, p, "filled")
    BY <1>1, <1>2, <1>3, <1>7, RingFilled
  <2>2. p < TxRing /\ p + 1 <= TxRing
    BY <2>1, <1>5
  <2>3. InUse(TxRing, Put(TxRing, v, p, "filled"), p + 1)
    BY <2>2, <1>4, <1>5, InUseMoves
  <2>4. QED
    BY <2>1, <2>2, <2>3
<1>8. CASE xmit_advance
  <2>1. Ahead(cur_tx', dirty_tx', send') = p
    BY <1>1, <1>2, <1>4, <1>8, RingAdvanced
  <2>2. View(TxRing, tx', dirty_tx') = v
    BY <1>3, <1>8 DEF xmit_advance
  <2>3. QED
    BY <2>1, <2>2, <1>4
<1>9. CASE card_download
  <2>1. PICK j \in 0 .. TxRing - 1 :
           v[j] = "filled" /\ View(TxRing, tx', dirty_tx') = Put(TxRing, v, j, "complete")
    BY <1>1, <1>3, <1>9, RingCompleted
  <2>2. Ahead(cur_tx', dirty_tx', send') = p
    BY <1>2, <1>9 DEF card_download
  <2>3. InUse(TxRing, Put(TxRing, v, j, "complete"), p)
    BY <2>1, <1>4, <1>5, InUseMoves
  <2>4. QED
    BY <2>1, <2>2, <2>3, <1>4
<1>10. CASE tx_reclaim
  <2>1. /\ p > 0 /\ Ahead(cur_tx', dirty_tx', send') = p - 1
        /\ View(TxRing, tx', dirty_tx') = Turn(TxRing, Put(TxRing, v, 0, "free"))
    BY <1>1, <1>2, <1>3, <1>10, RingReclaimed
  <2>2. InUse(TxRing, Turn(TxRing, Put(TxRing, v, 0, "free")), p - 1)
    BY <2>1, <1>4, <1>5, InUseMoves
  <2>3. p - 1 <= TxRing
    BY <1>5
  <2>4. QED
    BY <2>1, <2>2, <2>3
<1>11. CASE TxRingSame
  <2>1. /\ Ahead(cur_tx', dirty_tx', send') = p
        /\ View(TxRing, tx', dirty_tx') = v
    BY <1>2, <1>3, <1>11 DEF TxRingSame, Ahead
  <2>2. QED
    BY <2>1, <1>4
<1>12. QED
  BY <1>7, <1>8, <1>9, <1>10, <1>11, TxRingSteps

\* The rings begin empty.
LEMMA RingAtStart ==
    ASSUME RingInit
    PROVE  RingInv
<1>1. RingTypeOK
  <2>1. up_stalled \in BOOLEAN
    BY Zenon DEF RingInit
  <2>2. QED
    BY <2>1, RingNumbers DEF RingInit, RingTypeOK, TxSlots, RxSlots, NoDn, NoUp,
                             Frames, Bits
<1>2. Ahead(cur_tx, dirty_tx, send) = 0
  <2>1. Counter % Counter = 0
    BY RingNumbers
  <2>2. Gap(cur_tx, dirty_tx) = 0
    BY <2>1, RingNumbers DEF Gap, RingInit
  <2>3. QED
    BY <2>2 DEF Ahead, RingInit
<1>3. InUse(TxRing, View(TxRing, tx, dirty_tx), 0)
  <2>1. TxRing \in Nat \ {0} /\ dirty_tx = 0 /\ tx = [s \in 0 .. TxRing - 1 |-> "free"]
    BY RingNumbers DEF RingInit, TxSlots
  <2>2. \A k \in 0 .. TxRing - 1 : (dirty_tx + k) % TxRing \in 0 .. TxRing - 1
    BY <2>1, SlotsDiffer
  <2>3. \A k \in 0 .. TxRing - 1 : tx[(dirty_tx + k) % TxRing] = "free"
    BY <2>1, <2>2
  <2>4. \A k \in 0 .. TxRing - 1 : View(TxRing, tx, dirty_tx)[k] = "free" /\ k >= 0
    BY <2>3 DEF View
  <2>5. QED
    BY <2>4 DEF InUse
<1>4. 0 <= TxRing
  BY RingNumbers
<1>5. QED
  BY <1>1, <1>2, <1>3, <1>4, AgreesView DEF RingInv

\* The types are kept by every step.
LEMMA RingTypes ==
    ASSUME RingTypeOK, [RingNext]_ringVars
    PROVE  RingTypeOK'
<1>1. ASSUME UNCHANGED ringVars PROVE RingTypeOK'
  BY <1>1 DEF RingTypeOK, ringVars, txVars, rxVars, isrVars, cardVars
<1>2. QED
  BY <1>1, SendTypes, CardTypes, HandlerTypes, Zenon DEF RingNext

\* The descriptors between dirty_tx and cur_tx, and no others, are in use:
\* for any ring whose size divides the range of the indices, and however
\* often those wrap, no frame in flight is overwritten by boomerang_start_xmit.
THEOREM RingInvariant == RingSpec => []RingInv
<1>1. RingInit => RingInv
  BY RingAtStart
<1>2. RingInv /\ [RingNext]_ringVars => RingInv'
  <2>1. SUFFICES ASSUME RingInv, [RingNext]_ringVars PROVE RingInv'
    OBVIOUS
  <2>2. RingTypeOK'
    BY <2>1, RingTypes DEF RingInv
  <2>3. RingAgrees'
    BY <2>1, <2>2, RingUse
  <2>4. QED
    BY <2>2, <2>3 DEF RingInv
<1>3. QED
  BY <1>1, <1>2, PTL DEF RingSpec

-----------------------------------------------------------------------------
(* The order of transmission.                                              *)

\* Of the p descriptors in use the first q are complete; they carry the last
\* p of the s frames sent, in order.
Queued(v, f, p, q, s) ==
    /\ \A k \in 0 .. TxRing - 1 :
          v[k] = IF k < q THEN "complete" ELSE IF k < p THEN "filled" ELSE "free"
    /\ \A k \in 0 .. p - 1 : f[k] = (s + 1 + k) - p

\* The card is at the first descriptor that is not complete, its list pointer c
\* there too, and the w frames on the wire are those that are.
CardAt(v, f, d, p, q, s, c, w) ==
    /\ Queued(v, f, p, q, s)
    /\ c = (d + q) % TxRing
    /\ w + p = s + q

\* Before a host error, of which nothing speaks yet, the card is in step with
\* the ring and the wire holds the frames in order.
OrderInv ==
    host_errors = 0 =>
        /\ "host" \notin status /\ "host" \notin seen /\ isr # "host"
        /\ \E q \in 0 .. Ahead(cur_tx, dirty_tx, send) :
              CardAt(View(TxRing, tx, dirty_tx), View(TxRing, tx_frame, dirty_tx), dirty_tx,
                     Ahead(cur_tx, dirty_tx, send), q, sent, dn, Len(wire))
        /\ \A k \in 1 .. Len(wire) : wire[k] = k

\* A frame is queued behind the others.
LEMMA QueuedFilled ==
    ASSUME TxRing \in Nat \ {0}, NEW v, NEW f, NEW p \in 0 .. TxRing - 1, NEW q \in 0 .. p,
           NEW s \in Nat,
           Queued(v, f, p, q, s)
    PROVE  Queued(Put(TxRing, v, p, "filled"), Put(TxRing, f, p, s + 1), p + 1, q, s + 1)
<1>1. \A k \in 0 .. TxRing - 1 : Put(TxRing, v, p, "filled")[k]
         = IF k < q THEN "complete" ELSE IF k < p + 1 THEN "filled" ELSE "free"
  BY DEF Queued, Put
<1>2. \A k \in 0 .. p : Put(TxRing, f, p, s + 1)[k] = ((s + 1) + 1 + k) - (p + 1)
  <2>1. SUFFICES ASSUME NEW k \in 0 .. p
                 PROVE  Put(TxRing, f, p, s + 1)[k] = ((s + 1) + 1 + k) - (p + 1)
    OBVIOUS
  <2>2. k \in 0 .. TxRing - 1
    OBVIOUS
  <2>3. CASE k = p
    BY <2>2, <2>3 DEF Put
  <2>4. CASE k # p
    <3>1. k \in 0 .. p - 1 /\ Put(TxRing, f, p, s + 1)[k] = f[k]
      BY <2>2, <2>4 DEF Put
    <3>2. f[k] = (s + 1 + k) - p
      BY <3>1 DEF Queued
    <3>3. f[k] = ((s + 1) + 1 + k) - (p + 1)
      BY <3>2
    <3>4. QED
      BY <3>1, <3>3
  <2>5. QED
    BY <2>3, <2>4
<1>3. QED
  BY <1>1, <1>2 DEF Queued

\* The first frame that is not on the wire is sent.
LEMMA QueuedCompleted ==
    ASSUME TxRing \in Nat \ {0}, NEW v, NEW f, NEW p \in 0 .. TxRing, NEW q \in 0 .. p - 1,
           NEW s \in Nat,
           Queued(v, f, p, q, s)
    PROVE  Queued(Put(TxRing, v, q, "complete"), f, p, q + 1, s)
BY DEF Queued, Put

\* The oldest frame's descriptor is taken back.
LEMMA QueuedReclaimed ==
    ASSUME TxRing \in Nat \ {0}, NEW v, NEW f, NEW p \in 1 .. TxRing, NEW q \in 1 .. p, NEW s \in Nat,
           Queued(v, f, p, q, s)
    PROVE  Queued(Turn(TxRing, Put(TxRing, v, 0, "free")), Turn(TxRing, f), p - 1, q - 1, s)
<1>1. PICK u : u = Put(TxRing, v, 0, "free")
  OBVIOUS
<1>2. u[0] = "free" /\ \A k \in 1 .. TxRing - 1 :
         u[k] = IF k < q THEN "complete" ELSE IF k < p THEN "filled" ELSE "free"
  BY <1>1 DEF Queued, Put
<1>3. \A k \in 0 .. TxRing - 1 : Turn(TxRing, u)[k] = u[IF k = TxRing - 1 THEN 0 ELSE k + 1]
  BY DEF Turn
<1>4. \A k \in 0 .. TxRing - 1 : Turn(TxRing, u)[k]
         = IF k < q - 1 THEN "complete" ELSE IF k < p - 1 THEN "filled" ELSE "free"
  <2>1. SUFFICES ASSUME NEW k \in 0 .. TxRing - 1
                 PROVE  Turn(TxRing, u)[k]
                          = IF k < q - 1 THEN "complete" ELSE IF k < p - 1 THEN "filled" ELSE "free"
    OBVIOUS
  <2>2. CASE k = TxRing - 1
    <3>1. Turn(TxRing, u)[k] = "free"
      BY <2>2, <1>2, <1>3
    <3>2. QED
      BY <2>2, <3>1
  <2>3. CASE k # TxRing - 1
    <3>1. k + 1 \in 1 .. TxRing - 1 /\ Turn(TxRing, u)[k] = u[k + 1]
      BY <2>3, <1>3
    <3>2. QED
      BY <3>1, <1>2
  <2>4. QED
    BY <2>2, <2>3
<1>5. \A k \in 0 .. p - 2 : Turn(TxRing, f)[k] = (s + 1 + k) - (p - 1)
  <2>1. SUFFICES ASSUME NEW k \in 0 .. p - 2 PROVE Turn(TxRing, f)[k] = (s + 1 + k) - (p - 1)
    OBVIOUS
  <2>2. k + 1 \in 0 .. p - 1 /\ k \in 0 .. TxRing - 1 /\ k # TxRing - 1
    OBVIOUS
  <2>3. f[k + 1] = (s + 1 + (k + 1)) - p
    BY <2>2 DEF Queued
  <2>4. Turn(TxRing, f)[k] = f[k + 1]
    BY <2>2 DEF Turn
  <2>5. f[k + 1] = (s + 1 + k) - (p - 1)
    BY <2>3
  <2>6. QED
    BY <2>4, <2>5
<1>6. QED
  BY <1>1, <1>4, <1>5 DEF Queued

\* A card that finds a frame to send is at the first one not on the wire.
LEMMA CardIsAtFirst ==
    ASSUME TxRing \in Nat \ {0}, NEW v, NEW f, NEW d \in Nat, NEW p \in 0 .. TxRing, NEW q \in 0 .. p,
           NEW s, NEW c, NEW w, CardAt(v, f, d, p, q, s, c, w)
    PROVE  \A j \in 0 .. TxRing - 1 : c = (d + j) % TxRing /\ v[j] = "filled" => q < p /\ j = q
<1> SUFFICES ASSUME NEW j \in 0 .. TxRing - 1, c = (d + j) % TxRing, v[j] = "filled"
             PROVE  q < p /\ j = q
  OBVIOUS
<1>1. \A k \in 0 .. TxRing - 1 : (d + j) % TxRing = (d + k) % TxRing => j = k
  BY SlotsDiffer
<1>2. \A k \in 0 .. TxRing - 1 :
         v[k] = IF k < q THEN "complete" ELSE IF k < p THEN "filled" ELSE "free"
  BY DEF CardAt, Queued
<1>3. c = (d + q) % TxRing
  BY DEF CardAt
<1>4. CASE q < TxRing
  <2>1. q \in 0 .. TxRing - 1
    BY <1>4
  <2>2. j = q
    BY <2>1, <1>1, <1>3
  <2>3. QED
    BY <2>1, <2>2, <1>2
<1>5. CASE q = TxRing
  <2>1. (d + q) % TxRing = (d + 0) % TxRing
    <3>1. TxRing % TxRing = 0 /\ TxRing \in Nat
      OBVIOUS
    <3>2. (d + TxRing) % TxRing = d % TxRing
      BY <3>1, SlotWraps
    <3>3. d + 0 = d
      OBVIOUS
    <3>4. QED
      BY <3>2, <3>3, <1>5
  <2>2. 0 \in 0 .. TxRing - 1 /\ 0 < q
    BY <1>5
  <2>3. j = 0
    BY <2>1, <2>2, <1>1, <1>3
  <2>4. v[0] = "complete"
    BY <2>2, <1>2
  <2>5. QED
    BY <2>3, <2>4
<1>6. QED
  BY <1>4, <1>5

\* The card follows the links: the next slot after an index's slot.
LEMMA NextSlot ==
    ASSUME NEW n \in Nat \ {0}, NEW a \in Nat, NEW c, c = a % n
    PROVE  (c + 1) % n = (a + 1) % n
<1>1. PICK m \in 0 .. n - 1 : m = a % n
  BY Quotient
<1>2. 1 \in 0 .. n /\ m \in Nat
  OBVIOUS
<1>3. (a + 1) % n = IF m + 1 < n THEN m + 1 ELSE m + 1 - n
  BY <1>1, <1>2, SlotAfter
<1>4. m % n = m
  OBVIOUS
<1>5. (m + 1) % n = IF (m % n) + 1 < n THEN (m % n) + 1 ELSE (m % n) + 1 - n
  BY <1>2, SlotAfter
<1>6. QED
  BY <1>1, <1>3, <1>4, <1>5

\* Nothing of the card or the handler speaks of a host error.
Quiet == "host" \notin status /\ "host" \notin seen /\ isr # "host"

\* Until there is a host error the card keeps its place in the list.
LEMMA QuietSteps ==
    ASSUME [RingNext]_ringVars, host_errors' = 0
    PROVE  /\ host_errors = 0
           /\ Quiet /\ dn # NoDn => Quiet' /\ (card_download \/ (dn' = dn /\ wire' = wire))
<1> DEFINE Goal == /\ host_errors = 0
                   /\ Quiet /\ dn # NoDn =>
                         Quiet' /\ (card_download \/ (dn' = dn /\ wire' = wire))
<1> USE DEF Quiet, isrVars, cardVars
<1>1. ASSUME boomerang_start_xmit PROVE Goal
  BY <1>1 DEF boomerang_start_xmit
<1>2. ASSUME xmit_advance PROVE Goal
  BY <1>2 DEF xmit_advance
<1>3. ASSUME xmit_kick PROVE Goal
  BY <1>3 DEF xmit_kick
<1>4. ASSUME card_download PROVE Goal
  <2>1. host_errors' = host_errors /\ status' = status \cup {"tx"} /\ seen' = seen /\ isr' = isr
    BY <1>4 DEF card_download
  <2>2. QED
    BY <1>4, <2>1
<1>5. ASSUME NEW q, card_upload(q) PROVE Goal
  BY <1>5 DEF card_upload
<1>6. ASSUME card_stall \/ card_host_error PROVE Goal
  BY <1>6 DEF card_stall, card_host_error
<1>7. ASSUME boomerang_interrupt PROVE Goal
  BY <1>7 DEF boomerang_interrupt, After
<1>8. ASSUME tx_reclaim \/ tx_done \/ boomerang_rx \/ rx_restart PROVE Goal
  BY <1>8 DEF tx_reclaim, tx_done, boomerang_rx, rx_restart
<1>9. ASSUME tx_ack PROVE Goal
  BY <1>9 DEF tx_ack, After
<1>10. ASSUME rx_ack PROVE Goal
  BY <1>10 DEF rx_ack, After
<1>11. ASSUME host_reset PROVE Goal
  BY <1>11 DEF host_reset
<1>12. ASSUME UNCHANGED ringVars PROVE Goal
  BY <1>12 DEF ringVars
<1> HIDE DEF Goal
<1>13. Goal
  BY <1>1, <1>2, <1>3, <1>4, <1>5, <1>6, <1>7, <1>8, <1>9, <1>10, <1>11, <1>12, Zenon
  DEF RingNext, Sending, Card, Handler, xmit_refused
<1>14. QED
  BY <1>13 DEF Goal

\* The part of OrderInv about the ring.
WirePlace(t, f, c, d, s, n, a, w) ==
    \E q \in 0 .. Ahead(c, d, s) :
        CardAt(View(TxRing, t, d), View(TxRing, f, d), d, Ahead(c, d, s), q, n, a, w)

\* A step keeps the frames in order.
LEMMA OrderStep ==
    ASSUME RingInv, OrderInv, [RingNext]_ringVars
    PROVE  OrderInv'
<1>1. SUFFICES ASSUME host_errors' = 0
               PROVE  /\ Quiet'
                      /\ WirePlace(tx', tx_frame', cur_tx', dirty_tx', send', sent', dn', Len(wire'))
                      /\ \A k \in 1 .. Len(wire') : wire'[k] = k
  BY DEF OrderInv, Quiet, WirePlace
<1>2. host_errors = 0
  BY <1>1, QuietSteps
<1>3. /\ Quiet
      /\ WirePlace(tx, tx_frame, cur_tx, dirty_tx, send, sent, dn, Len(wire))
      /\ \A k \in 1 .. Len(wire) : wire[k] = k
  BY <1>2 DEF OrderInv, Quiet, WirePlace
<1>4. PICK p : p = Ahead(cur_tx, dirty_tx, send)
  OBVIOUS
<1>5. PICK v : v = View(TxRing, tx, dirty_tx)
  OBVIOUS
<1>6. PICK f : f = View(TxRing, tx_frame, dirty_tx)
  OBVIOUS
<1>7. PICK q \in 0 .. p : CardAt(v, f, dirty_tx, p, q, sent, dn, Len(wire))
  BY <1>3, <1>4, <1>5, <1>6 DEF WirePlace
<1>8. /\ TxRing \in Nat \ {0} /\ dirty_tx \in Nat /\ sent \in Nat /\ p \in 0 .. TxRing
      /\ RingTypeOK /\ wire \in Seq(Frames)
  <2>1. /\ RingTypeOK /\ p <= TxRing
    BY <1>4, AgreesView DEF RingInv
  <2>2. cur_tx \in 0 .. Counter - 1 /\ dirty_tx \in 0 .. Counter - 1 /\ sent \in Nat
    BY <2>1, RingNumbers DEF RingTypeOK
  <2>3. Gap(cur_tx, dirty_tx) \in Nat
    BY <2>2, GapFacts
  <2>4. p \in Nat
    BY <2>3, <1>4 DEF Ahead
  <2>5. TxRing \in Nat \ {0} /\ dirty_tx \in Nat /\ p \in 0 .. TxRing
    BY <2>1, <2>2, <2>4, RingNumbers
  <2>6. wire \in Seq(Frames)
    BY <2>1 DEF RingTypeOK
  <2>7. QED
    BY <2>1, <2>2, <2>5, <2>6
<1>9. /\ Queued(v, f, p, q, sent) /\ dn = (dirty_tx + q) % TxRing
      /\ Len(wire) + p = sent + q
  BY <1>7 DEF CardAt
<1>10. dn # NoDn
  <2>1. q \in 0 .. TxRing
    BY <1>8
  <2>2. dn \in 0 .. TxRing - 1
    BY <2>1, <1>8, <1>9, SlotsDiffer
  <2>3. QED
    BY <2>2, <1>8 DEF NoDn
<1>11. Quiet' /\ (card_download \/ (dn' = dn /\ wire' = wire))
  BY <1>1, <1>3, <1>10, QuietSteps
<1>12. ASSUME card_download
       PROVE  /\ WirePlace(tx', tx_frame', cur_tx', dirty_tx', send', sent', dn', Len(wire'))
              /\ \A k \in 1 .. Len(wire') : wire'[k] = k
  <2>1. PICK j \in 0 .. TxRing - 1 :
           /\ dn = (dirty_tx + j) % TxRing /\ v[j] = "filled" /\ f[j] = tx_frame[dn]
           /\ View(TxRing, tx', dirty_tx') = Put(TxRing, v, j, "complete")
    BY <1>8, <1>5, <1>6, <1>12, RingCompleted
  <2>2. q < p /\ j = q
    <3>1. \A i \in 0 .. TxRing - 1 : dn = (dirty_tx + i) % TxRing /\ v[i] = "filled" => q < p /\ i = q
      <4>1. TxRing \in Nat \ {0} /\ dirty_tx \in Nat /\ p \in 0 .. TxRing
        BY <1>8
      <4>2. PICK w : w = Len(wire)
        OBVIOUS
      <4>3. CardAt(v, f, dirty_tx, p, q, sent, dn, w)
        BY <1>7, <4>2
      <4>4. QED
        BY <4>1, <4>3, CardIsAtFirst
    <3>2. QED
      BY <2>1, <3>1
  <2>3. /\ cur_tx' = cur_tx /\ dirty_tx' = dirty_tx /\ send' = send /\ sent' = sent
        /\ tx_frame' = tx_frame /\ dn' = (dn + 1) % TxRing /\ wire' = Append(wire, tx_frame[dn])
    BY <1>12 DEF card_download
  <2>4. q + 1 \in 0 .. p /\ q \in 0 .. p - 1
    BY <2>2, <1>8
  <2>5. Queued(Put(TxRing, v, q, "complete"), f, p, q + 1, sent)
    BY <2>4, <1>8, <1>9, QueuedCompleted
  <2>6. dn' = (dirty_tx + (q + 1)) % TxRing
    <3>1. dirty_tx + q \in Nat /\ (dirty_tx + q) + 1 = dirty_tx + (q + 1)
      BY <2>4, <1>8
    <3>2. (dn + 1) % TxRing = ((dirty_tx + q) + 1) % TxRing
      BY <3>1, <1>8, <1>9, NextSlot
    <3>3. QED
      BY <3>1, <3>2, <2>3
  <2>7. PICK n \in Nat : n = Len(wire)
    BY <1>8
  <2>8. Len(wire') = n + 1
    BY <2>3, <2>7, <1>8
  <2>9. tx_frame[dn] = n + 1
    <3>1. f[q] = (sent + 1 + q) - p
      BY <2>4, <1>9 DEF Queued
    <3>2. n + p = sent + q
      BY <1>9, <2>7
    <3>3. (sent + 1 + q) - p = n + 1
      BY <3>2, <1>8, <2>4
    <3>4. QED
      BY <3>1, <3>3, <2>1, <2>2
  <2>10. (n + 1) + p = sent + (q + 1)
    BY <1>8, <1>9, <2>4, <2>7
  <2>11. CardAt(View(TxRing, tx', dirty_tx'), View(TxRing, tx_frame', dirty_tx'), dirty_tx', p, q + 1,
                sent', dn', Len(wire'))
    BY <2>1, <2>2, <2>3, <2>5, <2>6, <2>8, <2>10, <1>6 DEF CardAt
  <2>12. Ahead(cur_tx', dirty_tx', send') = p
    BY <2>3, <1>4
  <2>13. WirePlace(tx', tx_frame', cur_tx', dirty_tx', send', sent', dn', Len(wire'))
    BY <2>11, <2>12, <2>4 DEF WirePlace
  <2>14. \A k \in 1 .. n + 1 : wire'[k] = k
    <3>1. \A k \in 1 .. n : wire'[k] = wire[k]
      BY <2>3, <2>7, <1>8
    <3>2. wire'[n + 1] = n + 1
      BY <2>3, <2>7, <2>9, <1>8
    <3>3. \A k \in 1 .. n : wire[k] = k
      BY <1>3, <2>7
    <3>4. QED
      BY <3>1, <3>2, <3>3
  <2>15. QED
    BY <2>8, <2>13, <2>14
<1>13. ASSUME dn' = dn, wire' = wire, ~card_download
       PROVE  /\ WirePlace(tx', tx_frame', cur_tx', dirty_tx', send', sent', dn', Len(wire'))
              /\ \A k \in 1 .. Len(wire') : wire'[k] = k
  <2>1. SUFFICES \E i \in 0 .. Ahead(cur_tx', dirty_tx', send') :
                    CardAt(View(TxRing, tx', dirty_tx'), View(TxRing, tx_frame', dirty_tx'), dirty_tx',
                           Ahead(cur_tx', dirty_tx', send'), i, sent', dn, Len(wire))
    BY <1>3, <1>13 DEF WirePlace
  <2>2. CASE boomerang_start_xmit
    <3>1. /\ p \in 0 .. TxRing - 1 /\ Ahead(cur_tx', dirty_tx', send') = p + 1
          /\ View(TxRing, tx', dirty_tx') = Put(TxRing, v, p, "filled")
          /\ View(TxRing, tx_frame', dirty_tx') = Put(TxRing, f, p, sent + 1)
      BY <1>4, <1>5, <1>6, <1>8, <2>2, RingFilled
    <3>2. sent' = sent + 1 /\ dirty_tx' = dirty_tx
      BY <2>2 DEF boomerang_start_xmit
    <3>3. Queued(Put(TxRing, v, p, "filled"), Put(TxRing, f, p, sent + 1), p + 1, q, sent + 1)
      BY <3>1, <1>8, <1>9, QueuedFilled
    <3>4. q \in 0 .. p + 1 /\ Len(wire) + (p + 1) = (sent + 1) + q
      BY <1>8, <1>9
    <3>5. QED
      BY <3>1, <3>2, <3>3, <3>4, <1>9 DEF CardAt
  <2>3. CASE xmit_advance
    <3>1. Ahead(cur_tx', dirty_tx', send') = p
      <4>1. Ahead(cur_tx, dirty_tx, send) <= TxRing
        BY <1>4, <1>8
      <4>2. QED
        BY <4>1, <1>4, <1>8, <2>3, RingAdvanced
    <3>2. tx' = tx /\ tx_frame' = tx_frame /\ dirty_tx' = dirty_tx /\ sent' = sent
      BY <2>3 DEF xmit_advance
    <3>3. QED
      BY <3>1, <3>2, <1>5, <1>6, <1>7
  <2>4. CASE tx_reclaim
    <3>1. /\ p > 0 /\ Ahead(cur_tx', dirty_tx', send') = p - 1
          /\ v[0] = "complete"
          /\ View(TxRing, tx', dirty_tx') = Turn(TxRing, Put(TxRing, v, 0, "free"))
          /\ View(TxRing, tx_frame', dirty_tx') = Turn(TxRing, f)
          /\ \A k \in 0 .. TxRing : (dirty_tx' + k) % TxRing = (dirty_tx + (k + 1)) % TxRing
      BY <1>4, <1>5, <1>6, <1>8, <2>4, RingReclaimed
    <3>2. sent' = sent
      BY <2>4 DEF tx_reclaim
    <3>3. p \in 1 .. TxRing /\ q \in 1 .. p
      <4>1. v[0] = IF 0 < q THEN "complete" ELSE IF 0 < p THEN "filled" ELSE "free"
        BY <1>8, <1>9 DEF Queued
      <4>2. QED
        BY <4>1, <3>1, <1>8
    <3>4. Queued(Turn(TxRing, Put(TxRing, v, 0, "free")), Turn(TxRing, f), p - 1, q - 1, sent)
      BY <3>3, <1>8, <1>9, QueuedReclaimed
    <3>5. q - 1 \in 0 .. p - 1 /\ q - 1 \in 0 .. TxRing /\ (q - 1) + 1 = q
      BY <3>3, <1>8
    <3>6. dn = (dirty_tx' + (q - 1)) % TxRing
      BY <3>1, <3>5, <1>9
    <3>7. Len(wire) + (p - 1) = sent + (q - 1)
      <4>1. PICK n \in Nat : n = Len(wire)
        BY <1>8
      <4>2. n + p = sent + q
        BY <4>1, <1>9
      <4>3. QED
        BY <4>1, <4>2, <3>3, <1>8
    <3>8. QED
      BY <3>1, <3>2, <3>4, <3>5, <3>6, <3>7 DEF CardAt
  <2>5. CASE TxRingSame
    <3>1. /\ Ahead(cur_tx', dirty_tx', send') = p /\ tx' = tx /\ tx_frame' = tx_frame
          /\ dirty_tx' = dirty_tx /\ sent' = sent
      BY <1>4, <2>5 DEF TxRingSame, Ahead
    <3>2. QED
      BY <3>1, <1>5, <1>6, <1>7
  <2>6. QED
    BY <1>13, <2>2, <2>3, <2>4, <2>5, TxRingSteps, Zenon
<1>14. QED
  BY <1>11, <1>12, <1>13

\* Nothing is queued and nothing sent.
LEMMA OrderInit ==
    ASSUME RingInit
    PROVE  OrderInv
<1>1. Ahead(cur_tx, dirty_tx, send) = 0
  <2>1. Counter % Counter = 0
    BY RingNumbers
  <2>2. Gap(cur_tx, dirty_tx) = 0
    BY <2>1, RingNumbers DEF Gap, RingInit
  <2>3. QED
    BY <2>2 DEF Ahead, RingInit
<1>2. RingTypeOK /\ RingAgrees
  BY RingAtStart DEF RingInv
<1>3. InUse(TxRing, View(TxRing, tx, dirty_tx), 0)
  BY <1>1, <1>2, AgreesView
<1>4. TxRing \in Nat \ {0}
  BY RingNumbers
<1>5. Queued(View(TxRing, tx, dirty_tx), View(TxRing, tx_frame, dirty_tx), 0, 0, 0)
  BY <1>3, <1>4 DEF Queued, InUse
<1>6. dn = (dirty_tx + 0) % TxRing /\ Len(wire) = 0 /\ sent = 0
  <2>1. 0 % TxRing = 0
    BY <1>4
  <2>2. QED
    BY <2>1 DEF RingInit
<1>7. CardAt(View(TxRing, tx, dirty_tx), View(TxRing, tx_frame, dirty_tx), dirty_tx, 0, 0, sent, dn, Len(wire))
  BY <1>5, <1>6 DEF CardAt
<1>8. QED
  BY <1>1, <1>6, <1>7 DEF OrderInv, RingInit

\* Frames reach the wire in the order of boomerang_start_xmit, each once, for
\* any ring, until a host error.
THEOREM WireKeepsOrder == RingSpec => []WireInOrder
<1>1. RingInit => OrderInv
  BY OrderInit
<1>2. RingInv /\ OrderInv /\ [RingNext]_ringVars => OrderInv'
  BY OrderStep
<1>3. OrderInv => WireInOrder
  BY DEF OrderInv, WireInOrder
<1>4. QED
  BY <1>1, <1>2, <1>3, RingInvariant, PTL DEF RingSpec

-----------------------------------------------------------------------------
(* The receive ring and the queue it implements.                           *)

\* BoomerangRing's Stored, for any ring r of frames f seen from index c.
StoredOf(r, f, c) ==
    LET held == {k \in 0 .. RxRing : \A j \in 0 .. k - 1 : r[(c + j) % RxRing] # "free"}
        n == CHOOSE k \in held : \A j \in held : j <= k
    IN  [k \in 1 .. n |-> f[(c + k - 1) % RxRing]]

\* The first n of the frames seen from an index.
Listed(v, n) == [k \in 1 .. n |-> v[k - 1]]

\* The frames stored are those of the descriptors in use.
LEMMA StoredIs ==
    ASSUME RxRing \in Nat \ {0}, NEW r, NEW f, NEW c \in Nat, NEW n \in 0 .. RxRing,
           InUse(RxRing, View(RxRing, r, c), n)
    PROVE  StoredOf(r, f, c) = Listed(View(RxRing, f, c), n)
<1> DEFINE held == {k \in 0 .. RxRing : \A j \in 0 .. k - 1 : r[(c + j) % RxRing] # "free"}
<1>1. \A j \in 0 .. RxRing - 1 : (r[(c + j) % RxRing] = "free") <=> (j >= n)
  BY DEF InUse, View
<1>2. \A k \in 0 .. RxRing : k \in held <=> k <= n
  <2>1. SUFFICES ASSUME NEW k \in 0 .. RxRing PROVE k \in held <=> k <= n
    OBVIOUS
  <2>2. ASSUME k <= n PROVE k \in held
    <3>1. \A j \in 0 .. k - 1 : j \in 0 .. RxRing - 1 /\ ~(j >= n)
      BY <2>2
    <3>2. QED
      BY <3>1, <1>1
  <2>3. ASSUME k > n PROVE k \notin held
    <3>1. n \in 0 .. k - 1 /\ n \in 0 .. RxRing - 1 /\ n >= n
      BY <2>3
    <3>2. r[(c + n) % RxRing] = "free"
      BY <3>1, <1>1
    <3>3. QED
      BY <3>1, <3>2
  <2>4. k > n <=> ~(k <= n)
    OBVIOUS
  <2>5. QED
    BY <2>2, <2>3, <2>4, Zenon
<1>3. \A k \in held : k \in 0 .. RxRing
  OBVIOUS
<1> HIDE DEF held
<1>4. n \in held /\ \A j \in held : j <= n
  BY <1>2, <1>3
<1>5. (CHOOSE k \in held : \A j \in held : j <= k) = n
  <2>1. \A k \in held : (\A j \in held : j <= k) => k = n
    BY <1>2, <1>3, <1>4
  <2>2. QED
    BY <2>1, <1>4
<1>6. StoredOf(r, f, c) = [k \in 1 .. n |-> f[(c + k - 1) % RxRing]]
  BY <1>5 DEF StoredOf, held
<1>7. \A k \in 1 .. n : f[(c + k - 1) % RxRing] = View(RxRing, f, c)[k - 1]
  <2>1. SUFFICES ASSUME NEW k \in 1 .. n
                 PROVE  f[(c + k - 1) % RxRing] = View(RxRing, f, c)[k - 1]
    OBVIOUS
  <2>2. k - 1 \in 0 .. RxRing - 1 /\ c + k - 1 = c + (k - 1)
    OBVIOUS
  <2>3. QED
    BY <2>2 DEF View
<1>8. QED
  BY <1>6, <1>7 DEF Listed

\* Taking the first frame away.
LEMMA ListedTail ==
    ASSUME RxRing \in Nat \ {0}, NEW v \in [0 .. RxRing - 1 -> 0 .. MaxArrivals],
           NEW n \in 0 .. RxRing, n > 0
    PROVE  /\ Listed(v, n) # <<>> /\ Head(Listed(v, n)) = v[0]
           /\ Listed(Turn(RxRing, v), n - 1) = Tail(Listed(v, n))
<1>1. PICK s : s = Listed(v, n)
  OBVIOUS
<1>2. \A k \in 1 .. n : s[k] = v[k - 1]
  BY <1>1 DEF Listed
<1>3. s \in Seq(0 .. MaxArrivals) /\ Len(s) = n /\ s # <<>>
  <2>1. \A k \in 1 .. n : k - 1 \in 0 .. RxRing - 1
    OBVIOUS
  <2>2. \A k \in 1 .. n : v[k - 1] \in 0 .. MaxArrivals
    BY <2>1
  <2>3. s \in Seq(0 .. MaxArrivals) /\ Len(s) = n
    BY <1>1, <2>2 DEF Listed
  <2>4. QED
    BY <2>3
<1>4. Head(s) = v[0]
  <2>1. Head(s) = s[1]
    BY <1>3
  <2>2. s[1] = v[0]
    BY <1>2
  <2>3. QED
    BY <2>1, <2>2
<1>5. PICK a : a = Tail(s)
  OBVIOUS
<1>6. a \in Seq(0 .. MaxArrivals) /\ Len(a) = n - 1 /\ \A k \in 1 .. n - 1 : a[k] = s[k + 1]
  BY <1>3, <1>5, HeadTailProperties
<1>7. PICK b : b = Listed(Turn(RxRing, v), n - 1)
  OBVIOUS
<1>8. \A k \in 1 .. n - 1 : b[k] = v[k]
  BY <1>7 DEF Listed, Turn
<1>9. \A k \in 1 .. n - 1 : a[k] = v[k]
  <2>1. \A k \in 1 .. n - 1 : k + 1 \in 1 .. n /\ (k + 1) - 1 = k
    OBVIOUS
  <2>2. \A k \in 1 .. n - 1 : s[k + 1] = v[k]
    BY <2>1, <1>2
  <2>3. QED
    BY <2>2, <1>6
<1>10. a = [k \in 1 .. n - 1 |-> a[k]]
  BY <1>6
<1>11. b = [k \in 1 .. n - 1 |-> b[k]]
  BY <1>7 DEF Listed
<1>12. a = b
  BY <1>8, <1>9, <1>10, <1>11
<1>13. QED
  BY <1>1, <1>3, <1>4, <1>5, <1>7, <1>12

\* Storing behind the last frame.
LEMMA ListedAppend ==
    ASSUME RxRing \in Nat \ {0}, NEW v \in [0 .. RxRing - 1 -> 0 .. MaxArrivals],
           NEW n \in 0 .. RxRing - 1, NEW x \in 0 .. MaxArrivals
    PROVE  Listed(Put(RxRing, v, n, x), n + 1) = Append(Listed(v, n), x)
<1>1. n \in Nat /\ \A k \in 1 .. n : k - 1 \in 0 .. RxRing - 1
  OBVIOUS
<1>2. Listed(v, n) \in Seq(0 .. MaxArrivals) /\ Len(Listed(v, n)) = n
  <2>1. \A k \in 1 .. n : v[k - 1] \in 0 .. MaxArrivals
    BY <1>1
  <2>2. QED
    BY <1>1, <2>1 DEF Listed
<1>3. \A k \in 1 .. n : Listed(v, n)[k] = v[k - 1]
  BY DEF Listed
<1>4. PICK a : a = Append(Listed(v, n), x)
  OBVIOUS
<1>5. /\ a \in Seq(0 .. MaxArrivals) /\ Len(a) = n + 1 /\ a[n + 1] = x
      /\ \A k \in 1 .. n : a[k] = v[k - 1]
  BY <1>4, <1>2, <1>3
<1>6. PICK b : b = Listed(Put(RxRing, v, n, x), n + 1)
  OBVIOUS
<1>7. \A k \in 1 .. n + 1 : b[k] = IF k = n + 1 THEN x ELSE v[k - 1]
  BY <1>6 DEF Listed, Put
<1>8. \A k \in 1 .. n + 1 : b[k] = a[k]
  BY <1>5, <1>7
<1>9. a = [k \in 1 .. n + 1 |-> a[k]]
  BY <1>5
<1>10. b = [k \in 1 .. n + 1 |-> b[k]]
  BY <1>6 DEF Listed
<1>11. QED
  BY <1>4, <1>6, <1>8, <1>9, <1>10

\* The n descriptors in use follow cur_rx, and the card stores behind them
\* as long as it has a list.
RxRun(v, n, c, u) ==
    /\ InUse(RxRing, v, n)
    /\ u # NoUp => u = (c + n) % RxRing

RxInv == \E n \in 0 .. RxRing : RxRun(View(RxRing, rx, cur_rx), n, cur_rx, up)

\* Steps that leave the receive ring and what it says alone; a reset of the
\* card takes its list away.
RxRingSame == /\ UNCHANGED <<rx, rx_frame, cur_rx, arrived, received>>
              /\ up' = up \/ up' = NoUp

\* A step stores, takes, or leaves the ring alone.
LEMMA RxRingSteps ==
    ASSUME [RingNext]_ringVars
    PROVE  (\E q \in {"good", "bad"} : card_upload(q)) \/ boomerang_rx \/ RxRingSame
<1> USE DEF RxRingSame, rxVars, cardVars
<1>1. ASSUME boomerang_start_xmit \/ xmit_advance \/ xmit_kick PROVE RxRingSame
  BY <1>1 DEF boomerang_start_xmit, xmit_advance, xmit_kick
<1>2. ASSUME card_download \/ card_stall \/ card_host_error PROVE RxRingSame
  BY <1>2 DEF card_download, card_stall, card_host_error
<1>3. ASSUME \/ boomerang_interrupt \/ tx_reclaim \/ tx_done \/ tx_ack
             \/ rx_restart \/ rx_ack \/ host_reset
      PROVE  RxRingSame
  BY <1>3 DEF boomerang_interrupt, tx_reclaim, tx_done, tx_ack,
              rx_restart, rx_ack, host_reset
<1>4. ASSUME UNCHANGED ringVars PROVE RxRingSame
  BY <1>4 DEF ringVars
<1> HIDE DEF RxRingSame
<1>5. QED
  BY <1>1, <1>2, <1>3, <1>4, Zenon
  DEF RingNext, Sending, Card, Handler, xmit_refused

\* The queue of frames, in this state and in the next.
LEMMA StoredNow ==
    /\ Stored = StoredOf(rx, rx_frame, cur_rx)
    /\ Stored' = StoredOf(rx', rx_frame', cur_rx')
BY DEF Stored, StoredOf

\* What the steps below know of the ring before they are taken.
LEMMA RxState ==
    ASSUME RingTypeOK
    PROVE  /\ RxRing \in Nat \ {0} /\ Counter \in Nat \ {0} /\ Counter % RxRing = 0
           /\ cur_rx \in 0 .. Counter - 1 /\ cur_rx \in Nat
           /\ rx \in [0 .. RxRing - 1 -> {"free", "good", "bad"}]
           /\ rx_frame \in [0 .. RxRing - 1 -> 0 .. MaxArrivals]
           /\ View(RxRing, rx_frame, cur_rx) \in [0 .. RxRing - 1 -> 0 .. MaxArrivals]
<1>1. /\ RxRing \in Nat \ {0} /\ Counter \in Nat \ {0} /\ Counter % RxRing = 0
      /\ cur_rx \in 0 .. Counter - 1 /\ cur_rx \in Nat
      /\ rx \in [0 .. RxRing - 1 -> {"free", "good", "bad"}]
      /\ rx_frame \in [0 .. RxRing - 1 -> 0 .. MaxArrivals]
  <2>1. RxRing \in Nat \ {0} /\ Counter \in Nat \ {0} /\ Counter % RxRing = 0
    BY RingNumbers
  <2>2. /\ cur_rx \in 0 .. Counter - 1
        /\ rx \in [0 .. RxRing - 1 -> {"free", "good", "bad"}]
        /\ rx_frame \in [0 .. RxRing - 1 -> 0 .. MaxArrivals]
    BY DEF RingTypeOK, RxSlots
  <2>3. QED
    BY <2>1, <2>2
<1>2. \A k \in 0 .. RxRing - 1 : (cur_rx + k) % RxRing \in 0 .. RxRing - 1
  BY <1>1, SlotsDiffer
<1>3. View(RxRing, rx_frame, cur_rx) \in [0 .. RxRing - 1 -> 0 .. MaxArrivals]
  BY <1>1, <1>2 DEF View
<1>4. QED
  BY <1>1, <1>3

\* A card that finds a free descriptor is right behind those in use.
LEMMA UploadHasRoom ==
    ASSUME RxRing \in Nat \ {0}, NEW r, NEW c \in Nat, NEW n \in 0 .. RxRing, NEW u,
           RxRun(View(RxRing, r, c), n, c, u), u # NoUp, r[u] = "free"
    PROVE  n < RxRing /\ u = (c + n) % RxRing
<1>1. u = (c + n) % RxRing
  BY DEF RxRun
<1>2. ASSUME n = RxRing PROVE FALSE
  <2>1. (c + RxRing) % RxRing = (c + 0) % RxRing
    <3>1. RxRing % RxRing = 0 /\ RxRing \in Nat
      OBVIOUS
    <3>2. (c + RxRing) % RxRing = c % RxRing
      BY <3>1, SlotWraps
    <3>3. c + 0 = c
      OBVIOUS
    <3>4. QED
      BY <3>2, <3>3
  <2>2. 0 \in 0 .. RxRing - 1 /\ ~(0 >= n)
    BY <1>2
  <2>3. View(RxRing, r, c)[0] = r[u]
    BY <1>1, <1>2, <2>1, <2>2 DEF View
  <2>4. QED
    BY <2>2, <2>3 DEF RxRun, InUse
<1>3. QED
  BY <1>1, <1>2

\* A frame the card stores is accepted behind the others.
LEMMA UploadAccepts ==
    ASSUME RingTypeOK, RxInv, NEW q \in {"good", "bad"}, card_upload(q)
    PROVE  RxInv' /\ Abstract!Accept
<1>1. PICK n \in 0 .. RxRing : RxRun(View(RxRing, rx, cur_rx), n, cur_rx, up)
  BY DEF RxInv
<1>2. /\ RxRing \in Nat \ {0} /\ cur_rx \in Nat
      /\ rx \in [0 .. RxRing - 1 -> {"free", "good", "bad"}]
      /\ rx_frame \in [0 .. RxRing - 1 -> 0 .. MaxArrivals]
      /\ View(RxRing, rx_frame, cur_rx) \in [0 .. RxRing - 1 -> 0 .. MaxArrivals]
  BY RxState
<1>3. /\ up # NoUp /\ rx[up] = "free" /\ arrived < MaxArrivals
      /\ arrived' = arrived + 1 /\ received' = received /\ cur_rx' = cur_rx
      /\ up' = (up + 1) % RxRing
      /\ \A s \in 0 .. RxRing - 1 : rx'[s] = IF s = up THEN q ELSE rx[s]
      /\ \A s \in 0 .. RxRing - 1 : rx_frame'[s] = IF s = up THEN arrived + 1 ELSE rx_frame[s]
  BY <1>2 DEF card_upload
<1>4. n < RxRing /\ up = (cur_rx + n) % RxRing
  <2>1. RxRing \in Nat \ {0} /\ cur_rx \in Nat /\ up # NoUp /\ rx[up] = "free"
    BY <1>2, <1>3
  <2>2. QED
    BY <2>1, <1>1, UploadHasRoom
<1>5. n \in 0 .. RxRing - 1 /\ n + 1 \in 0 .. RxRing
  BY <1>2, <1>4
<1>6. PICK v : v = View(RxRing, rx, cur_rx)
  OBVIOUS
<1>7. PICK f : f = View(RxRing, rx_frame, cur_rx)
  OBVIOUS
<1>8. /\ View(RxRing, rx', cur_rx) = Put(RxRing, v, n, q)
      /\ View(RxRing, rx_frame', cur_rx) = Put(RxRing, f, n, arrived + 1)
  <2>1. RxRing \in Nat \ {0} /\ cur_rx \in Nat /\ n \in 0 .. RxRing - 1
    BY <1>2, <1>5
  <2>2. up = (cur_rx + n) % RxRing
    BY <1>4
  <2>3. \A s \in 0 .. RxRing - 1 : rx'[s] = IF s = up THEN q ELSE rx[s]
    BY <1>3
  <2>4. View(RxRing, rx', cur_rx) = Put(RxRing, v, n, q)
    BY <2>1, <2>2, <2>3, <1>6, ViewSet
  <2>5. PICK x : x = arrived + 1
    OBVIOUS
  <2>6. \A s \in 0 .. RxRing - 1 : rx_frame'[s] = IF s = up THEN x ELSE rx_frame[s]
    BY <1>3, <2>5
  <2>7. View(RxRing, rx_frame', cur_rx) = Put(RxRing, f, n, x)
    BY <2>1, <2>2, <2>6, <1>7, ViewSet
  <2>8. QED
    BY <2>4, <2>5, <2>7
<1>9. InUse(RxRing, v, n)
  BY <1>1, <1>6 DEF RxRun
<1>10. InUse(RxRing, Put(RxRing, v, n, q), n + 1)
  <2>1. q # "free"
    OBVIOUS
  <2>2. QED
    BY <2>1, <1>2, <1>4, <1>9, InUseMoves
<1>11. up' = (cur_rx + (n + 1)) % RxRing
  <2>1. cur_rx + n \in Nat /\ (cur_rx + n) + 1 = cur_rx + (n + 1)
    BY <1>2, <1>5
  <2>2. (up + 1) % RxRing = ((cur_rx + n) + 1) % RxRing
    BY <2>1, <1>2, <1>4, NextSlot
  <2>3. QED
    BY <2>1, <2>2, <1>3
<1>12. RxInv'
  <2>1. RxRun(View(RxRing, rx', cur_rx'), n + 1, cur_rx', up')
    BY <1>3, <1>8, <1>10, <1>11 DEF RxRun
  <2>2. QED
    BY <2>1, <1>5 DEF RxInv
<1>13. Stored' = Append(Stored, arrived + 1)
  <2>1. Stored = Listed(f, n)
    BY <1>2, <1>6, <1>7, <1>9, StoredIs, StoredNow
  <2>2. Stored' = Listed(Put(RxRing, f, n, arrived + 1), n + 1)
    BY <1>2, <1>3, <1>5, <1>8, <1>10, StoredIs, StoredNow
  <2>3. arrived + 1 \in 0 .. MaxArrivals
    BY <1>3, RingNumbers DEF RingTypeOK
  <2>4. f \in [0 .. RxRing - 1 -> 0 .. MaxArrivals]
    BY <1>2, <1>7
  <2>5. Listed(Put(RxRing, f, n, arrived + 1), n + 1) = Append(Listed(f, n), arrived + 1)
    <3>1. RxRing \in Nat \ {0}
      BY <1>2
    <3>2. n \in 0 .. RxRing - 1
      BY <1>5
    <3>3. QED
      BY <2>3, <2>4, <3>1, <3>2, ListedAppend
  <2>6. QED
    BY <2>1, <2>2, <2>5
<1>14. QED
  BY <1>3, <1>12, <1>13 DEF Abstract!Accept

\* The oldest frame is delivered, or lost to an error or a failed allocation.
LEMMA TakeDelivers ==
    ASSUME RingTypeOK, RxInv, boomerang_rx
    PROVE  RxInv' /\ (Abstract!Deliver \/ Abstract!Lose)
<1>1. PICK n \in 0 .. RxRing : RxRun(View(RxRing, rx, cur_rx), n, cur_rx, up)
  BY DEF RxInv
<1>2. /\ RxRing \in Nat \ {0} /\ Counter \in Nat \ {0} /\ Counter % RxRing = 0
      /\ cur_rx \in 0 .. Counter - 1 /\ cur_rx \in Nat
      /\ rx \in [0 .. RxRing - 1 -> {"free", "good", "bad"}]
      /\ View(RxRing, rx_frame, cur_rx) \in [0 .. RxRing - 1 -> 0 .. MaxArrivals]
  BY RxState
<1>3. /\ rx[cur_rx % RxRing] # "free"
      /\ \/ received' = Append(received, rx_frame[cur_rx % RxRing])
         \/ received' = received
      /\ arrived' = arrived /\ up' = up /\ rx_frame' = rx_frame
      /\ cur_rx' = (cur_rx + 1) % Counter
      /\ \A s \in 0 .. RxRing - 1 : rx'[s] = IF s = cur_rx % RxRing THEN "free" ELSE rx[s]
  BY <1>2 DEF boomerang_rx, MoreRx, RxEntry, cardVars
<1>4. PICK v : v = View(RxRing, rx, cur_rx)
  OBVIOUS
<1>5. PICK f : f = View(RxRing, rx_frame, cur_rx)
  OBVIOUS
<1>6. /\ 0 \in 0 .. RxRing - 1 /\ cur_rx % RxRing = (cur_rx + 0) % RxRing
      /\ v[0] = rx[cur_rx % RxRing] /\ f[0] = rx_frame[cur_rx % RxRing]
  <2>1. 0 \in 0 .. RxRing - 1 /\ cur_rx + 0 = cur_rx
    BY <1>2
  <2>2. QED
    BY <2>1, <1>4, <1>5 DEF View
<1>7. InUse(RxRing, v, n)
  BY <1>1, <1>4 DEF RxRun
<1>8. n > 0
  BY <1>3, <1>6, <1>7 DEF InUse
<1>9. View(RxRing, rx', cur_rx) = Put(RxRing, v, 0, "free")
  <2>1. RxRing \in Nat \ {0} /\ cur_rx \in Nat /\ 0 \in 0 .. RxRing - 1
    BY <1>2, <1>6
  <2>2. PICK b : b = cur_rx % RxRing
    OBVIOUS
  <2>3. b = (cur_rx + 0) % RxRing
    BY <2>2, <1>6
  <2>4. \A s \in 0 .. RxRing - 1 : rx'[s] = IF s = b THEN "free" ELSE rx[s]
    BY <2>2, <1>3
  <2>5. QED
    BY <2>1, <2>3, <2>4, <1>4, ViewSet
<1>10. /\ View(RxRing, rx', cur_rx') = Turn(RxRing, Put(RxRing, v, 0, "free"))
       /\ View(RxRing, rx_frame', cur_rx') = Turn(RxRing, f)
  <2>1. \A t : View(RxRing, t, (cur_rx + 1) % Counter) = Turn(RxRing, View(RxRing, t, cur_rx))
    BY <1>2, ViewNext, ZenonT(60)
  <2>2. QED
    BY <2>1, <1>3, <1>5, <1>9
<1>11. InUse(RxRing, Turn(RxRing, Put(RxRing, v, 0, "free")), n - 1)
  BY <1>2, <1>7, <1>8, InUseMoves
<1>12. n - 1 \in 0 .. RxRing /\ (n - 1) + 1 = n
  BY <1>2, <1>8
<1>13. (cur_rx' + (n - 1)) % RxRing = (cur_rx + n) % RxRing
  <2>1. \A k \in 0 .. RxRing : (((cur_rx + 1) % Counter) + k) % RxRing = (cur_rx + (k + 1)) % RxRing
    BY <1>2, IndexWraps, ZenonT(60)
  <2>2. QED
    BY <2>1, <1>3, <1>12
<1>14. RxInv'
  <2>1. RxRun(View(RxRing, rx', cur_rx'), n - 1, cur_rx', up')
    BY <1>1, <1>3, <1>10, <1>11, <1>13 DEF RxRun
  <2>2. QED
    BY <2>1, <1>12 DEF RxInv
<1>15. /\ Stored # <<>> /\ Head(Stored) = f[0]
       /\ Stored' = Tail(Stored)
  <2>1. Stored = Listed(f, n)
    BY <1>2, <1>4, <1>5, <1>7, StoredIs, StoredNow
  <2>2. cur_rx' \in Nat
    BY <1>2, <1>3
  <2>3. Stored' = Listed(Turn(RxRing, f), n - 1)
    BY <2>2, <1>2, <1>10, <1>11, <1>12, StoredIs, StoredNow
  <2>4. f \in [0 .. RxRing - 1 -> 0 .. MaxArrivals]
    BY <1>2, <1>5
  <2>5. /\ Listed(f, n) # <<>> /\ Head(Listed(f, n)) = f[0]
        /\ Listed(Turn(RxRing, f), n - 1) = Tail(Listed(f, n))
    <3>1. RxRing \in Nat \ {0}
      BY <1>2
    <3>2. QED
      BY <2>4, <3>1, <1>8, ListedTail
  <2>6. QED
    BY <2>1, <2>3, <2>5
<1>16. CASE received' = received
  BY <1>3, <1>14, <1>15, <1>16 DEF Abstract!Lose
<1>17. CASE received' = Append(received, rx_frame[cur_rx % RxRing])
  BY <1>3, <1>6, <1>14, <1>15, <1>17 DEF Abstract!Deliver
<1>18. QED
  BY <1>3, <1>16, <1>17

\* The ring begins empty.
LEMMA RxInit ==
    ASSUME RingInit
    PROVE  RxInv /\ Abstract!Init
<1>1. /\ RxRing \in Nat \ {0} /\ cur_rx \in Nat
      /\ rx = [s \in 0 .. RxRing - 1 |-> "free"] /\ up = 0 /\ cur_rx = 0
  BY RingNumbers DEF RingInit, RxSlots
<1>2. \A k \in 0 .. RxRing - 1 : (cur_rx + k) % RxRing \in 0 .. RxRing - 1
  BY <1>1, SlotsDiffer
<1>3. \A k \in 0 .. RxRing - 1 : rx[(cur_rx + k) % RxRing] = "free" /\ k >= 0
  <2>1. \A s \in 0 .. RxRing - 1 : rx[s] = "free"
    BY <1>1
  <2>2. \A k \in 0 .. RxRing - 1 : k >= 0
    OBVIOUS
  <2>3. QED
    BY <2>1, <2>2, <1>2, Zenon
<1>4. InUse(RxRing, View(RxRing, rx, cur_rx), 0)
  BY <1>3 DEF InUse, View
<1>5. 0 % RxRing = 0 /\ 0 \in 0 .. RxRing
  BY <1>1
<1>6. RxInv
  BY <1>1, <1>4, <1>5 DEF RxInv, RxRun
<1>7. Stored = <<>>
  <2>1. Stored = Listed(View(RxRing, rx_frame, cur_rx), 0)
    BY <1>1, <1>4, <1>5, StoredIs, StoredNow
  <2>2. QED
    BY <2>1 DEF Listed
<1>8. QED
  BY <1>6, <1>7 DEF Abstract!Init, RingInit

\* Reception is a first-in first-out queue whatever the size of the ring:
\* cur_rx and the card's list pointer stay in step through errors, failed
\* allocations, stalls and resets, and the wrap of the index.
THEOREM RingReceivesInOrder == RingSpec => ReceivesInOrder
<1>1. RingInit => RxInv /\ Abstract!Init
  BY RxInit
<1>2. RingInv /\ RxInv /\ [RingNext]_ringVars
        => RxInv' /\ [Abstract!Next]_Abstract!vars
  <2>1. SUFFICES ASSUME RingInv, RxInv, [RingNext]_ringVars
                 PROVE  RxInv' /\ [Abstract!Next]_Abstract!vars
    OBVIOUS
  <2>2. RingTypeOK
    BY <2>1 DEF RingInv
  <2>3. CASE \E q \in {"good", "bad"} : card_upload(q)
    <3>1. RxInv' /\ Abstract!Accept
      BY <2>1, <2>2, <2>3, UploadAccepts
    <3>2. QED
      BY <3>1 DEF Abstract!Next
  <2>4. CASE boomerang_rx
    <3>1. RxInv' /\ (Abstract!Deliver \/ Abstract!Lose)
      BY <2>1, <2>2, <2>4, TakeDelivers
    <3>2. QED
      BY <3>1 DEF Abstract!Next
  <2>5. CASE RxRingSame
    <3>1. /\ rx' = rx /\ rx_frame' = rx_frame /\ cur_rx' = cur_rx
          /\ arrived' = arrived /\ received' = received
          /\ up' # NoUp => up' = up
      BY <2>5 DEF RxRingSame
    <3>2. RxInv'
      BY <2>1, <3>1 DEF RxInv, RxRun
    <3>3. UNCHANGED Abstract!vars
      BY <3>1, StoredNow DEF Abstract!vars
    <3>4. QED
      BY <3>2, <3>3
  <2>6. QED
    BY <2>1, <2>3, <2>4, <2>5, RxRingSteps
<1>3. QED
  BY <1>1, <1>2, RingInvariant, PTL DEF RingSpec, ReceivesInOrder, Abstract!Spec
=============================================================================
