------------------------------ MODULE SendPath ------------------------------
(***************************************************************************)
(* The send path of src/c/api.c: pd_send_packet, the bandwidth quota of an *)
(* extended handle, the choice of a NIC (preference, five load-balancing   *)
(* modes, routing, round robin), the setters that steer that choice, and   *)
(* the recovery from a failed NIC.  The handles are open throughout; which *)
(* handles are open is the business of PacketApi.  Of src/c/routing.c the  *)
(* module has the bridge table, which the choice of a NIC reads and every  *)
(* other user of the table may change in between.                          *)
(***************************************************************************)
EXTENDS Naturals, FiniteSets

CONSTANTS
    Handles,     \* open handles
    HandleNic,   \* handles[].number: the interface each handle was opened on
    NicCount,    \* hardware_get_nic_count()
    Dests,       \* the MAC addresses frames come from and go to
    Sizes,       \* packet lengths, within 60 .. 1514
    Classes,     \* QoS classes an application asks for, within 0 .. 7
    Priorities,  \* priorities an application sets, within 0 .. 255
    Limits,      \* bandwidth limits, 0 for none
    MaxFlows,    \* g_max_bridge_entries: room in the bridge table
    Configs,     \* load-balancing configurations an application sets
    Window,      \* length of the quota window in ticks; 1000 in the code
    Delays,      \* how far the BIOS tick count moves at a time
    MaxTime,     \* bound: ticks
    MaxFailures  \* bound: failures counted per NIC

Nics == 0 .. NicCount - 1
NoNic == NicCount
NoPreference == 255
NullPacket == "NULL"
Modes == {"round_robin", "weighted", "performance", "application", "flow_aware"}

ASSUME SendAssumption ==
    /\ NicCount \in Nat \ {0}
    /\ NicCount < NoPreference
    /\ HandleNic \in [Handles -> Nics]
    /\ NullPacket \notin Dests
    /\ Sizes \subseteq 60 .. 1514
    /\ Classes \subseteq 0 .. 7
    /\ Priorities \subseteq 0 .. 255
    /\ Limits \subseteq Nat
    /\ MaxFlows \in Nat \ {0}
    \* api_weighted_select_nic divides by the sum of the weights, unchecked
    /\ Configs \subseteq {c \in [mode : Modes, primary : Nics, secondary : Nics, wp : Nat, ws : Nat] :
                              c.wp + c.ws > 0}
    /\ Window \in Nat /\ MaxTime \in Nat /\ MaxFailures \in Nat
    /\ Delays \subseteq Nat \ {0}

VARIABLES
    present,        \* NICs for which routing_validate_nic holds
    ext,            \* the extended handle of each handle
    lb,             \* global_lb_config
    lb_on,          \* load_balancing_enabled
    last_nic_used,
    util,           \* nic_utilization
    errors,         \* nic_error_counts
    routing,        \* routing_is_enabled()
    default_nic,    \* g_routing_table.default_nic
    flows,          \* the bridge table: the NIC learned for each address, NoNic if none
    now,            \* BIOS tick count
    failed          \* history: the NIC last reported as failed, NoNic if none

vars == <<present, ext, lb, lb_on, last_nic_used, util, errors, routing, default_nic,
          flows, now, failed>>

FlagNames == {"routing_aware", "load_balance", "bandwidth", "nic"}

\* An extended handle as api_upgrade_handle makes it.  peak, the highest limit
\* in force in the window, is history.
NewExt(h) ==
    [flags |-> {"routing_aware"}, iface |-> HandleNic[h], prio |-> 128, pref |-> NoPreference,
     limit |-> 0, bytes |-> 0, start |-> 0, peak |-> 0]
NoExt == [flags |-> {}, iface |-> NoNic, prio |-> 128, pref |-> NoPreference,
          limit |-> 0, bytes |-> 0, start |-> 0, peak |-> 0]
HasExt(h) == ext[h].flags # {}

\* api_get_extended_handle, or else api_upgrade_handle
ExtOf(h) == IF HasExt(h) THEN ext[h] ELSE NewExt(h)

TypeOK ==
    /\ present \subseteq Nics
    /\ ext \in [Handles -> [flags : SUBSET FlagNames, iface : Nics \cup {NoNic}, prio : 0 .. 255,
                            pref : Nics \cup {NoPreference}, limit : Nat, bytes : Nat,
                            start : Nat, peak : Nat]]
    /\ lb \in [mode : Modes, primary : Nat, secondary : Nat, wp : Nat, ws : Nat]
    /\ lb_on \in BOOLEAN
    /\ last_nic_used \in Nics
    /\ util \in [Nics -> 0 .. 100]
    /\ errors \in [Nics -> 0 .. MaxFailures]
    /\ routing \in BOOLEAN
    /\ default_nic \in Nics
    /\ flows \in [Dests -> Nics \cup {NoNic}]
    /\ now \in Nat
    /\ failed \in Nics \cup {NoNic}

\* The defaults of api_init_extended_handles; NICs are present after hardware
\* detection and routing is on or off for the whole run.
Init ==
    /\ present = Nics
    /\ ext = [h \in Handles |-> NoExt]
    /\ lb = [mode |-> "round_robin", primary |-> 0, secondary |-> 1, wp |-> 100, ws |-> 100]
    /\ lb_on = FALSE
    /\ last_nic_used = 0
    /\ util = [n \in Nics |-> 0]
    /\ errors = [n \in Nics |-> 0]
    /\ routing \in BOOLEAN
    /\ default_nic = 0
    /\ flows = [d \in Dests |-> NoNic]
    /\ now = 0
    /\ failed = NoNic

-----------------------------------------------------------------------------
(* The setters.                                                            *)

pd_set_handle_priority(h, p) ==
    /\ ext' = [ext EXCEPT ![h] = [ExtOf(h) EXCEPT !.prio = p]]
    /\ UNCHANGED <<present, lb, lb_on, last_nic_used, util, errors, routing, default_nic,
                   flows, now, failed>>

\* The configuration is global; the flag is the handle's.  The NICs must be
\* valid when it is set.
pd_set_load_balance(h, c) ==
    /\ {c.primary, c.secondary} \subseteq present
    /\ lb' = c
    /\ lb_on' = TRUE
    /\ ext' = [ext EXCEPT ![h] = [ExtOf(h) EXCEPT !.flags = @ \cup {"load_balance"}]]
    /\ UNCHANGED <<present, last_nic_used, util, errors, routing, default_nic,
                   flows, now, failed>>

\* The class becomes a priority in a uint8_t: (class + 1) * 32 modulo 256.
pd_set_qos_params(h, class, max_bandwidth) ==
    /\ ext' = [ext EXCEPT ![h] =
         LET x == [ExtOf(h) EXCEPT !.prio = ((class + 1) * 32) % 256]
         IN  IF max_bandwidth = 0 THEN x
             ELSE [x EXCEPT !.limit = max_bandwidth, !.flags = @ \cup {"bandwidth"},
                            !.peak = IF max_bandwidth > @ THEN max_bandwidth ELSE @]]
    /\ UNCHANGED <<present, lb, lb_on, last_nic_used, util, errors, routing, default_nic,
                   flows, now, failed>>

pd_set_nic_preference(h, n) ==
    /\ n \in present \cup {NoPreference}
    /\ ext' = [ext EXCEPT ![h] = [ExtOf(h) EXCEPT !.pref = n, !.flags = @ \cup {"nic"}]]
    /\ UNCHANGED <<present, lb, lb_on, last_nic_used, util, errors, routing, default_nic,
                   flows, now, failed>>

pd_set_bandwidth_limit(h, limit) ==
    /\ ext' = [ext EXCEPT ![h] =
         [ExtOf(h) EXCEPT !.limit = limit,
                          !.flags = IF limit > 0 THEN @ \cup {"bandwidth"} ELSE @ \ {"bandwidth"},
                          !.peak = IF limit > @ THEN limit ELSE @]]
    /\ UNCHANGED <<present, lb, lb_on, last_nic_used, util, errors, routing, default_nic,
                   flows, now, failed>>

-----------------------------------------------------------------------------
(* The choice of a NIC.  A choice is a record: the NIC, or NoNic when the  *)
(* function returns an error, and last_nic_used afterwards.                *)

Prefers(h) == "nic" \in ext[h].flags /\ ext[h].pref \in present
Balanced(h) == ~Prefers(h) /\ "load_balance" \in ext[h].flags /\ lb_on
\* Neither decides, so routing_decide is asked.
AsksRouting(h) == routing /\ ~Prefers(h) /\ ~Balanced(h)

Lowest(S) == CHOOSE n \in S : \A m \in S : n <= m

\* The search for the next available NIC starts at 0, not after last_nic_used.
api_round_robin_select_nic ==
    LET next == (last_nic_used + 1) % NicCount
    IN  IF next \in present THEN [nic |-> next, last |-> next]
        ELSE IF present = {} THEN [nic |-> NoNic, last |-> next]
        ELSE [nic |-> Lowest(present), last |-> Lowest(present)]

Choose(n) == [nic |-> n, last |-> last_nic_used]

api_weighted_select_nic ==
    LET point == (last_nic_used * 100) % (lb.wp + lb.ws)
    IN  IF point < lb.wp /\ lb.primary \in present THEN Choose(lb.primary)
        ELSE IF lb.secondary \in present THEN Choose(lb.secondary)
        ELSE api_round_robin_select_nic

\* Utilization plus ten times the errors, lower is better, first wins.
Score(n) == util[n] + errors[n] * 10
api_performance_select_nic ==
    Choose(IF present = {} THEN NoNic
           ELSE Lowest({n \in present : \A m \in present : Score(n) <= Score(m)}))

api_application_select_nic(h) ==
    IF ext[h].prio > 192 /\ lb.primary \in present THEN Choose(lb.primary)
    ELSE IF ext[h].prio < 64 /\ lb.secondary \in present THEN Choose(lb.secondary)
    ELSE api_performance_select_nic

\* Mutant of the next definition: the flow's NIC is taken unchecked.
FlowUnchecked(d) ==
    IF flows[d] # NoNic THEN Choose(flows[d]) ELSE api_performance_select_nic

api_flow_aware_select_nic(d) ==
    IF flows[d] \in present THEN Choose(flows[d]) ELSE api_performance_select_nic

api_load_balance_select_nic(h, d) ==
    CASE lb.mode = "weighted" -> api_weighted_select_nic
      [] lb.mode = "performance" -> api_performance_select_nic
      [] lb.mode = "application" -> api_application_select_nic(h)
      [] lb.mode = "flow_aware" -> api_flow_aware_select_nic(d)
      [] OTHER -> api_round_robin_select_nic

\* d: the packet, NullPacket for a NULL pointer, which is refused.
\* route: what routing_decide answered, NoNic when it did not forward or was
\* not asked.
api_select_optimal_nic(h, d, route) ==
    IF d = NullPacket THEN Choose(NoNic)
    ELSE IF Prefers(h) THEN Choose(ext[h].pref)
    ELSE IF Balanced(h) THEN api_load_balance_select_nic(h, d)
    ELSE IF AsksRouting(h) /\ route \in present THEN Choose(route)
    ELSE api_round_robin_select_nic

-----------------------------------------------------------------------------
(* The bridge table.                                                       *)

Learned == {d \in Dests : flows[d] # NoNic}

\* A full table gives up the entry with the oldest timestamp.  The model keeps
\* no timestamps, so that may be any entry.
Evicted ==
    IF Cardinality(Learned) < MaxFlows THEN {flows}
    ELSE {[flows EXCEPT ![e] = NoNic] : e \in Learned}

\* What the table may be after bridge_learn_mac(d, n): as before when the NIC
\* is absent or learning is off, with the entry changed when there is one, and
\* otherwise with a new entry, unless there is no memory for it.  The switch
\* g_learning_enabled may be turned at any time, so it is not kept: any call
\* may find it off.
bridge_learn_mac(d, n) ==
    {flows} \cup
    IF n \notin present THEN {}
    ELSE IF d \in Learned THEN {[flows EXCEPT ![d] = n]}
    ELSE Evicted \cup {[f EXCEPT ![d] = n] : f \in Evicted}

\* What a selection teaches the table: a flow-aware one the NIC it chose for a
\* destination that has no present one, and routing_decide, which it asks when
\* nothing else decides, the frame's source address as being on NIC 0.
Taught(h, d, nic) ==
    IF AsksRouting(h) THEN UNION {bridge_learn_mac(src, 0) : src \in Dests}
    ELSE IF /\ routing /\ Balanced(h) /\ lb.mode = "flow_aware"
            /\ flows[d] \notin present
    THEN bridge_learn_mac(d, nic)
    ELSE {flows}

\* routing_decide, for a frame that route_packet forwards from NIC n.
routing_decide(d, n) ==
    /\ routing
    /\ flows' \in bridge_learn_mac(d, n)
    /\ UNCHANGED <<present, ext, lb, lb_on, last_nic_used, util, errors, routing, default_nic,
                   now, failed>>

\* Entries leave the table: bridge_age_entries takes the old ones,
\* bridge_remove_mac one, bridge_flush_table all.
bridge_forget(D) ==
    /\ flows' = [d \in Dests |-> IF d \in D THEN NoNic ELSE flows[d]]
    /\ UNCHANGED <<present, ext, lb, lb_on, last_nic_used, util, errors, routing, default_nic,
                   now, failed>>

\* What a failover of routing.c (module Failover) does to the tables the send
\* path reads.  It sets the default route by its own lights, which ends what
\* failed records.
perform_failover(from, to) ==
    /\ from # to
    /\ default_nic' = to
    /\ flows' = [d \in Dests |-> IF flows[d] = from THEN NoNic ELSE flows[d]]
    /\ failed' = NoNic
    /\ UNCHANGED <<present, ext, lb, lb_on, last_nic_used, util, errors, routing, now>>

-----------------------------------------------------------------------------
(* Sending.                                                                *)

Limited(h) == "bandwidth" \in ext[h].flags /\ ext[h].limit # 0

\* The extended handle after its window has been looked at.
Windowed(h) ==
    IF Limited(h) /\ now - ext[h].start >= Window
    THEN [ext[h] EXCEPT !.bytes = 0, !.start = now, !.peak = ext[h].limit]
    ELSE ext[h]

\* Mutant of the next definition: the packet itself is not counted in.
OverQuotaLate(h, size) == Limited(h) /\ Windowed(h).bytes > ext[h].limit

\* api_check_bandwidth_limit refuses the packet.
OverQuota(h, size) == Limited(h) /\ Windowed(h).bytes + size > ext[h].limit

\* api_update_nic_utilization
Busier(u, size) == IF (u + size) \div 2 > 100 THEN 100 ELSE (u + size) \div 2

pd_send_refused(h, size) ==
    /\ OverQuota(h, size)
    /\ ext' = [ext EXCEPT ![h] = Windowed(h)]
    /\ UNCHANGED <<present, lb, lb_on, last_nic_used, util, errors, routing, default_nic,
                   flows, now, failed>>

\* The quota is charged before a NIC is chosen.  When none can be, the frame
\* goes to the handle's own interface.  When the NIC cannot send (no NIC, no
\* send_packet) the call ends before the utilization is updated.
pd_send_packet(h, size, d, route) ==
    LET choice == api_select_optimal_nic(h, d, route)
        nic == IF choice.nic = NoNic THEN HandleNic[h] ELSE choice.nic
        charged == IF Limited(h) THEN [Windowed(h) EXCEPT !.bytes = @ + size] ELSE ext[h]
    IN  /\ ~OverQuota(h, size)
        /\ AsksRouting(h) \/ route = NoNic
        /\ ext' = [ext EXCEPT ![h] =
             IF HasExt(h) /\ nic # HandleNic[h] THEN [charged EXCEPT !.iface = nic] ELSE charged]
        /\ last_nic_used' = choice.last
        /\ util' \in {util, [util EXCEPT ![nic] = Busier(@, size)]}
        /\ flows' \in Taught(h, d, choice.nic)
        /\ UNCHANGED <<present, lb, lb_on, errors, routing, default_nic, now, failed>>

-----------------------------------------------------------------------------
(* Failures.                                                               *)

\* Mutant of the next definition: the first NIC is taken, whichever failed.
DefaultRouteFirst(n) ==
    IF routing /\ default_nic = n /\ present # {} THEN Lowest(present) ELSE default_nic

\* api_coordinate_recovery_with_routing moves the default route off the NIC.
api_coordinate_recovery_with_routing(n) ==
    IF routing /\ default_nic = n /\ present \ {n} # {} THEN Lowest(present \ {n}) ELSE default_nic

\* The body of api_handle_nic_failure's loop: a handle on the failed NIC asks
\* for another one, with a NULL packet.
Moved(h, n) ==
    LET choice == api_select_optimal_nic(h, NullPacket, NoNic)
    IN  IF HasExt(h) /\ n \in {ext[h].pref, ext[h].iface} /\ choice.nic \notin {NoNic, n}
        THEN [ext[h] EXCEPT !.iface = choice.nic] ELSE ext[h]

api_handle_nic_failure(n) ==
    /\ n \in present
    /\ errors[n] < MaxFailures
    /\ errors' = [errors EXCEPT ![n] = @ + 1]
    /\ default_nic' = api_coordinate_recovery_with_routing(n)
    /\ ext' = [h \in Handles |-> Moved(h, n)]
    /\ failed' = n
    /\ UNCHANGED <<present, lb, lb_on, last_nic_used, util, routing, flows, now>>

\* The hardware layer marks a NIC absent or present (hardware_is_nic_present).
nic_presence(n) ==
    /\ present' = IF n \in present THEN present \ {n} ELSE present \cup {n}
    /\ failed' = NoNic
    /\ UNCHANGED <<ext, lb, lb_on, last_nic_used, util, errors, routing, default_nic,
                   flows, now>>

timer(t) ==
    /\ now + t <= MaxTime
    /\ now' = now + t
    /\ UNCHANGED <<present, ext, lb, lb_on, last_nic_used, util, errors, routing, default_nic,
                   flows, failed>>

Next ==
    \/ \E h \in Handles :
         \/ \E p \in Priorities : pd_set_handle_priority(h, p)
         \/ \E c \in Configs : pd_set_load_balance(h, c)
         \/ \E c \in Classes, l \in Limits : pd_set_qos_params(h, c, l)
         \/ \E n \in Nics \cup {NoPreference} : pd_set_nic_preference(h, n)
         \/ \E l \in Limits : pd_set_bandwidth_limit(h, l)
         \/ \E s \in Sizes :
              \/ pd_send_refused(h, s)
              \/ \E d \in Dests, route \in Nics \cup {NoNic} : pd_send_packet(h, s, d, route)
    \/ \E n \in Nics : api_handle_nic_failure(n) \/ nic_presence(n)
    \/ \E d \in Dests, n \in Nics : routing_decide(d, n)
    \/ \E D \in SUBSET Learned : bridge_forget(D)
    \/ \E from, to \in Nics : perform_failover(from, to)
    \/ \E t \in Delays : timer(t)

Spec == Init /\ [][Next]_vars

-----------------------------------------------------------------------------
(* Properties.                                                             *)

\* As long as any NIC is present a frame goes out on a present one, in every
\* balancing mode and however stale the preference, the configuration and the
\* learned flows are, whoever learned them (the fallbacks of the api_*_select_nic functions).
SentOnPresentNic ==
    present # {} => \A h \in Handles, d \in Dests, route \in Nics \cup {NoNic} :
        api_select_optimal_nic(h, d, route).nic \in present

\* The state is well formed, and whatever it is the selection finds a NIC that
\* is there.
SelectionInv == TypeOK /\ SentOnPresentNic

\* In one window an extended handle is charged no more than the highest limit
\* it had in that window, however its limit was changed meanwhile.
QuotaKept == \A h \in Handles : Limited(h) => ext[h].bytes <= ext[h].peak

\* After api_handle_nic_failure the default route is off the failed NIC if
\* there was another one, until a NIC comes or goes or a failover of routing.c
\* moves the route itself.
DefaultRouteMoved == routing /\ failed # NoNic /\ present \ {failed} # {} => default_nic # failed

\* A claim of a comment that the code does not keep.

\* "Switch to alternate NIC": after a failure no extended handle is still on
\* the failed NIC when another one is present.
HandlesSwitched ==
    [][\A n \in Nics : (failed' = n /\ errors'[n] > errors[n] /\ present \ {n} # {})
         => \A h \in Handles : HasExt(h) => ext'[h].iface # n]_vars
=============================================================================
