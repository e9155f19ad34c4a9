-------------------------- MODULE PacketApiProofs --------------------------
(***************************************************************************)
(* What holds of the handle tables of PacketApi for every table size, id   *)
(* width and number of handles opened.                                     *)
(***************************************************************************)
EXTENDS PacketApi, FiniteSetTheorems, TLAPS

\* PD_INVALID_HANDLE and the zero of a cleared table are 16-bit values.
LEMMA InvalidIsId == Invalid \in Ids /\ 0 \in Ids
  BY SizeAssumption DEF Invalid, Ids

\* What free and cleared slots hold has the type of its table.
LEMMA RecordTypes ==
    /\ FreeHandle \in HandleRecords
    /\ Zeroed \in HandleRecords
    /\ FreeExt \in ExtRecords
    /\ ZeroedExt \in ExtRecords
<1>1. FreeHandle \in HandleRecords /\ Zeroed \in HandleRecords
  BY InvalidIsId DEF FreeHandle, Zeroed, HandleRecords, Receivers
<1>2. FreeExt \in ExtRecords /\ ZeroedExt \in ExtRecords
  BY InvalidIsId DEF FreeExt, ZeroedExt, ExtRecords
<1>3. QED
  BY <1>1, <1>2

\* Counting a packet and changing a setting keep a slot's type.
LEMMA RecordSteps ==
    /\ \A x \in HandleRecords : /\ x.handle \in Ids
                                /\ Credit(x) \in HandleRecords
                                /\ Drop(x) \in HandleRecords
    /\ \A x \in ExtRecords, o \in Options : [x EXCEPT !.set = @ \cup {o}] \in ExtRecords
    /\ \A x \in ExtRecords : [x EXCEPT !.set = @ \ {"bandwidth"}] \in ExtRecords
    /\ \A h \in Ids : [id |-> h, set |-> {}] \in ExtRecords
<1>1. \A x \in HandleRecords : /\ x.handle \in Ids
                                /\ Credit(x) \in HandleRecords
                                /\ Drop(x) \in HandleRecords
  BY DEF HandleRecords, Credit, Drop
<1>2. \A x \in ExtRecords, o \in Options : [x EXCEPT !.set = @ \cup {o}] \in ExtRecords
  BY DEF ExtRecords
<1>5. \A x \in ExtRecords : [x EXCEPT !.set = @ \ {"bandwidth"}] \in ExtRecords
  BY DEF ExtRecords
<1>3. \A h \in Ids : [id |-> h, set |-> {}] \in ExtRecords
  BY DEF ExtRecords
<1>4. QED
  BY <1>1, <1>2, <1>3, <1>5

\* The slot an extended setter writes holds a record of the table's type.
LEMMA UpgradeType ==
    ASSUME TypeOK, NEW h \in Ids, NEW e \in ExtSlots
    PROVE  api_upgrade_handle(h, e) \in ExtRecords
  BY RecordSteps DEF TypeOK, api_upgrade_handle

\* The handle table, the extended table, the counters and the receive loop
\* keep their types: in particular an id fits 16 bits and the loop's index
\* never runs past the table.
THEOREM TypeCorrect == Spec => []TypeOK
<1>1. Init => TypeOK
  BY InvalidIsId, RecordTypes, SizeAssumption DEF Init, TypeOK, Phases
<1>2. TypeOK /\ [Next]_vars => TypeOK'
  <2> SUFFICES ASSUME TypeOK, [Next]_vars PROVE TypeOK'
    OBVIOUS
  <2> USE InvalidIsId, RecordTypes, SizeAssumption, TypesAssumption DEF TypeOK, Phases, table, rx, history
  <2>1. CASE api_install_hooks
    BY <2>1 DEF api_install_hooks
  <2>2. CASE api_activate
    BY <2>2 DEF api_activate
  <2>3. CASE api_cleanup
    BY <2>3 DEF api_cleanup, Open
  <2>4. ASSUME NEW t \in Types, NEW n \in 0 .. Nics, NEW r \in Receivers,
               pd_handle_access_type(t, n, r)
        PROVE  TypeOK'
    <3> DEFINE id == next_handle % IdSpace
               new == [handle |-> id, packet_type |-> t, receiver |-> r,
                       received |-> 0, dropped |-> 0]
    <3>1. id \in Ids
      BY DEF Ids
    <3>2. new \in HandleRecords
      BY <3>1 DEF HandleRecords
    <3> HIDE DEF new
    <3>3. PICK i \in Slots :
            /\ handles' = [handles EXCEPT ![i] = new]
            /\ born' = [born EXCEPT ![i] = next_handle]
      BY <2>4 DEF pd_handle_access_type, new
    <3> HIDE DEF id
    <3>4. next_handle' = next_handle + 1 /\ UNCHANGED <<extended, phase, rx, packets, asked, upcalls, stayed>>
      BY <2>4 DEF pd_handle_access_type
    <3>5. QED
      BY <3>1, <3>2, <3>3, <3>4
  <2>5. ASSUME NEW h \in Ids, pd_release_handle(h)
        PROVE  TypeOK'
    BY <2>5 DEF pd_release_handle
  <2>6. ASSUME NEW h \in Ids, pd_terminate(h)
        PROVE  TypeOK'
    BY <2>5, <2>6 DEF pd_terminate
  <2>7. ASSUME NEW h \in Ids, NEW o \in Options, pd_set_extended(h, o)
        PROVE  TypeOK'
    <3>1. PICK e \in ExtSlots :
            extended' = [extended EXCEPT ![e] =
                [api_upgrade_handle(h, e) EXCEPT !.set = @ \cup {o}]]
      BY <2>7 DEF pd_set_extended
    <3>2. extended' \in [ExtSlots -> ExtRecords]
      BY <3>1, UpgradeType, RecordSteps
    <3>3. QED
      BY <2>7, <3>2 DEF pd_set_extended
  <2>8. ASSUME NEW h \in Ids, pd_clear_extended(h)
        PROVE  TypeOK'
    <3>1. PICK e \in ExtSlots :
            extended' = [extended EXCEPT ![e] =
                [api_upgrade_handle(h, e) EXCEPT !.set = @ \ {"bandwidth"}]]
      BY <2>8 DEF pd_clear_extended
    <3>2. extended' \in [ExtSlots -> ExtRecords]
      BY <3>1, UpgradeType, RecordSteps
    <3>3. QED
      BY <2>8, <3>2 DEF pd_clear_extended
  <2>9. ASSUME NEW t \in Types \ {0}, rx_begin(t)
        PROVE  TypeOK'
    <3>1. Listeners(t) \subseteq Nat
      BY DEF Listeners
    <3>2. QED
      BY <2>9, <3>1 DEF rx_begin
  <2>10. CASE rx_skip
    <3>1. rx_i \in Slots /\ rx_i' = rx_i + 1
      BY <2>10 DEF rx_skip
    <3>2. rx_i' \in 0 .. MaxHandles
      BY <3>1 DEF Slots
    <3>3. \/ handles' = handles
          \/ handles' = [handles EXCEPT ![rx_i] = Drop(handles[rx_i])]
      BY <2>10 DEF rx_skip
    <3>6. Drop(handles[rx_i]) \in HandleRecords
      BY <3>1, RecordSteps
    <3>4. handles' \in [Slots -> HandleRecords]
      BY <3>3, <3>6
    <3>5. QED
      BY <2>10, <3>2, <3>4 DEF rx_skip
  <2>11. CASE rx_no_buffer
    BY <2>11 DEF rx_no_buffer
  <2>12. CASE rx_upcall
    <3>1. born[rx_i] \in Nat
      BY <2>12 DEF rx_upcall
    <3>2. upcalls' \in Seq(Nat)
      BY <2>12, <3>1 DEF rx_upcall
    <3>3. QED
      BY <2>12, <3>2 DEF rx_upcall
  <2>13. ASSUME NEW taken \in BOOLEAN, rx_return(taken)
         PROVE  TypeOK'
    <3>1. rx_i \in Slots /\ rx_i' = rx_i + 1
      BY <2>13 DEF rx_return
    <3>2. rx_i' \in 0 .. MaxHandles
      BY <3>1 DEF Slots
    <3>3. \/ handles' = [handles EXCEPT ![rx_i] = Credit(handles[rx_i])]
          \/ handles' = [handles EXCEPT ![rx_i] = Drop(handles[rx_i])]
      BY <2>13 DEF rx_return
    <3>4. Credit(handles[rx_i]) \in HandleRecords /\ Drop(handles[rx_i]) \in HandleRecords
      BY <3>1, RecordSteps
    <3>5. handles' \in [Slots -> HandleRecords]
      BY <3>3, <3>4
    <3>6. QED
      BY <2>13, <3>2, <3>5 DEF rx_return
  <2>14. CASE rx_end
    BY <2>14 DEF rx_end
  <2>15. CASE UNCHANGED vars
    BY <2>15 DEF vars
  <2>16. QED
    BY <2>1, <2>2, <2>3, <2>4, <2>5, <2>6, <2>7, <2>8, <2>9, <2>10, <2>11, <2>12, <2>13,
       <2>14, <2>15 DEF Next, Calls, Receive
<1>3. QED
  BY <1>1, <1>2, PTL DEF Spec

-----------------------------------------------------------------------------
\* The receive loop writes only counters of the tables: no id, no extended
\* handle and no history of the settings changes in it.
KeepsIds ==
    /\ \A i \in Slots : handles'[i].handle = handles[i].handle
    /\ UNCHANGED <<extended, next_handle, phase, asked, born>>

\* Counting a packet leaves the slot's identifier alone.
LEMMA CountersKeepId == \A x \in HandleRecords : Credit(x).handle = x.handle /\ Drop(x).handle = x.handle
  BY DEF Credit, Drop, HandleRecords

\* No step of the receive loop changes an identifier, an extended handle or
\* the counter.
LEMMA ReceiveKeepsIds ==
    ASSUME TypeOK, Receive
    PROVE  KeepsIds
<1> USE DEF KeepsIds, table, history
<1>1. ASSUME NEW t \in Types \ {0}, rx_begin(t) PROVE KeepsIds
  BY <1>1 DEF rx_begin
<1>2. CASE rx_skip
  <2>1. rx_i \in Slots
    BY <1>2 DEF rx_skip
  <2>2. \/ handles' = handles
        \/ handles' = [handles EXCEPT ![rx_i] = Drop(handles[rx_i])]
    BY <1>2 DEF rx_skip
  <2>3. \A i \in Slots : handles'[i].handle = handles[i].handle
    BY <2>1, <2>2, CountersKeepId DEF TypeOK
  <2>4. QED
    BY <1>2, <2>3 DEF rx_skip
<1>3. CASE rx_no_buffer
  BY <1>3 DEF rx_no_buffer
<1>4. CASE rx_upcall
  BY <1>4 DEF rx_upcall
<1>5. ASSUME NEW taken \in BOOLEAN, rx_return(taken) PROVE KeepsIds
  <2>1. rx_i \in Slots
    BY <1>5 DEF rx_return, TypeOK
  <2>2. \/ handles' = [handles EXCEPT ![rx_i] = Credit(handles[rx_i])]
        \/ handles' = [handles EXCEPT ![rx_i] = Drop(handles[rx_i])]
    BY <1>5 DEF rx_return
  <2>3. \A i \in Slots : handles'[i].handle = handles[i].handle
    BY <2>1, <2>2, CountersKeepId DEF TypeOK
  <2>4. QED
    BY <1>5, <2>3 DEF rx_return
<1>6. CASE rx_end
  BY <1>6 DEF rx_end
<1>7. QED
  BY <1>1, <1>2, <1>3, <1>4, <1>5, <1>6 DEF Receive

\* An extended setter keeps the id of the slot it finds, and gives the slot
\* it takes the id of a handle that has none yet.
LEMMA SetterIds ==
    ASSUME TypeOK, NEW h \in Ids, NEW e \in ExtSlots, api_get_or_upgrade(h, e),
           NEW S \in SUBSET Options,
           extended' = [extended EXCEPT ![e] = [api_upgrade_handle(h, e) EXCEPT !.set = S]]
    PROVE  /\ \A f \in ExtSlots : f # e => extended'[f] = extended[f]
           /\ extended'[e].id = h
           /\ \/ extended[e].id = h
              \/ /\ h # Invalid /\ extended[e].id = Invalid
                 /\ \E i \in Slots : handles[i].handle = h
                 /\ \A f \in ExtSlots : extended[f].id # h
<1>1. api_upgrade_handle(h, e).id = h /\ api_upgrade_handle(h, e) \in ExtRecords
  BY UpgradeType DEF api_upgrade_handle
<1>2. extended'[e].id = h /\ \A f \in ExtSlots : f # e => extended'[f] = extended[f]
  BY <1>1 DEF TypeOK, ExtRecords
<1>3. \/ extended[e].id = h
      \/ /\ h # Invalid /\ extended[e].id = Invalid
         /\ \E i \in Slots : handles[i].handle = h
         /\ \A f \in ExtSlots : extended[f].id # h
  BY DEF api_get_or_upgrade, IsFirst, ExtSlotsOf, SlotsOf, pd_validate_handle
<1>4. QED
  BY <1>2, <1>3

\* Release and upgrade keep the extended table in step with the basic one, for
\* tables of every size and however often the 16-bit ids wrap around: an
\* extended handle in use always belongs to an open handle, which has no other.
THEOREM TablesTogether == Spec => []ExtendedBacked
<1>1. Init => ExtendedBacked
  BY DEF Init, ExtendedBacked
<1>2. ASSUME TypeOK, ExtendedBacked, [Next]_vars PROVE ExtendedBacked'
  <2> USE <1>2
  <2>1. CASE api_install_hooks
    BY <2>1 DEF ExtendedBacked, api_install_hooks
  <2>2. CASE api_activate
    BY <2>2 DEF ExtendedBacked, api_activate, FreeExt
  <2>3. CASE api_cleanup
    BY <2>3 DEF ExtendedBacked, api_cleanup
  <2>4. ASSUME NEW t \in Types, NEW n \in 0 .. Nics, NEW r \in Receivers,
               pd_handle_access_type(t, n, r)
        PROVE  ExtendedBacked'
    <3>1. PICK i \in Slots : /\ handles[i].handle = Invalid
                            /\ \A j \in Slots : j # i => handles'[j] = handles[j]
      BY <2>4 DEF pd_handle_access_type, IsFirst, SlotsOf, TypeOK
    <3>2. UNCHANGED <<extended, phase>>
      BY <2>4 DEF pd_handle_access_type
    <3>3. QED
      BY <3>1, <3>2 DEF ExtendedBacked
  <2>5. ASSUME NEW h \in Ids, pd_release_handle(h)
        PROVE  ExtendedBacked'
    <3>1. phase = "active" /\ phase' = phase
      BY <2>5 DEF pd_release_handle, Callable
    <3>2. \A e \in ExtSlots : extended'[e].id # Invalid => extended'[e] = extended[e] /\ extended[e].id # h
      <4>1. CASE ExtSlotsOf(h) = {} /\ UNCHANGED extended
        BY <4>1 DEF ExtSlotsOf
      <4>2. CASE \E e \in ExtSlots : /\ IsFirst(e, ExtSlotsOf(h))
                                     /\ extended' = [extended EXCEPT ![e] = FreeExt]
        <5>1. PICK e \in ExtSlots : /\ extended[e].id = h
                                   /\ extended' = [extended EXCEPT ![e] = FreeExt]
          BY <4>2 DEF IsFirst, ExtSlotsOf
        <5>2. \A f \in ExtSlots : f # e => extended'[f] = extended[f] /\ (extended[f].id = h => h = Invalid)
          BY <5>1, <3>1 DEF TypeOK, ExtendedBacked
        <5>3. extended'[e].id = Invalid
          BY <5>1 DEF TypeOK, FreeExt
        <5>4. QED
          BY <5>2, <5>3
      <4>3. QED
        BY <2>5, <4>1, <4>2 DEF pd_release_handle
    <3>3. \A i \in Slots : handles[i].handle # h => handles'[i] = handles[i]
      <4>1. CASE UNCHANGED handles
        BY <4>1
      <4>2. CASE \E i \in Slots : /\ IsFirst(i, SlotsOf(h))
                                  /\ handles' = [handles EXCEPT ![i] = FreeHandle]
        BY <4>2 DEF IsFirst, SlotsOf, TypeOK
      <4>3. QED
        BY <2>5, <4>1, <4>2 DEF pd_release_handle
    <3>4. QED
      BY <3>1, <3>2, <3>3 DEF ExtendedBacked
  <2>6. ASSUME NEW h \in Ids, pd_terminate(h)
        PROVE  ExtendedBacked'
    BY <2>5, <2>6 DEF pd_terminate
  <2>7. ASSUME NEW h \in Ids, NEW e \in ExtSlots, api_get_or_upgrade(h, e),
               NEW S \in SUBSET Options,
               extended' = [extended EXCEPT ![e] = [api_upgrade_handle(h, e) EXCEPT !.set = S]],
               UNCHANGED <<handles, phase>>
        PROVE  ExtendedBacked'
    <3>1. /\ \A f \in ExtSlots : f # e => extended'[f] = extended[f]
          /\ extended'[e].id = h
          /\ \/ extended[e].id = h
             \/ /\ h # Invalid /\ extended[e].id = Invalid
                /\ \E i \in Slots : handles[i].handle = h
                /\ \A f \in ExtSlots : extended[f].id # h
      BY <2>7, SetterIds
    <3>2. CASE extended[e].id = h
      <4>1. \A f \in ExtSlots : extended'[f].id = extended[f].id
        BY <3>1, <3>2
      <4>2. QED
        BY <4>1, <2>7 DEF ExtendedBacked
    <3>3. CASE /\ h # Invalid /\ extended[e].id = Invalid
               /\ \E i \in Slots : handles[i].handle = h
               /\ \A f \in ExtSlots : extended[f].id # h
      BY <2>7, <3>1, <3>3 DEF ExtendedBacked
    <3>4. QED
      BY <3>1, <3>2, <3>3
  <2>8. ASSUME NEW h \in Ids, NEW o \in Options, pd_set_extended(h, o)
        PROVE  ExtendedBacked'
    <3>1. PICK e \in ExtSlots :
            /\ api_get_or_upgrade(h, e)
            /\ extended' = [extended EXCEPT ![e] = [api_upgrade_handle(h, e) EXCEPT !.set = @ \cup {o}]]
      BY <2>8 DEF pd_set_extended
    <3>2. api_upgrade_handle(h, e).set \cup {o} \in SUBSET Options
      BY UpgradeType DEF ExtRecords
    <3>3. UNCHANGED <<handles, phase>>
      BY <2>8 DEF pd_set_extended, history
    <3>4. QED
      BY <2>7, <3>1, <3>2, <3>3
  <2>12. ASSUME NEW h \in Ids, pd_clear_extended(h)
        PROVE  ExtendedBacked'
    <3>1. PICK e \in ExtSlots :
            /\ api_get_or_upgrade(h, e)
            /\ extended' = [extended EXCEPT ![e] = [api_upgrade_handle(h, e) EXCEPT !.set = @ \ {"bandwidth"}]]
      BY <2>12 DEF pd_clear_extended
    <3>2. api_upgrade_handle(h, e).set \ {"bandwidth"} \in SUBSET Options
      BY UpgradeType DEF ExtRecords
    <3>3. UNCHANGED <<handles, phase>>
      BY <2>12 DEF pd_clear_extended, history
    <3>4. QED
      BY <2>7, <3>1, <3>2, <3>3
  <2>9. CASE Receive
    BY <2>9, ReceiveKeepsIds DEF ExtendedBacked, KeepsIds
  <2>10. CASE UNCHANGED vars
    BY <2>10 DEF ExtendedBacked, vars
  <2>11. QED
    BY <2>1, <2>2, <2>3, <2>4, <2>5, <2>6, <2>8, <2>9, <2>10, <2>12 DEF Next, Calls
<1>3. QED
  BY <1>1, <1>2, TypeCorrect, PTL DEF Spec

-----------------------------------------------------------------------------
\* The settings of an extended handle are its own for tables of every size and
\* however often the ids wrap.  The invariant is inductive once no id has two
\* extended handles: a release that cleared one of them would leave the other.
THEOREM SettingsNotInherited == Spec => []SettingsAreOwn
<1>1. Init => SettingsAreOwn
  BY DEF Init, SettingsAreOwn
<1>2. ASSUME TypeOK, ExtendedBacked, SettingsAreOwn, [Next]_vars PROVE SettingsAreOwn'
  <2> USE <1>2, SizeAssumption, InvalidIsId
  <2>1. CASE api_install_hooks
    BY <2>1 DEF api_install_hooks, SettingsAreOwn
  <2>2. CASE api_activate
    BY <2>2 DEF api_activate, SettingsAreOwn, FreeExt
  <2>3. CASE api_cleanup
    BY <2>3 DEF api_cleanup, SettingsAreOwn
  <2>4. ASSUME NEW t \in Types, NEW n \in 0 .. Nics, NEW r \in Receivers,
               pd_handle_access_type(t, n, r)
        PROVE  SettingsAreOwn'
    BY <2>4 DEF pd_handle_access_type, SettingsAreOwn
  <2>5. ASSUME NEW h \in Ids, pd_release_handle(h)
        PROVE  SettingsAreOwn'
    <3>1. phase = "active" /\ phase' = phase
      BY <2>5 DEF pd_release_handle, Callable
    <3>4. asked' = [asked EXCEPT ![h] = {}]
      BY <2>5 DEF pd_release_handle
    <3>5. \A e \in ExtSlots : extended'[e].id # Invalid => extended'[e] = extended[e] /\ extended[e].id # h
      <4>1. CASE ExtSlotsOf(h) = {} /\ UNCHANGED extended
        BY <4>1 DEF ExtSlotsOf
      <4>2. CASE \E e \in ExtSlots : /\ IsFirst(e, ExtSlotsOf(h))
                                     /\ extended' = [extended EXCEPT ![e] = FreeExt]
        <5>1. PICK e \in ExtSlots : /\ extended[e].id = h
                                   /\ extended' = [extended EXCEPT ![e] = FreeExt]
          BY <4>2 DEF IsFirst, ExtSlotsOf
        <5>2. \A f \in ExtSlots : f # e => extended'[f] = extended[f] /\ (extended[f].id = h => h = Invalid)
          BY <5>1, <3>1 DEF TypeOK, ExtendedBacked
        <5>3. extended'[e].id = Invalid
          BY <5>1 DEF TypeOK, FreeExt
        <5>4. QED
          BY <5>2, <5>3
      <4>3. QED
        BY <2>5, <4>1, <4>2 DEF pd_release_handle
    <3>6. QED
      BY <3>1, <3>4, <3>5 DEF SettingsAreOwn, TypeOK, ExtRecords
  <2>6. ASSUME NEW h \in Ids, pd_terminate(h)
        PROVE  SettingsAreOwn'
    BY <2>5, <2>6 DEF pd_terminate
  <2>7. ASSUME NEW h \in Ids, NEW o \in Options, pd_set_extended(h, o)
        PROVE  SettingsAreOwn'
    <3>1. PICK e \in ExtSlots :
            /\ api_get_or_upgrade(h, e)
            /\ extended' = [extended EXCEPT ![e] = [api_upgrade_handle(h, e) EXCEPT !.set = @ \cup {o}]]
      BY <2>7 DEF pd_set_extended
    <3>2. UNCHANGED phase /\ phase = "active"
      BY <2>7 DEF pd_set_extended, Callable
    <3>3. asked' = IF h = Invalid THEN asked ELSE [asked EXCEPT ![h] = @ \cup {o}]
      BY <2>7 DEF pd_set_extended
    <3>4. /\ api_upgrade_handle(h, e).id = h
          /\ api_upgrade_handle(h, e) \in ExtRecords
          /\ h # Invalid => api_upgrade_handle(h, e).set \subseteq asked[h]
      BY <3>2, UpgradeType DEF api_upgrade_handle, SettingsAreOwn, TypeOK
    <3>5. \A f \in ExtSlots : f # e => extended'[f] = extended[f]
      BY <3>1 DEF TypeOK
    <3>6. extended'[e].id = h /\ extended'[e].set = api_upgrade_handle(h, e).set \cup {o}
      BY <3>1, <3>4 DEF TypeOK, ExtRecords
    <3>7. QED
      BY <3>2, <3>3, <3>4, <3>5, <3>6 DEF SettingsAreOwn, TypeOK, ExtRecords
  <2>8. ASSUME NEW h \in Ids, pd_clear_extended(h)
        PROVE  SettingsAreOwn'
    <3>1. PICK e \in ExtSlots :
            /\ api_get_or_upgrade(h, e)
            /\ extended' = [extended EXCEPT ![e] = [api_upgrade_handle(h, e) EXCEPT !.set = @ \ {"bandwidth"}]]
      BY <2>8 DEF pd_clear_extended
    <3>2. UNCHANGED <<phase, asked>> /\ phase = "active"
      BY <2>8 DEF pd_clear_extended, Callable, history
    <3>4. /\ api_upgrade_handle(h, e).id = h
          /\ api_upgrade_handle(h, e) \in ExtRecords
          /\ h # Invalid => api_upgrade_handle(h, e).set \subseteq asked[h]
      BY <3>2, UpgradeType DEF api_upgrade_handle, SettingsAreOwn, TypeOK
    <3>5. \A f \in ExtSlots : f # e => extended'[f] = extended[f]
      BY <3>1 DEF TypeOK
    <3>6. extended'[e].id = h /\ extended'[e].set = api_upgrade_handle(h, e).set \ {"bandwidth"}
      BY <3>1, <3>4 DEF TypeOK, ExtRecords
    <3>7. QED
      BY <3>2, <3>4, <3>5, <3>6 DEF SettingsAreOwn
  <2>9. CASE Receive
    BY <2>9, ReceiveKeepsIds DEF KeepsIds, SettingsAreOwn
  <2>10. CASE UNCHANGED vars
    BY <2>10 DEF SettingsAreOwn, vars
  <2>11. QED
    BY <2>1, <2>2, <2>3, <2>4, <2>5, <2>6, <2>7, <2>8, <2>9, <2>10 DEF Next, Calls
<1>3. QED
  BY <1>1, <1>2, TypeCorrect, TablesTogether, PTL DEF Spec


-----------------------------------------------------------------------------
\* A table of extended handles at least as large as the basic one always has
\* room for a handle that is not extended yet (api_upgrade_handle): if no slot
\* were free, each would belong to a basic slot other than that handle's, and
\* two of them to the same one.  No bound on the handles opened is needed.
THEOREM RoomForUpgrade == Spec => []UpgradeHasRoom
<1>1. ASSUME TypeOK, ExtendedBacked PROVE UpgradeHasRoom
  <2> SUFFICES ASSUME phase = "active", NEW i \in Slots, Open(i),
                      ExtSlotsOf(handles[i].handle) = {}, ExtSlotsOf(Invalid) = {}
               PROVE  FALSE
    BY DEF UpgradeHasRoom
  <2>1. PICK f : f = [e \in ExtSlots |-> CHOOSE j \in Slots : handles[j].handle = extended[e].id]
    OBVIOUS
  <2>2. ASSUME NEW e \in ExtSlots
        PROVE  f[e] \in Slots /\ handles[f[e]].handle = extended[e].id
    <3>1. extended[e].id # Invalid
      BY DEF ExtSlotsOf
    <3>2. \E j \in Slots : handles[j].handle = extended[e].id
      BY <1>1, <3>1 DEF ExtendedBacked
    <3>3. QED
      BY <2>1, <3>2
  <2>3. \A e \in ExtSlots : f[e] # i
    BY <2>2 DEF ExtSlotsOf
  <2>4. f \in [ExtSlots -> Slots \ {i}]
    BY <2>1, <2>2, <2>3
  <2>5. \A e, d \in ExtSlots : f[e] = f[d] => e = d
    BY <1>1, <2>2 DEF ExtendedBacked, ExtSlotsOf
  <2>6. IsFiniteSet(ExtSlots) /\ Cardinality(ExtSlots) = MaxExt
    BY FS_Interval, SizeAssumption DEF ExtSlots
  <2>7. IsFiniteSet(Slots) /\ Cardinality(Slots) = MaxHandles
    BY FS_Interval, SizeAssumption DEF Slots
  <2>8. IsFiniteSet(Slots \ {i}) /\ Cardinality(Slots \ {i}) = MaxHandles - 1
    BY <2>7, FS_RemoveElement
  <2>9. Cardinality(Slots \ {i}) < Cardinality(ExtSlots)
    BY <2>6, <2>8, SizeAssumption
  <2>10. \E e, d \in ExtSlots : e # d /\ f[e] = f[d]
    BY <2>4, <2>6, <2>8, <2>9, FS_PigeonHole
  <2>11. QED
    BY <2>5, <2>10
<1>2. QED
  BY <1>1, TypeCorrect, TablesTogether, PTL

-----------------------------------------------------------------------------
\* No opening is in two slots, and an open handle came from one of the openings
\* counted so far.  This is what tells handles apart that share an id.
BornInv ==
    /\ next_handle >= 1
    /\ \A i \in Slots : born[i] < next_handle
    /\ \A i, j \in Slots : born[i] = born[j] /\ born[i] # 0 => i = j
    /\ phase = "loaded" => \A i \in Slots : born[i] = 0
    /\ phase = "hooked" => \A i \in Slots : ~Open(i)
    /\ phase = "active" => \A i \in Slots : Open(i) => born[i] # 0

\* The openings stay apart however the ids repeat.
LEMMA BornInvHolds == Spec => []BornInv
<1>1. Init => BornInv
  BY DEF Init, BornInv
<1>2. ASSUME TypeOK, BornInv, [Next]_vars PROVE BornInv'
  <2> USE <1>2, SizeAssumption, InvalidIsId
  <2>1. CASE api_install_hooks
    <3>1. \A i \in Slots : born[i] = 0 /\ handles'[i].handle = Invalid
      BY <2>1 DEF api_install_hooks, BornInv, FreeHandle
    <3>2. next_handle' = 1 /\ phase' = "hooked" /\ born' = born
      BY <2>1 DEF api_install_hooks, history
    <3>3. QED
      BY <3>1, <3>2 DEF BornInv, Open
  <2>2. CASE api_activate
    BY <2>2 DEF api_activate, BornInv, Open, history
  <2>3. CASE api_cleanup
    BY <2>3 DEF api_cleanup, BornInv
  <2>4. ASSUME NEW t \in Types, NEW n \in 0 .. Nics, NEW r \in Receivers,
               pd_handle_access_type(t, n, r)
        PROVE  BornInv'
    <3>1. PICK i \in Slots :
            /\ born' = [born EXCEPT ![i] = next_handle]
            /\ \A j \in Slots : j # i => handles'[j] = handles[j]
      BY <2>4 DEF pd_handle_access_type, TypeOK
    <3>2. next_handle' = next_handle + 1 /\ phase = "active" /\ phase' = "active"
      BY <2>4 DEF pd_handle_access_type, Callable
    <3>3. next_handle \in Nat /\ born'[i] = next_handle
      BY <3>1 DEF TypeOK
    <3>4. \A j \in Slots : j # i => born'[j] = born[j] /\ born[j] \in Nat /\ born[j] < next_handle
      BY <3>1 DEF TypeOK, BornInv
    <3>5. \A j \in Slots : born'[j] < next_handle'
      BY <3>2, <3>3, <3>4
    <3>6. \A j, k \in Slots : born'[j] = born'[k] /\ born'[j] # 0 => j = k
      BY <3>3, <3>4 DEF BornInv
    <3>7. \A j \in Slots : Open(j)' => born'[j] # 0
      BY <3>1, <3>2, <3>3, <3>4 DEF BornInv, Open
    <3>8. QED
      BY <3>2, <3>3, <3>5, <3>6, <3>7 DEF BornInv
  <2>5. ASSUME UNCHANGED <<next_handle, phase, born>>,
               \A i \in Slots : handles'[i].handle \in {handles[i].handle, Invalid}
        PROVE  BornInv'
    BY <2>5 DEF BornInv, Open
  <2>6. ASSUME NEW h \in Ids, pd_release_handle(h)
        PROVE  BornInv'
    <3>1. \A i \in Slots : handles'[i].handle \in {handles[i].handle, Invalid}
      <4>1. handles' = handles \/ \E i \in Slots : handles' = [handles EXCEPT ![i] = FreeHandle]
        BY <2>6 DEF pd_release_handle
      <4>2. FreeHandle.handle = Invalid
        BY DEF FreeHandle
      <4>3. QED
        BY <4>1, <4>2 DEF TypeOK
    <3>2. QED
      BY <2>5, <2>6, <3>1 DEF pd_release_handle
  <2>7. ASSUME NEW h \in Ids, pd_terminate(h)
        PROVE  BornInv'
    BY <2>6, <2>7 DEF pd_terminate
  <2>8. ASSUME NEW h \in Ids, (\E o \in Options : pd_set_extended(h, o)) \/ pd_clear_extended(h)
        PROVE  BornInv'
    BY <2>5, <2>8 DEF pd_set_extended, pd_clear_extended, history
  <2>9. CASE Receive
    BY <2>5, <2>9, ReceiveKeepsIds DEF KeepsIds
  <2>10. CASE UNCHANGED vars
    BY <2>5, <2>10 DEF vars
  <2>11. QED
    BY <2>1, <2>2, <2>3, <2>4, <2>6, <2>7, <2>8, <2>9, <2>10 DEF Next, Calls
<1>3. QED
  BY <1>1, <1>2, TypeCorrect, PTL DEF Spec

\* Slot i is still to be visited by the receive loop, whose index has passed
\* the slot that is in an upcall.
Ahead(i) == IF rx_pc = "upcall" THEN i > rx_i ELSE i >= rx_i

\* Slot i holds a handle the loop will call when it gets there.
Listening(i) == Matches(i, rx_type) /\ HasReceiver(i)

WasCalled(h) == \E k \in DOMAIN upcalls : upcalls[k] = h

\* While a frame is being delivered: a handle that was called was opened before
\* and is nowhere in the part of the table still ahead, none was called twice,
\* and one that has to be called has been or is ahead and listening.
DeliveryInv ==
    rx_pc # "idle" =>
      /\ phase = "active"
      /\ \A k \in DOMAIN upcalls : upcalls[k] < next_handle
      /\ \A k \in DOMAIN upcalls : \A i \in Slots : born[i] = upcalls[k] => ~Ahead(i)
      /\ \A k, m \in DOMAIN upcalls : upcalls[k] = upcalls[m] => k = m
      /\ \A h \in stayed : \/ WasCalled(h)
                           \/ \E i \in Slots : Ahead(i) /\ Listening(i) /\ born[i] = h

\* Counting a packet leaves everything else in the slot alone.
LEMMA CountersOnly ==
    \A x \in HandleRecords :
        /\ Credit(x).handle = x.handle /\ Drop(x).handle = x.handle
        /\ Credit(x).packet_type = x.packet_type /\ Drop(x).packet_type = x.packet_type
        /\ Credit(x).receiver = x.receiver /\ Drop(x).receiver = x.receiver
  BY DEF Credit, Drop, HandleRecords

\* A slot whose contents other than the counters are the same listens as it
\* did, for the same frame.
LEMMA ListeningKept ==
    ASSUME NEW i, rx_type' = rx_type,
           handles'[i].handle = handles[i].handle,
           handles'[i].packet_type = handles[i].packet_type,
           handles'[i].receiver = handles[i].receiver
    PROVE  Listening(i) = Listening(i)'
  BY DEF Listening, Matches, Open, HasReceiver

\* What no step has to look into: outside the loop nothing is claimed, and a
\* step that leaves the handles' places and the loop alone keeps the claim.
LEMMA DeliveryKept ==
    ASSUME TypeOK, DeliveryInv, rx_pc # "idle",
           UNCHANGED <<rx_pc, rx_type, rx_i, upcalls, phase>>,
           next_handle' \in Nat, next_handle' >= next_handle,
           \A i \in Slots : WasCalled(born'[i]) => born'[i] = born[i],
           stayed' \subseteq stayed,
           \A i \in Slots : Open(i) /\ born[i] \in stayed' =>
                               handles'[i] = handles[i] /\ born'[i] = born[i]
    PROVE  DeliveryInv'
<1>1. phase = "active" /\ phase' = "active" /\ rx_pc' = rx_pc
  BY DEF DeliveryInv
<1>2. \A k \in DOMAIN upcalls : upcalls[k] < next_handle'
  <2>1. \A k \in DOMAIN upcalls : upcalls[k] \in Nat
    BY DEF TypeOK
  <2>2. \A k \in DOMAIN upcalls : upcalls[k] < next_handle
    BY DEF DeliveryInv
  <2>3. next_handle \in Nat
    BY DEF TypeOK
  <2>4. QED
    BY <2>1, <2>2, <2>3
<1>3. \A i \in Slots : Ahead(i)' = Ahead(i)
  BY DEF Ahead
<1>4. \A k \in DOMAIN upcalls : \A i \in Slots : born'[i] = upcalls[k] => ~Ahead(i)
  BY <1>2 DEF DeliveryInv, WasCalled
<1>5. \A h : WasCalled(h)' = WasCalled(h)
  BY DEF WasCalled
<1>6. ASSUME NEW h \in stayed', ~WasCalled(h)
      PROVE  \E i \in Slots : Ahead(i)' /\ Listening(i)' /\ born'[i] = h
  <2>1. PICK i \in Slots : Ahead(i) /\ Listening(i) /\ born[i] = h
    BY <1>6 DEF DeliveryInv
  <2>2. handles'[i] = handles[i] /\ born'[i] = born[i]
    BY <2>1, <1>6 DEF Listening, Matches
  <2>3. Listening(i)'
    BY <2>1, <2>2, ListeningKept
  <2>4. QED
    BY <1>3, <2>1, <2>2, <2>3
<1>7. \A k, m \in DOMAIN upcalls : upcalls[k] = upcalls[m] => k = m
  BY DEF DeliveryInv
<1>8. QED
  BY <1>1, <1>2, <1>3, <1>4, <1>5, <1>6, <1>7 DEF DeliveryInv

\* The loop moves on from the slot it was at, which is not one it has to call
\* any more.
LEMMA DeliveryMovesOn ==
    ASSUME TypeOK, DeliveryInv, rx_pc # "idle", rx_i \in Slots,
           rx_pc = "scan" => ~Listening(rx_i),
           rx_pc' = "scan", rx_i' = rx_i + 1,
           UNCHANGED <<rx_type, born, upcalls, phase, next_handle, stayed>>,
           \A i \in Slots : /\ handles'[i].handle = handles[i].handle
                            /\ handles'[i].packet_type = handles[i].packet_type
                            /\ handles'[i].receiver = handles[i].receiver
    PROVE  DeliveryInv'
<1>0. rx_i \in Nat /\ Slots \subseteq Nat
  BY DEF Slots
<1>1. phase' = "active" /\ rx_pc' # "idle"
  BY DEF DeliveryInv
<1>2. \A i \in Slots : Ahead(i)' <=> i > rx_i
  BY <1>0 DEF Ahead
<1>3. \A i \in Slots : Ahead(i)' => Ahead(i)
  BY <1>0, <1>2 DEF Ahead
<1>4. \A i \in Slots : Ahead(i) /\ Listening(i) => Ahead(i)'
  BY <1>0, <1>2 DEF Ahead, TypeOK
<1>5. \A i \in Slots : Listening(i) = Listening(i)'
  BY ListeningKept
<1>6. \A h : WasCalled(h)' = WasCalled(h)
  BY DEF WasCalled
<1>7. \A h \in stayed' : \/ WasCalled(h)'
                         \/ \E i \in Slots : Ahead(i)' /\ Listening(i)' /\ born'[i] = h
  BY <1>4, <1>5, <1>6 DEF DeliveryInv
<1>8. \A k \in DOMAIN upcalls : \A i \in Slots : born'[i] = upcalls[k] => ~Ahead(i)'
  BY <1>3 DEF DeliveryInv
<1>9. QED
  BY <1>1, <1>7, <1>8 DEF DeliveryInv

\* The loop's claim is kept by every step: the calls a receiver makes move no
\* handle to another slot, and a slot taken meanwhile was not in the delivery.
LEMMA DeliveryInvHolds == Spec => []DeliveryInv
<1>1. Init => DeliveryInv
  BY DEF Init, DeliveryInv
<1>2. ASSUME TypeOK, TypeOK', BornInv, DeliveryInv, [Next]_vars PROVE DeliveryInv'
  <2> USE <1>2
  <2>1. ASSUME api_install_hooks \/ api_activate \/ api_cleanup PROVE DeliveryInv'
    BY <2>1 DEF api_install_hooks, api_activate, api_cleanup, DeliveryInv, rx
  <2>2. ASSUME NEW t \in Types, NEW n \in 0 .. Nics, NEW r \in Receivers,
               pd_handle_access_type(t, n, r), rx_pc # "idle"
        PROVE  DeliveryInv'
    <3>1. PICK i \in Slots :
            /\ handles[i].handle = Invalid
            /\ born' = [born EXCEPT ![i] = next_handle]
            /\ \A j \in Slots : j # i => handles'[j] = handles[j]
      BY <2>2 DEF pd_handle_access_type, IsFirst, SlotsOf, TypeOK
    <3>2. /\ next_handle' = next_handle + 1 /\ next_handle \in Nat
          /\ UNCHANGED <<rx_pc, rx_type, rx_i, upcalls, phase, stayed>>
      BY <2>2 DEF pd_handle_access_type, rx, TypeOK
    <3>3. ~WasCalled(next_handle)
      BY <2>2, <3>2 DEF WasCalled, DeliveryInv
    <3>4. \A j \in Slots : born'[j] = IF j = i THEN next_handle ELSE born[j]
      BY <3>1 DEF TypeOK
    <3>5. \A j \in Slots : WasCalled(born'[j]) => born'[j] = born[j]
      BY <3>3, <3>4
    <3>6. \A j \in Slots : Open(j) /\ born[j] \in stayed' => handles'[j] = handles[j] /\ born'[j] = born[j]
      BY <3>1, <3>4 DEF Open
    <3>7. next_handle' \in Nat /\ next_handle' >= next_handle
      BY <3>2
    <3>8. QED
      BY <2>2, <3>2, <3>5, <3>6, <3>7, DeliveryKept
  <2>3. ASSUME NEW h \in Ids, pd_release_handle(h), rx_pc # "idle"
        PROVE  DeliveryInv'
    <3>1. UNCHANGED <<next_handle, rx_pc, rx_type, rx_i, born, upcalls, phase>>
      BY <2>3 DEF pd_release_handle, rx
    <3>2. \/ UNCHANGED <<handles, stayed>>
          \/ \E i \in Slots : /\ handles' = [handles EXCEPT ![i] = FreeHandle]
                             /\ stayed' = stayed \ {born[i]}
      BY <2>3 DEF pd_release_handle
    <3>3. /\ stayed' \subseteq stayed
          /\ \A i \in Slots : born[i] \in stayed' => handles'[i] = handles[i]
      BY <3>2 DEF TypeOK
    <3>4. next_handle' \in Nat /\ next_handle' >= next_handle
      BY <3>1 DEF TypeOK
    <3>5. QED
      BY <2>3, <3>1, <3>3, <3>4, DeliveryKept
  <2>4. ASSUME UNCHANGED <<handles, next_handle, phase, rx_pc, rx_type, rx_i, born, upcalls, stayed>>,
               rx_pc # "idle"
        PROVE  DeliveryInv'
    <3>1. next_handle' \in Nat /\ next_handle' >= next_handle
      BY <2>4 DEF TypeOK
    <3>2. QED
      BY <2>4, <3>1, DeliveryKept
  <2>5. ASSUME Calls PROVE DeliveryInv'
    <3>1. rx_pc' = rx_pc
      BY <2>5 DEF Calls, pd_handle_access_type, pd_release_handle, pd_terminate,
                  pd_set_extended, pd_clear_extended, rx
    <3>2. CASE rx_pc = "idle"
      BY <3>1, <3>2 DEF DeliveryInv
    <3>3. CASE rx_pc # "idle"
      <4>1. ASSUME NEW h \in Ids, (\E o \in Options : pd_set_extended(h, o)) \/ pd_clear_extended(h)
            PROVE  DeliveryInv'
        BY <2>4, <3>3, <4>1 DEF pd_set_extended, pd_clear_extended, rx, history
      <4>2. QED
        BY <2>2, <2>3, <2>5, <3>3, <4>1 DEF Calls, pd_terminate
    <3>4. QED
      BY <3>2, <3>3
  <2>6. ASSUME NEW t \in Types \ {0}, rx_begin(t) PROVE DeliveryInv'
    <3>1. /\ rx_pc' = "scan" /\ rx_type' = t /\ rx_i' = 0 /\ upcalls' = << >>
          /\ stayed' = Listeners(t) /\ phase' = "active"
          /\ handles' = handles /\ born' = born
      BY <2>6 DEF rx_begin, table
    <3>2. \A i \in Slots : Ahead(i)' /\ (Listening(i)' <=> Matches(i, t) /\ HasReceiver(i))
      BY <3>1 DEF Ahead, Listening, Matches, HasReceiver, Open, Slots
    <3>3. \A h \in stayed' : \E i \in Slots : Ahead(i)' /\ Listening(i)' /\ born'[i] = h
      BY <3>1, <3>2 DEF Listeners
    <3>4. QED
      BY <3>1, <3>3 DEF DeliveryInv
  <2>7. CASE rx_skip
    <3>1. /\ rx_pc = "scan" /\ rx_i \in Slots /\ ~Listening(rx_i)
          /\ rx_pc' = "scan" /\ rx_i' = rx_i + 1
          /\ UNCHANGED <<rx_type, born, upcalls, phase, next_handle, stayed>>
      BY <2>7 DEF rx_skip, Listening, history
    <3>2. \/ handles' = handles
          \/ handles' = [handles EXCEPT ![rx_i] = Drop(handles[rx_i])]
      BY <2>7 DEF rx_skip
    <3>3. \A i \in Slots : /\ handles'[i].handle = handles[i].handle
                           /\ handles'[i].packet_type = handles[i].packet_type
                           /\ handles'[i].receiver = handles[i].receiver
      <4>1. \A i \in Slots : i # rx_i => handles'[i] = handles[i]
        BY <3>2 DEF TypeOK
      <4>2. handles[rx_i] \in HandleRecords
        BY <3>1 DEF TypeOK
      <4>3. handles'[rx_i] \in {handles[rx_i], Credit(handles[rx_i]), Drop(handles[rx_i])}
        BY <3>1, <3>2 DEF TypeOK
      <4>4. QED
        BY <4>1, <4>2, <4>3, CountersOnly
    <3>4. QED
      BY <3>1, <3>3, DeliveryMovesOn
  <2>8. CASE rx_upcall
    <3>1. /\ rx_pc = "scan" /\ rx_i \in Slots /\ Listening(rx_i) /\ Open(rx_i)
          /\ rx_pc' = "upcall" /\ upcalls' = Append(upcalls, born[rx_i])
          /\ UNCHANGED <<handles, next_handle, rx_type, rx_i, phase, born, stayed>>
          /\ phase = "active"
      BY <2>8 DEF rx_upcall, Listening, Matches, table, DeliveryInv
    <3>2. PICK c : c = born[rx_i]
      OBVIOUS
    <3>3. PICK n : n = Len(upcalls)
      OBVIOUS
    <3>4. /\ n \in Nat /\ DOMAIN upcalls = 1 .. n /\ DOMAIN upcalls' = 1 .. n + 1
          /\ \A k \in 1 .. n : upcalls'[k] = upcalls[k]
          /\ upcalls'[n + 1] = c
      <4>1. c \in Nat /\ upcalls \in Seq(Nat)
        BY <3>1, <3>2 DEF TypeOK
      <4>2. QED
        BY <3>1, <3>2, <3>3, <4>1
    <3>5. c < next_handle
      BY <3>1, <3>2 DEF BornInv
    <3>6. \A i \in Slots : born[i] = c => i = rx_i
      BY <3>1, <3>2 DEF BornInv
    <3>7. rx_i \in Nat /\ Slots \subseteq Nat
      BY <3>1 DEF Slots
    <3>8. Ahead(rx_i) /\ \A i \in Slots : Ahead(i)' <=> Ahead(i) /\ i # rx_i
      BY <3>1, <3>7 DEF Ahead
    <3>9. ~WasCalled(c)
      BY <3>1, <3>2, <3>8 DEF WasCalled, DeliveryInv
    <3>10. \A k \in DOMAIN upcalls' : upcalls'[k] < next_handle'
      BY <3>1, <3>4, <3>5 DEF DeliveryInv
    <3>11. \A k \in DOMAIN upcalls' : \A i \in Slots : born'[i] = upcalls'[k] => ~Ahead(i)'
      <4>1. \A k \in 1 .. n : \A i \in Slots : born'[i] = upcalls'[k] => ~Ahead(i)'
        BY <3>1, <3>4, <3>8 DEF DeliveryInv
      <4>2. \A i \in Slots : born'[i] = c => ~Ahead(i)'
        BY <3>1, <3>6, <3>8
      <4>3. QED
        BY <3>4, <4>1, <4>2
    <3>12. \A k, m \in DOMAIN upcalls' : upcalls'[k] = upcalls'[m] => k = m
      <4>1. \A k, m \in 1 .. n : upcalls[k] = upcalls[m] => k = m
        BY <3>1, <3>4 DEF DeliveryInv
      <4>2. \A k \in 1 .. n : upcalls[k] # c
        BY <3>4, <3>9 DEF WasCalled
      <4>3. QED
        BY <3>4, <4>1, <4>2
    <3>13. WasCalled(c)' /\ \A h : WasCalled(h) => WasCalled(h)'
      BY <3>4 DEF WasCalled
    <3>14. \A h \in stayed' : \/ WasCalled(h)'
                              \/ \E i \in Slots : Ahead(i)' /\ Listening(i)' /\ born'[i] = h
      <4>1. \A i \in Slots : Listening(i) = Listening(i)'
        BY <3>1, ListeningKept
      <4>2. QED
        BY <3>1, <3>2, <3>8, <3>13, <4>1 DEF DeliveryInv
    <3>15. QED
      BY <3>1, <3>10, <3>11, <3>12, <3>14 DEF DeliveryInv
  <2>9. ASSUME NEW taken \in BOOLEAN, rx_return(taken) PROVE DeliveryInv'
    <3>1. /\ rx_pc = "upcall" /\ rx_i \in Slots
          /\ rx_pc' = "scan" /\ rx_i' = rx_i + 1
          /\ UNCHANGED <<rx_type, born, upcalls, phase, next_handle, stayed>>
      BY <2>9 DEF rx_return, history, TypeOK
    <3>2. \/ handles' = [handles EXCEPT ![rx_i] = Credit(handles[rx_i])]
          \/ handles' = [handles EXCEPT ![rx_i] = Drop(handles[rx_i])]
      BY <2>9 DEF rx_return
    <3>3. \A i \in Slots : /\ handles'[i].handle = handles[i].handle
                           /\ handles'[i].packet_type = handles[i].packet_type
                           /\ handles'[i].receiver = handles[i].receiver
      <4>1. \A i \in Slots : i # rx_i => handles'[i] = handles[i]
        BY <3>2 DEF TypeOK
      <4>2. handles[rx_i] \in HandleRecords
        BY <3>1 DEF TypeOK
      <4>3. handles'[rx_i] \in {handles[rx_i], Credit(handles[rx_i]), Drop(handles[rx_i])}
        BY <3>1, <3>2 DEF TypeOK
      <4>4. QED
        BY <4>1, <4>2, <4>3, CountersOnly
    <3>4. QED
      BY <3>1, <3>3, DeliveryMovesOn
  <2>10. ASSUME rx_no_buffer \/ rx_end PROVE DeliveryInv'
    BY <2>10 DEF rx_no_buffer, rx_end, DeliveryInv
  <2>11. CASE UNCHANGED vars
    BY <2>4, <2>11 DEF vars, DeliveryInv
  <2>12. QED
    BY <2>1, <2>5, <2>6, <2>7, <2>8, <2>9, <2>10, <2>11 DEF Next, Receive
<1>3. QED
  BY <1>1, <1>2, TypeCorrect, BornInvHolds, PTL DEF Spec

\* The receive loop of api_process_received_packet calls every handle that was
\* listening when the frame came and was not released meanwhile, and none
\* twice, whatever its receivers open, release and set from inside the loop and
\* however often the ids wrap.
THEOREM ListenersCalledOnce == Spec => []EveryListenerOnce
<1>1. TypeOK /\ DeliveryInv => EveryListenerOnce
  <2> SUFFICES ASSUME TypeOK, DeliveryInv, rx_pc # "idle"
               PROVE  /\ rx_pc = "scan" /\ rx_i = MaxHandles =>
                           \A h \in stayed : \E k \in DOMAIN upcalls : upcalls[k] = h
                      /\ \A k, m \in DOMAIN upcalls : upcalls[k] = upcalls[m] => k = m
    BY DEF EveryListenerOnce
  <2>1. rx_pc = "scan" /\ rx_i = MaxHandles => \A i \in Slots : ~Ahead(i)
    BY SizeAssumption DEF Ahead, Slots
  <2>2. QED
    BY <2>1 DEF DeliveryInv, WasCalled
<1>2. QED
  BY <1>1, TypeCorrect, DeliveryInvHolds, PTL
=============================================================================
