------------------------- MODULE TxCompletionProofs -------------------------
(***************************************************************************)
(* What holds of transmit completion for any number of cards, for rings,   *)
(* queues and batches of any size and for any number of sends.             *)
(***************************************************************************)
EXTENDS TxCompletion, FiniteSetTheorems, TLAPS

(***************************************************************************)
(* While the queue has not overflowed, a mapping is in one place at most   *)
(* and not unmapped there, even when a send has lapped the ring.           *)
(***************************************************************************)
Apart ==
    /\ \A d, e \in Descs : mapping[d] # Null /\ mapping[d] = mapping[e] => d = e
    /\ \A i, j \in Published : queue[i] # Null /\ queue[i] = queue[j] => i = j
    /\ \A d \in Descs, i \in Published : mapping[d] # Null => mapping[d] # queue[i]

Fresh ==
    /\ unmapped \subseteq 1 .. made /\ again = {}
    /\ \A d \in Descs : mapping[d] # Null => mapping[d] \in (1 .. made) \ unmapped
    /\ \A i \in Published : queue[i] # Null => queue[i] \in (1 .. made) \ unmapped

NotRecovering == ~overflow /\ fg \in {"idle", "sending", "loop", "test", "clear"}

(***************************************************************************)
(* While no send has lapped either, a mapping that is not unmapped is      *)
(* somewhere: an idle descriptor has none to lose, unless a send is about  *)
(* to start it.                                                            *)
(***************************************************************************)
Somewhere(m) == \/ m \in unmapped
                \/ \E d \in Descs : mapping[d] = m
                \/ \E i \in Published : queue[i] = m

Kept ==
    /\ \A m \in 1 .. made : Somewhere(m)
    /\ \A d \in Descs : status[d] = "busy" => mapping[d] # Null
    /\ \A d \in Descs : status[d] = "idle" =>
          mapping[d] = Null \/ (fg = "sending" /\ d = Current(fg_nic))
    /\ fg = "sending" => mapping[Current(fg_nic)] # Null /\ status[Current(fg_nic)] = "idle"

Sound == overflow_count = 0 => NotRecovering /\ Apart /\ Fresh /\ (~lapped => Kept)

TxInv == TypeOK /\ Sound

-----------------------------------------------------------------------------
(* The queue.                                                              *)

\* The index after the last one is the first.
LEMMA NextIndex ==
    ASSUME NEW i \in Queue
    PROVE  Next1(i) = (IF i = QueueSize - 1 THEN 0 ELSE i + 1) /\ Next1(i) \in Queue
<1>1. i \in Nat /\ i <= QueueSize - 1 /\ QueueSize \in Nat /\ QueueSize > 1
  BY CompletionAssumption DEF Queue
<1>2. CASE i = QueueSize - 1
  <2>1. QueueSize % QueueSize = 0
    BY <1>1
  <2>2. i + 1 = QueueSize
    BY <1>1, <1>2
  <2>3. QED
    BY <1>1, <1>2, <2>1, <2>2 DEF Next1, Queue
<1>3. CASE i # QueueSize - 1
  <2>1. (i + 1) % QueueSize = i + 1
    BY <1>1, <1>3
  <2>2. QED
    BY <1>1, <1>3, <2>1 DEF Next1, Queue
<1>4. QED
  BY <1>2, <1>3

\* Publishing an entry adds the place at head, which was not published.
LEMMA PublishedGrows ==
    ASSUME head \in Queue, tail \in Queue, Next1(head) # tail, head' = Next1(head), tail' = tail
    PROVE  head \notin Published /\ Published' = Published \cup {head}
<1>1. Next1(head) = (IF head = QueueSize - 1 THEN 0 ELSE head + 1)
  BY NextIndex
<1>2. QueueSize \in Nat /\ QueueSize > 1
  BY CompletionAssumption
<1>3. head \notin Published
  BY <1>2 DEF Published, Queue
<1>4. ASSUME NEW i \in Queue PROVE i \in Published' <=> i \in Published \/ i = head
  BY <1>1, <1>2 DEF Published, Queue
<1>5. Published \subseteq Queue /\ Published' \subseteq Queue
  BY DEF Published
<1>6. QED
  BY <1>3, <1>4, <1>5

\* Passing an entry removes the place at tail, which was published.
LEMMA PublishedShrinks ==
    ASSUME head \in Queue, tail \in Queue, tail # head, tail' = Next1(tail), head' = head
    PROVE  tail \in Published /\ Published' = Published \ {tail}
<1>1. Next1(tail) = (IF tail = QueueSize - 1 THEN 0 ELSE tail + 1)
  BY NextIndex
<1>2. QueueSize \in Nat /\ QueueSize > 1
  BY CompletionAssumption
<1>3. tail \in Published
  BY <1>2 DEF Published, Queue
<1>4. ASSUME NEW i \in Queue PROVE i \in Published' <=> i \in Published /\ i # tail
  BY <1>1, <1>2 DEF Published, Queue
<1>5. Published \subseteq Queue /\ Published' \subseteq Queue
  BY DEF Published
<1>6. QED
  BY <1>3, <1>4, <1>5

-----------------------------------------------------------------------------
(* Types.                                                                  *)

Flags == pending \in BOOLEAN /\ overflow \in BOOLEAN /\ lapped \in BOOLEAN

RingTypes ==
    /\ status \in [Descs -> {"idle", "busy", "complete"}]
    /\ mapping \in [Descs -> MapsOrNull]
    /\ tx_index \in [Nics -> Slots]

QueueTypes ==
    /\ queue \in [Queue -> MapsOrNull] /\ error \subseteq Queue
    /\ head \in Queue /\ tail \in Queue /\ overflow_count \in Nat

WhereTypes ==
    /\ fg \in {"idle", "sending", "loop", "test", "clear", "recover", "recover_clear", "reset"}
    /\ fg_nic \in Nics /\ processed \in 0 .. MaxBatch
    /\ scan \subseteq Descs /\ (found = {} \/ \E d \in Descs : found = {d})
    /\ isr \subseteq Slots /\ (isr_nic = {} \/ \E n \in Nics : isr_nic = {n})

HistoryTypes ==
    made \in 0 .. MaxMaps /\ unmapped \subseteq Maps /\ again \subseteq Maps

\* The parts of TypeOK.
LEMMA TypeParts ==
    /\ TypeOK <=> Flags /\ RingTypes /\ QueueTypes /\ WhereTypes /\ HistoryTypes
    /\ TypeOK' <=> Flags' /\ RingTypes' /\ QueueTypes' /\ WhereTypes' /\ HistoryTypes'
<1>1. TypeOK <=> Flags /\ RingTypes /\ QueueTypes /\ WhereTypes /\ HistoryTypes
  BY Zenon DEF TypeOK, Flags, RingTypes, QueueTypes, WhereTypes, HistoryTypes
<1>2. TypeOK' <=> Flags' /\ RingTypes' /\ QueueTypes' /\ WhereTypes' /\ HistoryTypes'
  BY Zenon DEF TypeOK, Flags, RingTypes, QueueTypes, WhereTypes, HistoryTypes
<1>3. QED
  BY <1>1, <1>2

\* Passing a mapping to dma_unmap_tx.
LEMMA UnmapTypes ==
    ASSUME HistoryTypes, NEW m \in MapsOrNull, dma_unmap_tx(m)
    PROVE  unmapped' \subseteq Maps /\ again' \subseteq Maps
BY DEF HistoryTypes, dma_unmap_tx, MapsOrNull

\* The index of a descriptor.
LEMMA CurrentIsDesc ==
    ASSUME RingTypes, NEW n \in Nics
    PROVE  Current(n) \in Descs
BY DEF RingTypes, Current, Descs

\* The foreground keeps the types.
LEMMA ForegroundTypes ==
    ASSUME TypeOK, \/ \E n \in Nics : _3c515_send_packet(n) \/ send_refused(n)
                   \/ ForegroundStep
    PROVE  TypeOK'
<1>0. Flags /\ RingTypes /\ QueueTypes /\ WhereTypes /\ HistoryTypes
  BY TypeParts
<1>1. ASSUME NEW n \in Nics, _3c515_send_packet(n) PROVE TypeOK'
  <2>1. Flags' /\ fg_nic' \in Nics
    BY <1>0, <1>1, Zenon DEF Flags, _3c515_send_packet, queueVars
  <2>2. made + 1 \in Maps /\ made' \in 0 .. MaxMaps
    BY <1>0, <1>1, CompletionAssumption DEF HistoryTypes, _3c515_send_packet, Maps
  <2>3. RingTypes'
    BY <1>0, <1>1, <2>2 DEF RingTypes, _3c515_send_packet, MapsOrNull
  <2>4. QueueTypes' /\ WhereTypes' /\ HistoryTypes'
    BY <1>0, <1>1, <2>1, <2>2 DEF QueueTypes, WhereTypes, HistoryTypes, _3c515_send_packet,
          queueVars, scanVars, isrVars, unmapVars
  <2>5. QED
    BY <2>1, <2>3, <2>4, TypeParts
<1>2. ASSUME NEW n \in Nics, send_refused(n) PROVE TypeOK'
  BY <1>2 DEF send_refused, vars, ringVars, queueVars, scanVars, isrVars, unmapVars, TypeOK
<1>3. CASE start_dma_down
  <2>1. (tx_index[fg_nic] + 1) % RingSize \in Slots
    BY <1>0, CompletionAssumption DEF RingTypes, WhereTypes, Slots
  <2>2. RingTypes'
    BY <1>0, <1>3, <2>1 DEF RingTypes, start_dma_down
  <2>3. Flags'
    BY <1>0, <1>3, Zenon DEF Flags, start_dma_down, queueVars
  <2>4. QueueTypes' /\ WhereTypes' /\ HistoryTypes'
    BY <1>0, <1>3 DEF QueueTypes, WhereTypes, HistoryTypes, start_dma_down, queueVars, scanVars,
          isrVars, unmapVars
  <2>5. QED
    BY <2>2, <2>3, <2>4, TypeParts
<1>4. CASE packet_process_deferred_work
  <2>1. Flags' /\ RingTypes' /\ HistoryTypes'
    BY <1>0, <1>4 DEF Flags, RingTypes, HistoryTypes, packet_process_deferred_work, ringVars, unmapVars
  <2>2. error' \subseteq Queue
    BY <1>0, <1>4 DEF QueueTypes, packet_process_deferred_work, Published
  <2>3. QueueTypes' /\ WhereTypes'
    BY <1>0, <1>4, <2>2, CompletionAssumption DEF QueueTypes, WhereTypes,
          packet_process_deferred_work, scanVars, isrVars
  <2>4. QED
    BY <2>1, <2>3, TypeParts
<1>5. CASE packet_process_tx_completion
  <2>1. Flags' /\ RingTypes'
    BY <1>0, <1>5 DEF Flags, RingTypes, packet_process_tx_completion, ringVars
  <2>2. unmapped' \subseteq Maps /\ again' \subseteq Maps
    BY <1>0, <1>5, UnmapTypes DEF packet_process_tx_completion, QueueTypes
  <2>3. tail' \in Queue
    BY <1>0, <1>5, NextIndex DEF packet_process_tx_completion, QueueTypes
  <2>4. processed' \in 0 .. MaxBatch
    BY <1>0, <1>5, CompletionAssumption DEF packet_process_tx_completion, WhereTypes, More
  <2>5. QueueTypes' /\ WhereTypes' /\ HistoryTypes'
    BY <1>0, <1>5, <2>2, <2>3, <2>4 DEF QueueTypes, WhereTypes, HistoryTypes,
          packet_process_tx_completion, scanVars, isrVars
  <2>6. QED
    BY <2>1, <2>5, TypeParts
<1>6. CASE test_empty \/ clear_pending \/ end_loop
  <2>1. Flags'
    BY <1>0, <1>6, Zenon DEF Flags, test_empty, clear_pending, end_loop, queueVars
  <2>2. RingTypes' /\ HistoryTypes'
    BY <1>0, <1>6 DEF RingTypes, HistoryTypes, test_empty, clear_pending, end_loop, ringVars, unmapVars
  <2>3. QueueTypes' /\ WhereTypes'
    BY <1>0, <1>6 DEF QueueTypes, WhereTypes, test_empty, clear_pending, end_loop, queueVars,
          scanVars, isrVars
  <2>4. QED
    BY <2>1, <2>2, <2>3, TypeParts
<1>7. ASSUME NEW d \in Descs, recover_look(d) PROVE TypeOK'
  <2>1. Flags'
    BY <1>0, <1>7, Zenon DEF Flags, recover_look, queueVars
  <2>2. RingTypes' /\ HistoryTypes' /\ QueueTypes'
    BY <1>0, <1>7 DEF RingTypes, HistoryTypes, QueueTypes, recover_look, ringVars, unmapVars, queueVars
  <2>3. WhereTypes'
    BY <1>0, <1>7 DEF WhereTypes, recover_look, isrVars
  <2>4. QED
    BY <2>1, <2>2, <2>3, TypeParts
<1>8. ASSUME NEW d \in Descs, recover_unmap(d) PROVE TypeOK'
  <2>1. Flags'
    BY <1>0, <1>8, Zenon DEF Flags, recover_unmap, queueVars
  <2>2. unmapped' \subseteq Maps /\ again' \subseteq Maps
    BY <1>0, <1>8, UnmapTypes DEF recover_unmap, RingTypes
  <2>3. RingTypes' /\ QueueTypes' /\ WhereTypes' /\ HistoryTypes'
    BY <1>0, <1>8, <2>2 DEF RingTypes, HistoryTypes, QueueTypes, WhereTypes, recover_unmap, ringVars,
          queueVars, scanVars, isrVars
  <2>4. QED
    BY <2>1, <2>3, TypeParts
<1>9. ASSUME NEW d \in Descs, recover_clear(d) PROVE TypeOK'
  <2>1. Flags'
    BY <1>0, <1>9, Zenon DEF Flags, recover_clear, queueVars
  <2>2. RingTypes'
    BY <1>0, <1>9 DEF RingTypes, recover_clear, MapsOrNull
  <2>3. QueueTypes' /\ WhereTypes' /\ HistoryTypes'
    BY <1>0, <1>9 DEF HistoryTypes, QueueTypes, WhereTypes, recover_clear, queueVars, isrVars, unmapVars
  <2>4. QED
    BY <2>1, <2>2, <2>3, TypeParts
<1>10. CASE recover_stale
  <2>1. PICK late \in SUBSET Published :
           /\ again' = again \cup ({queue[i] : i \in {i \in late : queue[i] # Null}} \cap unmapped)
           /\ unmapped' = unmapped \cup {queue[i] : i \in {i \in late : queue[i] # Null}}
           /\ queue' = [i \in Queue |-> IF i \in {j \in late : queue[j] # Null} THEN Null ELSE queue[i]]
           /\ error' = error \cup {i \in late : queue[i] # Null}
    BY <1>10 DEF recover_stale
  <2>2. late \subseteq Queue /\ \A i \in late : queue[i] # Null => queue[i] \in Maps
    BY <1>0, <2>1 DEF Published, QueueTypes, MapsOrNull
  <2>3. unmapped' \subseteq Maps /\ again' \subseteq Maps /\ error' \subseteq Queue
    BY <1>0, <2>1, <2>2 DEF QueueTypes, HistoryTypes
  <2>4. queue' \in [Queue -> MapsOrNull]
    BY <1>0, <2>1 DEF QueueTypes, MapsOrNull
  <2>5. Flags'
    BY <1>0, <1>10, Zenon DEF Flags, recover_stale
  <2>6. RingTypes' /\ QueueTypes' /\ WhereTypes' /\ HistoryTypes'
    BY <1>0, <1>10, <2>3, <2>4 DEF RingTypes, HistoryTypes, QueueTypes, WhereTypes, recover_stale,
          ringVars, scanVars, isrVars
  <2>7. QED
    BY <2>5, <2>6, TypeParts
<1>11. CASE reset_overflow
  <2>1. Flags'
    BY <1>0, <1>11, Zenon DEF Flags, reset_overflow
  <2>2. RingTypes' /\ QueueTypes' /\ WhereTypes' /\ HistoryTypes'
    BY <1>0, <1>11 DEF RingTypes, HistoryTypes, QueueTypes, WhereTypes, reset_overflow,
          ringVars, scanVars, isrVars, unmapVars
  <2>3. QED
    BY <2>1, <2>2, TypeParts
<1>12. QED
  BY <1>1, <1>2, <1>3, <1>4, <1>5, <1>6, <1>7, <1>8, <1>9, <1>10, <1>11 DEF ForegroundStep

\* The handler and the card keep them too.
LEMMA InterruptTypes ==
    ASSUME TypeOK, InterruptStep \/ CardStep
    PROVE  TypeOK'
<1>0. Flags /\ RingTypes /\ QueueTypes /\ WhereTypes /\ HistoryTypes
  BY TypeParts
<1>1. ASSUME NEW n \in Nics, _3c515_handle_interrupt(n) PROVE TypeOK'
  BY <1>1 DEF _3c515_handle_interrupt, TypeOK, ringVars, queueVars, scanVars, unmapVars
<1>2. ASSUME NEW n \in Nics, NEW i \in Slots, isr_complete(n, i) PROVE TypeOK'
  <2>0. <<n, i>> \in Descs
    BY DEF Descs
  <2>1. RingTypes'
    BY <1>0, <1>2, <2>0 DEF RingTypes, isr_complete, MapsOrNull
  <2>2. Flags'
    BY <1>0, <1>2, Zenon DEF Flags, isr_complete, packet_queue_tx_completion, Publishes, Overflows,
          queueVars
  <2>3. QueueTypes'
    <3>1. CASE UNCHANGED queueVars
      BY <1>0, <3>1 DEF QueueTypes, queueVars
    <3>2. CASE Publishes(mapping[<<n, i>>])
      BY <1>0, <2>0, <3>2, NextIndex DEF RingTypes, QueueTypes, Publishes
    <3>3. CASE Overflows
      BY <1>0, <3>3 DEF QueueTypes, Overflows
    <3>4. QED
      BY <1>2, <3>1, <3>2, <3>3 DEF isr_complete, packet_queue_tx_completion
  <2>4. WhereTypes' /\ HistoryTypes'
    BY <1>0, <1>2 DEF WhereTypes, HistoryTypes, isr_complete, scanVars, unmapVars
  <2>5. QED
    BY <2>1, <2>2, <2>3, <2>4, TypeParts
<1>3. ASSUME NEW n \in Nics, NEW i \in Slots, isr_pass(n, i) PROVE TypeOK'
  BY <1>3 DEF isr_pass, TypeOK, ringVars, queueVars, scanVars, unmapVars
<1>4. CASE isr_ack
  BY <1>4 DEF isr_ack, TypeOK, ringVars, queueVars, scanVars, unmapVars
<1>5. ASSUME NEW d \in Descs, down_complete(d) PROVE TypeOK'
  BY <1>5 DEF down_complete, TypeOK, queueVars, scanVars, isrVars, unmapVars
<1>6. QED
  BY <1>1, <1>2, <1>3, <1>4, <1>5 DEF InterruptStep, CardStep

-----------------------------------------------------------------------------
(* The steps.                                                              *)

\* Steps that leave the rings, the queue and the history alone.
LEMMA QuietStep ==
    ASSUME TxInv,
           UNCHANGED <<ringVars, queue, head, tail, overflow, overflow_count, fg_nic, made,
                       unmapVars, lapped>>,
           \/ fg' = fg
           \/ /\ fg # "sending"
              /\ overflow_count = 0 => fg' \in {"idle", "loop", "test", "clear"}
    PROVE  Sound'
<1> SUFFICES ASSUME overflow_count' = 0
             PROVE  (NotRecovering /\ Apart /\ Fresh /\ (~lapped => Kept))'
  BY DEF Sound
<1>1. overflow_count = 0 /\ NotRecovering /\ Apart /\ Fresh /\ (~lapped => Kept)
  BY DEF TxInv, Sound
<1>2. Published' = Published
  BY DEF Published
<1>3. NotRecovering'
  BY <1>1 DEF NotRecovering
<1>4. Apart' /\ Fresh'
  BY <1>1, <1>2 DEF Apart, Fresh, ringVars, unmapVars
<1>5. ASSUME ~lapped' PROVE Kept'
  BY <1>1, <1>2, <1>5 DEF Kept, Somewhere, Current, ringVars, unmapVars
<1>6. QED
  BY <1>3, <1>4, <1>5

\* A send stores a mapping that is new, in a descriptor that has none unless
\* it laps.
LEMMA SendStep ==
    ASSUME TxInv, NEW n \in Nics, _3c515_send_packet(n)
    PROVE  Sound'
<1> SUFFICES ASSUME overflow_count' = 0
             PROVE  (NotRecovering /\ Apart /\ Fresh /\ (~lapped => Kept))'
  BY DEF Sound
<1>0. /\ RingTypes /\ HistoryTypes /\ QueueTypes /\ fg = "idle"
      /\ UNCHANGED <<status, tx_index, queue, head, tail, overflow, overflow_count, unmapped, again>>
      /\ made' = made + 1 /\ fg' = "sending" /\ fg_nic' = n
      /\ lapped' = (lapped \/ status[Current(n)] = "busy")
  BY TypeParts DEF TxInv, _3c515_send_packet, Foreground, queueVars, unmapVars
<1>1. overflow_count = 0 /\ NotRecovering /\ Apart /\ Fresh /\ (~lapped => Kept)
  BY <1>0 DEF TxInv, Sound
<1>2. PICK c : c = Current(n)
  OBVIOUS
<1>3. PICK m : m = made + 1
  OBVIOUS
<1>4. /\ c \in Descs /\ Current(n)' = c /\ made \in Nat /\ m \in Nat /\ m # Null /\ m \notin 1 .. made
  BY <1>0, <1>2, <1>3, CurrentIsDesc, CompletionAssumption DEF Current, HistoryTypes, Null
<1>5. mapping'[c] = m /\ \A d \in Descs \ {c} : mapping'[d] = mapping[d]
  BY <1>0, <1>2, <1>3, <1>4 DEF RingTypes, _3c515_send_packet
<1>6. Published' = Published
  BY <1>0 DEF Published
<1>7. NotRecovering'
  BY <1>0, <1>1 DEF NotRecovering
<1>8. \A d \in Descs : mapping[d] # m
  BY <1>1, <1>4 DEF Fresh
<1>9. \A i \in Published : queue[i] # m
  BY <1>1, <1>4 DEF Fresh
<1>10. Apart'
  <2>1. \A d, e \in Descs : mapping'[d] # Null /\ mapping'[d] = mapping'[e] => d = e
    BY <1>1, <1>5, <1>8 DEF Apart
  <2>2. \A i, j \in Published : queue[i] # Null /\ queue[i] = queue[j] => i = j
    BY <1>1 DEF Apart
  <2>3. \A d \in Descs, i \in Published : mapping'[d] # Null => mapping'[d] # queue[i]
    BY <1>1, <1>5, <1>9 DEF Apart
  <2>4. QED
    BY <1>0, <1>6, <2>1, <2>2, <2>3 DEF Apart
<1>11. Fresh'
  <2>1. 1 .. made \subseteq 1 .. made' /\ m \in 1 .. made' /\ m \notin unmapped
    BY <1>0, <1>1, <1>3, <1>4 DEF Fresh
  <2>2. QED
    BY <1>0, <1>1, <1>5, <1>6, <2>1 DEF Fresh
<1>12. ASSUME ~lapped' PROVE Kept'
  <2>1. ~lapped /\ status[c] # "busy" /\ Kept
    BY <1>0, <1>1, <1>2, <1>12
  <2>2. status[c] = "idle" /\ mapping[c] = Null
    <3>1. status[c] # "complete"
      BY <1>2 DEF _3c515_send_packet
    <3>2. status[c] = "idle"
      BY <1>0, <1>4, <2>1, <3>1 DEF RingTypes
    <3>3. QED
      BY <1>0, <1>4, <2>1, <3>2 DEF Kept
  <2>3. ASSUME NEW k \in 1 .. made' PROVE Somewhere(k)'
    <3>1. CASE k = m
      BY <1>4, <1>5, <3>1 DEF Somewhere
    <3>2. CASE k # m
      <4>1. k \in 1 .. made /\ k # Null
        BY <1>0, <1>3, <1>4, <3>2 DEF Null
      <4>2. Somewhere(k)
        BY <2>1, <4>1 DEF Kept
      <4>3. QED
        BY <1>0, <1>5, <1>6, <2>2, <4>1, <4>2 DEF Somewhere
    <3>3. QED
      BY <3>1, <3>2
  <2>4. \A d \in Descs : status'[d] = "busy" => mapping'[d] # Null
    BY <1>0, <1>4, <1>5, <2>1 DEF Kept
  <2>5. \A d \in Descs : status'[d] = "idle" => mapping'[d] = Null \/ d = c
    BY <1>0, <1>5, <2>1 DEF Kept
  <2>6. Current(fg_nic)' = c
    BY <1>0, <1>2 DEF Current
  <2>7. QED
    BY <1>0, <1>4, <1>5, <2>2, <2>3, <2>4, <2>5, <2>6 DEF Kept
<1>13. QED
  BY <1>7, <1>10, <1>11, <1>12

\* The descriptor goes to the card.
LEMMA StartStep ==
    ASSUME TxInv, start_dma_down
    PROVE  Sound'
<1> SUFFICES ASSUME overflow_count' = 0
             PROVE  (NotRecovering /\ Apart /\ Fresh /\ (~lapped => Kept))'
  BY DEF Sound
<1>0. /\ RingTypes /\ fg_nic \in Nics /\ fg = "sending" /\ fg' = "idle"
      /\ UNCHANGED <<mapping, queue, head, tail, overflow, overflow_count, made, unmapped, again, lapped>>
  BY TypeParts DEF TxInv, WhereTypes, start_dma_down, Foreground, queueVars, unmapVars
<1>1. overflow_count = 0 /\ NotRecovering /\ Apart /\ Fresh /\ (~lapped => Kept)
  BY <1>0 DEF TxInv, Sound
<1>2. Published' = Published
  BY <1>0 DEF Published
<1>3. NotRecovering' /\ Apart' /\ Fresh'
  BY <1>0, <1>1, <1>2 DEF NotRecovering, Apart, Fresh
<1>4. PICK c : c = Current(fg_nic)
  OBVIOUS
<1>5. c \in Descs /\ status'[c] = "busy" /\ \A d \in Descs \ {c} : status'[d] = status[d]
  BY <1>0, <1>4, CurrentIsDesc DEF RingTypes, start_dma_down
<1>6. ASSUME ~lapped' PROVE Kept'
  BY <1>0, <1>1, <1>2, <1>4, <1>5, <1>6 DEF Kept, Somewhere
<1>7. QED
  BY <1>3, <1>6

\* The card completes a transfer.
LEMMA CompleteStep ==
    ASSUME TxInv, NEW d \in Descs, down_complete(d)
    PROVE  Sound'
<1> SUFFICES ASSUME overflow_count' = 0
             PROVE  (NotRecovering /\ Apart /\ Fresh /\ (~lapped => Kept))'
  BY DEF Sound
<1>0. /\ RingTypes /\ status[d] = "busy" /\ status' = [status EXCEPT ![d] = "complete"]
      /\ UNCHANGED <<mapping, tx_index, queue, head, tail, overflow, overflow_count, made, unmapped,
                     again, lapped, fg, fg_nic>>
  BY TypeParts DEF TxInv, down_complete, queueVars, unmapVars
<1>1. overflow_count = 0 /\ NotRecovering /\ Apart /\ Fresh /\ (~lapped => Kept)
  BY <1>0 DEF TxInv, Sound
<1>2. Published' = Published /\ Current(fg_nic)' = Current(fg_nic)
  BY <1>0 DEF Published, Current
<1>3. NotRecovering' /\ Apart' /\ Fresh'
  BY <1>0, <1>1, <1>2 DEF NotRecovering, Apart, Fresh
<1>4. status'[d] = "complete" /\ \A e \in Descs \ {d} : status'[e] = status[e]
  BY <1>0 DEF RingTypes
<1>5. fg_nic \in Nics
  BY TypeParts DEF TxInv, WhereTypes
<1>6. ASSUME ~lapped' PROVE Kept'
  <2>1. Kept /\ Current(fg_nic) \in Descs
    BY <1>0, <1>1, <1>5, <1>6, CurrentIsDesc
  <2>2. QED
    BY <1>0, <1>2, <1>4, <2>1 DEF Kept, Somewhere
<1>7. QED
  BY <1>3, <1>6

\* The handler hands a mapping to the queue and forgets it.
LEMMA HandOverStep ==
    ASSUME TxInv, NEW n \in Nics, NEW i \in Slots, isr_complete(n, i)
    PROVE  Sound'
<1> SUFFICES ASSUME overflow_count' = 0
             PROVE  (NotRecovering /\ Apart /\ Fresh /\ (~lapped => Kept))'
  BY DEF Sound
<1> PICK c : c = <<n, i>>
  OBVIOUS
<1>0. /\ RingTypes /\ QueueTypes /\ c \in Descs /\ fg_nic \in Nics
      /\ status[c] = "complete" /\ status' = [status EXCEPT ![c] = "idle"]
      /\ UNCHANGED <<tx_index, fg, fg_nic, made, unmapped, again, lapped>>
  BY TypeParts DEF TxInv, WhereTypes, isr_complete, unmapVars, Descs
<1>1. \/ /\ mapping[c] = Null
         /\ UNCHANGED <<mapping, queue, head, tail, overflow, overflow_count>>
      \/ /\ mapping[c] # Null /\ Next1(head) # tail
         /\ queue' = [queue EXCEPT ![head] = mapping[c]] /\ head' = Next1(head)
         /\ mapping' = [mapping EXCEPT ![c] = Null]
         /\ UNCHANGED <<tail, overflow, overflow_count>>
  <2>1. ~Overflows
    BY <1>0 DEF Overflows, QueueTypes
  <2>2. QED
    BY <2>1 DEF isr_complete, packet_queue_tx_completion, Publishes, queueVars
<1>2. overflow_count = 0 /\ NotRecovering /\ Apart /\ Fresh /\ (~lapped => Kept)
  BY <1>1 DEF TxInv, Sound
<1>3. NotRecovering'
  BY <1>0, <1>1, <1>2 DEF NotRecovering
<1>4. /\ Current(fg_nic)' = Current(fg_nic) /\ Current(fg_nic) \in Descs
      /\ status'[c] = "idle" /\ \A d \in Descs \ {c} : status'[d] = status[d]
  BY <1>0, CurrentIsDesc DEF Current, RingTypes
<1>5. CASE mapping[c] = Null
  <2>1. UNCHANGED <<mapping, queue, head, tail>>
    BY <1>1, <1>5
  <2>2. Published' = Published
    BY <2>1 DEF Published
  <2>3. Apart' /\ Fresh'
    BY <1>0, <1>2, <2>1, <2>2 DEF Apart, Fresh
  <2>4. ASSUME ~lapped' PROVE Kept'
    BY <1>0, <1>2, <1>4, <1>5, <2>1, <2>2, <2>4 DEF Kept, Somewhere
  <2>5. QED
    BY <1>3, <2>3, <2>4
<1>6. CASE mapping[c] # Null
  <2> PICK m : m = mapping[c]
    OBVIOUS
  <2>1. /\ m # Null /\ Next1(head) # tail /\ queue' = [queue EXCEPT ![head] = m]
        /\ head' = Next1(head) /\ tail' = tail /\ mapping' = [mapping EXCEPT ![c] = Null]
    BY <1>1, <1>6
  <2>2. PICK h : h = head
    OBVIOUS
  <2>3. h \in Queue /\ h \notin Published /\ Published' = Published \cup {h} /\ Published \subseteq Queue
    <3>1. head \in Queue /\ tail \in Queue
      BY <1>0 DEF QueueTypes
    <3>2. QED
      BY <2>1, <2>2, <3>1, PublishedGrows DEF Published
  <2>4. /\ queue'[h] = m /\ \A j \in Published : queue'[j] = queue[j] /\ j # h
        /\ mapping'[c] = Null /\ \A d \in Descs \ {c} : mapping'[d] = mapping[d]
    BY <1>0, <2>1, <2>2, <2>3 DEF RingTypes, QueueTypes
  <2>5. \A d \in Descs \ {c} : mapping[d] # m
    BY <1>0, <1>2, <2>1 DEF Apart
  <2>6. \A j \in Published : queue[j] # m
    BY <1>0, <1>2, <2>1 DEF Apart
  <2>7. Apart'
    <3>1. \A d, e \in Descs : mapping'[d] # Null /\ mapping'[d] = mapping'[e] => d = e
      BY <1>2, <2>4 DEF Apart
    <3>2. \A j, k \in Published' : queue'[j] # Null /\ queue'[j] = queue'[k] => j = k
      BY <1>2, <2>3, <2>4, <2>6 DEF Apart
    <3>3. \A d \in Descs, j \in Published' : mapping'[d] # Null => mapping'[d] # queue'[j]
      BY <1>2, <2>3, <2>4, <2>5 DEF Apart
    <3>4. QED
      BY <3>1, <3>2, <3>3 DEF Apart
  <2>8. Fresh'
    <3>1. m \in (1 .. made) \ unmapped
      BY <1>0, <1>2, <2>1 DEF Fresh
    <3>2. QED
      BY <1>0, <1>2, <2>3, <2>4, <3>1 DEF Fresh
  <2>9. ASSUME ~lapped' PROVE Kept'
    <3>1. Kept
      BY <1>0, <1>2, <2>9
    <3>2. ASSUME NEW k \in 1 .. made PROVE Somewhere(k)'
      <4>1. Somewhere(k)
        BY <3>1 DEF Kept
      <4>2. CASE k = m
        BY <2>3, <2>4, <4>2 DEF Somewhere
      <4>3. CASE k # m
        BY <1>0, <2>3, <2>4, <4>1, <4>3 DEF Somewhere
      <4>4. QED
        BY <4>2, <4>3
    <3>3. \A d \in Descs : status'[d] = "busy" => mapping'[d] # Null
      BY <1>4, <2>4, <3>1 DEF Kept
    <3>4. \A d \in Descs : status'[d] = "idle" =>
             mapping'[d] = Null \/ (fg = "sending" /\ d = Current(fg_nic))
      BY <1>4, <2>4, <3>1 DEF Kept
    <3>5. fg = "sending" => /\ mapping'[Current(fg_nic)] # Null
                            /\ status'[Current(fg_nic)] = "idle"
      <4>1. fg = "sending" => Current(fg_nic) # c
        BY <1>0, <3>1 DEF Kept
      <4>2. QED
        BY <1>4, <2>4, <3>1, <4>1 DEF Kept
    <3>6. QED
      BY <1>0, <1>4, <3>2, <3>3, <3>4, <3>5 DEF Kept
  <2>10. QED
    BY <1>3, <2>7, <2>8, <2>9
<1>7. QED
  BY <1>5, <1>6

\* The bottom half unmaps an entry and passes it.
LEMMA ReleaseStep ==
    ASSUME TxInv, packet_process_tx_completion
    PROVE  Sound'
<1> SUFFICES ASSUME overflow_count' = 0
             PROVE  (NotRecovering /\ Apart /\ Fresh /\ (~lapped => Kept))'
  BY DEF Sound
<1> PICK m : m = queue[tail]
  OBVIOUS
<1> PICK u : u = tail
  OBVIOUS
<1>0. /\ QueueTypes /\ HistoryTypes /\ fg = "loop" /\ fg' = "test" /\ tail # head
      /\ dma_unmap_tx(m) /\ tail' = Next1(tail)
      /\ UNCHANGED <<status, mapping, tx_index, queue, head, overflow, overflow_count, fg_nic, made, lapped>>
  BY TypeParts DEF TxInv, packet_process_tx_completion, Foreground, More, ringVars
<1>1. overflow_count = 0 /\ NotRecovering /\ Apart /\ Fresh /\ (~lapped => Kept)
  BY <1>0 DEF TxInv, Sound
<1>2. u \in Published /\ Published' = Published \ {u} /\ queue[u] = m
  BY <1>0, PublishedShrinks DEF QueueTypes
<1>3. NotRecovering'
  BY <1>0, <1>1 DEF NotRecovering
<1>4. Apart'
  BY <1>0, <1>1, <1>2 DEF Apart
<1>5. again' = {} /\ unmapped' = IF m = Null THEN unmapped ELSE unmapped \cup {m}
  <2>1. Null \notin unmapped
    BY <1>0 DEF HistoryTypes, Maps, Null
  <2>2. m \notin unmapped
    BY <1>1, <1>2, <2>1 DEF Fresh
  <2>3. QED
    BY <1>0, <1>1, <2>2 DEF dma_unmap_tx, Fresh
<1>6. Fresh'
  <2>1. \A d \in Descs : mapping[d] # Null => mapping[d] \in (1 .. made) \ unmapped'
    BY <1>1, <1>2, <1>5 DEF Fresh, Apart
  <2>2. \A j \in Published' : queue[j] # Null => queue[j] \in (1 .. made) \ unmapped'
    BY <1>1, <1>2, <1>5 DEF Fresh, Apart
  <2>3. unmapped' \subseteq 1 .. made
    BY <1>1, <1>2, <1>5 DEF Fresh
  <2>4. QED
    BY <1>0, <1>5, <2>1, <2>2, <2>3 DEF Fresh
<1>7. ASSUME ~lapped' PROVE Kept'
  <2>1. Kept
    BY <1>0, <1>1, <1>7
  <2>2. ASSUME NEW k \in 1 .. made PROVE Somewhere(k)'
    <3>1. Somewhere(k) /\ k # Null
      BY <2>1 DEF Kept, Null
    <3>2. CASE k = m
      BY <1>5, <3>1, <3>2 DEF Somewhere
    <3>3. CASE k # m
      BY <1>0, <1>2, <1>5, <3>1, <3>3 DEF Somewhere
    <3>4. QED
      BY <3>2, <3>3
  <2>3. QED
    BY <1>0, <2>1, <2>2 DEF Kept
<1>8. QED
  BY <1>3, <1>4, <1>6, <1>7

\* Recovery runs only after the queue has overflowed.
LEMMA RecoveryStep ==
    ASSUME TxInv, UNCHANGED overflow_count, fg \in {"recover", "recover_clear", "reset"}
    PROVE  Sound'
BY DEF TxInv, Sound, NotRecovering

-----------------------------------------------------------------------------
(* The theorems.                                                           *)

\* Nothing is mapped when the driver starts.
LEMMA TxInit == Init => TxInv
<1> SUFFICES ASSUME Init PROVE TxInv
  OBVIOUS
<1>1. Published = {}
  BY CompletionAssumption DEF Init, Published, Queue
<1>2. Flags
  BY Zenon DEF Init, Flags
<1>3. RingTypes
  BY CompletionAssumption DEF Init, RingTypes, MapsOrNull, Slots
<1>4. QueueTypes
  BY CompletionAssumption DEF Init, QueueTypes, MapsOrNull, Queue
<1>5. WhereTypes /\ HistoryTypes
  BY CompletionAssumption DEF Init, WhereTypes, HistoryTypes
<1>6. Sound
  BY <1>1 DEF Init, Sound, NotRecovering, Apart, Fresh, Kept, Current
<1>7. QED
  BY <1>2, <1>3, <1>4, <1>5, <1>6, TypeParts DEF TxInv

\* Every step of the foreground, the handler and the card keeps the invariant.
LEMMA TxNext == TxInv /\ [Next]_vars => TxInv'
<1> SUFFICES ASSUME TxInv, [Next]_vars PROVE TxInv'
  OBVIOUS
<1>1. TypeOK'
  <2>1. CASE UNCHANGED vars
    BY <2>1 DEF TxInv, TypeOK, vars, ringVars, queueVars, scanVars, isrVars, unmapVars
  <2>2. QED
    BY <2>1, ForegroundTypes, InterruptTypes DEF TxInv, Next
<1> SUFFICES Sound'
  BY <1>1 DEF TxInv
<1>2. ASSUME NEW n \in Nics, _3c515_send_packet(n) PROVE Sound'
  BY <1>2, SendStep
<1>3. CASE UNCHANGED vars
  BY <1>3, QuietStep DEF vars, queueVars
<1>4. CASE start_dma_down
  BY <1>4, StartStep
<1>5. CASE packet_process_deferred_work \/ test_empty \/ clear_pending \/ end_loop
  <2>1. /\ UNCHANGED <<ringVars, queue, head, tail, overflow, overflow_count, fg_nic, made,
                       unmapVars, lapped>>
        /\ fg # "sending"
    BY <1>5 DEF packet_process_deferred_work, test_empty, clear_pending, end_loop, queueVars, Foreground
  <2>2. overflow_count = 0 => fg' \in {"idle", "loop", "test", "clear"}
    BY <1>5 DEF TxInv, Sound, NotRecovering, packet_process_deferred_work, test_empty, clear_pending,
          end_loop
  <2>3. QED
    BY <2>1, <2>2, QuietStep
<1>6. CASE packet_process_tx_completion
  BY <1>6, ReleaseStep
<1>7. ASSUME NEW d \in Descs, recover_look(d) \/ recover_unmap(d) \/ recover_clear(d) PROVE Sound'
  BY <1>7, RecoveryStep DEF recover_look, recover_unmap, recover_clear, Foreground, queueVars
<1>8. CASE recover_stale \/ reset_overflow
  BY <1>8, RecoveryStep DEF recover_stale, reset_overflow, Foreground
<1>9. ASSUME NEW n \in Nics, NEW i \in Slots, isr_complete(n, i) PROVE Sound'
  BY <1>9, HandOverStep
<1>10. ASSUME \/ \E n \in Nics : _3c515_handle_interrupt(n)
              \/ \E n \in Nics, i \in Slots : isr_pass(n, i)
              \/ isr_ack
       PROVE  Sound'
  BY <1>10, QuietStep DEF _3c515_handle_interrupt, isr_pass, isr_ack, queueVars
<1>11. ASSUME NEW d \in Descs, down_complete(d) PROVE Sound'
  BY <1>11, CompleteStep
<1>12. QED
  BY <1>2, <1>3, <1>4, <1>5, <1>6, <1>7, <1>8, <1>9, <1>10, <1>11
     DEF Next, ForegroundStep, InterruptStep, CardStep, send_refused

\* The invariant of transmit completion.
THEOREM TxInvariant == Spec => []TxInv
<1>1. QED
  BY TxInit, TxNext, PTL DEF Spec

\* The rings and the queue are well formed, and as long as no send has lapped
\* the ring and the queue has not overflowed, a mapping has one owner from
\* _3c515_send_packet until the bottom half unmaps it, and none afterwards.
THEOREM OwnedUntilUnmapped == Spec => []OwnershipInv
<1>1. TxInv => OwnershipInv
  <2> SUFFICES ASSUME TxInv PROVE OwnershipInv
    OBVIOUS
  <2>1. ASSUME ~lapped, overflow_count = 0, NEW m \in 1 .. made
        PROVE  Owners(m) = IF m \in unmapped THEN 0 ELSE 1
    <3>0. Apart /\ Fresh /\ Kept /\ m # Null
      BY <2>1 DEF TxInv, Sound, Null
    <3>1. Cardinality({}) = 0 /\ \A x : Cardinality({x}) = 1
      BY FS_EmptySet, FS_Singleton
    <3> DEFINE D == {d \in Descs : mapping[d] = m}
               Q == {i \in Published : queue[i] = m}
    <3>2. Owners(m) = Cardinality(D) + Cardinality(Q)
      BY DEF Owners
    <3>3. CASE m \in unmapped
      <4>1. D = {} /\ Q = {}
        BY <3>0, <3>3 DEF Fresh
      <4>2. QED
        BY <3>1, <3>2, <3>3, <4>1
    <3>4. CASE m \notin unmapped /\ \E d \in Descs : mapping[d] = m
      <4>1. PICK d \in Descs : mapping[d] = m
        BY <3>4
      <4>2. D = {d} /\ Q = {}
        BY <3>0, <4>1 DEF Apart
      <4>3. Cardinality(D) = 1 /\ Cardinality(Q) = 0
        BY <3>1, <4>2, Zenon
      <4>4. QED
        BY <3>2, <3>4, <4>3
    <3>5. CASE m \notin unmapped /\ \E i \in Published : queue[i] = m
      <4>1. PICK i \in Published : queue[i] = m
        BY <3>5
      <4>2. Q = {i} /\ D = {}
        BY <3>0, <4>1 DEF Apart
      <4>3. Cardinality(D) = 0 /\ Cardinality(Q) = 1
        BY <3>1, <4>2, Zenon
      <4>4. QED
        BY <3>2, <3>5, <4>3
    <3>6. QED
      BY <3>0, <3>3, <3>4, <3>5 DEF Kept, Somewhere
  <2>2. ~lapped /\ overflow_count = 0 => \A d \in Descs : status[d] = "busy" => mapping[d] # Null
    BY DEF TxInv, Sound, Kept
  <2>3. QED
    BY <2>1, <2>2 DEF OwnershipInv, OneOwner, TxInv
<1>2. QED
  BY <1>1, TxInvariant, PTL

\* Whatever the sends do, laps of the ring included, no mapping is passed to
\* dma_unmap_tx twice unless the queue overflows.
THEOREM UnmappedAtMostOnce == Spec => []UnmappedOnce
<1>1. TxInv => UnmappedOnce
  BY DEF TxInv, Sound, Fresh, UnmappedOnce
<1>2. QED
  BY <1>1, TxInvariant, PTL

\* A queued mapping stays queued until a step of the bottom half unmaps it,
\* through laps and overflows alike.
THEOREM QueueLosesNothing == Spec => QueuedUntilUnmapped
<1>1. ASSUME TypeOK, Next, NEW m \in Queued
      PROVE  m \in Queued' \/ m \in unmapped'
  <2>0. QueueTypes /\ m # Null /\ HistoryTypes
    BY <1>1, TypeParts DEF Queued
  <2>1. PICK i \in Published : queue[i] = m
    BY DEF Queued
  <2>2. ASSUME i \in Published', queue'[i] = m PROVE m \in Queued'
    BY <2>0, <2>2 DEF Queued
  <2>3. CASE UNCHANGED <<queue, head, tail>>
    BY <2>1, <2>2, <2>3 DEF Published
  <2>4. CASE packet_process_tx_completion
    <3>1. /\ tail # head /\ tail' = Next1(tail) /\ UNCHANGED <<queue, head>>
          /\ dma_unmap_tx(queue[tail])
      BY <2>4 DEF packet_process_tx_completion, More
    <3>2. Published' = Published \ {tail}
      BY <2>0, <3>1, PublishedShrinks DEF QueueTypes
    <3>3. CASE i = tail
      BY <2>0, <2>1, <3>1, <3>3 DEF dma_unmap_tx
    <3>4. CASE i # tail
      BY <2>1, <2>2, <3>1, <3>2, <3>4
    <3>5. QED
      BY <3>3, <3>4
  <2>5. CASE recover_stale
    <3>1. PICK late \in SUBSET Published :
             /\ unmapped' = unmapped \cup {queue[j] : j \in {j \in late : queue[j] # Null}}
             /\ queue' = [j \in Queue |-> IF j \in {l \in late : queue[l] # Null} THEN Null ELSE queue[j]]
      BY <2>5 DEF recover_stale
    <3>2. UNCHANGED <<head, tail>>
      BY <2>5 DEF recover_stale
    <3>3. CASE i \in late
      BY <2>0, <2>1, <3>1, <3>3
    <3>4. CASE i \notin late
      BY <2>1, <2>2, <3>1, <3>2, <3>4 DEF Published
    <3>5. QED
      BY <3>3, <3>4
  <2>6. ASSUME NEW n \in Nics, NEW k \in Slots, isr_complete(n, k) PROVE m \in Queued' \/ m \in unmapped'
    <3>1. \/ UNCHANGED <<queue, head, tail>>
          \/ /\ Next1(head) # tail /\ queue' = [queue EXCEPT ![head] = mapping[<<n, k>>]]
             /\ head' = Next1(head) /\ tail' = tail
      BY <2>6 DEF isr_complete, packet_queue_tx_completion, Publishes, Overflows, queueVars
    <3>2. CASE /\ Next1(head) # tail /\ queue' = [queue EXCEPT ![head] = mapping[<<n, k>>]]
               /\ head' = Next1(head) /\ tail' = tail
      <4>1. head \notin Published /\ Published' = Published \cup {head}
        BY <2>0, <3>2, PublishedGrows DEF QueueTypes
      <4>2. i \in Published' /\ queue'[i] = m
        BY <2>0, <2>1, <3>2, <4>1 DEF QueueTypes, Published
      <4>3. QED
        BY <2>2, <4>2
    <3>3. QED
      BY <2>3, <3>1, <3>2
  <2>7. \/ UNCHANGED <<queue, head, tail>> \/ packet_process_tx_completion \/ recover_stale
        \/ \E n \in Nics, k \in Slots : isr_complete(n, k)
    BY <1>1 DEF Next, ForegroundStep, InterruptStep, CardStep, _3c515_send_packet, send_refused,
          start_dma_down, packet_process_deferred_work, test_empty, clear_pending, end_loop,
          recover_look, recover_unmap, recover_clear, reset_overflow, _3c515_handle_interrupt,
          isr_pass, isr_ack, down_complete, vars, queueVars
  <2>8. QED
    BY <2>3, <2>4, <2>5, <2>6, <2>7
<1>2. TxInv /\ [Next]_vars => [\A m \in Queued : m \in Queued' \/ m \in unmapped']_vars
  BY <1>1 DEF TxInv
<1>3. QED
  BY <1>2, TxInvariant, PTL DEF Spec, QueuedUntilUnmapped
=============================================================================
