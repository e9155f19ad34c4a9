-------------------------- MODULE VdsManagerProofs --------------------------
(***************************************************************************)
(* What holds of the VDS lock manager for any number of regions, of        *)
(* registry entries, of blocks in the bounce pool and of references.       *)
(***************************************************************************)
EXTENDS VdsManager, WellFoundedInduction, TLAPS

\* What a free entry looks like to a search by id, and what a locked one without
\* references is.
Fresh == /\ \A e \in Entries \ InUse : registry[e].id = Invalid
         /\ \A e \in InUse : registry[e].state = "locked" /\ registry[e].refs = 0
                             => registry[e].policy = "persistent"

(***************************************************************************)
(* The registry against VDS.  Handles decide this side alone, so it holds  *)
(* whatever becomes of the ids.                                            *)
(***************************************************************************)
VdsSide == present =>
    /\ \A e \in InUse : LockOf(e) \in vds
    /\ \A e, f \in InUse : e # f /\ registry[e].handle # 0
                           => registry[e].handle # registry[f].handle
    /\ \A l \in vds \ refused : l.handle # 0 => \E e \in InUse : LockOf(e) = l

(***************************************************************************)
(* The count of an entry against the references k its clients hold.  An    *)
(* unlock that VDS refused has dropped the last reference of the entry and *)
(* not the client's.                                                       *)
(***************************************************************************)
Counts(x, k) ==
    IF x.state = "locked"
    THEN x.refs = k
    ELSE x.refs = 0 /\ k = 1 /\ x.policy # "persistent"

\* Entries a client can have; one with the invalid id is nobody's.
Named == {e \in InUse : registry[e].id # Invalid}

\* The registry against its clients, while an id names one entry.
ClientSide == ~recycled =>
    /\ \A e \in Named : /\ registry[e].region = region_of[registry[e].id]
                        /\ Counts(registry[e], held[registry[e].id])
    /\ \A e, f \in Named : e # f => registry[e].id # registry[f].id
    /\ \A i \in Ids : held[i] > 0 => \E e \in Named : registry[e].id = i

(***************************************************************************)
(* The allocated blocks are the first ones of the pool: an unlock does not *)
(* give blocks back, so the run that is found is always the last.  This is *)
(* why freeing "until we hit unallocated" stops where it should.           *)
(***************************************************************************)
Prefix == \A c \in map, b \in Pool : b < c => b \in map

BlocksInv == \A i, j \in Ids : /\ blocks_of[i] \subseteq map
                               /\ i # j => blocks_of[i] \cap blocks_of[j] = {}

Idle == /\ map = {} /\ (present => \A l \in vds \ refused : l.handle = 0)
        /\ \A i \in Ids : held[i] = 0 /\ blocks_of[i] = {}

VdsInv == /\ TypeOK /\ Prefix /\ BlocksInv /\ held[Invalid] = 0
          /\ ready => Fresh /\ VdsSide /\ ClientSide
          /\ ~ready => Idle

-----------------------------------------------------------------------------
(* First fits.                                                             *)

\* Every nonempty set of naturals has a least element.
LEMMA LeastExists ==
    ASSUME NEW S \in SUBSET Nat, S # {}
    PROVE  \E n \in S : \A m \in S : n <= m
<1> DEFINE R == {ss \in Nat \X Nat : ss[1] < ss[2]}
<1>1. R = OpToRel(<, Nat)
  BY Zenon DEF OpToRel
<1>2. IsWellFoundedOn(R, Nat)
  BY <1>1, NatLessThanWellFounded, Zenon
<1> HIDE DEF R
<1>3. PICK n \in S : \A m \in S : ~ (<<m, n>> \in R)
  BY <1>2, WFMin
<1>4. ASSUME NEW m \in Nat, NEW k \in Nat, m < k PROVE <<m, k>> \in R
  <2>1. <<m, k>> \in Nat \X Nat /\ <<m, k>>[1] = m /\ <<m, k>>[2] = k
    OBVIOUS
  <2>2. <<m, k>>[1] < <<m, k>>[2]
    BY <1>4, <2>1
  <2>3. QED
    BY <2>1, <2>2, Zenon DEF R
<1>5. ASSUME NEW m \in S PROVE n <= m
  <2>1. m \in Nat /\ n \in Nat
    OBVIOUS
  <2>2. ~ (m < n)
    BY <1>3, <1>4, <2>1, Zenon
  <2>3. QED
    BY <2>1, <2>2
<1>6. QED
  BY <1>5

\* The first of a set of entries or handles is one of them.
LEMMA FirstIsOne ==
    ASSUME NEW E \in SUBSET Nat, E # {}
    PROVE  FirstOf(E) \in E
<1>1. \E e \in E : \A f \in E : e <= f
  BY LeastExists
<1>2. QED
  BY <1>1 DEF FirstOf

\* While the allocated blocks are the first ones, the run that is found
\* follows them, and freeing it again leaves exactly them.
LEMMA RunFollows ==
    ASSUME map \subseteq Pool, Prefix, NEW n \in Nat \ {0}, FreeRuns(n) # {},
           NEW b, b = find_free_bounce_block(n)
    PROVE  /\ b \in Pool /\ Run(b, n) \subseteq Pool /\ Run(b, n) \cap map = {}
           /\ \A c \in Pool : c \in map <=> c < b
           /\ vds_free_bounce_buffer(map \cup Run(b, n), b) = map
<1>0. FreeRuns(n) \in SUBSET Nat /\ Pool \in SUBSET Nat
  BY VdsAssumption DEF FreeRuns, Pool
<1>1. \E c \in FreeRuns(n) : \A d \in FreeRuns(n) : c <= d
  BY <1>0, LeastExists
<1>2. b \in FreeRuns(n) /\ \A c \in FreeRuns(n) : b <= c
  BY <1>1 DEF find_free_bounce_block
<1>3. b \in Pool /\ b \in Nat /\ Run(b, n) \subseteq Pool /\ Run(b, n) \cap map = {}
  BY <1>0, <1>2 DEF FreeRuns
<1>4. b \in Run(b, n) /\ b \notin map
  BY <1>3 DEF Run
<1>5. ASSUME NEW c \in Pool, c < b PROVE c \in map
  <2>1. SUFFICES ASSUME c \notin map PROVE FALSE
    OBVIOUS
  <2>2. c \in Nat
    BY <1>0
  <2>3. ASSUME NEW d \in Run(c, n) PROVE d \in Pool \ map
    <3>1. d \in Nat /\ c <= d /\ d < c + n
      BY <2>2 DEF Run
    <3>2. d \in Pool
      <4>1. b + n - 1 \in Pool
        BY <1>3 DEF Run
      <4>2. QED
        BY <1>3, <1>5, <2>2, <3>1, <4>1, VdsAssumption DEF Pool
    <3>3. d \notin map
      BY <2>1, <2>2, <3>1, <3>2 DEF Prefix
    <3>4. QED
      BY <3>2, <3>3
  <2>4. c \in FreeRuns(n)
    BY <2>3 DEF FreeRuns
  <2>5. QED
    BY <1>2, <1>3, <1>5, <2>2, <2>4
<1>6. ASSUME NEW c \in map PROVE c < b
  <2>1. c \in Nat /\ c # b
    BY <1>0, <1>4
  <2>2. ~ (b < c)
    BY <1>3, <1>4 DEF Prefix
  <2>3. QED
    BY <1>3, <2>1, <2>2
<1>7. vds_free_bounce_buffer(map \cup Run(b, n), b) = map
  <2>1. ASSUME NEW c \in Run(b, n) PROVE ~(c < b) /\ (b .. c) \subseteq map \cup Run(b, n)
    <3>1. c \in Nat /\ b <= c /\ c < b + n
      BY <1>3 DEF Run
    <3>2. (b .. c) \subseteq Run(b, n)
      BY <1>3, <3>1 DEF Run
    <3>3. QED
      BY <1>3, <3>1, <3>2
  <2>2. QED
    BY <1>6, <2>1 DEF vds_free_bounce_buffer
<1>8. QED
  BY <1>3, <1>5, <1>6, <1>7, <1>4

-----------------------------------------------------------------------------
(* The registry.                                                           *)

\* The parts of an entry.
LEMMA EntryParts ==
    ASSUME TypeOK, NEW e \in Entries
    PROVE  /\ registry[e] \in Entry
           /\ registry[e].state \in {"free", "locked", "error"}
           /\ registry[e].id \in Ids /\ registry[e].policy \in Policies
           /\ registry[e].refs \in 0 .. MaxRefs /\ registry[e].uses \in 0 .. Often + 1
           /\ registry[e].handle \in Handles \cup {0, NoHandle}
           /\ registry[e].region \in Regions \cup {"none"}
<1>1. registry[e] \in Entry
  BY DEF TypeOK
<1>2. QED
  BY <1>1 DEF Entry

\* The invalid id is one of the ids.
LEMMA InvalidIsId == Invalid \in Ids /\ Ids \subseteq Nat
  BY VdsAssumption DEF Invalid, Ids

\* The only member of a set is its first.
LEMMA FirstOfOne ==
    ASSUME NEW e \in Entries
    PROVE  FirstOf({e}) = e
<1>1. {e} \in SUBSET Nat /\ {e} # {}
  BY VdsAssumption DEF Entries
<1>2. FirstOf({e}) \in {e}
  BY <1>1, FirstIsOne
<1>3. QED
  BY <1>2

\* What vds_manager_unlock finds for an id a client holds: an entry of that id,
\* and the one whose references are counted while an id names one entry.
LEMMA HeldIsFound ==
    ASSUME VdsInv, ready, NEW i \in Ids, held[i] > 0, EntryOf(i) # {}
    PROVE  /\ FirstOf(EntryOf(i)) \in InUse /\ registry[FirstOf(EntryOf(i))].id = i
           /\ i # Invalid /\ held[i] \in 1 .. MaxRefs
           /\ ~recycled => Counts(registry[FirstOf(EntryOf(i))], held[i])
<1> PICK e : e = FirstOf(EntryOf(i))
  OBVIOUS
<1>1. EntryOf(i) \in SUBSET Nat
  BY VdsAssumption DEF EntryOf, WithId, Entries
<1>2. e \in EntryOf(i)
  BY <1>1, FirstIsOne
<1>3. e \in InUse /\ registry[e].id = i
  BY <1>2 DEF EntryOf, WithId, InUse
<1>4. held[i] \in 1 .. MaxRefs /\ i # Invalid
  BY VdsAssumption DEF VdsInv, TypeOK
<1>5. e \in Named
  BY <1>3, <1>4 DEF Named
<1>6. ~recycled => Counts(registry[e], held[i])
  BY <1>3, <1>5 DEF VdsInv, ClientSide
<1>7. QED
  BY <1>3, <1>4, <1>6

\* One entry in use changes its counts, its policy or its state, and what its
\* clients hold with it.
LEMMA CountStep ==
    ASSUME VdsInv, ready, NEW e \in InUse, NEW x \in Entry, NEW i, NEW k \in 0 .. MaxRefs,
           registry' = [registry EXCEPT ![e] = x],
           held' = [held EXCEPT ![i] = k],
           i = registry[e].id, i # Invalid, x.id = i, x.handle = registry[e].handle,
           x.region = registry[e].region, x.state \in {"locked", "error"},
           x.state = "locked" /\ x.refs = 0 => x.policy = "persistent",
           ~recycled => Counts(x, k),
           UNCHANGED <<ready, next_id, isr, map, present, vds, refused, recycled,
                       region_of, blocks_of>>
    PROVE  VdsInv'
<1>0. e \in Entries /\ i \in Ids /\ TypeOK
  BY EntryParts DEF VdsInv, InUse
<1>1. TypeOK'
  <2>1. registry' \in [Entries -> Entry] /\ held' \in [Ids -> 0 .. MaxRefs]
    BY <1>0 DEF TypeOK
  <2>2. ready' \in BOOLEAN /\ isr' \in BOOLEAN /\ present' \in BOOLEAN /\ recycled' \in BOOLEAN
    BY <1>0, Zenon DEF TypeOK
  <2>3. QED
    BY <1>0, <2>1, <2>2 DEF TypeOK
<1>2. registry'[e] = x /\ \A f \in Entries \ {e} : registry'[f] = registry[f]
  BY <1>0 DEF TypeOK
<1>3. held'[i] = k /\ \A j \in Ids \ {i} : held'[j] = held[j]
  BY <1>0 DEF TypeOK
<1>4. InUse' = InUse
  BY <1>0, <1>2 DEF InUse
<1>5. \A f \in InUse : /\ registry'[f].id = registry[f].id
                       /\ registry'[f].handle = registry[f].handle
                       /\ registry'[f].region = registry[f].region
                       /\ LockOf(f)' = LockOf(f)
  BY <1>2 DEF InUse, LockOf
<1>6. Invalid' = Invalid /\ Ids' = Ids
  BY DEF Invalid, Ids
<1>7. Fresh'
  <2>1. \A f \in Entries \ InUse' : registry'[f].id = Invalid
    BY <1>2, <1>4 DEF VdsInv, Fresh
  <2>2. ASSUME NEW f \in InUse', registry'[f].state = "locked", registry'[f].refs = 0
        PROVE  registry'[f].policy = "persistent"
    <3>1. CASE f = e
      BY <1>2, <2>2, <3>1
    <3>2. CASE f # e
      BY <1>2, <1>4, <2>2, <3>2 DEF VdsInv, Fresh, InUse
    <3>3. QED
      BY <3>1, <3>2
  <2>3. QED
    BY <1>6, <2>1, <2>2 DEF Fresh
<1>8. VdsSide'
  BY <1>4, <1>5 DEF VdsInv, VdsSide
<1>9. Named' = Named
  BY <1>4, <1>5, <1>6 DEF Named
<1>10. ASSUME ~recycled PROVE ClientSide'
  <2>1. ASSUME NEW f \in Named
        PROVE  /\ registry'[f].region = region_of[registry'[f].id]
               /\ Counts(registry'[f], held'[registry'[f].id])
    <3>1. CASE f = e
      <4>1. registry'[f].region = region_of[registry'[f].id]
        BY <1>2, <1>10, <2>1, <3>1 DEF VdsInv, ClientSide
      <4>2. QED
        BY <1>2, <1>3, <1>10, <3>1, <4>1
    <3>2. CASE f # e
      <4>1. e \in Named
        BY DEF Named
      <4>2. registry[f].id # i
        BY <1>10, <2>1, <3>2, <4>1 DEF VdsInv, ClientSide
      <4>3. registry[f].id \in Ids /\ registry'[f] = registry[f]
        BY <1>0, <1>2, <2>1, <3>2, EntryParts DEF Named, InUse
      <4>4. QED
        BY <1>3, <1>10, <2>1, <4>2, <4>3 DEF VdsInv, ClientSide
    <3>3. QED
      BY <3>1, <3>2
  <2>2. \A f, g \in Named : f # g => registry'[f].id # registry'[g].id
    BY <1>5, <1>10 DEF VdsInv, ClientSide, Named
  <2>3. ASSUME NEW j \in Ids, held'[j] > 0 PROVE \E f \in Named : registry'[f].id = j
    <3>1. CASE j = i
      <4>1. e \in Named /\ registry'[e].id = j
        BY <1>5, <3>1 DEF Named
      <4>2. QED
        BY <4>1
    <3>2. CASE j # i
      <4>1. PICK f \in Named : registry[f].id = j
        BY <1>3, <1>10, <2>3, <3>2 DEF VdsInv, ClientSide
      <4>2. QED
        BY <1>5, <4>1 DEF Named
    <3>3. QED
      BY <3>1, <3>2
  <2>4. QED
    BY <1>6, <1>9, <2>1, <2>2, <2>3 DEF ClientSide, Counts
<1>11. ClientSide'
  <2>1. CASE recycled
    BY <2>1 DEF ClientSide
  <2>2. QED
    BY <1>10, <2>1
<1>12. Prefix' /\ BlocksInv' /\ held'[Invalid'] = 0
  BY <1>3, <1>6, InvalidIsId DEF VdsInv, Prefix, BlocksInv
<1>13. QED
  BY <1>1, <1>7, <1>8, <1>11, <1>12 DEF VdsInv

\* A region that is locked already.
LEMMA HitStep ==
    ASSUME VdsInv, lock_hit
    PROVE  VdsInv'
<1>0. /\ TypeOK /\ ready
      /\ UNCHANGED <<ready, next_id, isr, map, present, vds, refused, recycled, region_of, blocks_of>>
  BY DEF VdsInv, lock_hit
<1>1. PICK r \in Regions, policy \in Asked :
         /\ find_existing_lock(r) # Invalid
         /\ held[find_existing_lock(r)] < MaxRefs
         /\ registry[FirstOf(WithId(find_existing_lock(r)))].refs < MaxRefs
         /\ registry' = [registry EXCEPT ![FirstOf(WithId(find_existing_lock(r)))] =
               HitEntry(registry[FirstOf(WithId(find_existing_lock(r)))], policy)]
         /\ held' = [held EXCEPT ![find_existing_lock(r)] = @ + 1]
  BY DEF lock_hit
<1>2. PICK i : i = find_existing_lock(r)
  OBVIOUS
<1>3. PICK c : c = FirstOf(Hits(r))
  OBVIOUS
<1>4. PICK e : e = FirstOf(WithId(i))
  OBVIOUS
<1>5. Hits(r) # {} /\ i = registry[c].id
  BY <1>1, <1>2, <1>3 DEF find_existing_lock
<1>6. c \in Hits(r)
  BY <1>3, <1>5, FirstIsOne, VdsAssumption DEF Hits, Entries
<1>7. c \in Entries /\ c \in InUse /\ registry[c].state = "locked"
  BY <1>6 DEF Hits, InUse
<1>8. e \in Entries /\ registry[e].id = i
  <2>1. c \in WithId(i) /\ WithId(i) \in SUBSET Nat
    BY <1>5, <1>7, VdsAssumption DEF WithId, Entries
  <2>2. e \in WithId(i)
    BY <1>4, <2>1, FirstIsOne
  <2>3. QED
    BY <2>2 DEF WithId
<1>9. e \in InUse /\ i # Invalid
  BY <1>0, <1>1, <1>2, <1>8 DEF VdsInv, Fresh
<1>10. ~recycled => e = c
  BY <1>0, <1>5, <1>7, <1>8, <1>9 DEF VdsInv, ClientSide, Named
<1>11. PICK x : x = HitEntry(registry[e], policy)
  OBVIOUS
<1>12. /\ registry' = [registry EXCEPT ![e] = x]
       /\ held[i] < MaxRefs /\ held' = [held EXCEPT ![i] = held[i] + 1]
       /\ registry[e].refs < MaxRefs
  BY <1>1, <1>2, <1>4, <1>11
<1>13. i \in Ids /\ held[i] \in Nat /\ held[i] + 1 \in 0 .. MaxRefs
  BY <1>0, <1>8, <1>12, EntryParts, VdsAssumption DEF TypeOK
<1>14. /\ registry[e] \in Entry /\ registry[e].refs \in Nat
       /\ registry[e].state \in {"locked", "error"}
  BY <1>0, <1>8, <1>9, EntryParts, VdsAssumption DEF InUse
<1>15. /\ x \in Entry /\ x.id = i /\ x.handle = registry[e].handle
       /\ x.region = registry[e].region /\ x.state = registry[e].state
       /\ x.refs = registry[e].refs + 1
  <2>1. Upgraded(registry[e], policy) \in Policies
    BY <1>0, <1>8, EntryParts DEF Upgraded, Policies
  <2>2. (IF registry[e].uses > Often THEN registry[e].uses ELSE registry[e].uses + 1) \in 0 .. Often + 1
    BY <1>0, <1>8, EntryParts, VdsAssumption
  <2>3. registry[e].refs + 1 \in 0 .. MaxRefs
    BY <1>12, <1>14, VdsAssumption
  <2>4. QED
    BY <1>8, <1>11, <1>14, <2>1, <2>2, <2>3 DEF HitEntry, Entry
<1>16. x.refs # 0
  BY <1>14, <1>15
<1>17. ASSUME ~recycled PROVE Counts(x, held[i] + 1)
  <2>1. registry[e].state = "locked" /\ e \in Named
    BY <1>7, <1>8, <1>9, <1>10, <1>17 DEF Named
  <2>2. registry[e].refs = held[i]
    BY <1>0, <1>8, <1>17, <2>1 DEF VdsInv, ClientSide, Counts
  <2>3. QED
    BY <1>15, <2>1, <2>2 DEF Counts
<1>18. QED
  BY <1>0, <1>8, <1>9, <1>12, <1>13, <1>14, <1>15, <1>16, <1>17, CountStep

\* One reference of several, or the last one to a persistent lock.
LEMMA UnlockCounted ==
    ASSUME VdsInv, unlock_shared \/ unlock_retained
    PROVE  VdsInv'
<1>0. /\ TypeOK /\ ready
      /\ UNCHANGED <<ready, next_id, isr, map, present, vds, refused, recycled, region_of, blocks_of>>
  BY DEF VdsInv, unlock_shared, unlock_retained
<1>1. PICK i \in Ids :
         /\ held[i] > 0 /\ EntryOf(i) # {} /\ held' = [held EXCEPT ![i] = @ - 1]
         /\ \/ /\ ~LastReference(registry[FirstOf(EntryOf(i))])
               /\ registry' = [registry EXCEPT ![FirstOf(EntryOf(i))].refs = @ - 1]
            \/ /\ LastReference(registry[FirstOf(EntryOf(i))])
               /\ Retained(registry[FirstOf(EntryOf(i))])
               /\ registry' = [registry EXCEPT ![FirstOf(EntryOf(i))].refs = Less(@)]
  BY DEF unlock_shared, unlock_retained
<1>2. PICK e : e = FirstOf(EntryOf(i))
  OBVIOUS
<1>3. /\ e \in InUse /\ registry[e].id = i /\ i # Invalid /\ held[i] \in 1 .. MaxRefs
      /\ ~recycled => Counts(registry[e], held[i])
  BY <1>0, <1>1, <1>2, HeldIsFound
<1>4. /\ e \in Entries /\ registry[e] \in Entry /\ registry[e].refs \in 0 .. MaxRefs
      /\ registry[e].state \in {"locked", "error"}
  BY <1>0, <1>3, EntryParts DEF InUse
<1>5. PICK n : n = Less(registry[e].refs)
  OBVIOUS
<1>6. PICK x : x = [registry[e] EXCEPT !.refs = n]
  OBVIOUS
<1>7. registry' = [registry EXCEPT ![e] = x]
  <2>1. CASE ~LastReference(registry[e])
    <3>1. n = registry[e].refs - 1
      BY <1>4, <1>5, <2>1, VdsAssumption DEF LastReference, Less
    <3>2. QED
      BY <1>1, <1>2, <1>6, <2>1, <3>1
  <2>2. CASE LastReference(registry[e])
    BY <1>1, <1>2, <1>5, <1>6, <2>2
  <2>3. QED
    BY <2>1, <2>2
<1>8. n \in 0 .. MaxRefs /\ held[i] - 1 \in 0 .. MaxRefs
  BY <1>3, <1>4, <1>5, VdsAssumption DEF Less
<1>9. /\ x \in Entry /\ x.id = i /\ x.handle = registry[e].handle /\ x.region = registry[e].region
      /\ x.state = registry[e].state /\ x.refs = n /\ x.policy = registry[e].policy
  BY <1>3, <1>4, <1>6, <1>8 DEF Entry
<1>10. n = 0 => x.policy = "persistent"
  <2>1. CASE ~LastReference(registry[e])
    BY <1>4, <1>5, <2>1, VdsAssumption DEF LastReference, Less
  <2>2. CASE Retained(registry[e])
    BY <1>9, <2>2 DEF Retained
  <2>3. QED
    BY <1>1, <1>2, <2>1, <2>2
<1>11. ASSUME ~recycled PROVE Counts(x, held[i] - 1)
  <2>1. registry[e].state = "locked" /\ registry[e].refs = held[i]
    <3>1. CASE ~LastReference(registry[e])
      BY <1>3, <1>4, <1>11, <3>1 DEF LastReference, Counts
    <3>2. CASE Retained(registry[e])
      BY <1>3, <1>4, <1>11, <3>2 DEF Retained, Counts
    <3>3. QED
      BY <1>1, <1>2, <3>1, <3>2
  <2>2. n = held[i] - 1
    BY <1>3, <1>5, <2>1 DEF Less
  <2>3. QED
    BY <1>9, <2>1, <2>2 DEF Counts
<1>12. held' = [held EXCEPT ![i] = held[i] - 1]
  BY <1>1
<1>13. QED
  BY <1>0, <1>3, <1>4, <1>7, <1>8, <1>9, <1>10, <1>11, <1>12, CountStep

\* VDS refuses to unlock.
LEMMA RefusedStep ==
    ASSUME VdsInv, unlock_refused
    PROVE  VdsInv'
<1>0. /\ TypeOK /\ ready
      /\ UNCHANGED <<ready, next_id, isr, map, present, vds, refused, recycled, clients>>
  BY DEF VdsInv, unlock_refused
<1>1. PICK i \in Ids :
         /\ held[i] > 0 /\ EntryOf(i) # {}
         /\ LastReference(registry[FirstOf(EntryOf(i))])
         /\ ~Retained(registry[FirstOf(EntryOf(i))])
         /\ registry' = [registry EXCEPT ![FirstOf(EntryOf(i))] =
                                            InError(registry[FirstOf(EntryOf(i))])]
  BY DEF unlock_refused
<1>2. PICK e : e = FirstOf(EntryOf(i))
  OBVIOUS
<1>3. /\ e \in InUse /\ registry[e].id = i /\ i # Invalid /\ held[i] \in 1 .. MaxRefs
      /\ ~recycled => Counts(registry[e], held[i])
  BY <1>0, <1>1, <1>2, HeldIsFound
<1>4. /\ e \in Entries /\ registry[e] \in Entry /\ registry[e].refs \in 0 .. MaxRefs
      /\ registry[e].state \in {"locked", "error"}
  BY <1>0, <1>3, EntryParts DEF InUse
<1>5. registry[e].refs <= 1 /\ registry[e].policy # "persistent"
  BY <1>1, <1>2 DEF LastReference, Retained
<1>6. Less(registry[e].refs) = 0
  BY <1>4, <1>5, VdsAssumption DEF Less
<1>7. PICK x : x = InError(registry[e])
  OBVIOUS
<1>8. /\ x \in Entry /\ x.id = i /\ x.handle = registry[e].handle /\ x.region = registry[e].region
      /\ x.state = "error" /\ x.refs = 0 /\ x.policy = registry[e].policy
  <2>1. x = [registry[e] EXCEPT !.refs = 0, !.state = "error"]
    BY <1>6, <1>7 DEF InError
  <2>2. 0 \in 0 .. MaxRefs
    BY VdsAssumption
  <2>3. QED
    BY <1>3, <1>4, <2>1, <2>2 DEF Entry
<1>9. ASSUME ~recycled PROVE Counts(x, held[i])
  <2>1. held[i] = 1
    BY <1>3, <1>4, <1>5, <1>9 DEF Counts
  <2>2. QED
    BY <1>5, <1>8, <2>1 DEF Counts
<1>10. held' = [held EXCEPT ![i] = held[i]] /\ held[i] \in 0 .. MaxRefs
  BY <1>0, <1>3 DEF TypeOK, clients
<1>11. registry' = [registry EXCEPT ![e] = x]
  BY <1>1, <1>2, <1>7
<1>12. UNCHANGED <<region_of, blocks_of>>
  BY <1>0 DEF clients
<1>13. QED
  BY <1>0, <1>3, <1>8, <1>9, <1>10, <1>11, <1>12, CountStep

\* The last reference goes, and the entry with it; VDS gives up the handle of
\* the entry and no other.
LEMMA UnlockLastStep ==
    ASSUME VdsInv, unlock_last
    PROVE  VdsInv'
<1>0. /\ TypeOK /\ ready
      /\ UNCHANGED <<ready, next_id, isr, map, present, refused, recycled>>
  BY DEF VdsInv, unlock_last
<1>1. PICK i \in Ids :
         /\ held[i] > 0 /\ EntryOf(i) # {}
         /\ LastReference(registry[FirstOf(EntryOf(i))])
         /\ vds' = GivenUp({FirstOf(EntryOf(i))})
         /\ registry' = [registry EXCEPT ![FirstOf(EntryOf(i))] = FreeEntry]
         /\ held' = [held EXCEPT ![i] = @ - 1]
         /\ region_of' = [region_of EXCEPT ![i] = "none"]
         /\ blocks_of' = [blocks_of EXCEPT ![i] = {}]
  BY DEF unlock_last, UnlockEntry
<1>2. PICK e : e = FirstOf(EntryOf(i))
  OBVIOUS
<1>3. /\ e \in InUse /\ registry[e].id = i /\ i # Invalid /\ held[i] \in 1 .. MaxRefs
      /\ ~recycled => Counts(registry[e], held[i])
  BY <1>0, <1>1, <1>2, HeldIsFound
<1>4. /\ e \in Entries /\ registry[e].refs \in 0 .. MaxRefs /\ registry[e].refs <= 1
      /\ registry[e].state \in {"locked", "error"}
  BY <1>0, <1>1, <1>2, <1>3, EntryParts DEF InUse, LastReference
<1>5. ~recycled => held[i] = 1
  BY <1>3, <1>4 DEF Counts
<1>6. FreeEntry \in Entry /\ FreeEntry.state = "free" /\ FreeEntry.id = Invalid
  BY VdsAssumption DEF FreeEntry, Entry, Ids, Invalid, Policies
<1>7. registry'[e] = FreeEntry /\ \A f \in Entries \ {e} : registry'[f] = registry[f]
  BY <1>0, <1>1, <1>2, <1>4 DEF TypeOK
<1>8. /\ held'[i] = held[i] - 1 /\ \A j \in Ids \ {i} : held'[j] = held[j]
      /\ blocks_of'[i] = {} /\ \A j \in Ids \ {i} : blocks_of'[j] = blocks_of[j]
      /\ \A j \in Ids \ {i} : region_of'[j] = region_of[j]
  BY <1>0, <1>1 DEF TypeOK
<1>9. InUse' = InUse \ {e}
  BY <1>6, <1>7 DEF InUse
<1>10. \A f \in InUse \ {e} : registry'[f] = registry[f] /\ LockOf(f)' = LockOf(f)
  BY <1>7 DEF InUse, LockOf
<1>11. vds' = {l \in vds : l.handle = 0 \/ registry[e].handle # l.handle}
  BY <1>1, <1>2 DEF GivenUp
<1>12. TypeOK'
  <2>1. registry' \in [Entries -> Entry]
    BY <1>0, <1>1, <1>6 DEF TypeOK
  <2>2. held[i] - 1 \in 0 .. MaxRefs
    BY <1>3, VdsAssumption
  <2>3. held' \in [Ids -> 0 .. MaxRefs]
    BY <1>0, <1>1, <2>2 DEF TypeOK
  <2>4. region_of' \in [Ids -> Regions \cup {"none"}] /\ blocks_of' \in [Ids -> SUBSET Pool]
    BY <1>0, <1>1 DEF TypeOK
  <2>5. ready' \in BOOLEAN /\ isr' \in BOOLEAN /\ present' \in BOOLEAN /\ recycled' \in BOOLEAN
    BY <1>0, Zenon DEF TypeOK
  <2>6. QED
    BY <1>0, <1>11, <2>1, <2>3, <2>4, <2>5 DEF TypeOK
<1>13. Invalid' = Invalid /\ Ids' = Ids
  BY DEF Invalid, Ids
<1>14. Fresh'
  <2>1. ASSUME NEW f \in Entries \ InUse' PROVE registry'[f].id = Invalid
    BY <1>0, <1>6, <1>7, <1>9 DEF VdsInv, Fresh
  <2>2. ASSUME NEW f \in InUse', registry'[f].state = "locked", registry'[f].refs = 0
        PROVE  registry'[f].policy = "persistent"
    BY <1>0, <1>9, <1>10, <2>2 DEF VdsInv, Fresh
  <2>3. QED
    BY <1>13, <2>1, <2>2 DEF Fresh
<1>15. ASSUME present PROVE VdsSide'
  <2>1. \A f \in InUse' : LockOf(f)' \in vds'
    <3>1. ASSUME NEW f \in InUse \ {e} PROVE LockOf(f) \in vds'
      <4>1. LockOf(f) \in vds /\ LockOf(f).handle = registry[f].handle
        BY <1>0, <1>15 DEF VdsInv, VdsSide, LockOf
      <4>2. registry[f].handle # 0 => registry[e].handle # registry[f].handle
        BY <1>0, <1>3, <1>15 DEF VdsInv, VdsSide
      <4>3. QED
        BY <1>11, <4>1, <4>2
    <3>2. QED
      BY <1>9, <1>10, <3>1
  <2>2. \A f, g \in InUse' : f # g /\ registry'[f].handle # 0
                            => registry'[f].handle # registry'[g].handle
    BY <1>0, <1>9, <1>10, <1>15 DEF VdsInv, VdsSide
  <2>3. ASSUME NEW l \in vds' \ refused', l.handle # 0 PROVE \E f \in InUse' : LockOf(f)' = l
    <3>1. l \in vds /\ registry[e].handle # l.handle
      BY <1>11, <2>3
    <3>2. PICK f \in InUse : LockOf(f) = l
      BY <1>0, <1>15, <2>3, <3>1 DEF VdsInv, VdsSide
    <3>3. f # e
      BY <3>1, <3>2 DEF LockOf
    <3>4. QED
      BY <1>9, <1>10, <3>2, <3>3
  <2>4. QED
    BY <2>1, <2>2, <2>3 DEF VdsSide
<1>16. VdsSide'
  BY <1>0, <1>15 DEF VdsSide
<1>17. ASSUME ~recycled PROVE ClientSide'
  <2>0. Named' = Named \ {e}
    BY <1>9, <1>10, <1>13 DEF Named
  <2>1. \A f \in Named \ {e} : registry'[f] = registry[f] /\ registry[f].id \in Ids \ {i}
    <3>1. e \in Named
      BY <1>3 DEF Named
    <3>2. \A f \in Named \ {e} : registry[f].id # i
      BY <1>0, <1>3, <1>17, <3>1 DEF VdsInv, ClientSide
    <3>3. \A f \in Named : registry[f].id \in Ids
      BY <1>0, EntryParts DEF Named, InUse
    <3>4. QED
      BY <1>10, <3>2, <3>3 DEF Named
  <2>2. \A f \in Named \ {e} : /\ registry'[f].region = region_of'[registry'[f].id]
                                /\ Counts(registry'[f], held'[registry'[f].id])
    BY <1>0, <1>8, <1>17, <2>1 DEF VdsInv, ClientSide
  <2>3. \A f, g \in Named \ {e} : f # g => registry'[f].id # registry'[g].id
    BY <1>0, <1>17, <2>1 DEF VdsInv, ClientSide
  <2>4. ASSUME NEW j \in Ids, held'[j] > 0 PROVE \E f \in Named \ {e} : registry'[f].id = j
    <3>1. j # i
      BY <1>5, <1>8, <1>17, <2>4
    <3>2. PICK f \in Named : registry[f].id = j
      BY <1>0, <1>8, <1>17, <2>4, <3>1 DEF VdsInv, ClientSide
    <3>3. f # e
      BY <1>3, <3>1, <3>2
    <3>4. QED
      BY <2>1, <3>2, <3>3
  <2>5. QED
    BY <1>13, <2>0, <2>2, <2>3, <2>4 DEF ClientSide, Counts
<1>18. ClientSide'
  BY <1>0, <1>17 DEF ClientSide
<1>19. Prefix' /\ BlocksInv' /\ held'[Invalid'] = 0
  <2>1. Prefix'
    BY <1>0 DEF VdsInv, Prefix
  <2>2. held'[Invalid'] = 0
    BY <1>3, <1>8, <1>13, InvalidIsId DEF VdsInv
  <2>3. ASSUME NEW j \in Ids, NEW k \in Ids
        PROVE  blocks_of'[j] \subseteq map /\ (j # k => blocks_of'[j] \cap blocks_of'[k] = {})
    BY <1>8 DEF VdsInv, BlocksInv
  <2>4. QED
    BY <1>0, <1>13, <2>1, <2>2, <2>3 DEF BlocksInv
<1>20. QED
  BY <1>0, <1>12, <1>14, <1>16, <1>18, <1>19 DEF VdsInv

\* A new lock, with blocks of the pool that are nobody's or with none.
LEMMA GrantStep ==
    ASSUME VdsInv, ready, FreeEntries # {},
           NEW r \in Regions, NEW policy \in Asked, NEW h \in HandlesToGive, NEW b \in SUBSET Pool,
           Granted(r, policy, h, b), UNCHANGED <<ready, isr>>,
           map' = map \cup b, b \cap map = {}, Prefix'
    PROVE  VdsInv'
<1> PICK e : e = FirstOf(FreeEntries)
  OBVIOUS
<1> PICK i : i = next_id
  OBVIOUS
<1>0. TypeOK /\ i \in Ids /\ IdSpan \in Nat \ {0}
  BY VdsAssumption DEF VdsInv, TypeOK
<1>1. e \in Entries /\ e \notin InUse
  <2>1. e \in FreeEntries
    BY FirstIsOne, VdsAssumption DEF FreeEntries, Entries
  <2>2. QED
    BY <2>1 DEF FreeEntries, InUse
<1>2. PICK x : x = [state |-> "locked", id |-> i, region |-> r, policy |-> policy,
                    refs |-> 1, uses |-> 1, handle |-> h]
  OBVIOUS
<1>3. /\ registry' = [registry EXCEPT ![e] = x] /\ next_id' = IdAfter(i)
      /\ vds' = vds \cup {l \in {[handle |-> h, region |-> r]} : present}
      /\ recycled' = (recycled \/ (i # Invalid /\ EntryOf(i) # {}))
      /\ UNCHANGED <<present, refused>>
  BY <1>2 DEF Granted
<1>4. /\ i = Invalid => UNCHANGED clients
      /\ i # Invalid => /\ held' = [held EXCEPT ![i] = 1]
                        /\ region_of' = [region_of EXCEPT ![i] = r]
                        /\ blocks_of' = [blocks_of EXCEPT ![i] = b]
  BY DEF Granted
<1>5. /\ h \in Handles \cup {0, NoHandle}
      /\ present => h \in Handles \cup {0} /\ (h # 0 => \A l \in vds : l.handle # h)
  BY DEF HandlesToGive
<1>6. /\ x \in Entry /\ x.state = "locked" /\ x.id = i /\ x.region = r /\ x.refs = 1
      /\ x.handle = h
  BY <1>0, <1>2, <1>5, VdsAssumption DEF Entry, Policies
<1>7. registry'[e] = x /\ \A f \in Entries \ {e} : registry'[f] = registry[f]
  BY <1>0, <1>1, <1>3 DEF TypeOK
<1>8. InUse' = InUse \cup {e}
  BY <1>1, <1>6, <1>7 DEF InUse
<1>9. \A f \in InUse : f # e /\ registry'[f] = registry[f] /\ LockOf(f)' = LockOf(f)
  BY <1>1, <1>7 DEF InUse, LockOf
<1>10. LockOf(e)' = [handle |-> h, region |-> r]
  BY <1>6, <1>7 DEF LockOf
<1>11. Invalid' = Invalid /\ Ids' = Ids
  BY DEF Invalid, Ids
<1>12. /\ \A j \in Ids : j # i => /\ held'[j] = held[j] /\ region_of'[j] = region_of[j]
                                  /\ blocks_of'[j] = blocks_of[j]
       /\ i # Invalid => held'[i] = 1 /\ region_of'[i] = r /\ blocks_of'[i] = b
       /\ i = Invalid => held' = held /\ region_of' = region_of /\ blocks_of' = blocks_of
  BY <1>0, <1>4 DEF TypeOK, clients
<1>13. TypeOK'
  <2>1. registry' \in [Entries -> Entry]
    BY <1>0, <1>1, <1>3, <1>6 DEF TypeOK
  <2>2. /\ held' \in [Ids -> 0 .. MaxRefs]
        /\ region_of' \in [Ids -> Regions \cup {"none"}] /\ blocks_of' \in [Ids -> SUBSET Pool]
    <3>1. CASE i = Invalid
      BY <1>0, <1>12, <3>1 DEF TypeOK
    <3>2. CASE i # Invalid
      BY <1>0, <1>4, <3>2, VdsAssumption DEF TypeOK
    <3>3. QED
      BY <3>1, <3>2
  <2>3. next_id' \in Ids
    BY <1>0, <1>3 DEF IdAfter, Ids
  <2>4. vds' \subseteq Lock
    BY <1>0, <1>3, <1>5 DEF TypeOK, Lock
  <2>5. ready' \in BOOLEAN /\ isr' \in BOOLEAN /\ present' \in BOOLEAN /\ recycled' \in BOOLEAN
    BY <1>0, <1>3, Zenon DEF TypeOK
  <2>6. QED
    BY <1>0, <1>3, <2>1, <2>2, <2>3, <2>4, <2>5 DEF TypeOK
<1>14. Fresh'
  <2>1. ASSUME NEW f \in Entries \ InUse' PROVE registry'[f].id = Invalid
    BY <1>7, <1>8 DEF VdsInv, Fresh
  <2>2. ASSUME NEW f \in InUse', registry'[f].state = "locked", registry'[f].refs = 0
        PROVE  registry'[f].policy = "persistent"
    <3>1. CASE f = e
      BY <1>6, <1>7, <2>2, <3>1
    <3>2. CASE f \in InUse
      BY <1>9, <2>2, <3>2 DEF VdsInv, Fresh
    <3>3. QED
      BY <1>8, <3>1, <3>2
  <2>3. QED
    BY <1>11, <2>1, <2>2 DEF Fresh
<1>15. ASSUME present PROVE VdsSide'
  <2>0. vds' = vds \cup {[handle |-> h, region |-> r]}
    BY <1>3, <1>15
  <2>1. \A f \in InUse' : LockOf(f)' \in vds'
    BY <1>8, <1>9, <1>10, <1>15, <2>0 DEF VdsInv, VdsSide
  <2>2. \A f \in InUse : registry[f].handle # 0 \/ h # 0 => registry[f].handle # h
    <3>1. \A f \in InUse : \E l \in vds : l.handle = registry[f].handle
      BY <1>15 DEF VdsInv, VdsSide, LockOf
    <3>2. QED
      BY <1>5, <1>15, <3>1
  <2>3. ASSUME NEW f \in InUse', NEW g \in InUse', f # g, registry'[f].handle # 0
        PROVE  registry'[f].handle # registry'[g].handle
    <3>1. CASE f = e
      BY <1>6, <1>7, <1>8, <1>9, <2>2, <2>3, <3>1
    <3>2. CASE g = e
      BY <1>6, <1>7, <1>8, <1>9, <2>2, <2>3, <3>2
    <3>3. CASE f \in InUse /\ g \in InUse
      BY <1>9, <1>15, <2>3, <3>3 DEF VdsInv, VdsSide
    <3>4. QED
      BY <1>8, <3>1, <3>2, <3>3
  <2>4. ASSUME NEW l \in vds' \ refused', l.handle # 0 PROVE \E f \in InUse' : LockOf(f)' = l
    <3>1. CASE l = [handle |-> h, region |-> r]
      BY <1>8, <1>10, <3>1
    <3>2. CASE l \in vds
      <4>1. PICK f \in InUse : LockOf(f) = l
        BY <1>3, <1>15, <2>4, <3>2 DEF VdsInv, VdsSide
      <4>2. QED
        BY <1>8, <1>9, <4>1
    <3>3. QED
      BY <2>0, <3>1, <3>2
  <2>5. QED
    BY <2>1, <2>3, <2>4 DEF VdsSide
<1>16. VdsSide'
  BY <1>3, <1>15 DEF VdsSide
<1>17. ASSUME ~recycled' PROVE ClientSide'
  <2>1. ~recycled /\ (i # Invalid => \A f \in Named : registry[f].id # i)
    <3>1. ~recycled /\ (i # Invalid => EntryOf(i) = {})
      BY <1>3, <1>17
    <3>2. QED
      BY <3>1 DEF EntryOf, WithId, Named, InUse
  <2>2. \A f \in Named : registry'[f] = registry[f] /\ registry[f].id \in Ids \ {i} /\ f # e
    <3>1. \A f \in Named : registry[f].id \in Ids
      BY <1>0, EntryParts DEF Named, InUse
    <3>2. QED
      BY <1>9, <2>1, <3>1 DEF Named
  <2>3. CASE i = Invalid
    <3>1. Named' = Named
      BY <1>6, <1>7, <1>8, <1>9, <1>11, <2>3 DEF Named
    <3>2. \A f \in Named : /\ registry'[f].region = region_of'[registry'[f].id]
                           /\ Counts(registry'[f], held'[registry'[f].id])
      BY <1>12, <2>1, <2>2, <2>3 DEF VdsInv, ClientSide
    <3>3. \A f, g \in Named : f # g => registry'[f].id # registry'[g].id
      BY <2>1, <2>2 DEF VdsInv, ClientSide
    <3>4. \A j \in Ids : held'[j] > 0 => \E f \in Named : registry'[f].id = j
      BY <1>12, <2>1, <2>2, <2>3 DEF VdsInv, ClientSide
    <3>5. QED
      BY <1>11, <3>1, <3>2, <3>3, <3>4 DEF ClientSide, Counts
  <2>4. CASE i # Invalid
    <3>1. Named' = Named \cup {e}
      BY <1>6, <1>7, <1>8, <1>9, <1>11, <2>4 DEF Named
    <3>2. ASSUME NEW f \in Named'
          PROVE  /\ registry'[f].region = region_of'[registry'[f].id]
                 /\ Counts(registry'[f], held'[registry'[f].id])
      <4>1. CASE f = e
        BY <1>6, <1>7, <1>12, <2>4, <4>1 DEF Counts
      <4>2. CASE f \in Named
        BY <1>12, <2>1, <2>2, <4>2 DEF VdsInv, ClientSide
      <4>3. QED
        BY <3>1, <4>1, <4>2
    <3>3. ASSUME NEW f \in Named', NEW g \in Named', f # g
          PROVE  registry'[f].id # registry'[g].id
      <4>1. CASE f = e \/ g = e
        BY <1>6, <1>7, <2>2, <3>1, <3>3, <4>1
      <4>2. CASE f \in Named /\ g \in Named
        BY <2>1, <2>2, <3>3, <4>2 DEF VdsInv, ClientSide
      <4>3. QED
        BY <3>1, <4>1, <4>2
    <3>4. ASSUME NEW j \in Ids, held'[j] > 0 PROVE \E f \in Named' : registry'[f].id = j
      <4>1. CASE j = i
        BY <1>6, <1>7, <3>1, <4>1
      <4>2. CASE j # i
        <5>1. PICK f \in Named : registry[f].id = j
          BY <1>12, <2>1, <3>4, <4>2 DEF VdsInv, ClientSide
        <5>2. QED
          BY <2>2, <3>1, <5>1
      <4>3. QED
        BY <4>1, <4>2
    <3>5. QED
      BY <1>11, <3>2, <3>3, <3>4 DEF ClientSide, Counts
  <2>5. QED
    BY <2>3, <2>4
<1>18. ClientSide'
  BY <1>17 DEF ClientSide
<1>19. BlocksInv'
  <2>1. ASSUME NEW j \in Ids, NEW k \in Ids
        PROVE  blocks_of'[j] \subseteq map' /\ (j # k => blocks_of'[j] \cap blocks_of'[k] = {})
    <3>1. \A l \in Ids : l # i \/ i = Invalid => blocks_of'[l] = blocks_of[l]
      BY <1>12
    <3>2. \A l \in Ids : blocks_of[l] \subseteq map
      BY DEF VdsInv, BlocksInv
    <3>3. j # k => blocks_of[j] \cap blocks_of[k] = {}
      BY DEF VdsInv, BlocksInv
    <3>4. QED
      BY <1>12, <3>1, <3>2, <3>3
  <2>2. QED
    BY <1>11, <2>1 DEF BlocksInv
<1>20. held'[Invalid'] = 0
  BY <1>11, <1>12, InvalidIsId DEF VdsInv
<1>21. QED
  BY <1>13, <1>14, <1>16, <1>18, <1>19, <1>20 DEF VdsInv

\* VDS locks the region where it is.
LEMMA DirectStep ==
    ASSUME VdsInv, lock_direct
    PROVE  VdsInv'
<1>1. PICK r \in Regions, policy \in Asked, h \in HandlesToGive :
         Missed(r) /\ Granted(r, policy, h, {})
  BY DEF lock_direct
<1>2. FreeEntries # {} /\ UNCHANGED <<ready, isr, map>>
  BY DEF lock_direct
<1>3. map' = map \cup {} /\ Prefix'
  BY <1>2 DEF VdsInv, Prefix
<1>4. ready /\ {} \in SUBSET Pool /\ {} \cap map = {}
  BY <1>1 DEF Missed
<1>5. QED
  BY <1>1, <1>2, <1>3, <1>4, GrantStep

\* VDS locks the run of blocks that follows the allocated ones.
LEMMA BounceStep ==
    ASSUME VdsInv, lock_bounce
    PROVE  VdsInv'
<1>1. PICK r \in Regions, policy \in Asked, h \in HandlesToGive :
         /\ Missed(r) /\ FreeRuns(Blocks[r]) # {}
         /\ map' = map \cup Run(find_free_bounce_block(Blocks[r]), Blocks[r])
         /\ Granted(r, policy, h, Run(find_free_bounce_block(Blocks[r]), Blocks[r]))
  BY DEF lock_bounce
<1>2. FreeEntries # {} /\ UNCHANGED <<ready, isr>>
  BY DEF lock_bounce
<1>3. PICK n : n = Blocks[r]
  OBVIOUS
<1>4. PICK b : b = find_free_bounce_block(n)
  OBVIOUS
<1>5. PICK R : R = Run(b, n)
  OBVIOUS
<1>6. n \in Nat \ {0} /\ map \subseteq Pool /\ Prefix
  BY <1>3, VdsAssumption DEF VdsInv, TypeOK
<1>7. /\ b \in Pool /\ R \subseteq Pool /\ R \cap map = {}
      /\ \A c \in Pool : c \in map <=> c < b
  BY <1>1, <1>3, <1>4, <1>5, <1>6, RunFollows
<1>8. Prefix'
  <2>1. ASSUME NEW c \in map \cup R, NEW d \in Pool, d < c PROVE d \in map \cup R
    <3>1. CASE c \in map
      BY <1>6, <2>1, <3>1 DEF Prefix
    <3>2. CASE c \in R
      <4>1. b \in Nat /\ d \in Nat /\ c \in Nat /\ c < b + n
        BY <1>5, <1>6, <1>7, <3>2, VdsAssumption DEF Pool, Run
      <4>2. CASE d < b
        BY <1>7, <4>2
      <4>3. CASE ~(d < b)
        BY <1>5, <1>6, <2>1, <4>1, <4>3 DEF Run
      <4>4. QED
        BY <4>2, <4>3
    <3>3. QED
      BY <3>1, <3>2
  <2>2. map' = map \cup R
    BY <1>1, <1>3, <1>4, <1>5
  <2>3. Pool' = Pool
    BY DEF Pool
  <2>4. QED
    BY <2>1, <2>2 DEF Prefix
<1>9. ready /\ map' = map \cup R /\ Granted(r, policy, h, R) /\ R \in SUBSET Pool
  BY <1>1, <1>3, <1>4, <1>5, <1>7 DEF Missed
<1>10. QED
  BY <1>2, <1>7, <1>8, <1>9, GrantStep

\* The run that was allocated for a lock that failed is what is freed.
LEMMA BounceRefusedStep ==
    ASSUME VdsInv, lock_bounce_refused
    PROVE  UNCHANGED vars
<1>1. PICK r \in Regions :
         /\ FreeRuns(Blocks[r]) # {}
         /\ map' = vds_free_bounce_buffer(
                      map \cup Run(find_free_bounce_block(Blocks[r]), Blocks[r]),
                      find_free_bounce_block(Blocks[r]))
  BY DEF lock_bounce_refused
<1>2. PICK n : n = Blocks[r]
  OBVIOUS
<1>3. PICK b : b = find_free_bounce_block(n)
  OBVIOUS
<1>4. n \in Nat \ {0} /\ map \subseteq Pool /\ Prefix /\ FreeRuns(n) # {}
  BY <1>1, <1>2, VdsAssumption DEF VdsInv, TypeOK
<1>5. vds_free_bounce_buffer(map \cup Run(b, n), b) = map
  BY <1>3, <1>4, RunFollows
<1>6. map' = map
  BY <1>1, <1>2, <1>3, <1>5
<1>7. QED
  BY <1>6 DEF lock_bounce_refused, vars

-----------------------------------------------------------------------------
(* The theorems.                                                           *)

\* The state the driver starts in.
LEMMA VdsInit == Init => VdsInv
<1> SUFFICES ASSUME Init PROVE VdsInv
  OBVIOUS
<1>1. FreeEntry \in Entry
  BY VdsAssumption DEF FreeEntry, Entry, Ids, Invalid, Policies
<1>2. TypeOK
  <2>1. ready \in BOOLEAN /\ isr \in BOOLEAN /\ present \in BOOLEAN /\ recycled \in BOOLEAN
    BY Zenon DEF Init
  <2>2. next_id \in Ids
    BY VdsAssumption DEF Init, Ids
  <2>3. held \in [Ids -> 0 .. MaxRefs]
    BY VdsAssumption DEF Init
  <2>4. QED
    BY <1>1, <2>1, <2>2, <2>3 DEF Init, TypeOK
<1>3. Prefix /\ BlocksInv /\ Idle /\ held[Invalid] = 0
  BY InvalidIsId DEF Init, Prefix, BlocksInv, Idle
<1>4. ready = FALSE
  BY DEF Init
<1>5. QED
  BY <1>2, <1>3, <1>4 DEF VdsInv

\* The registry starts empty beside whatever VDS was left with.
LEMMA InitStep ==
    ASSUME VdsInv, vds_manager_init
    PROVE  VdsInv'
<1>0. TypeOK /\ FreeEntry \in Entry /\ FreeEntry.state = "free" /\ FreeEntry.id = Invalid
  BY VdsAssumption DEF VdsInv, FreeEntry, Entry, Ids, Invalid, Policies
<1>1. /\ ~ready /\ ready' = TRUE /\ registry' = [e \in Entries |-> FreeEntry] /\ next_id' = 1
      /\ UNCHANGED <<isr, map, present, vds, refused, recycled, held, region_of, blocks_of>>
  BY DEF vds_manager_init, clients
<1>2. Idle
  BY <1>1 DEF VdsInv
<1>3. TypeOK'
  <2>1. ready' \in BOOLEAN /\ isr' \in BOOLEAN /\ present' \in BOOLEAN /\ recycled' \in BOOLEAN
    BY <1>0, <1>1, Zenon DEF TypeOK
  <2>2. next_id' \in Ids
    BY <1>1, VdsAssumption DEF Ids
  <2>3. QED
    BY <1>0, <1>1, <2>1, <2>2 DEF TypeOK
<1>4. InUse' = {} /\ Named' = {}
  BY <1>0, <1>1 DEF InUse, Named
<1>5. Invalid' = Invalid /\ Ids' = Ids
  BY DEF Invalid, Ids
<1>6. Fresh'
  BY <1>0, <1>1, <1>4, <1>5 DEF Fresh
<1>7. VdsSide' /\ ClientSide'
  BY <1>1, <1>2, <1>4, <1>5 DEF VdsSide, ClientSide, Idle
<1>8. Prefix' /\ BlocksInv' /\ held'[Invalid'] = 0
  BY <1>1, <1>5 DEF VdsInv, Prefix, BlocksInv
<1>9. QED
  BY <1>1, <1>3, <1>6, <1>7, <1>8 DEF VdsInv

\* What VDS still holds after a cleanup is what it refused to give up and what
\* it gave no buffer id for.
LEMMA CleanupStep ==
    ASSUME VdsInv, vds_manager_cleanup
    PROVE  VdsInv'
<1>1. /\ ready /\ ready' = FALSE /\ map' = {} /\ recycled' = FALSE
      /\ held' = [i \in Ids |-> 0] /\ region_of' = [i \in Ids |-> "none"]
      /\ blocks_of' = [i \in Ids |-> {}] /\ UNCHANGED <<registry, next_id, isr, present>>
  BY DEF vds_manager_cleanup
<1>2. PICK R \in SUBSET {e \in InUse : MayRefuse(e)} :
         /\ vds' = GivenUp(InUse \ R)
         /\ refused' = refused \cup {LockOf(e) : e \in R}
  BY DEF vds_manager_cleanup
<1>3. TypeOK /\ VdsSide
  BY <1>1 DEF VdsInv
<1>4. TypeOK'
  <2>1. ready' \in BOOLEAN /\ isr' \in BOOLEAN /\ present' \in BOOLEAN /\ recycled' \in BOOLEAN
    BY <1>1, <1>3, Zenon DEF TypeOK
  <2>2. held' \in [Ids -> 0 .. MaxRefs]
    BY <1>1, VdsAssumption
  <2>3. \A e \in R : LockOf(e) \in Lock
    BY <1>2, <1>3 DEF MayRefuse, VdsSide, TypeOK
  <2>4. vds' \subseteq Lock /\ refused' \subseteq Lock
    BY <1>2, <1>3, <2>3 DEF GivenUp, TypeOK
  <2>5. QED
    BY <1>1, <1>3, <2>1, <2>2, <2>4 DEF TypeOK
<1>5. ASSUME NEW l \in vds' \ refused', l.handle # 0, present' PROVE FALSE
  <2>1. l \in vds \ refused /\ \A e \in InUse \ R : registry[e].handle # l.handle
    BY <1>2, <1>5 DEF GivenUp
  <2>2. PICK e \in InUse : LockOf(e) = l
    BY <1>1, <1>3, <1>5, <2>1 DEF VdsSide
  <2>3. e \notin R
    BY <1>2, <1>5, <2>2
  <2>4. registry[e].handle = l.handle
    BY <2>2 DEF LockOf
  <2>5. QED
    BY <2>1, <2>3, <2>4
<1>6. Prefix' /\ BlocksInv' /\ Idle' /\ held'[Invalid'] = 0
  <2>1. Invalid' = Invalid /\ Ids' = Ids
    BY DEF Invalid, Ids
  <2>2. QED
    BY <1>1, <1>5, <2>1, InvalidIsId DEF Prefix, BlocksInv, Idle
<1>7. QED
  BY <1>1, <1>4, <1>6 DEF VdsInv

\* An interrupt comes or goes, or nothing happens.
LEMMA QuietStep ==
    ASSUME VdsInv, isr_context \/ UNCHANGED vars
    PROVE  VdsInv'
<1>1. UNCHANGED <<ready, registry, next_id, map, present, vds, refused, recycled,
                  held, region_of, blocks_of>>
  BY DEF isr_context, vars, clients
<1>2. TypeOK /\ isr' \in BOOLEAN
  <2>1. TypeOK
    BY DEF VdsInv
  <2>2. QED
    BY <2>1, Zenon DEF isr_context, vars, TypeOK
<1>3. TypeOK'
  BY <1>1, <1>2 DEF TypeOK
<1>4. InUse' = InUse /\ Named' = Named /\ \A e \in Entries : LockOf(e)' = LockOf(e)
  BY <1>1 DEF InUse, Named, LockOf, Invalid
<1>5. InUse \subseteq Entries /\ Invalid' = Invalid
  BY DEF InUse, Invalid
<1>6. Fresh => Fresh'
  BY <1>1, <1>4, <1>5 DEF Fresh
<1>7. VdsSide => VdsSide'
  BY <1>1, <1>4, <1>5 DEF VdsSide
<1>8. ClientSide => ClientSide'
  BY <1>1, <1>4 DEF ClientSide, Counts
<1>9. Prefix' /\ BlocksInv' /\ held'[Invalid'] = 0 /\ (Idle => Idle')
  BY <1>1, <1>5 DEF VdsInv, Prefix, BlocksInv, Idle
<1>10. QED
  BY <1>1, <1>3, <1>6, <1>7, <1>8, <1>9 DEF VdsInv

\* Every call keeps the invariant.
LEMMA VdsNext == VdsInv /\ [Next]_vars => VdsInv'
<1> SUFFICES ASSUME VdsInv, [Next]_vars PROVE VdsInv'
  OBVIOUS
<1>1. CASE vds_manager_init \/ vds_manager_cleanup
  BY <1>1, InitStep, CleanupStep
<1>2. CASE isr_context \/ UNCHANGED vars
  BY <1>2, QuietStep
<1>3. CASE lock_hit \/ lock_direct \/ lock_bounce
  BY <1>3, HitStep, DirectStep, BounceStep
<1>4. CASE lock_bounce_refused
  BY <1>4, BounceRefusedStep, QuietStep
<1>5. CASE unlock_shared \/ unlock_retained \/ unlock_last \/ unlock_refused
  BY <1>5, UnlockCounted, UnlockLastStep, RefusedStep
<1>6. QED
  BY <1>1, <1>2, <1>3, <1>4, <1>5 DEF Next

\* The invariant of the lock manager.
THEOREM VdsInvariant == Spec => []VdsInv
<1>1. QED
  BY VdsInit, VdsNext, PTL DEF Spec

\* A client that holds an id has its region locked, whoever shares the lock
\* and whatever vds_manager_unlock did or failed to do for the others, until
\* the counter of ids comes round to one that is in use.
THEOREM LockedWhileHeld == Spec => []GrantedStaysLocked
<1>1. VdsInv => GrantedStaysLocked
  <2> SUFFICES ASSUME VdsInv, ~recycled, NEW i \in Holding
               PROVE  \E e \in EntryOf(i) :
                         registry[e].region = region_of[i] /\ (present => LockOf(e) \in vds)
    BY DEF GrantedStaysLocked
  <2>1. i \in Ids /\ held[i] > 0
    BY DEF Holding
  <2>2. ready
    BY <2>1 DEF VdsInv, Idle
  <2>3. PICK e \in Named : registry[e].id = i
    BY <2>1, <2>2 DEF VdsInv, ClientSide
  <2>4. e \in EntryOf(i) /\ e \in InUse
    BY <2>3 DEF EntryOf, WithId, Named, InUse
  <2>5. QED
    BY <2>2, <2>3, <2>4 DEF VdsInv, ClientSide, VdsSide
<1>2. QED
  BY <1>1, VdsInvariant, PTL

\* The registry agrees with its clients on one side and with VDS on the other,
\* but for the locks VDS gave no buffer id for or kept at a cleanup, and
\* vds_manager_cleanup_stale never finds anything.
THEOREM RegistryIsSound == Spec => []RegistryInv
<1>1. VdsInv => RegistryInv
  <2> SUFFICES ASSUME VdsInv PROVE RegistryInv
    OBVIOUS
  <2>1. RefsAreHeld
    BY DEF VdsInv, ClientSide, Named, InUse, Counts, RefsAreHeld
  <2>2. NothingStale
    BY DEF VdsInv, Fresh, InUse, NothingStale
  <2>3. LocksAreKnown
    BY DEF VdsInv, VdsSide, LocksAreKnown
  <2>4. QED
    BY <2>1, <2>2, <2>3 DEF RegistryInv, VdsInv
<1>2. QED
  BY <1>1, VdsInvariant, PTL

\* A bounce buffer is freed block by block until a free one is met; no block
\* of a lock in force is ever freed that way, and none is given out twice.
THEOREM BounceIsKept == Spec => []BounceKept
<1>1. VdsInv => BounceKept
  BY DEF VdsInv, BlocksInv, BounceKept, Holding
<1>2. QED
  BY <1>1, VdsInvariant, PTL
=============================================================================
