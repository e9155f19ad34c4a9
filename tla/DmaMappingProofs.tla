-------------------------- MODULE DmaMappingProofs --------------------------
(***************************************************************************)
(* What holds of the DMA mapping layer for any number of buffers, mappings *)
(* and starts and for pools of any size.                                   *)
(***************************************************************************)
EXTENDS DmaMapping, FiniteSetTheorems, WellFoundedInduction, TLAPS

(***************************************************************************)
(* A mapping that is being set up has an owner like one that is live: the  *)
(* sender.  Its record is the job until setup_finish stores it.            *)
(***************************************************************************)
Owners == Live \cup InHand
Owner(m) == IF m \in Live THEN maps[m] ELSE job

(***************************************************************************)
(* Where a mapping points: to its buffer, or to a pool buffer that is      *)
(* marked in use unless the pools have been restarted since.               *)
(***************************************************************************)
Placed(r) ==
    IF r.bounce = "yes"
    THEN /\ r.addr \in Slots /\ r.addr[3] <= start
         /\ ready /\ r.addr[3] = start => r.addr \in in_use
    ELSE r.bounce = "no" /\ r.addr = r.buf

PlacedInv == \A m \in Owners : Placed(Owner(m))

Apart == \A m, n \in Owners :
            m # n => /\ Owner(m).addr # Owner(n).addr
                     /\ Owner(m).buf # Owner(n).buf

Used == ready => \A s \in in_use : /\ s[3] = start
                                   /\ s \in lost \/ \E m \in Owners : Owner(m).addr = s

\* What is lost stays marked in use and comes to no other mapping.
LostInv == /\ lost \subseteq in_use
           /\ \A m \in Owners : Owner(m).addr \notin lost

Counted == ready => /\ start >= 1
                    /\ \A d \in Dirs :
                          free_count[d] = PoolSize[d] - Cardinality(Pool(d) \cap in_use)

(***************************************************************************)
(* The steps of a sender.  A mapping that is made again takes a bounce     *)
(* buffer or none at all.                                                  *)
(***************************************************************************)
JobInv == job # None =>
    /\ IF job.at \in {"validate", "revalidate"}
       THEN /\ job.id \in Live \ batch
            /\ maps[job.id].buf = job.buf /\ maps[job.id].dir = job.dir
       ELSE job.id \notin Live
    /\ job.at \in {"check", "lock", "fallback"} => job.bounce = "no" /\ job.vds = "no"
    /\ job.at \in {"lock", "fallback"} => job.force = "no"
    /\ job.at = "finish" /\ job.force = "again" => job.bounce = "yes"
    /\ job.bounce = "yes" => job.vds = "no"
    /\ job.dir = "tx" => job.pool = "tx"

(***************************************************************************)
(* The frame a mapping shows.  Exempt are a bounced receive buffer, which  *)
(* is filled by the card, and a receive buffer about to be mapped again.   *)
(***************************************************************************)
Shown(r) == r.dir = "tx" \/ r.bounce = "no" => mem[r.addr] = r.frame

ShownInv == /\ \A m \in Live : Shown(maps[m])
            /\ job # None => \/ Shown(job)
                             \/ job.dir = "rx" /\ job.at = "check" /\ job.force = "again"
                             \/ job.at \in {"validate", "revalidate"}

DmaInv == /\ TypeOK /\ LocksOwned /\ PlacedInv /\ Apart /\ Used /\ LostInv /\ Counted
          /\ JobInv /\ ShownInv

-----------------------------------------------------------------------------
(* The pools.                                                              *)

\* Every nonempty set of naturals has a least element.
LEMMA LeastExists ==
    ASSUME NEW S \in SUBSET Nat, S # {}
    PROVE  \E n \in S : \A m \in S : n <= m
<1> DEFINE R == {ss \in Nat \X Nat : ss[1] < ss[2]}
<1>1. R = OpToRel(<, Nat)
  BY Zenon DEF OpToRel
<1>2. IsWellFoundedOn(R, Nat)
  BY <1>1, NatLessThanWellFounded, Zenon
<1> HIDE DEF R
<1>3. PICK n \in S : \A m \in S : ~ (<<m, n>> \in R)
  BY <1>2, WFMin
<1>4. ASSUME NEW m \in Nat, NEW k \in Nat, m < k PROVE <<m, k>> \in R
  <2>1. <<m, k>> \in Nat \X Nat /\ <<m, k>>[1] = m /\ <<m, k>>[2] = k
    OBVIOUS
  <2>2. <<m, k>>[1] < <<m, k>>[2]
    BY <1>4, <2>1
  <2>3. QED
    BY <2>1, <2>2, Zenon DEF R
<1>5. ASSUME NEW m \in S PROVE n <= m
  <2>1. m \in Nat /\ n \in Nat
    OBVIOUS
  <2>2. ~ (m < n)
    BY <1>3, <1>4, <2>1, Zenon
  <2>3. QED
    BY <2>1, <2>2
<1>6. QED
  BY <1>5

\* The parts of a pool buffer's address.
LEMMA SlotParts ==
    /\ \A d \in Dirs : PoolSize[d] \in 0 .. TxPool + RxPool
    /\ \A s \in Slots : /\ s[1] \in Dirs /\ s[2] \in 1 .. PoolSize[s[1]]
                        /\ s[3] \in 1 .. Starts
                        /\ s = <<s[1], s[2], s[3]>>
    /\ \A d \in Dirs, i \in Nat, e \in 1 .. Starts :
          i \in 1 .. PoolSize[d] => <<d, i, e>> \in Slots
<1>1. \A d \in Dirs : PoolSize[d] \in 0 .. TxPool + RxPool
  BY DmaAssumption DEF PoolSize, Dirs
<1>2. \A s \in Slots : /\ s[1] \in Dirs /\ s[2] \in 1 .. TxPool + RxPool /\ s[3] \in 1 .. Starts
                       /\ s = <<s[1], s[2], s[3]>> /\ s[2] <= PoolSize[s[1]]
  BY DEF Slots
<1>3. \A s \in Slots : s[2] \in 1 .. PoolSize[s[1]]
  BY <1>1, <1>2, DmaAssumption
<1>4. ASSUME NEW d \in Dirs, NEW i \in Nat, NEW e \in 1 .. Starts, i \in 1 .. PoolSize[d]
      PROVE  <<d, i, e>> \in Slots
  <2>1. i \in 1 .. TxPool + RxPool
    BY <1>1, <1>4, DmaAssumption
  <2>2. <<d, i, e>> \in Dirs \X (1 .. TxPool + RxPool) \X (1 .. Starts)
    BY <2>1
  <2>3. QED
    BY <1>4, <2>2 DEF Slots
<1>5. QED
  BY <1>1, <1>2, <1>3, <1>4

\* A pool has as many buffers as its size says.
LEMMA PoolCount ==
    ASSUME start \in 1 .. Starts, NEW d \in Dirs
    PROVE  /\ IsFiniteSet(Pool(d)) /\ Cardinality(Pool(d)) = PoolSize[d]
           /\ \A S : /\ IsFiniteSet(Pool(d) \cap S)
                     /\ Cardinality(Pool(d) \cap S) \in 0 .. PoolSize[d]
<1> DEFINE I == 1 .. PoolSize[d]
           f == [i \in I |-> <<d, i, start>>]
<1>1. PoolSize[d] \in Nat
  BY SlotParts, DmaAssumption
<1>2. IsFiniteSet(I) /\ Cardinality(I) = PoolSize[d]
  <2>1. ASSUME NEW n \in Nat PROVE IsFiniteSet(1 .. n) /\ Cardinality(1 .. n) = n
    <3>1. 1 \in Int /\ n \in Int
      OBVIOUS
    <3>2. IsFiniteSet(1 .. n) /\ Cardinality(1 .. n) = IF 1 > n THEN 0 ELSE n - 1 + 1
      BY <3>1, FS_Interval
    <3>3. QED
      BY <3>2
  <2>2. QED
    BY <1>1, <2>1
<1>3. f \in [I -> Pool(d)]
  BY <1>1, SlotParts DEF Pool
<1>4. f \in Injection(I, Pool(d))
  BY <1>3 DEF Injection, IsInjective
<1>5. f \in Surjection(I, Pool(d))
  <2>1. ASSUME NEW s \in Pool(d) PROVE \E i \in I : f[i] = s
    <3>1. s[2] \in I /\ s = <<d, s[2], start>>
      BY SlotParts DEF Pool
    <3>2. QED
      BY <3>1
  <2>2. QED
    BY <1>3, <2>1 DEF Surjection
<1>6. ExistsBijection(I, Pool(d))
  BY <1>4, <1>5 DEF ExistsBijection, Bijection
<1>7. IsFiniteSet(Pool(d)) /\ Cardinality(Pool(d)) = PoolSize[d]
  BY <1>2, <1>6, FS_Bijection
<1>8. ASSUME NEW S
      PROVE  IsFiniteSet(Pool(d) \cap S) /\ Cardinality(Pool(d) \cap S) \in 0 .. PoolSize[d]
  <2>1. Pool(d) \cap S \in SUBSET Pool(d)
    OBVIOUS
  <2>2. IsFiniteSet(Pool(d) \cap S) /\ Cardinality(Pool(d) \cap S) <= PoolSize[d]
    BY <1>7, <2>1, FS_Subset
  <2>3. Cardinality(Pool(d) \cap S) \in Nat
    BY <2>2, FS_CardinalityType
  <2>4. QED
    BY <1>1, <2>2, <2>3
<1>9. QED
  BY <1>7, <1>8

\* The buffer dma_get_bounce_buffer takes is one of the pool's that is free.
LEMMA FirstIsFree ==
    ASSUME NEW d \in Dirs, Free(d) # {}
    PROVE  /\ First(Free(d)) \in Pool(d) \ in_use /\ ready
           /\ First(Free(d)) \in Slots /\ First(Free(d)) \in Addresses
           /\ First(Free(d))[1] = d /\ First(Free(d))[3] = start
<1> DEFINE T == {s[2] : s \in Free(d)}
<1>1. ready /\ Free(d) = Pool(d) \ in_use
  BY DEF Free
<1>2. T \in SUBSET Nat /\ T # {}
  BY <1>1, SlotParts DEF Pool
<1>3. PICK k \in T : \A n \in T : k <= n
  BY <1>2, LeastExists
<1>4. \E s \in Free(d) : \A t \in Free(d) : s[2] <= t[2]
  BY <1>3
<1>5. First(Free(d)) \in Free(d)
  BY <1>4 DEF First
<1>6. QED
  BY <1>1, <1>5 DEF Pool, Addresses

\* Taking a buffer keeps the count of the free ones.
LEMMA TakeCounts ==
    ASSUME TypeOK, Counted, NEW d \in Dirs, Free(d) # {}, Take(d), UNCHANGED <<ready, start>>
    PROVE  /\ Counted'
           /\ in_use' \in SUBSET Slots
           /\ free_count' \in [Dirs -> 0 .. TxPool + RxPool]
<1> DEFINE s == First(Free(d))
<1>1. s \in Pool(d) \ in_use /\ ready /\ s \in Slots /\ s[1] = d
  BY FirstIsFree
<1>2. in_use' = in_use \cup {s} /\ free_count' = [free_count EXCEPT ![d] = @ - 1]
  BY DEF Take
<1> HIDE DEF s
<1>3. start \in 1 .. Starts /\ \A e \in Dirs : Pool(e)' = Pool(e)
  BY <1>1 DEF TypeOK, Counted, Pool
<1>4. /\ Cardinality(Pool(d) \cap in_use') = Cardinality(Pool(d) \cap in_use) + 1
      /\ \A e \in Dirs \ {d} : Pool(e) \cap in_use' = Pool(e) \cap in_use
  <2>1. Pool(d) \cap in_use' = (Pool(d) \cap in_use) \cup {s} /\ s \notin Pool(d) \cap in_use
    BY <1>1, <1>2
  <2>2. \A e \in Dirs \ {d} : s \notin Pool(e)
    BY <1>1 DEF Pool
  <2>3. IsFiniteSet(Pool(d) \cap in_use)
    BY <1>3, PoolCount
  <2>4. Cardinality((Pool(d) \cap in_use) \cup {s}) = Cardinality(Pool(d) \cap in_use) + 1
    BY <2>1, <2>3, FS_AddElement
  <2>5. \A e \in Dirs \ {d} : Pool(e) \cap in_use' = Pool(e) \cap in_use
    BY <1>2, <2>2
  <2>6. QED
    BY <2>1, <2>4, <2>5
<1>5. ASSUME NEW e \in Dirs
      PROVE  /\ free_count'[e] = PoolSize[e] - Cardinality(Pool(e) \cap in_use')
             /\ free_count'[e] \in 0 .. TxPool + RxPool
  <2>1. free_count[e] = PoolSize[e] - Cardinality(Pool(e) \cap in_use)
    BY <1>1 DEF Counted
  <2>2. /\ Cardinality(Pool(e) \cap in_use) \in 0 .. PoolSize[e]
        /\ Cardinality(Pool(e) \cap in_use') \in 0 .. PoolSize[e]
    BY <1>3, PoolCount
  <2>3. PoolSize[e] \in 0 .. TxPool + RxPool /\ TxPool + RxPool \in Nat
    BY SlotParts, DmaAssumption
  <2>4. free_count'[e] = IF e = d THEN free_count[e] - 1 ELSE free_count[e]
    BY <1>2 DEF TypeOK
  <2>5. Cardinality(Pool(e) \cap in_use') =
           IF e = d THEN Cardinality(Pool(e) \cap in_use) + 1
                    ELSE Cardinality(Pool(e) \cap in_use)
    BY <1>4
  <2>6. QED
    BY <2>1, <2>2, <2>3, <2>4, <2>5
<1>7. free_count' \in [Dirs -> 0 .. TxPool + RxPool]
  BY <1>2, <1>5 DEF TypeOK
<1>8. Counted'
  BY <1>3, <1>5 DEF Counted
<1>9. QED
  BY <1>1, <1>2, <1>7, <1>8 DEF TypeOK

\* Giving back a buffer that is in use keeps it too; one of an earlier start
\* changes nothing.
LEMMA ReleaseCounts ==
    ASSUME TypeOK, Counted, NEW d \in Dirs, NEW s,
           ready /\ s \in Pool(d) => s \in in_use,
           Release(s, d), UNCHANGED <<ready, start>>
    PROVE  /\ Counted'
           /\ in_use' \in SUBSET Slots
           /\ free_count' \in [Dirs -> 0 .. TxPool + RxPool]
<1>0. \A e \in Dirs : Pool(e)' = Pool(e)
  BY DEF Pool
<1>1. CASE ~(ready /\ s \in Pool(d))
  BY <1>0, <1>1 DEF Release, Counted, TypeOK
<1>2. CASE ready /\ s \in Pool(d)
  <2>1. in_use' = in_use \ {s} /\ free_count' = [free_count EXCEPT ![d] = @ + 1] /\ s \in in_use
    BY <1>2 DEF Release
  <2>2. start \in 1 .. Starts
    BY <1>2 DEF TypeOK, Counted
  <2>3. /\ Cardinality(Pool(d) \cap in_use') = Cardinality(Pool(d) \cap in_use) - 1
        /\ \A e \in Dirs \ {d} : Pool(e) \cap in_use' = Pool(e) \cap in_use
    <3>1. Pool(d) \cap in_use' = (Pool(d) \cap in_use) \ {s} /\ s \in Pool(d) \cap in_use
      BY <1>2, <2>1
    <3>2. \A e \in Dirs \ {d} : s \notin Pool(e)
      BY <1>2 DEF Pool
    <3>3. IsFiniteSet(Pool(d) \cap in_use)
      BY <2>2, PoolCount
    <3>4. Cardinality((Pool(d) \cap in_use) \ {s}) = Cardinality(Pool(d) \cap in_use) - 1
      BY <3>1, <3>3, FS_RemoveElement
    <3>5. \A e \in Dirs \ {d} : Pool(e) \cap in_use' = Pool(e) \cap in_use
      BY <2>1, <3>2
    <3>6. QED
      BY <3>1, <3>4, <3>5
  <2>4. ASSUME NEW e \in Dirs
        PROVE  /\ free_count'[e] = PoolSize[e] - Cardinality(Pool(e) \cap in_use')
               /\ free_count'[e] \in 0 .. TxPool + RxPool
    <3>1. free_count[e] = PoolSize[e] - Cardinality(Pool(e) \cap in_use)
      BY <1>2 DEF Counted
    <3>2. /\ Cardinality(Pool(e) \cap in_use) \in 0 .. PoolSize[e]
          /\ Cardinality(Pool(e) \cap in_use') \in 0 .. PoolSize[e]
      BY <2>2, PoolCount
    <3>3. PoolSize[e] \in 0 .. TxPool + RxPool /\ TxPool + RxPool \in Nat
      BY SlotParts, DmaAssumption
    <3>4. free_count'[e] = IF e = d THEN free_count[e] + 1 ELSE free_count[e]
      BY <2>1 DEF TypeOK
    <3>5. Cardinality(Pool(e) \cap in_use') =
             IF e = d THEN Cardinality(Pool(e) \cap in_use) - 1
                      ELSE Cardinality(Pool(e) \cap in_use)
      BY <2>3
    <3>6. QED
      BY <3>1, <3>2, <3>3, <3>4, <3>5
  <2>6. free_count' \in [Dirs -> 0 .. TxPool + RxPool]
    BY <2>1, <2>4 DEF TypeOK
  <2>7. Counted'
    BY <1>0, <1>2, <2>2, <2>4 DEF Counted
  <2>8. QED
    BY <2>1, <2>6, <2>7 DEF TypeOK
<1>3. QED
  BY <1>1, <1>2

-----------------------------------------------------------------------------
(* The mappings.                                                           *)

\* The parts of a record, and who owns one.
LEMMA OwnerParts ==
    ASSUME TypeOK
    PROVE  /\ \A m \in Live : maps[m] \in Mapping
           /\ job # None => job \in Jobs /\ job.id \in MapIds
           /\ InHand = IF job = None THEN {} ELSE {job.id}
           /\ Owners \subseteq MapIds
           /\ \A m \in Owners : /\ Owner(m).buf \in Buffers /\ Owner(m).dir \in Dirs
                                /\ Owner(m).addr \in Addresses
                                /\ Owner(m).bounce \in {"yes", "no"}
<1>1. \A m \in Live : maps[m] \in Mapping
  BY DEF TypeOK, Live
<1>2. job # None => job \in Jobs /\ job.id \in MapIds
  BY DEF TypeOK, Jobs
<1>3. InHand = IF job = None THEN {} ELSE {job.id}
  BY DEF InHand
<1>4. \A r \in Mapping : /\ r.buf \in Buffers /\ r.dir \in Dirs /\ r.addr \in Addresses
                         /\ r.bounce \in {"yes", "no"}
  BY DEF Mapping
<1>5. \A r \in Jobs : /\ r.buf \in Buffers /\ r.dir \in Dirs /\ r.addr \in Addresses
                      /\ r.bounce \in {"yes", "no"}
  BY DEF Jobs
<1>6. \A m \in Owners : m \in MapIds /\ (m \in Live \/ job # None)
  BY <1>2, <1>3 DEF Owners, Live
<1>7. QED
  BY <1>1, <1>2, <1>3, <1>4, <1>5, <1>6 DEF Owner

\* Only a bounced mapping points to a pool buffer.
LEMMA SlotIsBounced ==
    ASSUME DmaInv, NEW m \in Owners
    PROVE  /\ Owner(m).addr \in Slots <=> Owner(m).bounce = "yes"
           /\ \A b \in Buffers : Owner(m).addr = b => Owner(m).buf = b
<1>1. Owner(m).buf \in Buffers /\ Placed(Owner(m))
  BY OwnerParts DEF DmaInv, PlacedInv
<1>2. QED
  BY <1>1, ApartAssumption DEF Placed

\* Mappings stay apart when one of them moves to a place of its own.
LEMMA Moved ==
    ASSUME DmaInv, NEW m, NEW a, NEW b, Owners' \subseteq Owners \cup {m},
           \A n \in Owners \ {m} : /\ Owner(n)' = Owner(n)
                                    /\ Owner(n).addr # a /\ Owner(n).buf # b,
           Owner(m)'.addr = a, Owner(m)'.buf = b
    PROVE  Apart'
<1>1. ASSUME NEW n \in Owners', NEW k \in Owners', n # k
      PROVE  Owner(n)'.addr # Owner(k)'.addr /\ Owner(n)'.buf # Owner(k)'.buf
  <2>1. CASE n = m
    BY <1>1, <2>1
  <2>2. CASE k = m
    BY <1>1, <2>2
  <2>3. CASE n # m /\ k # m
    BY <1>1, <2>3 DEF DmaInv, Apart
  <2>4. QED
    BY <2>1, <2>2, <2>3
<1>2. QED
  BY <1>1 DEF Apart

\* A lock is taken, given up or kept by VDS; the others are as they were.
LEMMA LocksTyped ==
    ASSUME TypeOK, LocksOwned, NEW r, r.buf \in Buffers, Unlock(r),
           r.vds = "yes" => Lockers(r.buf) # {}
    PROVE  /\ locks' \in [Buffers -> 0 .. MaxRefused + 1]
           /\ refused' \in [Buffers -> 0 .. MaxRefused]
           /\ \A b \in Buffers : locks'[b] - refused'[b] =
                 locks[b] - refused[b] - (IF r.vds = "yes" /\ b = r.buf THEN 1 ELSE 0)
<1>0. /\ locks \in [Buffers -> 0 .. MaxRefused + 1] /\ refused \in [Buffers -> 0 .. MaxRefused]
      /\ MaxRefused \in Nat
  BY DmaAssumption DEF TypeOK
<1>1. CASE r.vds # "yes"
  BY <1>0, <1>1 DEF Unlock, vdsVars
<1>2. CASE r.vds = "yes"
  <2>1. locks[r.buf] = refused[r.buf] + 1
    BY <1>2 DEF LocksOwned
  <2>2. CASE locks' = [locks EXCEPT ![r.buf] = @ - 1] /\ UNCHANGED refused
    BY <1>0, <1>2, <2>1, <2>2
  <2>3. CASE /\ refused[r.buf] < MaxRefused
             /\ refused' = [refused EXCEPT ![r.buf] = @ + 1] /\ UNCHANGED locks
    BY <1>0, <1>2, <2>1, <2>3
  <2>4. QED
    BY <1>2, <2>2, <2>3 DEF Unlock
<1>3. QED
  BY <1>1, <1>2

\* dma_unmap_buffer gives everything back that the mapping held, or loses it,
\* and leaves the other mappings alone.
LEMMA UnmapStep ==
    ASSUME DmaInv, NEW m \in Live, dma_unmap_buffer(m), UNCHANGED <<ready, start, policy>>
    PROVE  /\ maps' \in [MapIds -> Mapping \cup {None}] /\ mem' \in [Addresses -> Frames]
           /\ Live' = Live \ {m} /\ \A n \in Live \ {m} : maps'[n] = maps[n]
           /\ Counted' /\ in_use' \in SUBSET Slots
           /\ free_count' \in [Dirs -> 0 .. TxPool + RxPool]
           /\ locks' \in [Buffers -> 0 .. MaxRefused + 1]
           /\ refused' \in [Buffers -> 0 .. MaxRefused]
           /\ \A b \in Buffers : locks'[b] - refused'[b] = locks[b] - refused[b] -
                 (IF maps[m].vds = "yes" /\ b = maps[m].buf THEN 1 ELSE 0)
           /\ lost' \subseteq in_use' /\ lost' \in SUBSET Slots
           /\ \A n \in Owners \ {m} : Owner(n).addr \notin lost'
           /\ \A n \in Owners \ {m} :
                 /\ mem'[Owner(n).addr] = mem[Owner(n).addr]
                 /\ Owner(n).addr \in in_use => Owner(n).addr \in in_use'
           /\ in_use' \subseteq in_use
           /\ ready => \A s \in in_use' : /\ s[3] = start
                                          /\ \/ s \in lost'
                                             \/ \E n \in Owners \ {m} : Owner(n).addr = s
           /\ maps[m].dir = "tx" => mem' = mem
<1> DEFINE r == maps[m]
<1>1. /\ r \in Mapping /\ r.buf \in Buffers /\ r.dir \in Dirs /\ r.addr \in Addresses
      /\ m \in Owners /\ Owner(m) = r /\ m \in MapIds /\ r.buf \in Addresses
  BY OwnerParts DEF DmaInv, Owners, Owner, Mapping, Live, Addresses
<1>2. /\ mem' = CopiedBack(r) /\ ReleaseOf(r) /\ Unlock(r)
      /\ maps' = [maps EXCEPT ![m] = None]
  BY DEF dma_unmap_buffer
<1> HIDE DEF r
<1>3. /\ maps' \in [MapIds -> Mapping \cup {None}]
      /\ Live' = Live \ {m} /\ \A n \in Live \ {m} : maps'[n] = maps[n]
  BY <1>1, <1>2 DEF DmaInv, TypeOK, Live
<1>4. mem' \in [Addresses -> Frames]
  BY <1>1, <1>2 DEF CopiedBack, DmaInv, TypeOK
<1>5. \A n \in Owners \ {m} : Owner(n).addr # r.buf /\ Owner(n).addr # r.addr
  BY <1>1, SlotIsBounced DEF DmaInv, Apart
<1>6. \A n \in Owners \ {m} : mem'[Owner(n).addr] = mem[Owner(n).addr]
  BY <1>1, <1>2, <1>5, OwnerParts DEF CopiedBack, DmaInv, TypeOK
<1>7. r.bounce = "yes" => /\ r.addr \in Slots
                          /\ ready /\ r.addr \in Pool(r.dir) => r.addr \in in_use
  BY <1>1 DEF DmaInv, PlacedInv, Placed, Pool
<1>8. /\ Counted' /\ in_use' \in SUBSET Slots
      /\ free_count' \in [Dirs -> 0 .. TxPool + RxPool]
  <2>1. CASE r.bounce = "yes"
    BY <1>1, <1>2, <1>7, <2>1, ReleaseCounts DEF ReleaseOf, DmaInv
  <2>2. CASE r.bounce # "yes"
    BY <1>2, <2>2 DEF ReleaseOf, DmaInv, Counted, TypeOK, Pool
  <2>3. QED
    BY <2>1, <2>2
<1>9. in_use' \subseteq in_use /\ in_use \ {r.addr} \subseteq in_use'
  BY <1>2 DEF ReleaseOf, Release
<1>10. ASSUME ready, NEW s \in in_use'
       PROVE  s[3] = start /\ (s \in lost' \/ \E n \in Owners \ {m} : Owner(n).addr = s)
  <2>1. s \in in_use /\ s[3] = start /\ s \in Slots
    BY <1>8, <1>9, <1>10 DEF DmaInv, Used
  <2>0. CASE s \in lost
    BY <1>2, <2>0, <2>1 DEF ReleaseOf
  <2> SUFFICES ASSUME s \notin lost' PROVE \E n \in Owners \ {m} : Owner(n).addr = s
    BY <2>1
  <2>2. PICK n \in Owners : Owner(n).addr = s
    BY <1>2, <1>10, <2>1 DEF DmaInv, Used, ReleaseOf
  <2>3. n # m
    <3>1. SUFFICES ASSUME n = m PROVE FALSE
      OBVIOUS
    <3>2. r.addr = s /\ r.bounce = "yes"
      BY <1>1, <2>1, <2>2, <3>1, SlotIsBounced
    <3>3. s \in Pool(r.dir)
      BY <1>2, <2>1, <3>2 DEF Pool, ReleaseOf
    <3>4. s \notin in_use'
      BY <1>2, <1>10, <3>2, <3>3 DEF ReleaseOf, Release
    <3>5. QED
      BY <1>10, <3>4
  <2>4. QED
    BY <2>1, <2>2, <2>3
<1>11. \A n \in Owners \ {m} : Owner(n).addr \in in_use => Owner(n).addr \in in_use'
  BY <1>5, <1>9
<1>12. r.dir = "tx" => mem' = mem
  BY <1>2 DEF CopiedBack
<1>13. /\ lost' \subseteq in_use' /\ lost' \in SUBSET Slots
       /\ \A n \in Owners \ {m} : Owner(n).addr \notin lost'
  <2>1. lost' = lost \cup {s \in in_use : s = r.addr /\ s[1] # r.dir}
    BY <1>2 DEF ReleaseOf
  <2>2. r.addr \notin lost /\ lost \subseteq in_use
    BY <1>1 DEF DmaInv, LostInv
  <2>3. r.addr \in in_use /\ r.addr[1] # r.dir => r.addr \in in_use'
    BY <1>2 DEF ReleaseOf, Release, Pool
  <2>4. lost' \subseteq in_use'
    BY <1>9, <2>1, <2>2, <2>3
  <2>5. \A n \in Owners \ {m} : Owner(n).addr \notin lost
    BY DEF DmaInv, LostInv
  <2>6. QED
    BY <1>5, <1>8, <2>1, <2>4, <2>5
<1>14. /\ locks' \in [Buffers -> 0 .. MaxRefused + 1] /\ refused' \in [Buffers -> 0 .. MaxRefused]
       /\ \A b \in Buffers : locks'[b] - refused'[b] =
             locks[b] - refused[b] - (IF r.vds = "yes" /\ b = r.buf THEN 1 ELSE 0)
  <2>1. r.vds = "yes" => m \in Lockers(r.buf)
    BY DEF Lockers, r
  <2>2. QED
    BY <1>1, <1>2, <2>1, LocksTyped DEF DmaInv
<1>15. QED
  BY <1>2, <1>3, <1>4, <1>6, <1>8, <1>9, <1>10, <1>11, <1>12, <1>13, <1>14 DEF r

\* The locks stay owned when the mapping m goes and gives up its own.
LEMMA LocksAfterUnmap ==
    ASSUME DmaInv, NEW m \in Live, m \in InHand => job.at \in {"validate", "revalidate"},
           locks' \in [Buffers -> 0 .. MaxRefused + 1], refused' \in [Buffers -> 0 .. MaxRefused],
           \A b \in Buffers : locks'[b] - refused'[b] = locks[b] - refused[b] -
              (IF maps[m].vds = "yes" /\ b = maps[m].buf THEN 1 ELSE 0),
           \A b \in Buffers : Lockers(b)' = Lockers(b) \ {m}
    PROVE  LocksOwned'
<1>0. /\ locks \in [Buffers -> 0 .. MaxRefused + 1] /\ refused \in [Buffers -> 0 .. MaxRefused]
      /\ MaxRefused \in Nat /\ TypeOK
  BY DmaAssumption DEF DmaInv, TypeOK
<1>1. ASSUME NEW b \in Buffers
      PROVE  locks'[b] = refused'[b] + (IF Lockers(b)' = {} THEN 0 ELSE 1)
  <2>0. /\ locks[b] \in Int /\ refused[b] \in Int /\ locks'[b] \in Int /\ refused'[b] \in Int
        /\ locks[b] = refused[b] + (IF Lockers(b) = {} THEN 0 ELSE 1)
    BY <1>0 DEF DmaInv, LocksOwned
  <2>1. CASE maps[m].vds = "yes" /\ b = maps[m].buf
    <3>1. m \in Lockers(b)
      BY <2>1 DEF Lockers
    <3>2. ASSUME NEW n \in Lockers(b) PROVE n = m
      <4>1. n \in Owners /\ Owner(n).buf = b
        <5>1. n \in Live => maps[n].buf = b \/ (n \in InHand /\ job.at = "finish")
          BY <3>2 DEF Lockers
        <5>2. n \in InHand /\ job.at = "finish" => n \notin Live
          BY <1>0, OwnerParts DEF DmaInv, JobInv
        <5>3. n \notin Live => n \in InHand /\ job.buf = b
          BY <3>2 DEF Lockers
        <5>4. QED
          BY <5>1, <5>2, <5>3 DEF Owners, Owner
      <4>2. m \in Owners /\ Owner(m).buf = b
        BY <2>1 DEF Owners, Owner
      <4>3. QED
        BY <4>1, <4>2 DEF DmaInv, Apart
    <3>3. Lockers(b)' = {} /\ Lockers(b) # {}
      BY <3>1, <3>2
    <3>4. QED
      BY <2>0, <2>1, <3>3
  <2>2. CASE ~(maps[m].vds = "yes" /\ b = maps[m].buf)
    <3>1. m \notin Lockers(b)
      <4>1. m \in InHand => job.at # "finish"
        OBVIOUS
      <4>2. QED
        BY <2>2, <4>1 DEF Lockers
    <3>2. Lockers(b)' = Lockers(b)
      BY <3>1
    <3>3. locks'[b] - refused'[b] = locks[b] - refused[b] - 0
      BY <2>2
    <3>4. QED
      BY <2>0, <3>2, <3>3
  <2>3. QED
    BY <2>1, <2>2
<1>2. QED
  BY <1>1 DEF LocksOwned

\* Unmapping what is not in a sender's hands.
LEMMA UnmapOther ==
    ASSUME DmaInv, NEW m \in Live \ InHand, dma_unmap_buffer(m),
           UNCHANGED <<ready, start, policy, job>>, batch' \subseteq batch \ {m}
    PROVE  DmaInv'
<1>0. TypeOK
  BY DEF DmaInv
<1>1. /\ maps' \in [MapIds -> Mapping \cup {None}] /\ mem' \in [Addresses -> Frames]
      /\ Live' = Live \ {m} /\ \A n \in Live \ {m} : maps'[n] = maps[n]
      /\ Counted' /\ in_use' \in SUBSET Slots
      /\ free_count' \in [Dirs -> 0 .. TxPool + RxPool]
      /\ locks' \in [Buffers -> 0 .. MaxRefused + 1] /\ refused' \in [Buffers -> 0 .. MaxRefused]
      /\ \A b \in Buffers : locks'[b] - refused'[b] = locks[b] - refused[b] -
            (IF maps[m].vds = "yes" /\ b = maps[m].buf THEN 1 ELSE 0)
      /\ lost' \subseteq in_use' /\ lost' \in SUBSET Slots
      /\ \A n \in Owners \ {m} : Owner(n).addr \notin lost'
      /\ in_use' \subseteq in_use
      /\ ready => \A s \in in_use' : /\ s[3] = start
                                     /\ \/ s \in lost'
                                        \/ \E n \in Owners \ {m} : Owner(n).addr = s
  BY UnmapStep
<1>2. \A n \in Owners \ {m} : /\ mem'[Owner(n).addr] = mem[Owner(n).addr]
                              /\ Owner(n).addr \in in_use => Owner(n).addr \in in_use'
  BY UnmapStep
<1>3. /\ InHand' = InHand /\ Owners' = Owners \ {m}
      /\ \A n \in Owners' : Owner(n)' = Owner(n)
  BY <1>1 DEF InHand, Owners, Owner
<1>4. TypeOK'
  BY <1>0, <1>1 DEF TypeOK
<1>5. PlacedInv'
  BY <1>2, <1>3 DEF DmaInv, PlacedInv, Placed
<1>6. Apart' /\ Used' /\ LostInv'
  BY <1>1, <1>3 DEF DmaInv, Apart, Used, LostInv
<1>7. JobInv'
  BY <1>0, <1>1, OwnerParts DEF DmaInv, JobInv
<1>8. ShownInv'
  <2>1. \A n \in Live' : Shown(maps[n])'
    BY <1>1, <1>2 DEF DmaInv, ShownInv, Shown, Owners, Owner
  <2>2. job # None /\ job.at \notin {"validate", "revalidate"} => mem'[job.addr] = mem[job.addr]
    BY <1>0, <1>2, OwnerParts DEF DmaInv, JobInv, Owners, Owner
  <2>3. QED
    BY <2>1, <2>2 DEF DmaInv, ShownInv, Shown
<1>9. LocksOwned'
  <2>1. \A b \in Buffers : Lockers(b)' = Lockers(b) \ {m}
    BY <1>1, <1>3 DEF Lockers
  <2>2. QED
    BY <1>1, <2>1, LocksAfterUnmap
<1>10. QED
  BY <1>1, <1>4, <1>5, <1>6, <1>7, <1>8, <1>9 DEF DmaInv

\* A sender unmaps what it holds, and gives up.
LEMMA UnmapGivesUp ==
    ASSUME DmaInv, job # None, job.at \in {"validate", "revalidate"},
           dma_unmap_buffer(job.id), job' = None, UNCHANGED <<ready, start, policy, batch>>
    PROVE  DmaInv'
<1> PICK m : m = job.id
  OBVIOUS
<1>0. TypeOK /\ m \in Live \ batch
  BY DEF DmaInv, JobInv
<1>1. /\ maps' \in [MapIds -> Mapping \cup {None}] /\ mem' \in [Addresses -> Frames]
      /\ Live' = Live \ {m} /\ \A n \in Live \ {m} : maps'[n] = maps[n]
      /\ Counted' /\ in_use' \in SUBSET Slots
      /\ free_count' \in [Dirs -> 0 .. TxPool + RxPool]
      /\ locks' \in [Buffers -> 0 .. MaxRefused + 1] /\ refused' \in [Buffers -> 0 .. MaxRefused]
      /\ \A b \in Buffers : locks'[b] - refused'[b] = locks[b] - refused[b] -
            (IF maps[m].vds = "yes" /\ b = maps[m].buf THEN 1 ELSE 0)
      /\ lost' \subseteq in_use' /\ lost' \in SUBSET Slots
      /\ \A n \in Owners \ {m} : Owner(n).addr \notin lost'
      /\ in_use' \subseteq in_use
      /\ ready => \A s \in in_use' : /\ s[3] = start
                                     /\ \/ s \in lost'
                                        \/ \E n \in Owners \ {m} : Owner(n).addr = s
  BY <1>0, UnmapStep
<1>2. \A n \in Owners \ {m} : /\ mem'[Owner(n).addr] = mem[Owner(n).addr]
                              /\ Owner(n).addr \in in_use => Owner(n).addr \in in_use'
  BY <1>0, UnmapStep
<1>3. /\ InHand' = {} /\ Owners' = Owners \ {m} /\ Owners' = Live \ {m}
      /\ \A n \in Owners' : Owner(n)' = Owner(n)
  BY <1>0, <1>1, OwnerParts DEF InHand, Owners, Owner
<1>4. TypeOK'
  BY <1>0, <1>1 DEF TypeOK
<1>5. PlacedInv'
  BY <1>2, <1>3 DEF DmaInv, PlacedInv, Placed
<1>6. Apart' /\ Used' /\ LostInv' /\ JobInv'
  BY <1>1, <1>3 DEF DmaInv, Apart, Used, LostInv, JobInv
<1>7. ShownInv'
  BY <1>1, <1>2 DEF DmaInv, ShownInv, Shown, Owners, Owner
<1>8. LocksOwned'
  <2>1. \A b \in Buffers : Lockers(b)' = Lockers(b) \ {m}
    BY <1>1, <1>3 DEF Lockers
  <2>2. QED
    BY <1>0, <1>1, <2>1, LocksAfterUnmap
<1>9. QED
  BY <1>1, <1>4, <1>5, <1>6, <1>7, <1>8 DEF DmaInv

\* A sender unmaps what it holds, to map it again with a bounce buffer.
LEMMA UnmapAgain ==
    ASSUME DmaInv, job # None, job.at = "validate", dma_unmap_buffer(job.id),
           job' = [job EXCEPT !.at = "check", !.force = "again", !.addr = job.buf,
                              !.bounce = "no", !.vds = "no", !.frame = mem[job.buf]],
           UNCHANGED <<ready, start, policy, batch>>
    PROVE  DmaInv'
<1> PICK m : m = job.id
  OBVIOUS
<1>0. /\ TypeOK /\ m \in Live \ batch /\ job \in Jobs
      /\ maps[m].buf = job.buf /\ maps[m].dir = job.dir
  BY OwnerParts DEF DmaInv, JobInv
<1>1. /\ maps' \in [MapIds -> Mapping \cup {None}] /\ mem' \in [Addresses -> Frames]
      /\ Live' = Live \ {m} /\ \A n \in Live \ {m} : maps'[n] = maps[n]
      /\ Counted' /\ in_use' \in SUBSET Slots
      /\ free_count' \in [Dirs -> 0 .. TxPool + RxPool]
      /\ locks' \in [Buffers -> 0 .. MaxRefused + 1] /\ refused' \in [Buffers -> 0 .. MaxRefused]
      /\ \A b \in Buffers : locks'[b] - refused'[b] = locks[b] - refused[b] -
            (IF maps[m].vds = "yes" /\ b = maps[m].buf THEN 1 ELSE 0)
      /\ lost' \subseteq in_use' /\ lost' \in SUBSET Slots
      /\ \A n \in Owners \ {m} : Owner(n).addr \notin lost'
      /\ in_use' \subseteq in_use
      /\ ready => \A s \in in_use' : /\ s[3] = start
                                     /\ \/ s \in lost'
                                        \/ \E n \in Owners \ {m} : Owner(n).addr = s
      /\ maps[m].dir = "tx" => mem' = mem
  BY <1>0, UnmapStep
<1>2. \A n \in Owners \ {m} : /\ mem'[Owner(n).addr] = mem[Owner(n).addr]
                              /\ Owner(n).addr \in in_use => Owner(n).addr \in in_use'
  BY <1>0, UnmapStep
<1>3. /\ job' \in Jobs /\ job'.id = m /\ job'.buf = job.buf /\ job'.dir = job.dir
      /\ job'.addr = job.buf /\ job'.bounce = "no" /\ job'.vds = "no" /\ job'.at = "check"
      /\ job'.force = "again" /\ job'.frame = mem[job.buf] /\ job'.pool = job.pool
  <2>1. job.buf \in Addresses /\ mem[job.buf] \in Frames
    BY <1>0 DEF Jobs, Addresses, TypeOK
  <2>2. QED
    BY <1>0, <2>1 DEF Jobs
<1>4. job' # None
  BY <1>3, ApartAssumption
<1>5. /\ InHand' = {m} /\ Owners' = Owners /\ Owner(m)' = job'
      /\ \A n \in Owners \ {m} : Owner(n)' = Owner(n)
  <2>0. {job'} \ {None} = {job'}
    BY <1>4
  <2>5. InHand' = {job'.id}
    BY <2>0 DEF InHand
  <2>6. InHand = {job.id}
    BY <1>0, OwnerParts
  <2>1. InHand' = {m} /\ InHand = {m}
    BY <1>3, <2>5, <2>6
  <2>2. Owners' = Owners /\ Owners = Live
    BY <1>0, <1>1, <2>1 DEF Owners
  <2>3. Owner(m)' = job'
    BY <1>1 DEF Owner
  <2>4. \A n \in Owners \ {m} : Owner(n)' = Owner(n)
    BY <1>1, <2>2 DEF Owner
  <2>7. QED
    BY <2>1, <2>2, <2>3, <2>4
<1>6. TypeOK'
  BY <1>0, <1>1, <1>3 DEF TypeOK
<1>7. PlacedInv'
  <2>1. Placed(Owner(m))'
    BY <1>3, <1>5 DEF Placed
  <2>2. ASSUME NEW n \in Owners \ {m} PROVE Placed(Owner(n))'
    BY <1>2, <1>5 DEF DmaInv, PlacedInv, Placed
  <2>3. QED
    BY <1>5, <2>1, <2>2 DEF PlacedInv
<1>8. Apart'
  <2>1. \A n \in Owners \ {m} : Owner(n).buf # job.buf /\ Owner(n).addr # job.buf
    <3>1. m \in Owners /\ Owner(m).buf = job.buf /\ job.buf \in Buffers
      BY <1>0 DEF Owners, Owner, Jobs
    <3>2. QED
      BY <3>1, SlotIsBounced DEF DmaInv, Apart
  <2>2. Owner(m)'.addr = job.buf /\ Owner(m)'.buf = job.buf
    BY <1>3, <1>5
  <2>3. \A n \in Owners \ {m} : /\ Owner(n)' = Owner(n)
                                /\ Owner(n).addr # job.buf /\ Owner(n).buf # job.buf
    BY <1>5, <2>1
  <2>4. Owners' \subseteq Owners \cup {m}
    BY <1>5
  <2>5. QED
    BY <2>2, <2>3, <2>4, Moved, SMT
<1>9. Used' /\ LostInv'
  <2>1. job.buf \notin lost'
    BY <1>0, <1>1, ApartAssumption DEF Jobs
  <2>2. Used'
    BY <1>1, <1>5 DEF Used
  <2>3. Owner(m)'.addr \notin lost'
    BY <1>3, <1>5, <2>1
  <2>4. \A n \in Owners \ {m} : Owner(n)'.addr \notin lost'
    BY <1>1, <1>5
  <2>5. QED
    BY <1>1, <1>5, <2>2, <2>3, <2>4 DEF LostInv
<1>10. JobInv'
  BY <1>1, <1>3 DEF DmaInv, JobInv
<1>11. ShownInv'
  <2>1. \A n \in Live' : Shown(maps[n])'
    BY <1>1, <1>2 DEF DmaInv, ShownInv, Shown, Owners, Owner
  <2>2. job'.dir = "tx" \/ job'.dir = "rx"
    BY <1>3 DEF Jobs, Dirs
  <2>3. job'.dir = "tx" => Shown(job)'
    <3>1. SUFFICES ASSUME job.dir = "tx" PROVE mem'[job.buf] = mem[job.buf]
      BY <1>3 DEF Shown
    <3>2. QED
      BY <1>0, <1>1, <3>1
  <2>4. QED
    BY <1>3, <2>1, <2>2, <2>3 DEF ShownInv
<1>12. LocksOwned'
  <2>1. \A b \in Buffers : Lockers(b)' = Lockers(b) \ {m}
    <3>1. InHand = {m}
      BY <1>0, OwnerParts
    <3>2. QED
      BY <1>1, <1>3, <1>5, <3>1 DEF Lockers
  <2>2. QED
    BY <1>0, <1>1, <2>1, LocksAfterUnmap
<1>13. QED
  BY <1>1, <1>6, <1>7, <1>8, <1>9, <1>10, <1>11, <1>12 DEF DmaInv

\* The sender gets a bounce buffer.
LEMMA BounceStep ==
    ASSUME DmaInv, job # None, job.at \in {"check", "fallback"}, Free(job.pool) # {},
           Take(job.pool), mem' = Filled(First(Free(job.pool))),
           job' = [Bounced(First(Free(job.pool))) EXCEPT !.at = "finish"],
           UNCHANGED <<ready, start, lost, policy, maps, batch, vdsVars>>
    PROVE  DmaInv'
<1> PICK m : m = job.id
  OBVIOUS
<1> PICK s : s = First(Free(job.pool))
  OBVIOUS
<1>0. /\ TypeOK /\ Counted /\ job \in Jobs /\ m \notin Live /\ m \in Owners /\ Owner(m) = job
      /\ job.pool \in Dirs /\ job.bounce = "no" /\ job.vds = "no" /\ job.addr = job.buf
      /\ job.buf \in Buffers
  <2>1. TypeOK /\ Counted /\ job \in Jobs /\ m \notin Live /\ job.bounce = "no" /\ job.vds = "no"
    BY OwnerParts DEF DmaInv, JobInv
  <2>2. m \in Owners /\ Owner(m) = job
    BY <2>1, OwnerParts DEF Owners, Owner
  <2>3. QED
    BY <2>1, <2>2 DEF Jobs, DmaInv, PlacedInv, Placed
<1>1. /\ s \in Pool(job.pool) \ in_use /\ ready /\ s \in Slots /\ s \in Addresses
      /\ s[3] = start
  BY <1>0, FirstIsFree
<1>2. /\ Counted' /\ in_use' \in SUBSET Slots /\ free_count' \in [Dirs -> 0 .. TxPool + RxPool]
  BY <1>0, TakeCounts
<1>3. in_use' = in_use \cup {s}
  BY DEF Take
<1>4. mem' = Filled(s) /\ job' = [Bounced(s) EXCEPT !.at = "finish"]
  OBVIOUS
<1>5. /\ job' \in Jobs /\ job'.id = m /\ job'.buf = job.buf /\ job'.dir = job.dir
      /\ job'.addr = s /\ job'.bounce = "yes" /\ job'.vds = "no" /\ job'.at = "finish"
      /\ job'.frame = job.frame /\ job'.pool = job.pool
  BY <1>0, <1>1, <1>4 DEF Jobs, Bounced
<1>6. job' # None
  BY <1>5, ApartAssumption
<1>7. /\ Live' = Live /\ InHand' = {m} /\ Owners' = Owners /\ Owner(m)' = job'
      /\ \A n \in Owners \ {m} : Owner(n)' = Owner(n)
  <2>1. Live' = Live /\ InHand' = {m} /\ InHand = {m}
    <3>1. maps' = maps
      OBVIOUS
    <3>2. InHand = {m}
      BY <1>0, OwnerParts
    <3>3. InHand' = {job'.id}
      BY <1>6 DEF InHand
    <3>4. QED
      BY <1>5, <3>1, <3>2, <3>3 DEF Live
  <2>2. Owners' = Owners /\ Owners = Live \cup {m}
    BY <2>1 DEF Owners
  <2>3. Owner(m)' = job'
    BY <1>0, <2>1 DEF Owner
  <2>4. \A n \in Owners \ {m} : Owner(n)' = Owner(n)
    BY <2>1, <2>2 DEF Owner
  <2>5. QED
    BY <2>1, <2>2, <2>3, <2>4
<1>8. mem' \in [Addresses -> Frames] /\ \A a \in Addresses : a # s => mem'[a] = mem[a]
  <2>1. mem[job.buf] \in Frames
    BY <1>0 DEF TypeOK, Addresses
  <2>2. QED
    BY <1>0, <1>1, <1>4, <2>1 DEF Filled, TypeOK
<1>9. ASSUME NEW n \in Owners \ {m} PROVE Owner(n).addr # s
  <2>1. SUFFICES ASSUME Owner(n).addr = s PROVE FALSE
    OBVIOUS
  <2>2. Owner(n).bounce = "yes" /\ Placed(Owner(n))
    BY <1>1, <2>1, SlotIsBounced DEF DmaInv, PlacedInv
  <2>3. QED
    BY <1>1, <2>1, <2>2 DEF Placed
<1>10. TypeOK'
  BY <1>0, <1>2, <1>5, <1>7, <1>8 DEF TypeOK, vdsVars
<1>11. PlacedInv'
  <2>1. Placed(Owner(m))'
    <3>1. start \in Nat
      BY <1>0 DEF TypeOK
    <3>2. QED
      BY <1>1, <1>3, <1>5, <1>7, <3>1 DEF Placed
  <2>2. ASSUME NEW n \in Owners \ {m} PROVE Placed(Owner(n))'
    BY <1>3, <1>7 DEF DmaInv, PlacedInv, Placed
  <2>3. QED
    BY <1>7, <2>1, <2>2 DEF PlacedInv
<1>12. Apart'
  <2>1. \A n \in Owners \ {m} : Owner(n).buf # job.buf
    BY <1>0 DEF DmaInv, Apart
  <2>2. Owner(m)'.addr = s /\ Owner(m)'.buf = job.buf
    BY <1>5, <1>7
  <2>3. \A n \in Owners \ {m} : /\ Owner(n)' = Owner(n)
                                /\ Owner(n).addr # s /\ Owner(n).buf # job.buf
    BY <1>7, <1>9, <2>1
  <2>4. Owners' \subseteq Owners \cup {m}
    BY <1>7
  <2>5. QED
    BY <2>2, <2>3, <2>4, Moved, SMT
<1>13. Used'
  <2>1. ASSUME NEW t \in in_use', t \notin lost
        PROVE  t[3] = start /\ \E n \in Owners : Owner(n)'.addr = t
    <3>1. CASE t = s
      BY <1>0, <1>1, <1>5, <1>7, <3>1
    <3>2. CASE t \in in_use
      <4>1. PICK n \in Owners : Owner(n).addr = t
        BY <1>1, <2>1, <3>2 DEF DmaInv, Used
      <4>2. n # m
        <5>1. t \in Slots
          BY <1>0, <3>2 DEF TypeOK
        <5>2. QED
          BY <1>0, <4>1, <5>1, ApartAssumption
      <4>3. QED
        BY <1>1, <1>7, <3>2, <4>1, <4>2 DEF DmaInv, Used
    <3>3. QED
      BY <1>3, <3>1, <3>2
  <2>2. \A t \in lost : t \in in_use /\ t[3] = start
    BY <1>1 DEF DmaInv, LostInv, Used
  <2>3. QED
    BY <1>7, <2>1, <2>2 DEF Used
<1>18. LostInv'
  <2>1. s \notin lost /\ lost \subseteq in_use'
    BY <1>1, <1>3 DEF DmaInv, LostInv
  <2>2. \A n \in Owners \ {m} : Owner(n).addr \notin lost
    BY DEF DmaInv, LostInv
  <2>3. \A n \in Owners' : Owner(n)'.addr \notin lost
    <3>1. Owner(m)'.addr = s
      BY <1>5, <1>7
    <3>2. QED
      BY <1>7, <2>1, <2>2, <3>1
  <2>4. lost' = lost
    BY <1>1
  <2>5. QED
    BY <2>1, <2>3, <2>4 DEF LostInv
<1>14. JobInv'
  BY <1>0, <1>5, <1>7 DEF DmaInv, JobInv
<1>15. ShownInv'
  <2>1. \A n \in Live' : Shown(maps[n])'
    <3>1. \A n \in Live : maps[n].addr \in Addresses /\ maps[n].addr # s
      BY <1>0, <1>9, OwnerParts DEF Owners, Owner
    <3>2. QED
      BY <1>7, <1>8, <3>1 DEF DmaInv, ShownInv, Shown
  <2>2. Shown(job)'
    <3>1. SUFFICES ASSUME job.dir = "tx" PROVE mem'[s] = job.frame
      BY <1>5 DEF Shown
    <3>2. mem[job.buf] = job.frame /\ job.pool = "tx"
      BY <1>0, <3>1 DEF DmaInv, ShownInv, Shown, JobInv
    <3>3. QED
      BY <1>0, <1>1, <1>4, <3>1, <3>2 DEF Filled, TypeOK
  <2>3. QED
    BY <2>1, <2>2 DEF ShownInv
<1>16. LocksOwned'
  <2>1. InHand = {m}
    BY <1>0, OwnerParts
  <2>2. \A b \in Buffers : Lockers(b)' = Lockers(b)
    BY <1>0, <1>5, <1>7, <2>1 DEF Lockers
  <2>3. QED
    BY <2>2 DEF DmaInv, LocksOwned, vdsVars
<1>17. QED
  BY <1>2, <1>10, <1>11, <1>12, <1>13, <1>14, <1>15, <1>16, <1>18 DEF DmaInv

\* The sender gives up before it holds anything.
LEMMA AbandonStep ==
    ASSUME DmaInv, job # None, job.at \in {"check", "fallback"}, job' = None,
           UNCHANGED <<poolVars, policy, maps, batch, mem, vdsVars>>
    PROVE  DmaInv'
<1> PICK m : m = job.id
  OBVIOUS
<1>0. /\ TypeOK /\ Counted /\ m \notin Live /\ m \in Owners /\ Owner(m) = job
      /\ job.bounce = "no" /\ job.vds = "no" /\ job.addr \in Buffers
  <2>1. TypeOK /\ Counted /\ job \in Jobs /\ m \notin Live /\ job.bounce = "no"
        /\ job.vds = "no"
    BY OwnerParts DEF DmaInv, JobInv
  <2>2. m \in Owners /\ Owner(m) = job
    BY <2>1, OwnerParts DEF Owners, Owner
  <2>3. QED
    BY <2>1, <2>2 DEF Jobs, DmaInv, PlacedInv, Placed
<1>1. /\ Live' = Live /\ InHand' = {} /\ Owners' = Owners \ {m} /\ Owners' = Live
      /\ \A n \in Owners' : Owner(n)' = Owner(n)
  BY <1>0, OwnerParts DEF InHand, Owners, Owner, Live
<1>2. TypeOK'
  BY <1>0, <1>1 DEF TypeOK, poolVars, vdsVars
<1>3. PlacedInv'
  BY <1>1 DEF DmaInv, PlacedInv, Placed, poolVars
<1>4. Apart' /\ JobInv' /\ ShownInv'
  BY <1>1 DEF DmaInv, Apart, JobInv, ShownInv, Shown
<1>5. Counted'
  BY <1>0 DEF Counted, Pool, poolVars
<1>6. Used' /\ LostInv'
  <2>1. \A t \in in_use : t # job.addr
    BY <1>0, ApartAssumption DEF TypeOK
  <2>2. QED
    BY <1>0, <1>1, <2>1 DEF DmaInv, Used, LostInv, poolVars
<1>7. LocksOwned'
  <2>1. \A b \in Buffers : Lockers(b)' = Lockers(b)
    BY <1>0, <1>1 DEF Lockers
  <2>2. QED
    BY <2>1 DEF DmaInv, LocksOwned, vdsVars
<1>8. QED
  BY <1>2, <1>3, <1>4, <1>5, <1>6, <1>7 DEF DmaInv

\* Buffer b has k more locks than before that VDS has not refused to give up.
LocksMoved(b, k) ==
    /\ locks' \in [Buffers -> 0 .. MaxRefused + 1] /\ refused' \in [Buffers -> 0 .. MaxRefused]
    /\ \A c \in Buffers :
          locks'[c] - refused'[c] = locks[c] - refused[c] + (IF c = b THEN k ELSE 0)

\* The sender goes from one step to the next with the same buffer, and with
\* a lock or without one.
LEMMA SameBuffer ==
    ASSUME DmaInv, job # None, job.at \in {"check", "lock"}, job.force = "no",
           NEW m, m = job.id,
           job' \in Jobs, job'.id = m, job'.buf = job.buf, job'.dir = job.dir,
           job'.addr = job.addr, job'.bounce = "no", job'.force = "no",
           job'.frame = job.frame, job'.pool = job.pool,
           job'.at \in {"lock", "finish", "fallback"},
           \/ job'.vds = "yes" /\ job'.at = "finish" /\ LocksMoved(job.buf, 1)
           \/ job'.vds = "no" /\ LocksMoved(job.buf, 0),
           UNCHANGED <<poolVars, policy, maps, batch, mem>>
    PROVE  DmaInv'
<1>0. /\ TypeOK /\ Counted /\ m \notin Live /\ m \in Owners /\ Owner(m) = job /\ m \in MapIds
      /\ job.bounce = "no" /\ job.vds = "no" /\ job.addr = job.buf
  <2>1. /\ TypeOK /\ Counted /\ job \in Jobs /\ m \notin Live
        /\ job.bounce = "no" /\ job.vds = "no" /\ m \in MapIds
    BY OwnerParts DEF DmaInv, JobInv
  <2>2. m \in Owners /\ Owner(m) = job
    BY <2>1, OwnerParts DEF Owners, Owner
  <2>3. QED
    BY <2>1, <2>2 DEF DmaInv, PlacedInv, Placed
<1>3. job' # None
  BY ApartAssumption
<1>4. /\ Live' = Live /\ InHand' = {m} /\ Owners' = Owners /\ Owner(m)' = job'
      /\ \A n \in Owners \ {m} : Owner(n)' = Owner(n)
  BY <1>0, <1>3, OwnerParts DEF InHand, Owners, Owner, Live
<1>5. TypeOK'
  BY <1>0, <1>4 DEF TypeOK, poolVars, LocksMoved
<1>6. PlacedInv'
  <2>1. Placed(Owner(m))'
    BY <1>0, <1>4 DEF Placed
  <2>2. ASSUME NEW n \in Owners \ {m} PROVE Placed(Owner(n))'
    BY <1>4 DEF DmaInv, PlacedInv, Placed, poolVars
  <2>3. QED
    BY <1>4, <2>1, <2>2 DEF PlacedInv
<1>7. \A n \in Owners : Owner(n)'.addr = Owner(n).addr /\ Owner(n)'.buf = Owner(n).buf
  BY <1>0, <1>4
<1>8. Apart' /\ Used' /\ LostInv'
  BY <1>4, <1>7 DEF DmaInv, Apart, Used, LostInv, poolVars
<1>9. Counted'
  BY <1>0 DEF Counted, Pool, poolVars
<1>10. JobInv'
  BY <1>0, <1>4 DEF DmaInv, JobInv
<1>11. ShownInv'
  BY <1>0, <1>4 DEF DmaInv, ShownInv, Shown
<1>12. LocksOwned'
  <2>1. ASSUME NEW b \in Buffers
        PROVE  locks'[b] = refused'[b] + (IF Lockers(b)' = {} THEN 0 ELSE 1)
    <3>0. /\ locks[b] \in Int /\ refused[b] \in Int /\ locks'[b] \in Int /\ refused'[b] \in Int
          /\ locks[b] = refused[b] + (IF Lockers(b) = {} THEN 0 ELSE 1)
      BY <1>0, DmaAssumption DEF DmaInv, TypeOK, LocksOwned, LocksMoved
    <3>1. InHand = {m}
      BY <1>0, OwnerParts
    <3>2. CASE b = job.buf /\ job'.vds = "yes"
      <4>1. Lockers(b) = {}
        <5>1. \A n \in Live : maps[n].buf # b
          BY <1>0, <3>2 DEF DmaInv, Apart, Owners, Owner
        <5>2. QED
          BY <1>0, <3>1, <5>1 DEF Lockers
      <4>2. m \in Lockers(b)'
        BY <1>4, <3>2 DEF Lockers
      <4>3. locks'[b] - refused'[b] = locks[b] - refused[b] + 1
        BY <3>2 DEF LocksMoved
      <4>4. QED
        BY <3>0, <4>1, <4>2, <4>3
    <3>3. CASE ~(b = job.buf /\ job'.vds = "yes")
      <4>1. Lockers(b)' = Lockers(b)
        BY <1>0, <1>4, <3>1, <3>3 DEF Lockers
      <4>2. locks'[b] - refused'[b] = locks[b] - refused[b] + 0
        BY <3>3 DEF LocksMoved
      <4>3. locks'[b] - refused'[b] = IF Lockers(b) = {} THEN 0 ELSE 1
        BY <3>0, <4>2
      <4>4. locks'[b] = refused'[b] + (IF Lockers(b) = {} THEN 0 ELSE 1)
        BY <3>0, <4>3
      <4>5. QED
        BY <4>1, <4>4, Zenon
    <3>4. QED
      BY <3>2, <3>3
  <2>2. QED
    BY <2>1 DEF LocksOwned
<1>13. QED
  BY <1>5, <1>6, <1>8, <1>9, <1>10, <1>11, <1>12 DEF DmaInv

\* dma_check_buffer_safety, and a bounce buffer for a buffer that crosses 64K
\* or for a caller that asks for one.
LEMMA CheckStep ==
    ASSUME DmaInv, setup_check
    PROVE  DmaInv'
<1>0. job # None /\ job.at = "check" /\ job \in Jobs /\ TypeOK
  BY OwnerParts DEF setup_check, DmaInv
<1>1. CASE job' = None /\ UNCHANGED <<mem, in_use, free_count>>
  <2>1. job' = None /\ UNCHANGED <<poolVars, policy, maps, batch, mem, vdsVars>>
    BY <1>1 DEF setup_check, poolVars
  <2>2. QED
    BY <1>0, <2>1, AbandonStep
<1>2. CASE /\ ~needs_bounce(job.buf) /\ WantsBounce /\ Free(job.pool) # {}
           /\ Take(job.pool) /\ mem' = Filled(First(Free(job.pool)))
           /\ job' = [Bounced(First(Free(job.pool))) EXCEPT !.at = "finish"]
  <2>1. UNCHANGED <<ready, start, lost, policy, maps, batch, vdsVars>>
    BY DEF setup_check
  <2>2. QED
    BY <1>0, <1>2, <2>1, BounceStep, Zenon
<1>3. CASE /\ ~needs_bounce(job.buf) /\ ~WantsBounce /\ job' = [job EXCEPT !.at = "lock"]
           /\ UNCHANGED <<mem, in_use, free_count>>
  <2>1. UNCHANGED <<poolVars, policy, maps, batch, mem, vdsVars>>
    BY <1>3 DEF setup_check, poolVars
  <2>2. job.force = "no"
    BY <1>3 DEF WantsBounce
  <2>3. job.bounce = "no" /\ job.vds = "no"
    BY <1>0 DEF DmaInv, JobInv
  <2>4. PICK m : m = job.id
    OBVIOUS
  <2>5. /\ job' \in Jobs /\ job'.id = m /\ job'.buf = job.buf /\ job'.dir = job.dir
        /\ job'.addr = job.addr /\ job'.bounce = "no" /\ job'.force = "no"
        /\ job'.frame = job.frame /\ job'.pool = job.pool /\ job'.at = "lock" /\ job'.vds = "no"
    BY <1>0, <1>3, <2>2, <2>3, <2>4 DEF Jobs
  <2>6. LocksMoved(job.buf, 0)
    BY <1>0, <2>1, DmaAssumption DEF TypeOK, vdsVars, LocksMoved
  <2>7. QED
    BY <1>0, <2>1, <2>2, <2>4, <2>5, <2>6, SameBuffer
<1>4. QED
  BY <1>1, <1>2, <1>3, Zenon DEF setup_check, Abandon

\* A lock that VDS does not give up is one more lock, and one more refused.
LEMMA LockStaysTyped ==
    ASSUME TypeOK, LocksOwned, NEW b \in Buffers, LockStays(b)
    PROVE  /\ locks' \in [Buffers -> 0 .. MaxRefused + 1]
           /\ refused' \in [Buffers -> 0 .. MaxRefused]
           /\ \A c \in Buffers : locks'[c] - refused'[c] = locks[c] - refused[c]
<1>0. /\ locks \in [Buffers -> 0 .. MaxRefused + 1] /\ refused \in [Buffers -> 0 .. MaxRefused]
      /\ MaxRefused \in Nat
  BY DmaAssumption DEF TypeOK
<1>1. refused[b] < MaxRefused /\ locks[b] <= refused[b] + 1
  BY <1>0 DEF LockStays, LocksOwned
<1>2. locks' = [locks EXCEPT ![b] = @ + 1] /\ refused' = [refused EXCEPT ![b] = @ + 1]
  BY DEF LockStays
<1>3. QED
  BY <1>0, <1>1, <1>2

\* The VDS lock, or none.
LEMMA LockStep ==
    ASSUME DmaInv, setup_lock
    PROVE  DmaInv'
<1>0. PICK m : m = job.id
  OBVIOUS
<1>1. /\ job # None /\ job.at = "lock" /\ job \in Jobs /\ TypeOK /\ LocksOwned
      /\ job.bounce = "no" /\ job.vds = "no" /\ job.force = "no" /\ job.buf \in Buffers
  BY OwnerParts DEF DmaInv, JobInv, setup_lock, Jobs
<1>2. UNCHANGED <<poolVars, policy, maps, batch, mem>>
  BY DEF setup_lock
<1>3. /\ locks \in [Buffers -> 0 .. MaxRefused + 1] /\ refused \in [Buffers -> 0 .. MaxRefused]
      /\ MaxRefused \in Nat
  BY <1>1, DmaAssumption DEF TypeOK
<1>4. CASE /\ locks' = [locks EXCEPT ![job.buf] = @ + 1] /\ UNCHANGED refused
           /\ job' = [job EXCEPT !.vds = "yes", !.at = "finish"]
  <2>1. /\ job' \in Jobs /\ job'.id = m /\ job'.buf = job.buf /\ job'.dir = job.dir
        /\ job'.addr = job.addr /\ job'.bounce = "no" /\ job'.force = "no"
        /\ job'.frame = job.frame /\ job'.pool = job.pool /\ job'.at = "finish"
        /\ job'.vds = "yes"
    BY <1>0, <1>1, <1>4 DEF Jobs
  <2>2. locks[job.buf] = refused[job.buf]
    <3>1. Lockers(job.buf) = {}
      <4>1. job.id \in Owners /\ Owner(job.id) = job /\ InHand = {job.id}
        BY <1>1, OwnerParts DEF DmaInv, JobInv, Owners, Owner
      <4>2. \A n \in Live : maps[n].buf # job.buf
        BY <1>1, <4>1 DEF DmaInv, JobInv, Apart, Owners, Owner
      <4>3. QED
        BY <1>1, <4>1, <4>2 DEF Lockers
    <3>2. QED
      BY <1>1, <1>3, <3>1 DEF LocksOwned
  <2>3. LocksMoved(job.buf, 1)
    BY <1>1, <1>3, <1>4, <2>2 DEF LocksMoved
  <2>4. QED
    BY <1>0, <1>1, <1>2, <2>1, <2>3, SameBuffer
<1>5. CASE /\ UNCHANGED vdsVars \/ LockStays(job.buf)
           /\ \/ job' = [job EXCEPT !.at = "fallback"]
              \/ job' = [job EXCEPT !.at = "finish"]
  <2>1. /\ job' \in Jobs /\ job'.id = m /\ job'.buf = job.buf /\ job'.dir = job.dir
        /\ job'.addr = job.addr /\ job'.bounce = "no" /\ job'.force = "no"
        /\ job'.frame = job.frame /\ job'.pool = job.pool /\ job'.at \in {"finish", "fallback"}
        /\ job'.vds = "no"
    BY <1>0, <1>1, <1>5 DEF Jobs
  <2>2. /\ locks' \in [Buffers -> 0 .. MaxRefused + 1] /\ refused' \in [Buffers -> 0 .. MaxRefused]
        /\ \A b \in Buffers : locks'[b] - refused'[b] = locks[b] - refused[b]
    BY <1>1, <1>3, <1>5, LockStaysTyped DEF vdsVars
  <2>3. LocksMoved(job.buf, 0)
    BY <1>3, <2>2 DEF LocksMoved
  <2>4. QED
    BY <1>0, <1>1, <1>2, <2>1, <2>3, SameBuffer
<1>6. QED
  BY <1>4, <1>5, Zenon DEF setup_lock

\* A bounce buffer when the lock cannot be had.
LEMMA FallbackStep ==
    ASSUME DmaInv, setup_fallback
    PROVE  DmaInv'
<1>0. job # None /\ job.at = "fallback"
  BY DEF setup_fallback
<1>1. CASE Free(job.pool) = {}
  <2>1. job' = None /\ UNCHANGED <<poolVars, policy, maps, batch, mem, vdsVars>>
    BY <1>1 DEF setup_fallback, Abandon, poolVars
  <2>2. QED
    BY <1>0, <2>1, AbandonStep
<1>2. CASE Free(job.pool) # {}
  <2>1. /\ Take(job.pool) /\ mem' = Filled(First(Free(job.pool)))
        /\ job' = [Bounced(First(Free(job.pool))) EXCEPT !.at = "finish"]
        /\ UNCHANGED <<ready, start, lost, policy, maps, batch, vdsVars>>
    BY <1>2, Zenon DEF setup_fallback, FallbackBounce
  <2>2. QED
    BY <1>0, <1>2, <2>1, BounceStep, Zenon
<1>3. QED
  BY <1>1, <1>2

\* The mapping is stored; the sender may still have it in its hands.
LEMMA StoredStep ==
    ASSUME DmaInv, job # None, job.at = "finish", maps' = [maps EXCEPT ![job.id] = Record],
           \/ job' = None
           \/ job' = [job EXCEPT !.at = "validate"]
           \/ job' = [job EXCEPT !.at = "revalidate"],
           UNCHANGED <<poolVars, policy, batch, mem, vdsVars>>
    PROVE  DmaInv'
<1> PICK m : m = job.id
  OBVIOUS
<1> PICK r : r = Record
  OBVIOUS
<1>0. /\ TypeOK /\ Counted /\ m \notin Live /\ m \in Owners /\ Owner(m) = job /\ m \in MapIds
      /\ job # None /\ job.at = "finish" /\ job \in Jobs
  <2>1. /\ TypeOK /\ Counted /\ job # None /\ job.at = "finish" /\ job \in Jobs /\ m \notin Live
        /\ m \in MapIds
    BY OwnerParts DEF DmaInv, JobInv
  <2>2. QED
    BY <2>1, OwnerParts DEF Owners, Owner
<1>1. /\ r \in Mapping /\ r.buf = job.buf /\ r.dir = job.dir /\ r.addr = job.addr
      /\ r.bounce = job.bounce /\ r.vds = job.vds /\ r.frame = job.frame
  BY <1>0 DEF Record, Jobs, Mapping
<1>2. maps' = [maps EXCEPT ![m] = r] /\ UNCHANGED <<poolVars, policy, batch, mem, vdsVars>>
  OBVIOUS
<1>3. \/ job' = None
      \/ /\ job' \in Jobs /\ job'.id = m /\ job'.at \in {"validate", "revalidate"}
         /\ job'.buf = job.buf /\ job'.dir = job.dir /\ job'.pool = job.pool
         /\ job'.bounce = job.bounce /\ job'.vds = job.vds
  BY <1>0 DEF Jobs
<1>4. Live' = Live \cup {m} /\ maps'[m] = r /\ \A n \in Live : maps'[n] = maps[n]
  BY <1>0, <1>1, <1>2, ApartAssumption DEF Live, TypeOK
<1>5. /\ InHand' \subseteq {m} /\ Owners' = Owners /\ Owner(m)' = r
      /\ \A n \in Owners \ {m} : Owner(n)' = Owner(n)
  BY <1>0, <1>3, <1>4, OwnerParts DEF InHand, Owners, Owner
<1>6. TypeOK'
  <2>1. maps' \in [MapIds -> Mapping \cup {None}]
    BY <1>0, <1>1, <1>2 DEF TypeOK
  <2>2. QED
    BY <1>0, <1>2, <1>3, <1>4, <2>1 DEF TypeOK, poolVars, vdsVars
<1>7. PlacedInv'
  <2>1. Placed(Owner(m))'
    BY <1>0, <1>1, <1>2, <1>5 DEF DmaInv, PlacedInv, Placed, poolVars
  <2>2. ASSUME NEW n \in Owners \ {m} PROVE Placed(Owner(n))'
    BY <1>2, <1>5 DEF DmaInv, PlacedInv, Placed, poolVars
  <2>3. QED
    BY <1>5, <2>1, <2>2 DEF PlacedInv
<1>8. \A n \in Owners : Owner(n)'.addr = Owner(n).addr /\ Owner(n)'.buf = Owner(n).buf
  BY <1>0, <1>1, <1>5
<1>9. Apart' /\ Used' /\ LostInv'
  BY <1>2, <1>5, <1>8 DEF DmaInv, Apart, Used, LostInv, poolVars
<1>10. Counted'
  BY <1>0, <1>2 DEF Counted, Pool, poolVars
<1>11. m \notin batch
  BY <1>0 DEF TypeOK
<1>12. JobInv'
  BY <1>0, <1>1, <1>2, <1>3, <1>4, <1>11 DEF DmaInv, JobInv
<1>13. ShownInv'
  <2>1. Shown(job)
    BY <1>0 DEF DmaInv, ShownInv
  <2>2. \A n \in Live' : Shown(maps[n])'
    BY <1>1, <1>2, <1>4, <2>1 DEF DmaInv, ShownInv, Shown
  <2>3. QED
    BY <1>3, <2>2 DEF ShownInv
<1>14. LocksOwned'
  <2>1. InHand = {m}
    BY <1>0, OwnerParts
  <2>2. job' = None \/ job'.at # "finish"
    BY <1>3
  <2>3. InHand' # {} => job' # None
    BY DEF InHand
  <2>4. \A b \in Buffers : Lockers(b)' = Lockers(b)
    BY <1>0, <1>1, <1>4, <2>1, <2>2, <2>3 DEF Lockers
  <2>5. QED
    BY <2>4 DEF DmaInv, LocksOwned, vdsVars
<1>15. QED
  BY <1>6, <1>7, <1>9, <1>10, <1>12, <1>13, <1>14 DEF DmaInv

\* The mapping is stored, or its bounce buffer fails the check and is lost.
LEMMA FinishStep ==
    ASSUME DmaInv, setup_finish
    PROVE  DmaInv'
<1>1. job # None /\ job.at = "finish"
  BY DEF setup_finish
<1>2. CASE /\ maps' = [maps EXCEPT ![job.id] = Record] /\ UNCHANGED lost
           /\ job' = IF job.device = "no" THEN None
                     ELSE [job EXCEPT !.at = IF job.force = "no" THEN "validate" ELSE "revalidate"]
  <2>1. UNCHANGED <<poolVars, policy, batch, mem, vdsVars>>
    BY <1>2 DEF setup_finish, poolVars
  <2>2. QED
    BY <1>1, <1>2, <2>1, StoredStep
<1>3. CASE /\ job.bounce = "yes" /\ Abandon /\ UNCHANGED maps
           /\ lost' = lost \cup (in_use \cap {job.addr})
  <2> PICK m : m = job.id
    OBVIOUS
  <2>0. /\ TypeOK /\ Counted /\ m \notin Live /\ m \in Owners /\ Owner(m) = job
        /\ job \in Jobs /\ job.vds = "no"
    <3>1. TypeOK /\ Counted /\ job \in Jobs /\ m \notin Live /\ job.vds = "no"
      BY <1>1, <1>3, OwnerParts DEF DmaInv, JobInv
    <3>2. QED
      BY <1>1, <3>1, OwnerParts DEF Owners, Owner
  <2>1. UNCHANGED <<ready, start, in_use, free_count, policy, batch, mem, vdsVars>> /\ job' = None
    BY <1>3 DEF setup_finish, Abandon
  <2>2. /\ Live' = Live /\ InHand' = {} /\ Owners' = Owners \ {m} /\ Owners' = Live
        /\ \A n \in Owners' : Owner(n)' = Owner(n)
    BY <1>1, <1>3, <2>0, <2>1, OwnerParts DEF InHand, Owners, Owner, Live
  <2>3. TypeOK'
    BY <1>3, <2>0, <2>1, <2>2 DEF TypeOK, vdsVars
  <2>4. PlacedInv'
    BY <2>1, <2>2 DEF DmaInv, PlacedInv, Placed
  <2>5. Apart' /\ JobInv' /\ ShownInv'
    BY <1>3, <2>1, <2>2 DEF DmaInv, Apart, JobInv, ShownInv, Shown
  <2>6. Counted'
    BY <2>0, <2>1 DEF Counted, Pool
  <2>7. Used'
    <3>1. ASSUME ready, NEW t \in in_use, t \notin lost'
          PROVE  \E n \in Owners' : Owner(n)'.addr = t
      <4>1. t \notin lost /\ t # job.addr
        BY <1>3, <3>1
      <4>2. PICK n \in Owners : Owner(n).addr = t
        BY <3>1, <4>1 DEF DmaInv, Used
      <4>3. n # m
        BY <2>0, <4>1, <4>2
      <4>4. QED
        BY <2>2, <4>2, <4>3
    <3>2. ready => \A t \in in_use : t[3] = start
      BY DEF DmaInv, Used
    <3>3. QED
      BY <2>1, <3>1, <3>2 DEF Used
  <2>8. LostInv'
    <3>1. \A n \in Owners' : Owner(n).addr # job.addr
      BY <2>0, <2>2 DEF DmaInv, Apart
    <3>2. QED
      BY <1>3, <2>1, <2>2, <3>1 DEF DmaInv, LostInv
  <2>9. LocksOwned'
    <3>1. \A b \in Buffers : Lockers(b)' = Lockers(b)
      BY <1>3, <2>0, <2>2 DEF Lockers
    <3>2. QED
      BY <2>1, <3>1 DEF DmaInv, LocksOwned, vdsVars
  <2>10. QED
    BY <2>3, <2>4, <2>5, <2>6, <2>7, <2>8, <2>9 DEF DmaInv
<1>4. QED
  BY <1>2, <1>3 DEF setup_finish

\* Memory that no mapping points to may change, pool buffers that were free may
\* be lost and VDS may keep a lock.
LEMMA AsideStep ==
    ASSUME DmaInv, UNCHANGED <<ready, start, policy, maps, job, batch>>,
           mem' \in [Addresses -> Frames],
           \A n \in Owners : mem'[Owner(n).addr] = mem[Owner(n).addr],
           Counted', in_use' \in SUBSET Slots, free_count' \in [Dirs -> 0 .. TxPool + RxPool],
           NEW S, S \cap in_use = {}, \A s \in S : s[3] = start,
           in_use' = in_use \cup S, lost' = lost \cup S,
           locks' \in [Buffers -> 0 .. MaxRefused + 1], refused' \in [Buffers -> 0 .. MaxRefused],
           \A b \in Buffers : locks'[b] - refused'[b] = locks[b] - refused[b],
           ready \/ S = {}
    PROVE  DmaInv'
<1>1. Live' = Live /\ InHand' = InHand /\ Owners' = Owners /\ \A n : Owner(n)' = Owner(n)
  BY DEF Live, InHand, Owners, Owner
<1>2. TypeOK'
  BY <1>1 DEF DmaInv, TypeOK
<1>3. PlacedInv' /\ Apart' /\ Used'
  BY <1>1 DEF DmaInv, PlacedInv, Placed, Apart, Used
<1>4. LostInv'
  <2>1. ASSUME NEW n \in Owners PROVE Owner(n).addr \notin S
    <3>1. CASE Owner(n).bounce = "yes"
      BY <2>1, <3>1 DEF DmaInv, PlacedInv, Placed
    <3>2. CASE Owner(n).bounce # "yes"
      <4>1. Owner(n).addr \in Buffers
        BY <3>2, OwnerParts DEF DmaInv, PlacedInv, Placed
      <4>2. QED
        BY <4>1, ApartAssumption
    <3>3. QED
      BY <3>1, <3>2
  <2>2. QED
    BY <1>1, <2>1 DEF DmaInv, LostInv
<1>5. JobInv'
  BY <1>1 DEF DmaInv, JobInv
<1>6. LocksOwned'
  <2>1. \A b \in Buffers : Lockers(b)' = Lockers(b)
    BY <1>1 DEF Lockers
  <2>2. ASSUME NEW b \in Buffers
        PROVE  locks'[b] = refused'[b] + (IF Lockers(b)' = {} THEN 0 ELSE 1)
    <3>1. /\ locks[b] \in Int /\ refused[b] \in Int /\ locks'[b] \in Int /\ refused'[b] \in Int
          /\ locks[b] = refused[b] + (IF Lockers(b) = {} THEN 0 ELSE 1)
      BY DmaAssumption DEF DmaInv, TypeOK, LocksOwned
    <3>2. QED
      BY <2>1, <3>1
  <2>3. QED
    BY <2>2 DEF LocksOwned
<1>7. ShownInv'
  <2>1. \A n \in Live : mem'[maps[n].addr] = mem[maps[n].addr]
    BY DEF Owners, Owner
  <2>2. job # None /\ job.at \notin {"validate", "revalidate"}
           => mem'[job.addr] = mem[job.addr]
    BY OwnerParts DEF DmaInv, JobInv, Owners, Owner
  <2>3. QED
    BY <1>1, <2>1, <2>2 DEF DmaInv, ShownInv, Shown
<1>8. QED
  BY <1>2, <1>3, <1>4, <1>5, <1>6, <1>7 DEF DmaInv

\* Only memory changes.
LEMMA MemoryStep ==
    ASSUME DmaInv, UNCHANGED <<poolVars, policy, maps, job, batch, vdsVars>>,
           mem' \in [Addresses -> Frames],
           \A n \in Owners : mem'[Owner(n).addr] = mem[Owner(n).addr]
    PROVE  DmaInv'
<1>1. /\ in_use' = in_use /\ lost' = lost /\ free_count' = free_count
      /\ UNCHANGED <<ready, start, policy, maps, job, batch>>
      /\ locks' = locks /\ refused' = refused
  BY DEF poolVars, vdsVars
<1>2. Counted' /\ in_use' \in SUBSET Slots /\ free_count' \in [Dirs -> 0 .. TxPool + RxPool]
  BY <1>1 DEF DmaInv, TypeOK, Counted, Pool
<1>3. locks' \in [Buffers -> 0 .. MaxRefused + 1] /\ refused' \in [Buffers -> 0 .. MaxRefused]
  BY <1>1 DEF DmaInv, TypeOK
<1>4. \A b \in Buffers : locks'[b] - refused'[b] = locks[b] - refused[b]
  BY <1>1
<1>5. PICK S : S = {}
  OBVIOUS
<1>6. in_use' = in_use \cup S /\ lost' = lost \cup S /\ S \cap in_use = {}
  BY <1>1, <1>5
<1>7. QED
  BY <1>1, <1>2, <1>3, <1>4, <1>5, <1>6, AsideStep

\* A buffer that is not mapped is nobody's.
LEMMA UnmappedIsFree ==
    ASSUME DmaInv, NEW b \in Buffers, ~Mapped(b)
    PROVE  \A n \in Owners : Owner(n).buf # b /\ Owner(n).addr # b
<1>1. \A n \in Owners : Owner(n).buf # b
  BY DEF Mapped, Owners, InHand, Owner
<1>2. QED
  BY <1>1, SlotIsBounced

\* The client's next frame.
LEMMA WriteStep ==
    ASSUME DmaInv, client_write
    PROVE  DmaInv'
<1>0. TypeOK
  BY DEF DmaInv
<1>1. PICK b \in Buffers, f \in Frames : ~Mapped(b) /\ mem' = [mem EXCEPT ![b] = f]
  BY DEF client_write
<1>2. UNCHANGED <<poolVars, policy, maps, job, batch, vdsVars>>
  BY DEF client_write
<1>3. mem' \in [Addresses -> Frames]
  BY <1>0, <1>1 DEF TypeOK
<1>4. \A n \in Owners : mem'[Owner(n).addr] = mem[Owner(n).addr]
  BY <1>0, <1>1, UnmappedIsFree, OwnerParts DEF TypeOK
<1>5. QED
  BY <1>2, <1>3, <1>4, MemoryStep

\* A reception, mapped and unmapped in the interrupt.
LEMMA ReceiveStep ==
    ASSUME DmaInv, _3c515_receive_packet
    PROVE  DmaInv'
<1>0. TypeOK /\ LocksOwned /\ Counted /\ "rx" \in Dirs
  BY DEF DmaInv, Dirs
<1>1. PICK b \in Buffers :
         /\ ~Mapped(b)
         /\ UNCHANGED vdsVars \/ LockStays(b)
         /\ \/ UNCHANGED <<mem, in_use, free_count, lost>>
            \/ /\ Free("rx") # {} /\ mem' = [mem EXCEPT ![b] = mem[First(Free("rx"))]]
               /\ UNCHANGED <<in_use, free_count, lost>>
            \/ /\ Free("rx") # {} /\ Take("rx") /\ lost' = lost \cup {First(Free("rx"))}
               /\ UNCHANGED mem
  BY Zenon DEF _3c515_receive_packet
<1>2. UNCHANGED <<ready, start, policy, maps, job, batch>>
  BY DEF _3c515_receive_packet
<1>3. /\ locks' \in [Buffers -> 0 .. MaxRefused + 1] /\ refused' \in [Buffers -> 0 .. MaxRefused]
      /\ \A c \in Buffers : locks'[c] - refused'[c] = locks[c] - refused[c]
  <2>1. CASE UNCHANGED vdsVars
    BY <1>0, <2>1 DEF TypeOK, vdsVars
  <2>2. QED
    BY <1>0, <1>1, <2>1, LockStaysTyped
<1>4. /\ mem' \in [Addresses -> Frames]
      /\ \A n \in Owners : mem'[Owner(n).addr] = mem[Owner(n).addr]
  <2>1. CASE UNCHANGED mem
    BY <1>0, <2>1 DEF TypeOK
  <2>2. CASE Free("rx") # {} /\ mem' = [mem EXCEPT ![b] = mem[First(Free("rx"))]]
    <3>1. mem[First(Free("rx"))] \in Frames
      BY <1>0, <2>2, FirstIsFree DEF TypeOK
    <3>2. \A n \in Owners : Owner(n).addr # b /\ Owner(n).addr \in Addresses
      BY <1>0, <1>1, UnmappedIsFree, OwnerParts
    <3>3. QED
      BY <1>0, <2>2, <3>1, <3>2 DEF TypeOK
  <2>3. QED
    BY <1>1, <2>1, <2>2
<1>5. CASE UNCHANGED <<in_use, free_count, lost>>
  <2>1. Counted' /\ in_use' \in SUBSET Slots /\ free_count' \in [Dirs -> 0 .. TxPool + RxPool]
    BY <1>0, <1>2, <1>5 DEF TypeOK, Counted, Pool
  <2>2. PICK S : S = {}
    OBVIOUS
  <2>3. in_use' = in_use \cup S /\ lost' = lost \cup S /\ S \cap in_use = {}
    BY <1>5, <2>2
  <2>4. QED
    BY <1>2, <1>3, <1>4, <2>1, <2>2, <2>3, AsideStep
<1>6. CASE Free("rx") # {} /\ Take("rx") /\ lost' = lost \cup {First(Free("rx"))}
  <2>1. PICK S : S = {First(Free("rx"))}
    OBVIOUS
  <2>2. ready /\ S \cap in_use = {} /\ \A s \in S : s[3] = start
    BY <1>0, <1>6, <2>1, FirstIsFree
  <2>3. Counted' /\ in_use' \in SUBSET Slots /\ free_count' \in [Dirs -> 0 .. TxPool + RxPool]
    BY <1>0, <1>2, <1>6, TakeCounts
  <2>4. in_use' = in_use \cup S /\ lost' = lost \cup S
    BY <1>6, <2>1 DEF Take
  <2>5. QED
    BY <1>2, <1>3, <1>4, <2>2, <2>3, <2>4, AsideStep
<1>7. QED
  BY <1>1, <1>5, <1>6

\* A sender starts.
LEMMA CreateStep ==
    ASSUME DmaInv, create_mapping
    PROVE  DmaInv'
<1>0. TypeOK /\ Counted /\ job = None
  BY DEF DmaInv, create_mapping
<1>1. PICK b \in Buffers, d, p \in Dirs, m \in MapIds \ Live, force, zc, dev \in {"yes", "no"} :
         /\ ~Mapped(b) /\ (d = "tx" => p = "tx")
         /\ job' = [id |-> m, buf |-> b, dir |-> d, pool |-> p, addr |-> b, bounce |-> "no",
                    vds |-> "no", frame |-> mem[b], at |-> "check",
                    force |-> force, zerocopy |-> zc, device |-> dev]
  BY DEF create_mapping
<1>2. UNCHANGED <<poolVars, policy, maps, batch, mem, vdsVars>>
  BY DEF create_mapping
<1>3. /\ job' \in Jobs /\ job'.id = m /\ job'.buf = b /\ job'.dir = d /\ job'.addr = b
      /\ job'.bounce = "no" /\ job'.vds = "no" /\ job'.frame = mem[b] /\ job'.at = "check"
      /\ (job'.dir = "tx" => job'.pool = "tx")
  <2>1. b \in Addresses /\ mem[b] \in Frames
    BY <1>0 DEF Addresses, TypeOK
  <2>2. QED
    BY <1>1, <2>1 DEF Jobs
<1>4. job' # None
  BY <1>3, ApartAssumption
<1>5. /\ Live' = Live /\ m \notin Live /\ Owners = Live /\ Owners' = Live \cup {m}
      /\ Owner(m)' = job' /\ \A n \in Owners : Owner(n)' = Owner(n)
  <2>1. Live' = Live /\ m \notin Live
    BY <1>1, <1>2 DEF Live
  <2>2. InHand = {} /\ InHand' = {m}
    BY <1>0, <1>3, <1>4 DEF InHand
  <2>3. QED
    BY <1>2, <2>1, <2>2 DEF Owners, Owner
<1>6. TypeOK'
  BY <1>0, <1>2, <1>3, <1>5 DEF TypeOK, poolVars, vdsVars
<1>7. PlacedInv'
  <2>1. Placed(Owner(m))'
    BY <1>3, <1>5 DEF Placed
  <2>2. ASSUME NEW n \in Owners PROVE Placed(Owner(n))'
    BY <1>2, <1>5 DEF DmaInv, PlacedInv, Placed, poolVars
  <2>3. QED
    BY <1>5, <2>1, <2>2 DEF PlacedInv
<1>8. Apart'
  <2>1. Owner(m)'.addr = b /\ Owner(m)'.buf = b
    BY <1>3, <1>5
  <2>2. \A n \in Owners \ {m} : /\ Owner(n)' = Owner(n)
                                /\ Owner(n).addr # b /\ Owner(n).buf # b
    BY <1>1, <1>5, UnmappedIsFree
  <2>3. Owners' \subseteq Owners \cup {m}
    BY <1>5
  <2>4. QED
    BY <2>1, <2>2, <2>3, Moved, SMT
<1>9. Used' /\ LostInv'
  <2>1. b \notin lost
    BY <1>0, ApartAssumption DEF TypeOK
  <2>2. Used'
    BY <1>2, <1>5 DEF DmaInv, Used, poolVars
  <2>3. QED
    BY <1>2, <1>3, <1>5, <2>1, <2>2 DEF DmaInv, LostInv, poolVars
<1>10. Counted'
  BY <1>0, <1>2 DEF Counted, Pool, poolVars
<1>11. JobInv'
  BY <1>3, <1>5 DEF JobInv
<1>12. ShownInv'
  BY <1>2, <1>3, <1>5 DEF DmaInv, ShownInv, Shown
<1>13. LocksOwned'
  <2>1. InHand = {} /\ \A n \in Live : maps'[n] = maps[n]
    BY <1>0, <1>2 DEF InHand
  <2>2. \A c \in Buffers : Lockers(c)' = Lockers(c)
    BY <1>3, <1>5, <2>1 DEF Lockers
  <2>3. QED
    BY <1>2, <2>2 DEF DmaInv, LocksOwned, vdsVars
<1>14. QED
  BY <1>6, <1>7, <1>8, <1>9, <1>10, <1>11, <1>12, <1>13 DEF DmaInv

\* The card stores a frame at a receive mapping.
LEMMA StoreStep ==
    ASSUME DmaInv, device_store
    PROVE  DmaInv'
<1>0. TypeOK /\ Counted
  BY DEF DmaInv
<1>1. PICK m \in Live \ InHand, f \in Frames :
         /\ maps[m].dir = "rx" /\ mem' = [mem EXCEPT ![maps[m].addr] = f]
         /\ maps' = [maps EXCEPT ![m].frame = f]
  BY DEF device_store
<1>2. UNCHANGED <<poolVars, policy, job, batch, vdsVars>>
  BY DEF device_store
<1>3. PICK r : r = [maps[m] EXCEPT !.frame = f]
  OBVIOUS
<1>4. /\ maps[m] \in Mapping /\ r \in Mapping /\ r.buf = maps[m].buf /\ r.dir = maps[m].dir
      /\ r.addr = maps[m].addr /\ r.bounce = maps[m].bounce /\ r.vds = maps[m].vds
      /\ r.frame = f
  <2>1. maps[m] \in Mapping
    BY <1>0, OwnerParts
  <2>2. QED
    BY <1>3, <2>1 DEF Mapping
<1>5. maps' = [maps EXCEPT ![m] = r]
  BY <1>1, <1>3
<1>6. /\ maps' \in [MapIds -> Mapping \cup {None}] /\ Live' = Live /\ maps'[m] = r
      /\ \A n \in MapIds \ {m} : maps'[n] = maps[n]
  BY <1>0, <1>4, <1>5, ApartAssumption DEF TypeOK, Live
<1>7. /\ Owners' = Owners /\ InHand' = InHand /\ Owner(m) = maps[m] /\ Owner(m)' = r
      /\ \A n \in Owners \ {m} : Owner(n)' = Owner(n)
  BY <1>0, <1>2, <1>6, OwnerParts DEF Owners, Owner, InHand
<1>8. /\ mem' \in [Addresses -> Frames] /\ mem'[maps[m].addr] = f
      /\ \A n \in Owners \ {m} : mem'[Owner(n).addr] = mem[Owner(n).addr]
  <2>1. maps[m].addr \in Addresses
    BY <1>4 DEF Mapping
  <2>2. \A n \in Owners \ {m} : Owner(n).addr # maps[m].addr /\ Owner(n).addr \in Addresses
    BY <1>0, <1>7, OwnerParts DEF DmaInv, Apart, Owners
  <2>3. QED
    BY <1>0, <1>1, <2>1, <2>2 DEF TypeOK
<1>9. TypeOK'
  BY <1>0, <1>2, <1>6, <1>8 DEF TypeOK, poolVars, vdsVars
<1>10. PlacedInv'
  <2>1. Placed(Owner(m))'
    <3>1. Placed(maps[m])
      BY <1>7 DEF DmaInv, PlacedInv, Owners
    <3>2. QED
      BY <1>2, <1>4, <1>7, <3>1 DEF Placed, poolVars
  <2>2. ASSUME NEW n \in Owners \ {m} PROVE Placed(Owner(n))'
    BY <1>2, <1>7 DEF DmaInv, PlacedInv, Placed, poolVars
  <2>3. QED
    BY <1>7, <2>1, <2>2 DEF PlacedInv
<1>11. \A n \in Owners : Owner(n)'.addr = Owner(n).addr /\ Owner(n)'.buf = Owner(n).buf
  BY <1>4, <1>7
<1>12. Apart' /\ Used' /\ LostInv'
  BY <1>2, <1>7, <1>11 DEF DmaInv, Apart, Used, LostInv, poolVars
<1>13. Counted'
  BY <1>0, <1>2 DEF Counted, Pool, poolVars
<1>14. JobInv'
  BY <1>0, <1>1, <1>2, <1>6, OwnerParts DEF DmaInv, JobInv, Live
<1>15. ShownInv'
  <2>1. Shown(maps[m])'
    BY <1>4, <1>6, <1>8 DEF Shown
  <2>2. \A n \in Live \ {m} : Shown(maps[n])'
    <3>1. \A n \in Live \ {m} : mem'[maps[n].addr] = mem[maps[n].addr] /\ maps'[n] = maps[n]
      BY <1>6, <1>8 DEF Owners, Owner, Live
    <3>2. QED
      BY <3>1 DEF DmaInv, ShownInv, Shown
  <2>3. job # None /\ job.at \notin {"validate", "revalidate"}
           => mem'[job.addr] = mem[job.addr]
    BY <1>0, <1>1, <1>8, OwnerParts DEF DmaInv, JobInv, Owners, Owner
  <2>4. QED
    BY <1>2, <1>6, <2>1, <2>2, <2>3 DEF DmaInv, ShownInv, Shown
<1>16. LocksOwned'
  <2>1. \A n \in Live : maps'[n].vds = maps[n].vds /\ maps'[n].buf = maps[n].buf
    BY <1>4, <1>6 DEF Live
  <2>2. \A b \in Buffers : Lockers(b)' = Lockers(b)
    BY <1>2, <1>6, <1>7, <2>1 DEF Lockers
  <2>3. QED
    BY <1>2, <2>2 DEF DmaInv, LocksOwned, vdsVars
<1>17. QED
  BY <1>9, <1>10, <1>12, <1>13, <1>14, <1>15, <1>16 DEF DmaInv

\* The pools are filled with new buffers; mappings that outlived the last
\* shutdown point to old ones.
LEMMA StartStep ==
    ASSUME DmaInv, dma_mapping_init
    PROVE  DmaInv'
<1>0. TypeOK /\ ~ready /\ start < Starts /\ UNCHANGED <<policy, maps, job, batch, mem, vdsVars>>
  BY DEF DmaInv, dma_mapping_init
<1>1. CASE UNCHANGED poolVars
  BY <1>0, <1>1, MemoryStep DEF TypeOK
<1>2. CASE ready' = TRUE /\ start' = start + 1 /\ in_use' = {} /\ free_count' = PoolSize
           /\ lost' = {}
  <2>1. Live' = Live /\ InHand' = InHand /\ Owners' = Owners /\ \A n : Owner(n)' = Owner(n)
    BY <1>0 DEF Live, InHand, Owners, Owner
  <2>2. start \in Nat /\ start' \in 1 .. Starts
    BY <1>0, <1>2, DmaAssumption DEF TypeOK
  <2>3. TypeOK'
    <3>1. PoolSize \in [Dirs -> 0 .. TxPool + RxPool]
      BY SlotParts DEF PoolSize
    <3>2. ready' \in BOOLEAN /\ policy' \in BOOLEAN
      BY <1>0, <1>2, Zenon DEF TypeOK
    <3>3. QED
      BY <1>0, <1>2, <2>1, <2>2, <3>1, <3>2 DEF TypeOK, vdsVars
  <2>4. PlacedInv'
    <3>1. ASSUME NEW n \in Owners PROVE Placed(Owner(n))'
      <4>1. Placed(Owner(n))
        BY DEF DmaInv, PlacedInv
      <4>2. Owner(n).bounce = "yes" => Owner(n).addr[3] < start'
        BY <1>2, <2>2, <4>1, SlotParts DEF Placed
      <4>3. QED
        BY <1>2, <2>1, <2>2, <4>1, <4>2, SlotParts DEF Placed
    <3>2. QED
      BY <2>1, <3>1 DEF PlacedInv
  <2>5. Apart' /\ Used' /\ LostInv' /\ JobInv' /\ LocksOwned' /\ ShownInv'
    BY <1>0, <1>2, <2>1 DEF DmaInv, Apart, Used, LostInv, JobInv, LocksOwned, Lockers, vdsVars,
          ShownInv, Shown
  <2>6. Counted'
    <3>1. ASSUME NEW d \in Dirs PROVE PoolSize[d] = PoolSize[d] - Cardinality(Pool(d)' \cap in_use')
      <4>1. Pool(d)' \cap in_use' = {}
        BY <1>2
      <4>2. Cardinality({}) = 0
        BY FS_EmptySet
      <4>3. Cardinality(Pool(d)' \cap in_use') = 0
        BY <4>1, <4>2, Zenon
      <4>4. PoolSize[d] \in Int
        BY SlotParts, DmaAssumption
      <4>5. QED
        BY <4>3, <4>4
    <3>2. QED
      BY <1>2, <2>2, <3>1 DEF Counted
  <2>7. QED
    BY <2>3, <2>4, <2>5, <2>6 DEF DmaInv
<1>3. QED
  BY <1>1, <1>2 DEF dma_mapping_init

\* The tables of the pools go, mappings may stay.
LEMMA ShutdownStep ==
    ASSUME DmaInv, dma_mapping_shutdown
    PROVE  DmaInv'
<1>0. /\ TypeOK /\ ready' = FALSE /\ in_use' = {} /\ free_count' = [d \in Dirs |-> 0]
      /\ lost' = {} /\ UNCHANGED <<start, policy, maps, job, batch, mem, vdsVars>>
  BY DEF DmaInv, dma_mapping_shutdown
<1>1. Live' = Live /\ InHand' = InHand /\ Owners' = Owners /\ \A n : Owner(n)' = Owner(n)
  BY <1>0 DEF Live, InHand, Owners, Owner
<1>2. TypeOK'
  <2>1. ready' \in BOOLEAN /\ policy' \in BOOLEAN
    BY <1>0, Zenon DEF TypeOK
  <2>2. free_count' \in [Dirs -> 0 .. TxPool + RxPool]
    BY <1>0, DmaAssumption
  <2>3. QED
    BY <1>0, <1>1, <2>1, <2>2 DEF TypeOK, vdsVars
<1>3. PlacedInv' /\ Apart' /\ Used' /\ LostInv' /\ Counted'
  BY <1>0, <1>1 DEF DmaInv, PlacedInv, Placed, Apart, Used, LostInv, Counted
<1>4. JobInv' /\ LocksOwned' /\ ShownInv'
  BY <1>0, <1>1 DEF DmaInv, JobInv, LocksOwned, Lockers, vdsVars, ShownInv, Shown
<1>5. QED
  BY <1>2, <1>3, <1>4 DEF DmaInv

\* A batch takes a mapping that no sender has in its hands.
LEMMA BatchStep ==
    ASSUME DmaInv, dma_batch_add_mapping
    PROVE  DmaInv'
<1>0. TypeOK /\ UNCHANGED <<poolVars, policy, maps, job, mem, vdsVars>>
  BY DEF DmaInv, dma_batch_add_mapping
<1>1. PICK m \in Live \ (batch \cup InHand) : batch' = batch \cup {m}
  BY DEF dma_batch_add_mapping
<1>2. Live' = Live /\ InHand' = InHand /\ Owners' = Owners /\ \A n : Owner(n)' = Owner(n)
  BY <1>0 DEF Live, InHand, Owners, Owner
<1>3. TypeOK'
  BY <1>0, <1>1, <1>2 DEF TypeOK, poolVars, vdsVars
<1>4. PlacedInv' /\ Apart' /\ Used' /\ LostInv' /\ Counted'
  BY <1>0, <1>2 DEF DmaInv, PlacedInv, Placed, Apart, Used, LostInv, Counted, Pool, poolVars
<1>5. JobInv'
  BY <1>0, <1>1, <1>2, OwnerParts DEF DmaInv, JobInv
<1>6. LocksOwned' /\ ShownInv'
  BY <1>0, <1>2 DEF DmaInv, LocksOwned, Lockers, vdsVars, ShownInv, Shown
<1>7. QED
  BY <1>3, <1>4, <1>5, <1>6 DEF DmaInv

\* The device's constraints are met: the sender lets the mapping go.
LEMMA AcceptStep ==
    ASSUME DmaInv, job # None, job.at \in {"validate", "revalidate"}, job' = None,
           UNCHANGED <<poolVars, policy, maps, batch, mem, vdsVars>>
    PROVE  DmaInv'
<1>0. TypeOK /\ job.id \in Live
  BY DEF DmaInv, JobInv
<1>1. /\ Live' = Live /\ InHand' = {} /\ Owners' = Owners /\ Owners = Live
      /\ \A n \in Owners : Owner(n)' = Owner(n)
  BY <1>0, OwnerParts DEF Live, InHand, Owners, Owner
<1>2. TypeOK'
  BY <1>0, <1>1 DEF TypeOK, poolVars, vdsVars
<1>3. PlacedInv' /\ Apart' /\ Used' /\ LostInv' /\ Counted'
  BY <1>1 DEF DmaInv, PlacedInv, Placed, Apart, Used, LostInv, Counted, Pool, poolVars
<1>4. JobInv' /\ ShownInv'
  BY <1>1 DEF DmaInv, JobInv, ShownInv, Shown
<1>6. LocksOwned'
  <2>1. \A b \in Buffers : Lockers(b)' = Lockers(b)
    BY <1>1 DEF Lockers
  <2>2. QED
    BY <2>1 DEF DmaInv, LocksOwned, vdsVars
<1>5. QED
  BY <1>2, <1>3, <1>4, <1>6 DEF DmaInv

\* The device is asked, once and a second time.
LEMMA ValidateStep ==
    ASSUME DmaInv, device_validate \/ device_revalidate
    PROVE  DmaInv'
<1>0. /\ job # None /\ job.at \in {"validate", "revalidate"}
      /\ UNCHANGED <<ready, start, policy, batch>>
  BY DEF device_validate, device_revalidate
<1>1. CASE job' = None /\ UNCHANGED <<in_use, free_count, lost, maps, mem, vdsVars>>
  BY <1>0, <1>1, AcceptStep DEF poolVars
<1>2. CASE dma_unmap_buffer(job.id) /\ job' = None
  BY <1>0, <1>2, UnmapGivesUp
<1>3. CASE /\ job.at = "validate" /\ dma_unmap_buffer(job.id)
           /\ job' = [job EXCEPT !.at = "check", !.force = "again", !.addr = job.buf,
                                 !.bounce = "no", !.vds = "no", !.frame = mem[job.buf]]
  BY <1>0, <1>3, UnmapAgain, Zenon
<1>4. QED
  BY <1>1, <1>2, <1>3, Zenon DEF device_validate, device_revalidate, GiveUp

-----------------------------------------------------------------------------
(* The theorems.                                                           *)

\* No mapping, no buffer in use: the state the driver starts in.
LEMMA DmaInit == Init => DmaInv
<1> SUFFICES ASSUME Init PROVE DmaInv
  OBVIOUS
<1>1. Live = {} /\ InHand = {} /\ Owners = {} /\ job = None
  BY DEF Init, Live, InHand, Owners
<1>2. TypeOK
  <2>1. ready \in BOOLEAN /\ policy \in BOOLEAN
    BY Zenon DEF Init
  <2>2. free_count \in [Dirs -> 0 .. TxPool + RxPool] /\ start \in 0 .. Starts
    BY DmaAssumption DEF Init
  <2>3. mem \in [Addresses -> Frames]
    BY DmaAssumption DEF Init
  <2>4. QED
    BY <1>1, <2>1, <2>2, <2>3, DmaAssumption DEF Init, TypeOK
<1>3. PlacedInv /\ Apart /\ Used /\ LostInv /\ Counted /\ JobInv /\ ShownInv
  BY <1>1 DEF Init, PlacedInv, Apart, Used, LostInv, Counted, JobInv, ShownInv
<1>5. LocksOwned
  BY <1>1 DEF Init, LocksOwned, Lockers
<1>4. QED
  BY <1>2, <1>3, <1>5 DEF DmaInv

\* Every step of the layer keeps the invariant.
LEMMA DmaNext == DmaInv /\ [Next]_vars => DmaInv'
<1> SUFFICES ASSUME DmaInv, [Next]_vars PROVE DmaInv'
  OBVIOUS
<1>1. CASE dma_mapping_init \/ dma_mapping_shutdown
  BY <1>1, StartStep, ShutdownStep
<1>2. CASE create_mapping \/ setup_check \/ setup_lock \/ setup_fallback \/ setup_finish
  BY <1>2, CreateStep, CheckStep, LockStep, FallbackStep, FinishStep
<1>3. CASE device_validate \/ device_revalidate
  BY <1>3, ValidateStep
<1>4. CASE unmap
  <2>1. PICK m \in Live \ (batch \cup InHand) : dma_unmap_buffer(m)
    BY <1>4 DEF unmap
  <2>2. UNCHANGED <<ready, start, policy, job>> /\ batch' \subseteq batch \ {m}
    BY <1>4 DEF unmap
  <2>3. QED
    BY <2>1, <2>2, UnmapOther
<1>5. CASE dma_unmap_batch
  <2>1. PICK m \in batch : dma_unmap_buffer(m) /\ batch' = batch \ {m}
    BY <1>5 DEF dma_unmap_batch
  <2>2. m \in Live \ InHand
    <3>1. m \in Live
      BY DEF DmaInv, TypeOK
    <3>2. m \notin InHand
      BY <3>1, OwnerParts DEF DmaInv, JobInv
    <3>3. QED
      BY <3>1, <3>2
  <2>3. UNCHANGED <<ready, start, policy, job>> /\ batch' \subseteq batch \ {m}
    BY <1>5, <2>1 DEF dma_unmap_batch
  <2>4. QED
    BY <2>1, <2>2, <2>3, UnmapOther
<1>6. CASE dma_batch_add_mapping \/ device_store
  BY <1>6, BatchStep, StoreStep
<1>7. CASE client_write \/ _3c515_receive_packet
  BY <1>7, WriteStep, ReceiveStep
<1>8. CASE UNCHANGED vars
  BY <1>8, MemoryStep DEF vars, DmaInv, TypeOK
<1>9. QED
  BY <1>1, <1>2, <1>3, <1>4, <1>5, <1>6, <1>7, <1>8 DEF Next

\* The invariant of the layer.
THEOREM DmaInvariant == Spec => []DmaInv
<1>1. QED
  BY DmaInit, DmaNext, PTL DEF Spec

\* A pool buffer in use has one holder and a free one none.
LEMMA InvImpliesResources == DmaInv => ResourceInv
<1> SUFFICES ASSUME DmaInv PROVE ResourceInv
  OBVIOUS
<1>0. TypeOK /\ LocksOwned /\ Counted
  BY DEF DmaInv
<1>1. ASSUME ready, NEW d \in Dirs, NEW s \in Pool(d)
      PROVE  Cardinality(Holders(s)) = (IF s \in in_use \ lost THEN 1 ELSE 0)
  <2>1. s \in Slots /\ s[3] = start
    BY DEF Pool
  <2>2. Holders(s) = {m \in Owners : Owner(m).addr = s}
    <3>1. ASSUME NEW m \in Holders(s) PROVE m \in Owners /\ Owner(m).addr = s
      <4>1. CASE m \in Live /\ maps[m].addr = s
        BY <4>1 DEF Owners, Owner
      <4>2. CASE m \in InHand /\ job.addr = s /\ job.at = "finish"
        <5>1. m \notin Live
          BY <1>0, <4>2, OwnerParts DEF DmaInv, JobInv
        <5>2. QED
          BY <4>2, <5>1 DEF Owners, Owner
      <4>3. QED
        BY <3>1, <4>1, <4>2 DEF Holders
    <3>2. ASSUME NEW m \in Owners, Owner(m).addr = s PROVE m \in Holders(s)
      <4>1. CASE m \in Live
        BY <3>2, <4>1 DEF Owner, Holders
      <4>2. CASE m \notin Live
        <5>1. m \in InHand /\ Owner(m) = job /\ job # None /\ m = job.id
          BY <1>0, <4>2, OwnerParts DEF Owners, Owner
        <5>2. job.bounce = "yes"
          BY <2>1, <3>2, <5>1, SlotIsBounced
        <5>3. job.at = "finish"
          BY <1>0, <4>2, <5>1, <5>2, OwnerParts DEF DmaInv, JobInv, Jobs
        <5>4. QED
          BY <3>2, <5>1, <5>3 DEF Holders
      <4>3. QED
        BY <4>1, <4>2
    <3>3. QED
      BY <3>1, <3>2
  <2>3. CASE s \in in_use \ lost
    <3>1. PICK m \in Owners : Owner(m).addr = s
      BY <1>1, <2>3 DEF DmaInv, Used
    <3>2. Holders(s) = {m}
      BY <2>2, <3>1 DEF DmaInv, Apart
    <3>3. QED
      BY <2>3, <3>2, FS_Singleton
  <2>4. CASE s \notin in_use \ lost
    <3>1. \A m \in Owners : Owner(m).addr # s
      BY <1>1, <2>1, <2>4, SlotIsBounced DEF DmaInv, PlacedInv, Placed, LostInv
    <3>2. Holders(s) = {}
      BY <2>2, <3>1
    <3>3. QED
      BY <2>4, <3>2, FS_EmptySet
  <2>5. QED
    BY <2>3, <2>4
<1>2. QED
  BY <1>0, <1>1 DEF ResourceInv, BounceConserved, Counted, DmaInv, LostInv

\* Whatever the number of mappings and the size of the pools, dmamap.c hands no
\* bounce buffer out twice and returns it once, unless the mapping failed at the
\* second check or was a receive mapping with DMA_MAP_READ; and a VDS lock that
\* no mapping will give up is one that VDS refused to give up.
THEOREM ResourcesReturned == Spec => []ResourceInv
<1>1. QED
  BY DmaInvariant, InvImpliesResources, PTL

\* The card sees the frame that was mapped: no path of setup_dma_mapping
\* leaves out the copy, and no bounce buffer is overwritten by another frame.
THEOREM FrameIsSeen == Spec => []DeviceSeesFrame
<1>1. DmaInv => DeviceSeesFrame
  BY DEF DmaInv, ShownInv, Shown, DeviceSeesFrame
<1>2. QED
  BY <1>1, DmaInvariant, PTL

\* A mapping that goes, on whichever path, leaves the frame the card stored in
\* the client's buffer.
THEOREM ReceivedIsKept == Spec => ReceivedOnUnmap
<1>1. ASSUME DmaInv, Next, NEW m \in Live, maps[m].dir = "rx", maps'[m] = None,
             mem[maps[m].addr] = maps[m].frame
      PROVE  mem'[maps[m].buf] = maps[m].frame
  <2>0. /\ TypeOK /\ maps[m] \in Mapping /\ maps[m] # None /\ m \in MapIds /\ Placed(maps[m])
    BY <1>1, OwnerParts DEF DmaInv, Live, PlacedInv, Owners, Owner
  <2>1. PICK k : k \in Live /\ dma_unmap_buffer(k)
    <3>1. maps' # maps
      BY <1>1, <2>0
    <3>2. CASE unmap
      BY <3>2 DEF unmap
    <3>3. CASE dma_unmap_batch
      BY <1>1, <3>3 DEF dma_unmap_batch, DmaInv, TypeOK
    <3>4. CASE device_validate \/ device_revalidate
      BY <1>1, <3>1, <3>4, Zenon DEF device_validate, device_revalidate, GiveUp, DmaInv, JobInv
    <3>5. CASE setup_finish
      <4>1. Record \in Mapping
        BY <1>1, <2>0, <3>5, OwnerParts DEF Record, Mapping, Jobs, setup_finish
      <4>2. maps'[m] \in Mapping
        BY <2>0, <3>5, <4>1 DEF setup_finish, TypeOK
      <4>3. QED
        BY <1>1, <4>2, ApartAssumption
    <3>6. CASE device_store
      <4>1. PICK j \in Live, f \in Frames : maps' = [maps EXCEPT ![j].frame = f]
        BY <3>6 DEF device_store
      <4>2. maps[j] \in Mapping /\ [maps[j] EXCEPT !.frame = f] \in Mapping
        BY <2>0, OwnerParts DEF Mapping
      <4>3. maps'[m] \in Mapping
        BY <2>0, <4>1, <4>2 DEF TypeOK
      <4>4. QED
        BY <1>1, <4>3, ApartAssumption
    <3>7. CASE \/ dma_mapping_init \/ dma_mapping_shutdown \/ create_mapping \/ setup_check
               \/ setup_lock \/ setup_fallback \/ dma_batch_add_mapping \/ client_write
               \/ _3c515_receive_packet
      BY <3>1, <3>7 DEF dma_mapping_init, dma_mapping_shutdown, create_mapping, setup_check,
            setup_lock, setup_fallback, dma_batch_add_mapping, client_write,
            _3c515_receive_packet
    <3>8. QED
      BY <1>1, <3>2, <3>3, <3>4, <3>5, <3>6, <3>7 DEF Next
  <2>2. k = m
    BY <1>1, <2>0, <2>1 DEF dma_unmap_buffer, TypeOK
  <2>3. mem' = CopiedBack(maps[m])
    BY <2>1, <2>2 DEF dma_unmap_buffer
  <2>4. maps[m].buf \in Addresses /\ maps[m].bounce \in {"yes", "no"}
    BY <2>0 DEF Mapping, Addresses
  <2>5. QED
    BY <1>1, <2>0, <2>3, <2>4 DEF CopiedBack, Placed, TypeOK
<1>2. DmaInv /\ [Next]_vars =>
        [\A m \in Live :
            maps[m].dir = "rx" /\ maps'[m] = None /\ mem[maps[m].addr] = maps[m].frame
            => mem'[maps[m].buf] = maps[m].frame]_vars
  BY <1>1
<1>3. QED
  BY <1>2, DmaInvariant, PTL DEF Spec, ReceivedOnUnmap
=============================================================================
