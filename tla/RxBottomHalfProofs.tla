------------------------- MODULE RxBottomHalfProofs -------------------------
(***************************************************************************)
(* What holds of deferred reception for any number of staging and XMS      *)
(* buffers, any length of the queue, any depth of nested upcalls and any   *)
(* number of packets; and that it implements the first-in first-out queue  *)
(* of RxFifo.                                                              *)
(***************************************************************************)
EXTENDS RxBottomHalf, FiniteSetTheorems, SequenceTheorems, WellFoundedInduction,
        TLAPS

\* Between start and cleanup.
Running == active /\ stage = "none"

\* Cleanup begins when no activation is left, and none begins before the next
\* start.
StoppedInv == /\ ~Running => frames = <<>>
              /\ stage # "none" => active

\* The staging memory is there as long as packets are processed.
LiveInv == Running => staging = "live"

\* What waits in the queue can be drained, and processed until cleanup begins.
QueueInv ==
    /\ active /\ stage \in {"none", "drain"} => QueuedBufs \in Seq(Bufs)
    /\ Running => \A k \in 1 .. Length : data[QueuedBufs[k]] \in Packets

(***************************************************************************)
(* The stack of activations: all but the innermost are inside an upcall,   *)
(* and a staging buffer that is held still has its packet.                 *)
(***************************************************************************)
FrameOK(f) ==
    /\ f.at = "loop" => f.buf = None
    /\ f.at = "have" => f.buf # None
    /\ f.at # "upcall" => f.xms = None
    /\ f.buf # None => f.pkt \in Packets /\ data[f.buf] = f.pkt

FramesInv ==
    \A k \in 1 .. Len(frames) : /\ FrameOK(frames[k])
                                /\ k < Len(frames) => frames[k].at = "upcall"

(***************************************************************************)
(* The three places of a staging buffer, for a freelist f, a queue q and   *)
(* the buffers g held by the activations: none occurs twice, and each one  *)
(* occurs.                                                                 *)
(***************************************************************************)
Once(s) == \A j, k \in 1 .. Len(s) : s[j] # None /\ s[j] = s[k] => j = k
Apart(s, t) == \A j \in 1 .. Len(s), k \in 1 .. Len(t) : s[j] # None => s[j] # t[k]
Occurs(b, s) == \E k \in 1 .. Len(s) : s[k] = b

Placed(f, q, g) ==
    /\ Once(f) /\ Once(q) /\ Once(g)
    /\ Apart(f, q) /\ Apart(f, g) /\ Apart(q, g)
    /\ \A b \in Bufs : Occurs(b, f) \/ Occurs(b, q) \/ Occurs(b, g)

HeldBufs == [k \in 1 .. Len(frames) |-> frames[k].buf]

\* Without XmsConserved, which a pool as wide as its bit map may break.
RxInv == /\ TypeOK /\ StoppedInv /\ LiveInv /\ QueueInv /\ FramesInv
         /\ Running => Placed(freelist, QueuedBufs, HeldBufs)

-----------------------------------------------------------------------------
(* The queue as a sequence.                                                *)

\* The number of cells from h to t, and the k-th of them.
Span(h, t) == (t + QueueSize - h) % QueueSize
Cell(h, k) == (h + k - 1) % QueueSize

\* An index of the queue stays within it.
LEMMA AdvanceFacts ==
    ASSUME NEW i \in Index
    PROVE  Advance(i) \in Index /\ Advance(i) = (IF i + 1 < QueueSize THEN i + 1 ELSE 0)
<1>1. QueueSize \in Nat \ {0} /\ i \in Nat /\ i < QueueSize
  BY RxAssumption DEF Index
<1>2. CASE i + 1 < QueueSize
  BY <1>1, <1>2 DEF Advance, Index
<1>3. CASE i + 1 = QueueSize
  <2>1. (i + 1) % QueueSize = 0
    BY <1>1, <1>3
  <2>2. QED
    BY <1>1, <1>3, <2>1 DEF Advance, Index
<1>4. QED
  BY <1>1, <1>2, <1>3

\* The queue is empty exactly when the indices meet, and never full.
LEMMA SpanFacts ==
    ASSUME NEW h \in Index, NEW t \in Index
    PROVE  /\ Span(h, t) = (IF h <= t THEN t - h ELSE t + QueueSize - h)
           /\ Span(h, t) \in Nat /\ Span(h, t) < QueueSize
           /\ Span(h, t) = 0 <=> h = t
<1>1. /\ QueueSize \in Nat \ {0} /\ h \in Nat /\ t \in Nat
      /\ h < QueueSize /\ t < QueueSize
  BY RxAssumption DEF Index
<1>2. CASE h <= t
  <2>1. PICK d \in Nat : d = t - h
    BY <1>1, <1>2
  <2>2. t + QueueSize - h = QueueSize + d /\ d < QueueSize
    BY <1>1, <2>1
  <2>3. (QueueSize + d) % QueueSize = d
    BY <1>1, <2>1, <2>2
  <2>4. QED
    BY <1>1, <1>2, <2>1, <2>2, <2>3 DEF Span
<1>3. CASE h > t
  <2>1. PICK d \in Nat : d = t + QueueSize - h
    BY <1>1
  <2>2. d < QueueSize
    BY <1>1, <1>3, <2>1
  <2>3. d % QueueSize = d
    BY <1>1, <2>1, <2>2
  <2>4. QED
    BY <1>1, <1>3, <2>1, <2>2, <2>3 DEF Span
<1>4. QED
  BY <1>1, <1>2, <1>3

\* Where the k-th cell lies.
LEMMA CellFacts ==
    ASSUME NEW h \in Index, NEW k \in 1 .. QueueSize
    PROVE  /\ Cell(h, k) = (IF h + k - 1 < QueueSize THEN h + k - 1 ELSE h + k - 1 - QueueSize)
           /\ Cell(h, k) \in Index
<1>1. /\ QueueSize \in Nat \ {0} /\ h \in Nat /\ h < QueueSize /\ k \in Nat
      /\ 1 <= k /\ k <= QueueSize
  BY RxAssumption DEF Index
<1>2. PICK c \in Nat : c = h + k - 1
  BY <1>1
<1>3. Cell(h, k) = c % QueueSize
  BY <1>2 DEF Cell
<1>4. CASE c < QueueSize
  <2>1. c % QueueSize = c
    BY <1>1, <1>4
  <2>2. QED
    BY <1>1, <1>2, <1>3, <1>4, <2>1 DEF Index
<1>5. CASE c >= QueueSize
  <2>1. PICK d \in Nat : d = c - QueueSize
    BY <1>1, <1>5
  <2>2. c = QueueSize + d /\ d < QueueSize
    BY <1>1, <1>2, <2>1
  <2>3. (QueueSize + d) % QueueSize = d
    BY <1>1, <2>1, <2>2
  <2>4. QED
    BY <1>1, <1>2, <1>3, <1>5, <2>1, <2>2, <2>3 DEF Index
<1>6. QED
  BY <1>1, <1>4, <1>5

\* Advancing the tail adds the cell it was at, behind the others.
LEMMA TailAdvances ==
    ASSUME NEW h \in Index, NEW t \in Index, Advance(t) # h
    PROVE  /\ Span(h, Advance(t)) = Span(h, t) + 1
           /\ Cell(h, Span(h, t) + 1) = t
           /\ \A k \in 1 .. Span(h, t) : Cell(h, k) # t /\ Cell(h, k) \in Index
<1>1. /\ QueueSize \in Nat \ {0} /\ h \in Nat /\ t \in Nat
      /\ h < QueueSize /\ t < QueueSize
  BY RxAssumption DEF Index
<1>2. Advance(t) \in Index /\ Advance(t) = (IF t + 1 < QueueSize THEN t + 1 ELSE 0)
  BY AdvanceFacts
<1>3. /\ Span(h, t) = (IF h <= t THEN t - h ELSE t + QueueSize - h)
      /\ Span(h, t) \in Nat /\ Span(h, t) < QueueSize
  BY SpanFacts
<1>4. Span(h, Advance(t)) =
        (IF h <= Advance(t) THEN Advance(t) - h ELSE Advance(t) + QueueSize - h)
  BY <1>2, SpanFacts
<1>5. Span(h, Advance(t)) = Span(h, t) + 1
  BY <1>1, <1>2, <1>3, <1>4
<1>6. Span(h, t) + 1 \in 1 .. QueueSize
  BY <1>1, <1>3
<1>7. Cell(h, Span(h, t) + 1) = t
  BY <1>1, <1>3, <1>6, CellFacts
<1>8. ASSUME NEW k \in 1 .. Span(h, t)
      PROVE  Cell(h, k) # t /\ Cell(h, k) \in Index
  <2>1. k \in 1 .. QueueSize
    BY <1>1, <1>3
  <2>2. /\ Cell(h, k) = (IF h + k - 1 < QueueSize THEN h + k - 1 ELSE h + k - 1 - QueueSize)
        /\ Cell(h, k) \in Index
    BY <2>1, CellFacts
  <2>3. QED
    BY <1>1, <1>3, <2>1, <2>2
<1>9. QED
  BY <1>5, <1>7, <1>8

\* Advancing the head takes the first cell away.
LEMMA HeadAdvances ==
    ASSUME NEW h \in Index, NEW t \in Index, h # t
    PROVE  /\ Span(h, t) = Span(Advance(h), t) + 1
           /\ Cell(h, 1) = h
           /\ \A k \in 1 .. Span(Advance(h), t) : Cell(Advance(h), k) = Cell(h, k + 1)
<1>1. /\ QueueSize \in Nat \ {0} /\ h \in Nat /\ t \in Nat
      /\ h < QueueSize /\ t < QueueSize
  BY RxAssumption DEF Index
<1>2. Advance(h) \in Index /\ Advance(h) = (IF h + 1 < QueueSize THEN h + 1 ELSE 0)
  BY AdvanceFacts
<1>3. /\ Span(h, t) = (IF h <= t THEN t - h ELSE t + QueueSize - h)
      /\ Span(h, t) \in Nat /\ Span(h, t) < QueueSize
  BY SpanFacts
<1>4. /\ Span(Advance(h), t) =
           (IF Advance(h) <= t THEN t - Advance(h) ELSE t + QueueSize - Advance(h))
      /\ Span(Advance(h), t) \in Nat
  BY <1>2, SpanFacts
<1>5. Span(h, t) = Span(Advance(h), t) + 1
  BY <1>1, <1>2, <1>3, <1>4
<1>6. 1 \in 1 .. QueueSize
  BY <1>1
<1>7. Cell(h, 1) = h
  BY <1>1, <1>6, CellFacts
<1>8. ASSUME NEW k \in 1 .. Span(Advance(h), t)
      PROVE  Cell(Advance(h), k) = Cell(h, k + 1)
  <2>1. k \in 1 .. QueueSize /\ k + 1 \in 1 .. QueueSize
    BY <1>1, <1>3, <1>4, <1>5
  <2>2. Cell(Advance(h), k) = (IF Advance(h) + k - 1 < QueueSize THEN Advance(h) + k - 1
                               ELSE Advance(h) + k - 1 - QueueSize)
    BY <1>2, <2>1, CellFacts
  <2>3. PICK j \in 1 .. QueueSize : j = k + 1
    BY <2>1
  <2>4. Cell(h, j) = (IF h + j - 1 < QueueSize THEN h + j - 1 ELSE h + j - 1 - QueueSize)
    BY CellFacts
  <2>5. QED
    BY <1>1, <1>2, <1>4, <2>1, <2>2, <2>3, <2>4
<1>9. QED
  BY <1>5, <1>7, <1>8

-----------------------------------------------------------------------------
(* The places of the staging buffers.                                      *)

\* None is no staging buffer.
LEMMA NotNone ==
    ASSUME NEW s \in Seq(Bufs)
    PROVE  \A k \in 1 .. Len(s) : s[k] \in Bufs /\ s[k] # None
<1>1. None \notin Bufs
  BY DEF Bufs, None
<1>2. QED
  BY <1>1

\* Taking the first free buffer and queueing it moves it.
LEMMA PlacedTake ==
    ASSUME NEW f \in Seq(Bufs), NEW q \in Seq(Bufs), NEW g \in Seq(Bufs \cup {None}),
           Placed(f, q, g), f # <<>>
    PROVE  Placed(Tail(f), Append(q, Head(f)), g)
<1>10. PICK t : t = Tail(f)
  OBVIOUS
<1>11. PICK u : u = Append(q, Head(f))
  OBVIOUS
<1>0. t \in Seq(Bufs) /\ u \in Seq(Bufs)
  BY <1>10, <1>11, HeadTailProperties
<1>1. /\ Len(t) = Len(f) - 1 /\ Len(f) \in Nat /\ Len(f) > 0
      /\ \A k \in 1 .. Len(t) : t[k] = f[k + 1]
      /\ \A k \in 1 .. Len(t) : k + 1 \in 1 .. Len(f) /\ k + 1 # 1
      /\ 1 \in 1 .. Len(f)
  BY <1>10
<1>2. /\ Len(u) = Len(q) + 1 /\ Len(q) \in Nat
      /\ \A k \in 1 .. Len(q) : u[k] = q[k] /\ k \in 1 .. Len(u)
      /\ u[Len(u)] = f[1] /\ Len(u) \in 1 .. Len(u)
      /\ \A k \in 1 .. Len(u) : k \in 1 .. Len(q) \/ k = Len(u)
  BY <1>11
<1>3. \A k \in 1 .. Len(f) : f[k] # None /\ (k = 1 \/ \E j \in 1 .. Len(t) : t[j] = f[k])
  <2>1. \A k \in 1 .. Len(f) : k = 1 \/ (k - 1 \in 1 .. Len(t) /\ (k - 1) + 1 = k)
    BY <1>1
  <2>2. QED
    BY <1>1, <2>1, NotNone
<1>4. Once(t)
  BY <1>1 DEF Placed, Once
<1>5. Once(u)
  <2>1. \A k \in 1 .. Len(q) : q[k] # f[1]
    BY <1>1, <1>3 DEF Placed, Apart
  <2>2. \A j, k \in 1 .. Len(q) : q[j] # None /\ q[j] = q[k] => j = k
    BY DEF Placed, Once
  <2>3. ASSUME NEW j \in 1 .. Len(u), NEW k \in 1 .. Len(u), u[j] # None, u[j] = u[k]
        PROVE  j = k
    <3>1. CASE j = Len(u)
      BY <1>2, <2>1, <2>3, <3>1
    <3>2. CASE k = Len(u)
      BY <1>2, <2>1, <2>3, <3>2
    <3>3. CASE j \in 1 .. Len(q) /\ k \in 1 .. Len(q)
      BY <1>2, <2>2, <2>3, <3>3
    <3>4. QED
      BY <1>2, <3>1, <3>2, <3>3
  <2>4. QED
    BY <2>3 DEF Once
<1>6. Apart(t, u)
  <2>1. \A k \in 1 .. Len(t) : t[k] # f[1]
    BY <1>1, <1>3 DEF Placed, Once
  <2>2. \A j \in 1 .. Len(t), k \in 1 .. Len(q) : t[j] # q[k]
    BY <1>1, <1>3 DEF Placed, Apart
  <2>3. \A j \in 1 .. Len(t), k \in 1 .. Len(u) : t[j] # u[k]
    BY <1>2, <2>1, <2>2
  <2>4. QED
    BY <2>3 DEF Apart
<1>7. Apart(t, g) /\ Apart(u, g)
  <2>1. Apart(t, g)
    BY <1>1 DEF Placed, Apart
  <2>2. \A k \in 1 .. Len(g) : f[1] # g[k]
    BY <1>1, <1>3 DEF Placed, Apart
  <2>3. \A j \in 1 .. Len(q), k \in 1 .. Len(g) : q[j] # None => q[j] # g[k]
    BY DEF Placed, Apart
  <2>4. \A j \in 1 .. Len(u), k \in 1 .. Len(g) : u[j] # None => u[j] # g[k]
    BY <1>2, <2>2, <2>3
  <2>5. QED
    BY <2>1, <2>4 DEF Apart
<1>8. ASSUME NEW b \in Bufs
      PROVE  Occurs(b, t) \/ Occurs(b, u) \/ Occurs(b, g)
  <2>1. CASE Occurs(b, f)
    <3>1. PICK k \in 1 .. Len(f) : f[k] = b
      BY <2>1 DEF Occurs
    <3>2. CASE k = 1
      BY <1>2, <3>1, <3>2 DEF Occurs
    <3>3. CASE \E i \in 1 .. Len(t) : t[i] = f[k]
      BY <3>1, <3>3 DEF Occurs
    <3>4. QED
      BY <1>3, <3>2, <3>3
  <2>2. CASE Occurs(b, q)
    BY <1>2, <2>2 DEF Occurs
  <2>3. QED
    BY <2>1, <2>2 DEF Placed
<1>9. QED
  BY <1>4, <1>5, <1>6, <1>7, <1>8, <1>10, <1>11 DEF Placed

\* Dequeueing the oldest buffer moves it to the innermost activation.
LEMMA PlacedDequeue ==
    ASSUME NEW f \in Seq(Bufs), NEW q \in Seq(Bufs), NEW g \in Seq(Bufs \cup {None}),
           NEW h \in Seq(Bufs \cup {None}),
           Placed(f, q, g), q # <<>>, g # <<>>, g[Len(g)] = None,
           Len(h) = Len(g), h[Len(g)] = Head(q), \A k \in 1 .. Len(g) - 1 : h[k] = g[k]
    PROVE  Placed(f, Tail(q), h)
<1>10. PICK t : t = Tail(q)
  OBVIOUS
<1>0. t \in Seq(Bufs)
  BY <1>10, HeadTailProperties
<1>1. /\ Len(t) = Len(q) - 1 /\ Len(q) \in Nat /\ Len(q) > 0
      /\ \A k \in 1 .. Len(t) : t[k] = q[k + 1]
      /\ \A k \in 1 .. Len(t) : k + 1 \in 1 .. Len(q) /\ k + 1 # 1
      /\ 1 \in 1 .. Len(q)
  BY <1>10
<1>2. \A k \in 1 .. Len(q) : q[k] # None /\ (k = 1 \/ \E j \in 1 .. Len(t) : t[j] = q[k])
  <2>1. \A k \in 1 .. Len(q) : k = 1 \/ (k - 1 \in 1 .. Len(t) /\ (k - 1) + 1 = k)
    BY <1>1
  <2>2. \A k \in 1 .. Len(q) : k = 1 \/ t[k - 1] = q[k]
    BY <1>1, <2>1
  <2>3. QED
    BY <2>1, <2>2, NotNone
<1>3. /\ Len(g) \in 1 .. Len(g) /\ h[Len(g)] = q[1]
      /\ \A k \in 1 .. Len(g) : h[k] = g[k] \/ (k = Len(g) /\ g[k] = None)
  OBVIOUS
<1>4. Once(t) /\ Apart(f, t)
  <2>1. ASSUME NEW j \in 1 .. Len(t), NEW k \in 1 .. Len(t), t[j] # None, t[j] = t[k]
        PROVE  j = k
    <3>1. q[j + 1] # None /\ q[j + 1] = q[k + 1] /\ j + 1 \in 1 .. Len(q) /\ k + 1 \in 1 .. Len(q)
      BY <1>1, <2>1
    <3>2. j + 1 = k + 1
      BY <3>1 DEF Placed, Once
    <3>3. QED
      BY <3>2
  <2>2. Apart(f, t)
    BY <1>1 DEF Placed, Apart
  <2>3. QED
    BY <2>1, <2>2 DEF Once
<1>5. Once(h)
  BY <1>1, <1>2, <1>3 DEF Placed, Once, Apart
<1>6. Apart(f, h)
  BY <1>1, <1>2, <1>3 DEF Placed, Apart
<1>7. ASSUME NEW j \in 1 .. Len(t), NEW k \in 1 .. Len(h), t[j] = h[k]
      PROVE  FALSE
  <2>1. PICK i \in 1 .. Len(q) : i # 1 /\ q[i] = h[k]
    BY <1>1, <1>7
  <2>2. CASE h[k] = g[k]
    BY <1>2, <2>1, <2>2 DEF Placed, Apart
  <2>3. CASE k = Len(g)
    BY <1>1, <1>2, <1>3, <2>1, <2>3 DEF Placed, Once
  <2>4. QED
    BY <1>3, <2>2, <2>3
<1>8. ASSUME NEW b \in Bufs
      PROVE  Occurs(b, f) \/ Occurs(b, t) \/ Occurs(b, h)
  <2>0. b # None
    BY DEF Bufs, None
  <2>1. CASE Occurs(b, q)
    <3>1. PICK k \in 1 .. Len(q) : q[k] = b
      BY <2>1 DEF Occurs
    <3>2. CASE k = 1
      BY <1>3, <3>1, <3>2 DEF Occurs
    <3>3. CASE \E i \in 1 .. Len(t) : t[i] = q[k]
      BY <3>1, <3>3 DEF Occurs
    <3>4. QED
      BY <1>2, <3>2, <3>3
  <2>2. CASE Occurs(b, g)
    BY <1>3, <2>0, <2>2 DEF Occurs
  <2>3. QED
    BY <2>1, <2>2 DEF Placed
<1>9. QED
  BY <1>4, <1>5, <1>6, <1>7, <1>8, <1>10 DEF Placed, Apart

\* Freeing the buffer of the innermost activation moves it to the freelist.
LEMMA PlacedFree ==
    ASSUME NEW f \in Seq(Bufs), NEW q \in Seq(Bufs), NEW g \in Seq(Bufs \cup {None}),
           NEW h \in Seq(Bufs \cup {None}), NEW c \in Bufs,
           Placed(f, q, g), g # <<>>, g[Len(g)] = c,
           \/ Len(h) = Len(g) /\ h[Len(g)] = None
           \/ Len(h) = Len(g) - 1,
           \A k \in 1 .. Len(g) - 1 : h[k] = g[k]
    PROVE  Placed(<<c>> \o f, q, h)
<1> PICK t : t = <<c>> \o f
  OBVIOUS
<1>0. t \in Seq(Bufs)
  BY ConcatProperties
<1>1. /\ Len(t) = Len(f) + 1 /\ Len(f) \in Nat
      /\ t[1] = c
      /\ \A k \in 1 .. Len(f) : t[k + 1] = f[k] /\ k + 1 \in 1 .. Len(t)
      /\ 1 \in 1 .. Len(t)
  OBVIOUS
<1>2. \A k \in 1 .. Len(t) : k = 1 \/ (k - 1 \in 1 .. Len(f) /\ t[k] = f[k - 1])
  BY <1>1
<1>3. c # None
  BY DEF Bufs, None
<1>4. /\ Len(g) \in 1 .. Len(g) /\ g[Len(g)] = c
      /\ \A k \in 1 .. Len(h) : k \in 1 .. Len(g) /\ (h[k] = None \/ (h[k] = g[k] /\ k # Len(g)))
      /\ \A k \in 1 .. Len(g) : k = Len(g) \/ (k \in 1 .. Len(h) /\ h[k] = g[k])
  OBVIOUS
<1>5. Once(t)
  <2>1. \A k \in 1 .. Len(f) : f[k] # c
    BY <1>3, <1>4 DEF Placed, Apart
  <2>2. \A j, k \in 1 .. Len(f) : f[j] = f[k] => j = k
    BY NotNone DEF Placed, Once
  <2>3. ASSUME NEW j \in 1 .. Len(t), NEW k \in 1 .. Len(t), t[j] = t[k]
        PROVE  j = k
    <3>1. \A i \in 1 .. Len(t) : i \in Nat
      OBVIOUS
    <3>2. CASE j = 1
      BY <1>1, <1>2, <2>1, <2>3, <3>2
    <3>3. CASE k = 1
      BY <1>1, <1>2, <2>1, <2>3, <3>3
    <3>4. CASE j # 1 /\ k # 1
      <4>1. j - 1 \in 1 .. Len(f) /\ k - 1 \in 1 .. Len(f) /\ f[j - 1] = f[k - 1]
        BY <1>2, <2>3, <3>4
      <4>2. j - 1 = k - 1
        BY <2>2, <4>1
      <4>3. QED
        BY <3>1, <4>2
    <3>5. QED
      BY <3>2, <3>3, <3>4
  <2>4. QED
    BY <2>3 DEF Once
<1>6. Once(h) /\ Apart(q, h)
  <2>1. Once(h)
    BY <1>4 DEF Placed, Once
  <2>2. ASSUME NEW j \in 1 .. Len(q), NEW k \in 1 .. Len(h), q[j] = h[k]
        PROVE  FALSE
    BY <1>4, <2>2, NotNone DEF Placed, Apart
  <2>3. QED
    BY <2>1, <2>2 DEF Apart
<1>7. Apart(t, q)
  BY <1>1, <1>2, <1>3, <1>4 DEF Placed, Apart
<1>8. ASSUME NEW j \in 1 .. Len(t), NEW k \in 1 .. Len(h), t[j] = h[k]
      PROVE  FALSE
  <2>1. t[j] # None
    BY <1>0, NotNone
  <2>2. k \in 1 .. Len(g) /\ h[k] = g[k] /\ k # Len(g)
    BY <1>4, <1>8, <2>1
  <2>3. CASE j = 1
    BY <1>1, <1>3, <1>4, <1>8, <2>2, <2>3 DEF Placed, Once
  <2>4. CASE j # 1
    <3>1. PICK i \in 1 .. Len(f) : f[i] = g[k] /\ f[i] # None
      BY <1>2, <1>8, <2>1, <2>2, <2>4
    <3>2. QED
      BY <2>2, <3>1 DEF Placed, Apart
  <2>5. QED
    BY <2>3, <2>4
<1>9. ASSUME NEW b \in Bufs
      PROVE  Occurs(b, t) \/ Occurs(b, q) \/ Occurs(b, h)
  <2>1. CASE Occurs(b, f)
    BY <1>1, <2>1 DEF Occurs
  <2>2. CASE Occurs(b, g)
    BY <1>1, <1>4, <2>2 DEF Occurs
  <2>3. QED
    BY <2>1, <2>2 DEF Placed
<1>10. QED
  BY <1>5, <1>6, <1>7, <1>8, <1>9 DEF Placed, Apart

\* Activations that hold no buffer come and go.
LEMMA PlacedSame ==
    ASSUME NEW f \in Seq(Bufs), NEW q \in Seq(Bufs), NEW g \in Seq(Bufs \cup {None}),
           NEW h \in Seq(Bufs \cup {None}), Placed(f, q, g),
           \A k \in 1 .. Len(h) : h[k] = None \/ (k \in 1 .. Len(g) /\ h[k] = g[k]),
           \A k \in 1 .. Len(g) : g[k] = None \/ (k \in 1 .. Len(h) /\ h[k] = g[k])
    PROVE  Placed(f, q, h)
<1>1. Once(h)
  BY DEF Placed, Once
<1>2. Apart(f, h) /\ Apart(q, h)
  <2>1. \A k \in 1 .. Len(f) : f[k] # None
    BY NotNone
  <2>2. \A k \in 1 .. Len(q) : q[k] # None
    BY NotNone
  <2>3. QED
    BY <2>1, <2>2 DEF Placed, Apart
<1>3. ASSUME NEW b \in Bufs
      PROVE  Occurs(b, f) \/ Occurs(b, q) \/ Occurs(b, h)
  <2>0. b # None
    BY DEF Bufs, None
  <2>1. CASE Occurs(b, g)
    BY <2>0, <2>1 DEF Occurs
  <2>2. QED
    BY <2>1 DEF Placed
<1>4. QED
  BY <1>1, <1>2, <1>3 DEF Placed

\* With every buffer in one place, the places of a buffer count up to one.
LEMMA PlacesOne ==
    ASSUME TypeOK, QueuedBufs \in Seq(Bufs), Placed(freelist, QueuedBufs, HeldBufs), NEW b \in Bufs
    PROVE  Places(b) = 1
<1> DEFINE F == {k \in 1 .. Len(freelist) : freelist[k] = b}
           Q == {k \in 1 .. Length : QueuedBufs[k] = b}
           H == {k \in 1 .. Len(frames) : frames[k].buf = b}
<1>0. b # None
  BY DEF Bufs, None
<1>1. Len(QueuedBufs) = Length
  BY SpanFacts DEF QueuedBufs, TypeOK, Length, Span
<1>2. /\ Len(HeldBufs) = Len(frames)
      /\ \A k \in 1 .. Len(frames) : HeldBufs[k] = frames[k].buf
  BY DEF HeldBufs, TypeOK
<1>3. \A i, j \in F : i = j
  BY <1>0 DEF Placed, Once
<1>4. \A i, j \in Q : i = j
  BY <1>0, <1>1 DEF Placed, Once
<1>5. \A i, j \in H : i = j
  BY <1>0, <1>2 DEF Placed, Once
<1>6. F = {} \/ Q = {}
  BY <1>0, <1>1 DEF Placed, Apart
<1>7. F = {} \/ H = {}
  BY <1>0, <1>2 DEF Placed, Apart
<1>8. Q = {} \/ H = {}
  BY <1>0, <1>1, <1>2 DEF Placed, Apart
<1>9. F # {} \/ Q # {} \/ H # {}
  BY <1>1, <1>2 DEF Placed, Occurs
<1>10. Places(b) = Cardinality(F) + Cardinality(Q) + Cardinality(H)
  BY DEF Places
<1> HIDE DEF F, Q, H
<1>11. Cardinality({}) = 0
  BY FS_EmptySet
<1>12. ASSUME NEW S, \A i, j \in S : i = j, S # {}
       PROVE  Cardinality(S) = 1
  <2>1. PICK i \in S : TRUE
    BY <1>12
  <2>3. S = {i}
    BY <1>12, <2>1
  <2>2. QED
    BY <2>3, FS_Singleton
<1>13. CASE F # {}
  <2>1. Cardinality(F) = 1
    BY <1>12, <1>3, <1>13
  <2>2. Q = {} /\ H = {}
    BY <1>6, <1>7, <1>13
  <2>3. QED
    BY <1>10, <1>11, <2>1, <2>2
<1>14. CASE Q # {}
  <2>1. Cardinality(Q) = 1
    BY <1>12, <1>4, <1>14
  <2>2. F = {} /\ H = {}
    BY <1>6, <1>8, <1>14
  <2>3. QED
    BY <1>10, <1>11, <2>1, <2>2
<1>15. CASE H # {}
  <2>1. Cardinality(H) = 1
    BY <1>12, <1>5, <1>15
  <2>2. F = {} /\ Q = {}
    BY <1>7, <1>8, <1>15
  <2>3. QED
    BY <1>10, <1>11, <2>1, <2>2
<1>16. QED
  BY <1>9, <1>13, <1>14, <1>15

-----------------------------------------------------------------------------
(* What the operations do to the queue and to the stack of activations.    *)

\* Append and Tail, member by member.
LEMMA IsAppend ==
    ASSUME NEW S, NEW s \in Seq(S), NEW e \in S,
           NEW t, t = [k \in 1 .. Len(s) + 1 |-> IF k = Len(s) + 1 THEN e ELSE s[k]]
    PROVE  t = Append(s, e)
<1>1. t \in Seq(S) /\ Len(t) = Len(s) + 1
  <2>1. Len(s) \in Nat
    OBVIOUS
  <2>2. \A k \in 1 .. Len(s) + 1 : k # Len(s) + 1 => k \in 1 .. Len(s)
    BY <2>1
  <2>3. \A k \in 1 .. Len(s) + 1 : t[k] \in S
    BY <2>2, ElementOfSeq
  <2>4. QED
    BY <2>1, <2>3
<1>2. /\ Append(s, e) \in Seq(S) /\ Len(Append(s, e)) = Len(s) + 1
      /\ \A k \in 1 .. Len(s) + 1 : Append(s, e)[k] = IF k = Len(s) + 1 THEN e ELSE s[k]
  OBVIOUS
<1>3. QED
  BY <1>1, <1>2, SeqEqual

\* A sequence shifted by one is its tail: what taking from the SPSC queue leaves.
LEMMA IsTail ==
    ASSUME NEW S, NEW s \in Seq(S), s # <<>>, NEW t, t = [k \in 1 .. Len(s) - 1 |-> s[k + 1]]
    PROVE  t = Tail(s) /\ t \in Seq(S)
<1>0. Len(s) \in Nat /\ Len(s) > 0
  OBVIOUS
<1>1. t \in Seq(S) /\ Len(t) = Len(s) - 1
  <2>1. \A k \in 1 .. Len(s) - 1 : k + 1 \in 1 .. Len(s)
    BY <1>0
  <2>2. \A k \in 1 .. Len(s) - 1 : t[k] \in S
    BY <2>1, ElementOfSeq
  <2>3. QED
    BY <1>0, <2>2
<1>2. /\ Tail(s) \in Seq(S) /\ Len(Tail(s)) = Len(s) - 1
      /\ \A k \in 1 .. Len(s) - 1 : Tail(s)[k] = s[k + 1]
  BY HeadTailProperties
<1>3. QED
  BY <1>1, <1>2, SeqEqual

\* The queue has as many members as there are cells between the indices.
LEMMA QueueFacts ==
    ASSUME TypeOK
    PROVE  /\ Length = Span(qhead, qtail) /\ Length \in Nat
           /\ Length = 0 <=> qhead = qtail
           /\ Len(QueuedBufs) = Length
           /\ \A k \in 1 .. Length : QueuedBufs[k] = queue[Cell(qhead, k)]
<1>1. qhead \in Index /\ qtail \in Index
  BY DEF TypeOK
<1>2. Length = Span(qhead, qtail) /\ Length \in Nat /\ (Length = 0 <=> qhead = qtail)
  BY <1>1, SpanFacts DEF Length, Span
<1>3. Len(QueuedBufs) = Length /\ \A k \in 1 .. Length : QueuedBufs[k] = queue[Cell(qhead, k)]
  BY <1>2 DEF QueuedBufs, Cell
<1>4. QED
  BY <1>2, <1>3

\* spsc_queue_enqueue appends.
LEMMA Enqueued ==
    ASSUME TypeOK, QueuedBufs \in Seq(Bufs), NEW b \in Bufs,
           Advance(qtail) # qhead, spsc_queue_enqueue(b)
    PROVE  /\ QueuedBufs' = Append(QueuedBufs, b) /\ Length' = Length + 1
           /\ qtail' \in Index /\ queue' \in [Index -> Bufs \cup {None}]
<1>1. /\ qhead \in Index /\ qtail \in Index /\ queue \in [Index -> Bufs \cup {None}]
      /\ qhead' = qhead /\ qtail' = Advance(qtail) /\ queue' = [queue EXCEPT ![qtail] = b]
  BY DEF TypeOK, spsc_queue_enqueue
<1>2. /\ Length = Span(qhead, qtail) /\ Length \in Nat /\ Len(QueuedBufs) = Length
      /\ \A k \in 1 .. Length : QueuedBufs[k] = queue[Cell(qhead, k)]
  BY QueueFacts
<1>3. /\ Span(qhead, Advance(qtail)) = Span(qhead, qtail) + 1
      /\ Cell(qhead, Span(qhead, qtail) + 1) = qtail
      /\ \A k \in 1 .. Span(qhead, qtail) : Cell(qhead, k) # qtail /\ Cell(qhead, k) \in Index
  BY <1>1, TailAdvances
<1>4. Length' = Span(qhead, Advance(qtail))
  BY <1>1 DEF Length, Span
<1>5. QueuedBufs' = [k \in 1 .. Length + 1 |-> queue'[Cell(qhead, k)]]
  BY <1>1, <1>2, <1>3, <1>4 DEF QueuedBufs, Cell
<1>6. ASSUME NEW k \in 1 .. Length + 1
      PROVE  queue'[Cell(qhead, k)] = IF k = Length + 1 THEN b ELSE QueuedBufs[k]
  <2>1. CASE k = Length + 1
    BY <1>1, <1>2, <1>3, <2>1
  <2>2. CASE k # Length + 1
    <3>1. k \in 1 .. Length
      BY <1>2, <2>2
    <3>2. queue'[Cell(qhead, k)] = queue[Cell(qhead, k)]
      BY <1>1, <1>2, <1>3, <3>1
    <3>3. QED
      BY <1>2, <2>2, <3>1, <3>2
  <2>3. QED
    BY <2>1, <2>2
<1>7. QueuedBufs' = [k \in 1 .. Len(QueuedBufs) + 1 |->
                        IF k = Len(QueuedBufs) + 1 THEN b ELSE QueuedBufs[k]]
  BY <1>2, <1>5, <1>6
<1>8. QueuedBufs' = Append(QueuedBufs, b)
  BY <1>7, IsAppend
<1>9. qtail' \in Index /\ queue' \in [Index -> Bufs \cup {None}]
  BY <1>1, AdvanceFacts
<1>10. QED
  BY <1>2, <1>3, <1>4, <1>8, <1>9

\* Advancing the head of the queue takes its oldest member.
LEMMA Dequeued ==
    ASSUME TypeOK, QueuedBufs \in Seq(Bufs),
           qhead # qtail, qhead' = Advance(qhead), UNCHANGED <<queue, qtail>>
    PROVE  /\ QueuedBufs # <<>> /\ queue[qhead] = Head(QueuedBufs) /\ queue[qhead] \in Bufs
           /\ QueuedBufs' = Tail(QueuedBufs) /\ Length = Length' + 1 /\ Length' \in Nat
           /\ qhead' \in Index
<1>1. qhead \in Index /\ qtail \in Index
  BY DEF TypeOK
<1>2. /\ Length = Span(qhead, qtail) /\ Length \in Nat /\ Length # 0 /\ Len(QueuedBufs) = Length
      /\ \A k \in 1 .. Length : QueuedBufs[k] = queue[Cell(qhead, k)]
  BY QueueFacts
<1>3. /\ Span(qhead, qtail) = Span(Advance(qhead), qtail) + 1
      /\ Cell(qhead, 1) = qhead
      /\ \A k \in 1 .. Span(Advance(qhead), qtail) : Cell(Advance(qhead), k) = Cell(qhead, k + 1)
  BY <1>1, HeadAdvances
<1>4. PICK n : n = Span(Advance(qhead), qtail)
  OBVIOUS
<1>5. Advance(qhead) \in Index
  BY <1>1, AdvanceFacts
<1>6. n \in Nat /\ Length = n + 1 /\ Length' = n
  BY <1>1, <1>2, <1>3, <1>4, <1>5, SpanFacts DEF Length, Span
<1>7. QueuedBufs # <<>>
  BY <1>2
<1>8. QueuedBufs[1] = queue[qhead] /\ QueuedBufs[1] \in Bufs
  BY <1>2, <1>3, ElementOfSeq
<1>9. QueuedBufs' = [k \in 1 .. n |-> queue[Cell(Advance(qhead), k)]]
  BY <1>6 DEF QueuedBufs, Cell
<1>10. ASSUME NEW k \in 1 .. n
       PROVE  queue[Cell(Advance(qhead), k)] = QueuedBufs[k + 1]
  <2>1. k + 1 \in 1 .. Length
    BY <1>6
  <2>2. QED
    BY <1>2, <1>3, <1>4, <2>1
<1>11. QueuedBufs' = [k \in 1 .. Len(QueuedBufs) - 1 |-> QueuedBufs[k + 1]]
  <2>1. Len(QueuedBufs) - 1 = n
    BY <1>2, <1>6
  <2>2. QED
    BY <1>9, <1>10, <2>1
<1>12. QueuedBufs' = Tail(QueuedBufs)
  BY <1>7, <1>11, IsTail
<1>13. Head(QueuedBufs) = QueuedBufs[1]
  BY <1>7
<1>14. QED
  BY <1>5, <1>6, <1>7, <1>8, <1>12, <1>13

\* The innermost activation changes.
LEMMA Changed ==
    ASSUME frames \in Seq(Frame), frames # <<>>, NEW f \in Frame, Becomes(f)
    PROVE  /\ frames' \in Seq(Frame) /\ frames' # <<>> /\ Len(frames') = Len(frames)
           /\ frames'[Len(frames)] = f
           /\ \A k \in 1 .. Len(frames) : k # Len(frames) => frames'[k] = frames[k]
<1>1. Len(frames) \in 1 .. Len(frames) /\ Len(frames) \in Nat
  OBVIOUS
<1>2. QED
  BY <1>1, ExceptSeq DEF Becomes

\* The innermost activation returns.
LEMMA Returned ==
    ASSUME frames \in Seq(Frame), frames # <<>>, Returns
    PROVE  /\ frames' \in Seq(Frame) /\ Len(frames') = Len(frames) - 1
           /\ \A k \in 1 .. Len(frames') : frames'[k] = frames[k]
<1>1. Len(frames) \in Nat /\ Len(frames) > 0
  OBVIOUS
<1>2. PICK n : n = Len(frames) - 1
  OBVIOUS
<1>3. n \in 0 .. Len(frames)
  BY <1>1, <1>2
<1>4. SubSeq(frames, 1, n) \in Seq(Frame) /\ Len(SubSeq(frames, 1, n)) = n
  BY <1>3
<1>5. \A k \in 1 .. n : SubSeq(frames, 1, n)[k] = frames[k]
  BY <1>3
<1>6. QED
  BY <1>2, <1>4, <1>5 DEF Returns

\* The buffers the activations hold.
LEMMA HeldFacts ==
    ASSUME NEW s \in Seq(Frame), NEW g, g = [k \in 1 .. Len(s) |-> s[k].buf]
    PROVE  /\ g \in Seq(Bufs \cup {None}) /\ Len(g) = Len(s)
           /\ \A k \in 1 .. Len(s) : g[k] = s[k].buf
<1>1. ASSUME NEW k \in 1 .. Len(s)
      PROVE  s[k].buf \in Bufs \cup {None}
  <2>1. s[k] \in Frame
    BY ElementOfSeq
  <2>2. QED
    BY <2>1 DEF Frame
<1>2. Len(s) \in Nat
  OBVIOUS
<1>3. g \in [1 .. Len(s) -> Bufs \cup {None}]
  BY <1>1
<1>4. QED
  BY <1>2, <1>3

-----------------------------------------------------------------------------
(* The type invariant in parts.                                            *)

Flags == active \in BOOLEAN /\ xms_enabled \in BOOLEAN /\ dangling \in BOOLEAN

PoolTypes ==
    /\ staging \in {"none", "live"} /\ freelist \in Seq(Bufs) /\ in_use \subseteq Bufs
    /\ data \in [Bufs -> Packets \cup {None}] /\ size \in [Bufs -> Sizes]

QueueTypes == queue \in [Index -> Bufs \cup {None}] /\ qhead \in Index /\ qtail \in Index

FrameTypes == frames \in Seq(Frame) /\ Len(frames) <= MaxDepth

OtherTypes ==
    /\ xms_free \subseteq XmsBufs
    /\ stage \in {"none", "drain", "reset", "reset_tail", "free", "zero"}
    /\ arrived \in 0 .. MaxPackets /\ delivered \in Seq(Packets)

\* The type invariant by what it speaks of, so that a step cites only its part.
LEMMA TypeParts ==
    TypeOK <=> Flags /\ PoolTypes /\ QueueTypes /\ FrameTypes /\ OtherTypes
BY Zenon DEF TypeOK, Flags, PoolTypes, QueueTypes, FrameTypes, OtherTypes

-----------------------------------------------------------------------------
(* Every step keeps the invariant.                                         *)

\* The empty driver: nothing is up.
LEMMA InitRx == Init => RxInv
<1> SUFFICES ASSUME Init PROVE RxInv
  OBVIOUS
<1>0. QueueSize \in Nat /\ QueueSize > 1 /\ MaxDepth \in Nat /\ MaxPackets \in Nat
  BY RxAssumption
<1>1. Flags
  BY Zenon DEF Init, Flags
<1>2. PoolTypes
  BY DEF Init, PoolTypes, Sizes
<1>3. QueueTypes
  BY <1>0 DEF Init, QueueTypes, Index
<1>4. FrameTypes
  BY <1>0 DEF Init, FrameTypes
<1>5. OtherTypes
  BY <1>0 DEF Init, OtherTypes
<1>6. TypeOK
  BY <1>1, <1>2, <1>3, <1>4, <1>5, TypeParts
<1>7. StoppedInv /\ QueueInv /\ ~Running
  BY DEF Init, StoppedInv, QueueInv, Running
<1>8. FramesInv
  BY DEF Init, FramesInv
<1>9. QED
  BY <1>6, <1>7, <1>8 DEF RxInv, LiveInv

\* packet_bottom_half_init puts every staging buffer on the freelist.
LEMMA StartStep ==
    ASSUME RxInv, packet_bottom_half_init
    PROVE  RxInv'
<1>0. /\ QueueSize \in Nat /\ QueueSize > 1 /\ StagingCount \in Nat
      /\ 0 \in Index /\ None \in Bufs \cup {None}
  BY RxAssumption DEF Index
<1>1. TypeOK /\ Flags /\ PoolTypes /\ QueueTypes /\ FrameTypes /\ OtherTypes
  BY TypeParts DEF RxInv
<1>2. frames' = <<>> /\ frames = <<>> /\ stage' = "none"
  BY DEF RxInv, StoppedInv, Running, packet_bottom_half_init
<1>3. active' = TRUE
  BY DEF packet_bottom_half_init
<1>4. Flags'
  <2>1. xms_enabled' \in BOOLEAN
    BY Zenon DEF packet_bottom_half_init
  <2>2. QED
    BY <1>1, <1>3, <2>1, Zenon DEF Flags, packet_bottom_half_init, history
<1>5. freelist' = [k \in 1 .. StagingCount |-> k]
  BY DEF packet_bottom_half_init, staging_buffer_init, Bufs
<1>6. freelist' \in Seq(Bufs) /\ Len(freelist') = StagingCount
  BY <1>0, <1>5 DEF Bufs
<1>7. PoolTypes'
  BY <1>6 DEF packet_bottom_half_init, staging_buffer_init, PoolTypes, Sizes
<1>8. QueueTypes'
  BY <1>0 DEF packet_bottom_half_init, spsc_queue_init, QueueTypes
<1>9. FrameTypes'
  BY <1>1, <1>2 DEF FrameTypes
<1>10. OtherTypes'
  <2>1. xms_free' \subseteq XmsBufs
    BY <1>1 DEF packet_bottom_half_init, InitialFreeMap, OtherTypes
  <2>2. QED
    BY <1>1, <1>2, <2>1 DEF packet_bottom_half_init, OtherTypes, history
<1>11. TypeOK'
  BY <1>4, <1>7, <1>8, <1>9, <1>10, Zenon
     DEF TypeOK, Flags, PoolTypes, QueueTypes, FrameTypes, OtherTypes
<1>12. Length' = 0 /\ QueuedBufs' = <<>>
  <2>1. qhead' = 0 /\ qtail' = 0
    BY DEF packet_bottom_half_init, spsc_queue_init
  <2>2. Length' = (0 + QueueSize - 0) % QueueSize
    BY <2>1 DEF Length
  <2>3. Length' = 0
    BY <1>0, <2>2
  <2>4. QED
    BY <2>3 DEF QueuedBufs
<1>13. StoppedInv' /\ LiveInv' /\ QueueInv'
  BY <1>2, <1>12 DEF StoppedInv, LiveInv, QueueInv, packet_bottom_half_init, staging_buffer_init
<1>14. FramesInv' /\ HeldBufs' = <<>>
  BY <1>2 DEF FramesInv, HeldBufs
<1>15. Placed(freelist', <<>>, <<>>)
  <2>1. \A k \in 1 .. StagingCount : freelist'[k] = k
    BY <1>5
  <2>2. Once(freelist')
    BY <1>6, <2>1 DEF Once
  <2>3. \A b \in Bufs : Occurs(b, freelist')
    BY <1>6, <2>1 DEF Occurs, Bufs
  <2>4. Once(<<>>) /\ Apart(freelist', <<>>) /\ Apart(<<>>, <<>>)
    BY DEF Once, Apart
  <2>5. QED
    BY <2>2, <2>3, <2>4 DEF Placed
<1>16. QED
  BY <1>11, <1>12, <1>13, <1>14, <1>15 DEF RxInv

\* Cleanup begins when no activation is left.
LEMMA StopStep ==
    ASSUME RxInv, packet_bottom_half_cleanup
    PROVE  RxInv'
<1>1. Flags /\ PoolTypes /\ QueueTypes /\ FrameTypes /\ OtherTypes
  BY TypeParts DEF RxInv
<1> USE DEF packet_bottom_half_cleanup, CleanupAt, content, history, pool, spsc
<1>2. /\ active /\ stage = "none" /\ frames = <<>> /\ frames' = <<>>
      /\ active' = active /\ stage' = "drain"
  OBVIOUS
<1>3. Flags'
  BY <1>1, Zenon DEF Flags
<1>4. PoolTypes' /\ QueueTypes' /\ FrameTypes'
  BY <1>1 DEF PoolTypes, QueueTypes, FrameTypes
<1>5. OtherTypes'
  BY <1>1 DEF OtherTypes
<1>6. TypeOK'
  BY <1>3, <1>4, <1>5, Zenon DEF TypeOK, Flags, PoolTypes, QueueTypes, FrameTypes, OtherTypes
<1>7. QueuedBufs' = QueuedBufs /\ QueuedBufs \in Seq(Bufs)
  BY <1>2 DEF QueuedBufs, Length, RxInv, QueueInv
<1>8. StoppedInv' /\ QueueInv' /\ ~Running'
  BY <1>2, <1>7 DEF StoppedInv, QueueInv, Running
<1>9. FramesInv'
  BY <1>2 DEF FramesInv
<1>10. QED
  BY <1>6, <1>8, <1>9 DEF RxInv, LiveInv

\* The steps of cleanup.
LEMMA CleanupStep ==
    ASSUME RxInv, Cleanup
    PROVE  RxInv'
<1>1. TypeOK /\ Flags /\ PoolTypes /\ QueueTypes /\ FrameTypes /\ OtherTypes
  BY TypeParts DEF RxInv
<1> USE DEF Cleanup, drain_one, drained, reset_head, reset_tail, staging_buffer_cleanup,
            zero_state, CleanupAt, content, history, pool, spsc
<1>2. stage # "none" /\ active /\ frames = <<>> /\ frames' = <<>>
  BY DEF RxInv, StoppedInv, Running
<1>3. ~Running' /\ StoppedInv'
  BY <1>2 DEF Running, StoppedInv
<1>4. 0 \in Index
  BY RxAssumption DEF Index
<1>5. Flags'
  BY <1>1, Zenon DEF Flags
<1>6. ASSUME drain_one
      PROVE  PoolTypes' /\ QueueTypes' /\ FrameTypes' /\ OtherTypes' /\ QueueInv'
  <2>1. QueuedBufs \in Seq(Bufs)
    BY <1>2, <1>6 DEF RxInv, QueueInv
  <2>2. /\ QueuedBufs # <<>> /\ queue[qhead] \in Bufs
        /\ QueuedBufs' = Tail(QueuedBufs) /\ qhead' \in Index
    BY <1>1, <1>6, <2>1, Dequeued
  <2>3. QueuedBufs' \in Seq(Bufs)
    BY <2>1, <2>2, HeadTailProperties
  <2>4. freelist' \in Seq(Bufs)
    BY <1>1, <1>6, <2>2, ConcatProperties DEF PoolTypes
  <2>5. PoolTypes' /\ QueueTypes' /\ FrameTypes' /\ OtherTypes'
    BY <1>1, <1>6, <2>2, <2>4 DEF PoolTypes, QueueTypes, FrameTypes, OtherTypes
  <2>6. QueueInv'
    BY <1>3, <2>3 DEF QueueInv
  <2>7. QED
    BY <2>5, <2>6
<1>7. ASSUME drained \/ reset_head \/ reset_tail \/ staging_buffer_cleanup \/ zero_state
      PROVE  PoolTypes' /\ QueueTypes' /\ FrameTypes' /\ OtherTypes' /\ QueueInv'
  <2>1. PoolTypes' /\ QueueTypes' /\ FrameTypes' /\ OtherTypes'
    BY <1>1, <1>4, <1>7 DEF PoolTypes, QueueTypes, FrameTypes, OtherTypes
  <2>2. ~(active' /\ stage' \in {"none", "drain"})
    BY <1>7
  <2>3. QueueInv'
    BY <2>2, <1>3 DEF QueueInv
  <2>4. QED
    BY <2>1, <2>3
<1>8. PoolTypes' /\ QueueTypes' /\ FrameTypes' /\ OtherTypes' /\ QueueInv'
  BY <1>6, <1>7
<1>9. TypeOK'
  BY <1>5, <1>8, Zenon DEF TypeOK, Flags, PoolTypes, QueueTypes, FrameTypes, OtherTypes
<1>10. FramesInv'
  BY <1>2 DEF FramesInv
<1>11. LiveInv'
  BY <1>3 DEF LiveInv
<1>12. QED
  BY <1>3, <1>8, <1>9, <1>10, <1>11, Zenon DEF RxInv

\* A dropped packet: at most the buffer taken from freed memory is lost.
LEMMA DropStep ==
    ASSUME RxInv, NEW s \in Sizes, isr_drop(s)
    PROVE  RxInv'
<1>1. TypeOK /\ Flags /\ PoolTypes /\ QueueTypes /\ FrameTypes /\ OtherTypes
  BY TypeParts DEF RxInv
<1>2. UNCHANGED <<active, xms_enabled, staging, data, size, queue, qhead, qtail, xms_free, frames,
                  stage, delivered>>
  BY DEF isr_drop, content, spsc
<1>3. Flags'
  BY <1>1, <1>2, Zenon DEF Flags, isr_drop
<1>4. OtherTypes'
  <2>1. arrived' \in 0 .. MaxPackets
    BY <1>1, RxAssumption DEF isr_drop, OtherTypes
  <2>2. QED
    BY <1>1, <1>2, <2>1 DEF OtherTypes
<1>5. QueueTypes' /\ FrameTypes'
  BY <1>1, <1>2 DEF QueueTypes, FrameTypes
<1>6. StoppedInv' /\ QueueInv' /\ FramesInv' /\ QueuedBufs' = QueuedBufs /\ HeldBufs' = HeldBufs
      /\ Running' = Running
  BY <1>2 DEF RxInv, StoppedInv, QueueInv, FramesInv, FrameOK, QueuedBufs, HeldBufs, Length, Running
<1>7. CASE UNCHANGED <<freelist, in_use>>
  <2>1. PoolTypes'
    BY <1>1, <1>2, <1>7 DEF PoolTypes
  <2>2. TypeOK'
    BY <1>3, <1>4, <1>5, <2>1, Zenon
       DEF TypeOK, Flags, PoolTypes, QueueTypes, FrameTypes, OtherTypes
  <2>3. QED
    BY <1>2, <1>6, <1>7, <2>2 DEF RxInv, LiveInv
<1>8. CASE staging # "live" /\ freelist # <<>> /\ staging_buffer_alloc
  <2>1. PoolTypes'
    <3>1. freelist' \in Seq(Bufs) /\ Head(freelist) \in Bufs
      BY <1>1, <1>8, HeadTailProperties DEF PoolTypes, staging_buffer_alloc
    <3>2. QED
      BY <1>1, <1>2, <1>8, <3>1 DEF PoolTypes, staging_buffer_alloc
  <2>2. TypeOK'
    BY <1>3, <1>4, <1>5, <2>1, Zenon
       DEF TypeOK, Flags, PoolTypes, QueueTypes, FrameTypes, OtherTypes
  <2>3. ~Running
    BY <1>8 DEF RxInv, LiveInv
  <2>4. QED
    BY <1>2, <1>6, <2>2, <2>3 DEF RxInv, LiveInv, Running
<1>9. QED
  BY <1>7, <1>8 DEF isr_drop

\* A staged packet: the buffer moves from the freelist to the queue, and the
\* handler writes to no buffer that is queued or held.
LEMMA AcceptStep ==
    ASSUME RxInv, NEW s \in Sizes, isr_accept(s)
    PROVE  RxInv'
<1>1. TypeOK /\ Flags /\ PoolTypes /\ QueueTypes /\ FrameTypes /\ OtherTypes
  BY TypeParts DEF RxInv
<1> PICK b : b = Head(freelist)
  OBVIOUS
<1>2. /\ arrived < MaxPackets /\ active /\ freelist # <<>> /\ Advance(qtail) # qhead
      /\ arrived' = arrived + 1
      /\ freelist' = Tail(freelist) /\ in_use' = in_use \cup {b}
      /\ data' = [data EXCEPT ![b] = arrived + 1] /\ size' = [size EXCEPT ![b] = s]
      /\ spsc_queue_enqueue(b)
      /\ UNCHANGED <<active, xms_enabled, staging, xms_free, frames, stage, delivered, qhead>>
  BY DEF isr_accept, staging_buffer_alloc, spsc_queue_enqueue
<1>3. b \in Bufs /\ Tail(freelist) \in Seq(Bufs)
  BY <1>1, <1>2, HeadTailProperties DEF PoolTypes
<1>4. arrived + 1 \in Packets /\ arrived' \in 0 .. MaxPackets
  BY <1>1, <1>2, RxAssumption DEF OtherTypes, Packets
<1>5. Flags'
  BY <1>1, <1>2, Zenon DEF Flags, isr_accept
<1>6. PoolTypes'
  <2>1. data' \in [Bufs -> Packets \cup {None}] /\ size' \in [Bufs -> Sizes]
    BY <1>1, <1>2, <1>3, <1>4 DEF PoolTypes
  <2>2. QED
    BY <1>1, <1>2, <1>3, <2>1 DEF PoolTypes
<1>7. QueueTypes'
  BY <1>1, <1>2, <1>3, AdvanceFacts DEF QueueTypes, spsc_queue_enqueue
<1>8. FrameTypes' /\ OtherTypes'
  BY <1>1, <1>2, <1>4 DEF FrameTypes, OtherTypes
<1>9. TypeOK'
  BY <1>5, <1>6, <1>7, <1>8, Zenon
     DEF TypeOK, Flags, PoolTypes, QueueTypes, FrameTypes, OtherTypes
<1>10. StoppedInv' /\ Running' = Running /\ HeldBufs' = HeldBufs /\ LiveInv'
  BY <1>2 DEF RxInv, StoppedInv, Running, HeldBufs, LiveInv
<1>11. ASSUME stage \in {"none", "drain"}
       PROVE  /\ QueuedBufs \in Seq(Bufs) /\ QueuedBufs' \in Seq(Bufs)
              /\ QueuedBufs' = Append(QueuedBufs, b) /\ Length' = Length + 1
              /\ Length \in Nat /\ Len(QueuedBufs) = Length
  <2>1. QueuedBufs \in Seq(Bufs)
    BY <1>2, <1>11 DEF RxInv, QueueInv
  <2>2. QueuedBufs' = Append(QueuedBufs, b) /\ Length' = Length + 1
    BY <1>1, <1>2, <1>3, <2>1, Enqueued
  <2>3. QED
    BY <1>1, <1>3, <2>1, <2>2, QueueFacts
<1>12. CASE ~Running
  <2>1. frames' = <<>>
    BY <1>2, <1>12 DEF RxInv, StoppedInv
  <2>2. FramesInv'
    BY <2>1 DEF FramesInv
  <2>3. QueueInv'
    BY <1>2, <1>10, <1>11, <1>12 DEF QueueInv
  <2>4. QED
    BY <1>9, <1>10, <1>12, <2>2, <2>3 DEF RxInv
<1>13. CASE Running
  <2>1. /\ QueuedBufs \in Seq(Bufs) /\ QueuedBufs' \in Seq(Bufs)
        /\ QueuedBufs' = Append(QueuedBufs, b) /\ Length' = Length + 1
        /\ Length \in Nat /\ Len(QueuedBufs) = Length
    BY <1>11, <1>13 DEF Running
  <2>2. /\ HeldBufs \in Seq(Bufs \cup {None}) /\ Len(HeldBufs) = Len(frames)
        /\ \A k \in 1 .. Len(frames) : HeldBufs[k] = frames[k].buf
    BY <1>1, HeldFacts DEF HeldBufs, FrameTypes
  <2>3. Placed(freelist, QueuedBufs, HeldBufs)
    BY <1>13 DEF RxInv
  <2>4. freelist \in Seq(Bufs)
    BY <1>1 DEF PoolTypes
  <2>5. Placed(freelist', QueuedBufs', HeldBufs')
    BY <1>2, <1>10, <2>1, <2>2, <2>3, <2>4, PlacedTake
  <2>6. 1 \in 1 .. Len(freelist) /\ freelist[1] = b /\ b # None
    BY <1>2, <1>3, <2>4 DEF Bufs, None
  <2>7. \A k \in 1 .. Len(frames) : frames[k].buf # b
    BY <2>2, <2>3, <2>6 DEF Placed, Apart
  <2>8. \A k \in 1 .. Length : QueuedBufs[k] # b
    BY <2>1, <2>3, <2>6 DEF Placed, Apart
  <2>9. data'[b] = arrived + 1 /\ \A c \in Bufs : c # b => data'[c] = data[c]
    BY <1>1, <1>2, <1>3 DEF PoolTypes
  <2>10. FramesInv'
    <3>1. ASSUME NEW k \in 1 .. Len(frames)
          PROVE  FrameOK(frames[k])'
      <4>1. frames'[k] = frames[k] /\ FrameOK(frames[k]) /\ frames[k].buf # b
        BY <1>2, <2>7 DEF RxInv, FramesInv
      <4>2. frames[k].buf \in Bufs \cup {None}
        BY <2>2
      <4>3. QED
        BY <2>9, <4>1, <4>2 DEF FrameOK
    <3>2. QED
      BY <1>2, <3>1 DEF RxInv, FramesInv
  <2>11. QueueInv'
    <3>1. ASSUME NEW k \in 1 .. Length + 1
          PROVE  data'[QueuedBufs'[k]] \in Packets
      <4>1. CASE k = Length + 1
        <5>1. QueuedBufs'[k] = b
          BY <1>3, <2>1, <4>1
        <5>2. QED
          BY <1>4, <2>9, <5>1
      <4>2. CASE k # Length + 1
        <5>1. k \in 1 .. Length
          BY <2>1, <4>2
        <5>2. QueuedBufs'[k] = QueuedBufs[k] /\ QueuedBufs[k] \in Bufs /\ QueuedBufs[k] # b
          BY <1>3, <2>1, <2>8, <5>1
        <5>3. data[QueuedBufs[k]] \in Packets
          BY <1>13, <5>1 DEF RxInv, QueueInv
        <5>4. QED
          BY <2>9, <5>2, <5>3
      <4>3. QED
        BY <4>1, <4>2
    <3>2. QED
      BY <2>1, <3>1 DEF QueueInv
  <2>12. QED
    BY <1>9, <1>10, <2>5, <2>10, <2>11 DEF RxInv
<1>14. QED
  BY <1>12, <1>13

\* What is known inside process_deferred_packets.
LEMMA Busy ==
    ASSUME RxInv, frames # <<>>
    PROVE  /\ Running /\ active /\ stage = "none" /\ frames \in Seq(Frame) /\ Len(frames) \in Nat
           /\ Len(frames) \in 1 .. Len(frames) /\ Innermost \in Frame /\ FrameOK(Innermost)
           /\ freelist \in Seq(Bufs)
           /\ QueuedBufs \in Seq(Bufs) /\ HeldBufs \in Seq(Bufs \cup {None})
           /\ Len(HeldBufs) = Len(frames) /\ HeldBufs[Len(frames)] = Innermost.buf
           /\ \A k \in 1 .. Len(frames) : HeldBufs[k] = frames[k].buf
           /\ Placed(freelist, QueuedBufs, HeldBufs)
<1>1. FrameTypes /\ PoolTypes
  BY TypeParts DEF RxInv
<1>2. Running /\ active /\ stage = "none"
  BY DEF RxInv, StoppedInv, Running
<1>3. frames \in Seq(Frame) /\ Len(frames) \in Nat /\ Len(frames) \in 1 .. Len(frames)
  BY <1>1 DEF FrameTypes
<1>4. Innermost \in Frame /\ FrameOK(Innermost)
  BY <1>3, ElementOfSeq DEF Innermost, RxInv, FramesInv
<1>5. QueuedBufs \in Seq(Bufs) /\ Placed(freelist, QueuedBufs, HeldBufs)
  BY <1>2 DEF RxInv, QueueInv
<1>6. /\ HeldBufs \in Seq(Bufs \cup {None}) /\ Len(HeldBufs) = Len(frames)
      /\ \A k \in 1 .. Len(frames) : HeldBufs[k] = frames[k].buf
  BY <1>3, HeldFacts DEF HeldBufs
<1>7. HeldBufs[Len(frames)] = Innermost.buf
  BY <1>3, <1>6 DEF Innermost
<1>8. QED
  BY <1>1, <1>2, <1>3, <1>4, <1>5, <1>6, <1>7 DEF PoolTypes

\* The innermost activation goes on as f.
LEMMA ChangedOK ==
    ASSUME RxInv, frames # <<>>, NEW f \in Frame, FrameOK(f), Becomes(f), data' = data
    PROVE  /\ FramesInv' /\ FrameTypes' /\ frames' # <<>>
           /\ HeldBufs' \in Seq(Bufs \cup {None}) /\ Len(HeldBufs') = Len(HeldBufs)
           /\ HeldBufs'[Len(HeldBufs)] = f.buf
           /\ \A k \in 1 .. Len(HeldBufs) : k # Len(HeldBufs) => HeldBufs'[k] = HeldBufs[k]
<1>1. /\ frames \in Seq(Frame) /\ Len(frames) \in Nat /\ Len(frames) \in 1 .. Len(frames)
      /\ Len(HeldBufs) = Len(frames)
      /\ \A k \in 1 .. Len(frames) : HeldBufs[k] = frames[k].buf
  BY Busy
<1>2. /\ frames' \in Seq(Frame) /\ frames' # <<>> /\ Len(frames') = Len(frames)
      /\ frames'[Len(frames)] = f
      /\ \A k \in 1 .. Len(frames) : k # Len(frames) => frames'[k] = frames[k]
  BY <1>1, Changed
<1>3. FrameTypes'
  BY <1>2 DEF FrameTypes, RxInv, TypeOK
<1>4. /\ HeldBufs' \in Seq(Bufs \cup {None}) /\ Len(HeldBufs') = Len(frames')
      /\ \A k \in 1 .. Len(frames') : HeldBufs'[k] = frames'[k].buf
  <2>1. HeldBufs' = [k \in 1 .. Len(frames') |-> frames'[k].buf]
    BY DEF HeldBufs
  <2>2. QED
    BY <1>2, <2>1, HeldFacts
<1>5. FramesInv'
  <2>1. ASSUME NEW k \in 1 .. Len(frames)
        PROVE  FrameOK(frames[k])' /\ (k < Len(frames) => frames'[k].at = "upcall")
    <3>1. CASE k = Len(frames)
      BY <1>1, <1>2, <3>1 DEF FrameOK
    <3>2. CASE k # Len(frames)
      <4>1. frames'[k] = frames[k] /\ FrameOK(frames[k]) /\ (k < Len(frames) => frames[k].at = "upcall")
        BY <1>2, <3>2 DEF RxInv, FramesInv
      <4>2. QED
        BY <4>1 DEF FrameOK
    <3>3. QED
      BY <3>1, <3>2
  <2>2. QED
    BY <1>2, <2>1 DEF FramesInv
<1>6. QED
  BY <1>1, <1>2, <1>3, <1>4, <1>5

\* The innermost activation returns to the upcall it was called from.
LEMMA ReturnedOK ==
    ASSUME RxInv, frames # <<>>, Returns, data' = data
    PROVE  /\ FramesInv' /\ FrameTypes' /\ ~InnermostIs("have")'
           /\ HeldBufs' \in Seq(Bufs \cup {None}) /\ Len(HeldBufs') = Len(HeldBufs) - 1
           /\ \A k \in 1 .. Len(HeldBufs') : HeldBufs'[k] = HeldBufs[k]
<1>1. /\ frames \in Seq(Frame) /\ Len(frames) \in Nat /\ Len(frames) \in 1 .. Len(frames)
      /\ Len(HeldBufs) = Len(frames)
      /\ \A k \in 1 .. Len(frames) : HeldBufs[k] = frames[k].buf
  BY Busy
<1>2. /\ frames' \in Seq(Frame) /\ Len(frames') = Len(frames) - 1 /\ Len(frames') \in Nat
      /\ \A k \in 1 .. Len(frames') : frames'[k] = frames[k]
  BY <1>1, Returned
<1>3. MaxDepth \in Nat /\ Len(frames) <= MaxDepth
  BY RxAssumption DEF RxInv, TypeOK
<1>4. FrameTypes'
  BY <1>1, <1>2, <1>3 DEF FrameTypes
<1>5. /\ HeldBufs' \in Seq(Bufs \cup {None}) /\ Len(HeldBufs') = Len(frames')
      /\ \A k \in 1 .. Len(frames') : HeldBufs'[k] = frames'[k].buf
  <2>1. HeldBufs' = [k \in 1 .. Len(frames') |-> frames'[k].buf]
    BY DEF HeldBufs
  <2>2. QED
    BY <1>2, <2>1, HeldFacts
<1>6. ASSUME NEW k \in 1 .. Len(frames')
      PROVE  /\ k \in 1 .. Len(frames) /\ frames'[k] = frames[k]
             /\ FrameOK(frames[k]) /\ frames[k].at = "upcall"
  <2>1. k \in 1 .. Len(frames) /\ k < Len(frames)
    BY <1>1, <1>2
  <2>2. QED
    BY <1>2, <2>1 DEF RxInv, FramesInv
<1>7. FramesInv'
  BY <1>6 DEF FramesInv, FrameOK
<1>8. ~InnermostIs("have")'
  <2>1. frames' # <<>> => Len(frames') \in 1 .. Len(frames')
    BY <1>2
  <2>2. QED
    BY <1>6, <2>1 DEF InnermostIs, Innermost
<1>9. QED
  BY <1>1, <1>2, <1>4, <1>5, <1>6, <1>7, <1>8

\* process_deferred_packets begins.
LEMMA EnterStep ==
    ASSUME RxInv, process_deferred_packets
    PROVE  RxInv' /\ ~InnermostIs("have")'
<1>1. TypeOK /\ Flags /\ PoolTypes /\ QueueTypes /\ FrameTypes /\ OtherTypes
  BY TypeParts DEF RxInv
<1>2. /\ active /\ stage = "none" /\ frames' = Append(frames, NewFrame) /\ Len(frames) < MaxDepth
      /\ UNCHANGED <<active, xms_enabled, staging, freelist, in_use, data, size, queue, qhead, qtail,
                     xms_free, stage, arrived, delivered, dangling>>
  BY DEF process_deferred_packets, pool, content, spsc, history
<1>3. /\ NewFrame \in Frame /\ NewFrame.buf = None /\ NewFrame.at = "loop" /\ NewFrame.xms = None
  BY DEF NewFrame, Frame
<1>4. frames \in Seq(Frame) /\ Len(frames) \in Nat
  BY <1>1 DEF FrameTypes
<1>5. /\ frames' \in Seq(Frame) /\ Len(frames') = Len(frames) + 1 /\ frames' # <<>>
      /\ frames'[Len(frames')] = NewFrame
      /\ \A k \in 1 .. Len(frames) : frames'[k] = frames[k]
  BY <1>2, <1>3, <1>4
<1>6. FrameTypes'
  BY <1>2, <1>4, <1>5, RxAssumption DEF FrameTypes
<1>7. Flags'
  BY <1>1, <1>2, Zenon DEF Flags
<1>8. PoolTypes' /\ QueueTypes' /\ OtherTypes'
  BY <1>1, <1>2 DEF PoolTypes, QueueTypes, OtherTypes
<1>9. TypeOK'
  BY <1>6, <1>7, <1>8, Zenon DEF TypeOK, Flags, PoolTypes, QueueTypes, FrameTypes, OtherTypes
<1>10. /\ StoppedInv' /\ LiveInv' /\ QueueInv' /\ Running /\ Running' /\ QueuedBufs' = QueuedBufs
       /\ QueuedBufs \in Seq(Bufs) /\ Placed(freelist, QueuedBufs, HeldBufs)
  BY <1>2 DEF RxInv, StoppedInv, LiveInv, QueueInv, Running, QueuedBufs, Length
<1>11. \A k \in 1 .. Len(frames) : frames[k].at = "upcall"
  <2>1. CASE frames = <<>>
    BY <2>1
  <2>2. CASE frames # <<>>
    <3>1. frames[Len(frames)].at = "upcall"
      BY <2>2 DEF process_deferred_packets, InnermostIs, Innermost
    <3>2. \A k \in 1 .. Len(frames) : k = Len(frames) \/ k < Len(frames)
      BY <1>4
    <3>3. QED
      BY <3>1, <3>2 DEF RxInv, FramesInv
  <2>3. QED
    BY <2>1, <2>2
<1>12. \A k \in 1 .. Len(frames') : k \in 1 .. Len(frames) \/ k = Len(frames')
  BY <1>4, <1>5
<1>13. FramesInv'
  <2>1. ASSUME NEW k \in 1 .. Len(frames')
        PROVE  FrameOK(frames[k])' /\ (k < Len(frames') => frames'[k].at = "upcall")
    <3>1. CASE k = Len(frames')
      BY <1>3, <1>4, <1>5, <3>1 DEF FrameOK
    <3>2. CASE k \in 1 .. Len(frames)
      <4>1. frames'[k] = frames[k] /\ FrameOK(frames[k]) /\ frames[k].at = "upcall"
        BY <1>5, <1>11, <3>2 DEF RxInv, FramesInv
      <4>2. QED
        BY <1>2, <4>1 DEF FrameOK
    <3>3. QED
      BY <1>12, <3>1, <3>2
  <2>2. QED
    BY <2>1 DEF FramesInv
<1>14. Placed(freelist', QueuedBufs', HeldBufs')
  <2>1. /\ HeldBufs \in Seq(Bufs \cup {None}) /\ Len(HeldBufs) = Len(frames)
        /\ \A k \in 1 .. Len(frames) : HeldBufs[k] = frames[k].buf
    BY <1>4, HeldFacts DEF HeldBufs
  <2>2. HeldBufs' = [k \in 1 .. Len(frames') |-> frames'[k].buf]
    BY DEF HeldBufs
  <2>3. /\ HeldBufs' \in Seq(Bufs \cup {None}) /\ Len(HeldBufs') = Len(frames')
        /\ \A k \in 1 .. Len(frames') : HeldBufs'[k] = frames'[k].buf
    BY <1>5, <2>2, HeldFacts
  <2>4. \A k \in 1 .. Len(HeldBufs') :
           HeldBufs'[k] = None \/ (k \in 1 .. Len(HeldBufs) /\ HeldBufs'[k] = HeldBufs[k])
    BY <1>3, <1>5, <1>12, <2>1, <2>3
  <2>5. \A k \in 1 .. Len(frames) : k \in 1 .. Len(frames')
    BY <1>4, <1>5
  <2>6. \A k \in 1 .. Len(HeldBufs) : k \in 1 .. Len(HeldBufs') /\ HeldBufs'[k] = HeldBufs[k]
    BY <1>5, <2>1, <2>3, <2>5
  <2>7. freelist \in Seq(Bufs)
    BY <1>1 DEF PoolTypes
  <2>8. Placed(freelist, QueuedBufs, HeldBufs')
    BY <1>10, <2>1, <2>3, <2>4, <2>6, <2>7, PlacedSame
  <2>9. QED
    BY <1>2, <1>10, <2>8
<1>15. ~InnermostIs("have")'
  BY <1>3, <1>5 DEF InnermostIs, Innermost
<1>16. QED
  BY <1>9, <1>10, <1>13, <1>14, <1>15 DEF RxInv

\* The activation that has taken buffer b with packet p.
Taken(b, p) == [NewFrame EXCEPT !.at = "have", !.buf = b, !.pkt = p]

\* What the record of an activation that has taken a packet holds.
LEMMA TakenFacts ==
    ASSUME NEW b \in Bufs, NEW p \in Packets \cup {None}
    PROVE  /\ Taken(b, p) \in Frame
           /\ Taken(b, p).at = "have" /\ Taken(b, p).buf = b
           /\ Taken(b, p).xms = None /\ Taken(b, p).pkt = p
<1>1. NewFrame \in Frame /\ NewFrame.xms = None
  BY DEF NewFrame, Frame
<1>2. QED
  BY <1>1 DEF Taken, Frame

\* spsc_queue_dequeue hands the oldest buffer to the innermost activation.
LEMMA DequeueStep ==
    ASSUME RxInv, spsc_queue_dequeue
    PROVE  RxInv'
<1>1. TypeOK /\ Flags /\ PoolTypes /\ QueueTypes /\ FrameTypes /\ OtherTypes
  BY TypeParts DEF RxInv
<1> PICK b : b = queue[qhead]
  OBVIOUS
<1>0. PICK f : f = Taken(b, data[b])
  OBVIOUS
<1>2. /\ frames # <<>> /\ Innermost.at = "loop" /\ qhead # qtail /\ Becomes(f)
      /\ qhead' = Advance(qhead)
      /\ UNCHANGED <<active, xms_enabled, staging, freelist, in_use, data, size, queue, qtail,
                     xms_free, stage, arrived, delivered, dangling>>
  BY <1>0 DEF spsc_queue_dequeue, InnermostIs, pool, content, history, Taken
<1>3. /\ Running /\ freelist \in Seq(Bufs) /\ QueuedBufs \in Seq(Bufs)
      /\ HeldBufs \in Seq(Bufs \cup {None}) /\ Len(HeldBufs) = Len(frames)
      /\ Len(frames) \in Nat /\ Len(frames) \in 1 .. Len(frames)
      /\ HeldBufs[Len(frames)] = Innermost.buf /\ FrameOK(Innermost)
      /\ Placed(freelist, QueuedBufs, HeldBufs)
  BY <1>2, Busy
<1>4. /\ QueuedBufs # <<>> /\ b = Head(QueuedBufs) /\ b \in Bufs
      /\ QueuedBufs' = Tail(QueuedBufs) /\ Length = Length' + 1 /\ Length' \in Nat
      /\ qhead' \in Index
  BY <1>1, <1>2, <1>3, Dequeued
<1>5. Length \in Nat /\ Len(QueuedBufs) = Length
  BY <1>1, QueueFacts
<1>6. /\ QueuedBufs' \in Seq(Bufs)
      /\ \A k \in 1 .. Length' : QueuedBufs'[k] = QueuedBufs[k + 1]
  <2>1. PICK n : n = Length'
    OBVIOUS
  <2>2. /\ Tail(QueuedBufs) \in Seq(Bufs)
        /\ \A k \in 1 .. n : Tail(QueuedBufs)[k] = QueuedBufs[k + 1]
    BY <1>3, <1>4, <1>5, <2>1, HeadTailProperties
  <2>3. QED
    BY <1>4, <2>1, <2>2
<1>7. data[b] \in Packets
  <2>1. PICK n : n = Length'
    OBVIOUS
  <2>2. n \in Nat /\ Length = n + 1
    BY <1>4, <2>1
  <2>0. 1 \in 1 .. Length
    BY <2>2
  <2>3. QueuedBufs[1] = b
    BY <1>3, <1>4
  <2>4. QED
    BY <1>3, <2>0, <2>3 DEF RxInv, QueueInv
<1>8. /\ f \in Frame /\ f.at = "have" /\ f.buf = b /\ f.xms = None /\ f.pkt = data[b]
      /\ b # None
  <2>1. b # None
    BY <1>4 DEF Bufs, None
  <2>2. QED
    BY <1>0, <1>4, <1>7, <2>1, TakenFacts
<1>9. FrameOK(f)
  BY <1>7, <1>8 DEF FrameOK
<1>10. /\ FramesInv' /\ FrameTypes' /\ frames' # <<>>
       /\ HeldBufs' \in Seq(Bufs \cup {None}) /\ Len(HeldBufs') = Len(HeldBufs)
       /\ HeldBufs'[Len(HeldBufs)] = b
       /\ \A k \in 1 .. Len(HeldBufs) : k # Len(HeldBufs) => HeldBufs'[k] = HeldBufs[k]
  BY <1>2, <1>8, <1>9, ChangedOK
<1>11. Placed(freelist', QueuedBufs', HeldBufs')
  <2>1. HeldBufs[Len(HeldBufs)] = None /\ HeldBufs # <<>>
    BY <1>2, <1>3 DEF FrameOK
  <2>2. \A k \in 1 .. Len(HeldBufs) - 1 : HeldBufs'[k] = HeldBufs[k]
    BY <1>3, <1>10
  <2>3. Placed(freelist, Tail(QueuedBufs), HeldBufs')
    BY <1>3, <1>4, <1>10, <2>1, <2>2, PlacedDequeue
  <2>4. QED
    BY <1>2, <1>4, <2>3
<1>12. QueueInv'
  <2>1. PICK n : n = Length'
    OBVIOUS
  <2>0. n \in Nat /\ Length = n + 1
    BY <1>4, <2>1
  <2>2. \A k \in 1 .. n : k + 1 \in 1 .. Length
    BY <2>0
  <2>3. \A k \in 1 .. n : data[QueuedBufs[k + 1]] \in Packets
    BY <1>3, <2>2 DEF RxInv, QueueInv
  <2>4. QED
    BY <1>2, <1>6, <2>1, <2>3 DEF QueueInv
<1>13. StoppedInv' /\ LiveInv'
  BY <1>2, <1>3 DEF RxInv, StoppedInv, LiveInv, Running
<1>14. Flags'
  BY <1>1, <1>2, Zenon DEF Flags
<1>15. PoolTypes' /\ QueueTypes' /\ OtherTypes'
  BY <1>1, <1>2, <1>4 DEF PoolTypes, QueueTypes, OtherTypes
<1>16. TypeOK'
  BY <1>10, <1>14, <1>15, Zenon
     DEF TypeOK, Flags, PoolTypes, QueueTypes, FrameTypes, OtherTypes
<1>17. QED
  BY <1>10, <1>11, <1>12, <1>13, <1>16 DEF RxInv

(***************************************************************************)
(* The steps that leave the queue alone: what remains to be shown is that  *)
(* the freelist and the activations stay well formed.                      *)
(***************************************************************************)
LEMMA OffQueueStep ==
    ASSUME RxInv, frames # <<>>, FramesInv', FrameTypes',
           UNCHANGED <<active, xms_enabled, staging, data, size, queue, qhead, qtail,
                       stage, arrived, dangling>>,
           freelist' \in Seq(Bufs), in_use' \subseteq Bufs, xms_free' \subseteq XmsBufs,
           delivered' \in Seq(Packets),
           Placed(freelist', QueuedBufs, HeldBufs')
    PROVE  RxInv'
<1>1. TypeOK /\ Flags /\ PoolTypes /\ QueueTypes /\ FrameTypes /\ OtherTypes
  BY TypeParts DEF RxInv
<1>2. Running /\ active /\ stage = "none"
  BY Busy
<1>3. Flags'
  BY <1>1, Zenon DEF Flags
<1>4. PoolTypes' /\ QueueTypes' /\ OtherTypes'
  BY <1>1 DEF PoolTypes, QueueTypes, OtherTypes
<1>5. TypeOK'
  BY <1>3, <1>4, Zenon DEF TypeOK, Flags, PoolTypes, QueueTypes, FrameTypes, OtherTypes
<1>6. /\ StoppedInv' /\ LiveInv' /\ QueueInv' /\ QueuedBufs' = QueuedBufs
  BY <1>2 DEF RxInv, StoppedInv, LiveInv, QueueInv, Running, QueuedBufs, Length
<1>7. QED
  BY <1>5, <1>6 DEF RxInv

\* staging_buffer_free of the held buffer, which the activation then drops.
LEMMA FreedOK ==
    ASSUME RxInv, frames # <<>>, Held # None, staging_buffer_free(Held),
           HeldBufs' \in Seq(Bufs \cup {None}),
           \/ Len(HeldBufs') = Len(HeldBufs) /\ HeldBufs'[Len(HeldBufs)] = None
           \/ Len(HeldBufs') = Len(HeldBufs) - 1,
           \A k \in 1 .. Len(HeldBufs) - 1 : HeldBufs'[k] = HeldBufs[k]
    PROVE  /\ freelist' \in Seq(Bufs) /\ in_use' \subseteq Bufs
           /\ Placed(freelist', QueuedBufs, HeldBufs')
<1> PICK c : c = Held
  OBVIOUS
<1>1. /\ freelist \in Seq(Bufs) /\ QueuedBufs \in Seq(Bufs) /\ Innermost \in Frame
      /\ HeldBufs \in Seq(Bufs \cup {None}) /\ Len(HeldBufs) = Len(frames)
      /\ Len(frames) \in 1 .. Len(frames)
      /\ HeldBufs[Len(frames)] = Innermost.buf
      /\ Placed(freelist, QueuedBufs, HeldBufs)
  BY Busy
<1>2. c \in Bufs
  BY <1>1 DEF Held, Frame
<1>3. HeldBufs # <<>> /\ HeldBufs[Len(HeldBufs)] = c
  BY <1>1 DEF Held
<1>4. freelist' = <<c>> \o freelist /\ in_use' = in_use \ {c}
  BY DEF staging_buffer_free
<1>5. freelist' \in Seq(Bufs) /\ in_use' \subseteq Bufs
  BY <1>1, <1>2, <1>4, ConcatProperties DEF RxInv, TypeOK
<1>6. Placed(<<c>> \o freelist, QueuedBufs, HeldBufs')
  BY <1>1, <1>2, <1>3, PlacedFree
<1>7. QED
  BY <1>4, <1>5, <1>6

\* The innermost activation has a buffer that holds its packet.
LEMMA HasPacket ==
    ASSUME RxInv, InnermostIs("have")
    PROVE  /\ frames # <<>> /\ Held \in Bufs /\ Held # None /\ Innermost.xms = None
           /\ data[Held] = Innermost.pkt /\ data[Held] \in Packets
<1>1. frames # <<>> /\ Innermost.at = "have"
  BY DEF InnermostIs
<1>2. Innermost \in Frame /\ FrameOK(Innermost)
  BY <1>1, Busy
<1>3. QED
  BY <1>1, <1>2 DEF FrameOK, Held, Frame

\* A set of natural numbers that is not empty has a least member.
LEMMA LeastExists ==
    ASSUME NEW S \in SUBSET Nat, S # {}
    PROVE  \E n \in S : \A m \in S : n <= m
<1> DEFINE R == {ss \in Nat \X Nat : ss[1] < ss[2]}
<1>1. R = OpToRel(<, Nat)
  BY Zenon DEF OpToRel
<1>2. IsWellFoundedOn(R, Nat)
  BY <1>1, NatLessThanWellFounded, Zenon
<1> HIDE DEF R
<1>3. PICK n \in S : \A m \in S : ~ (<<m, n>> \in R)
  BY <1>2, WFMin
<1>4. ASSUME NEW m \in Nat, NEW k \in Nat, m < k PROVE <<m, k>> \in R
  <2>1. <<m, k>> \in Nat \X Nat /\ <<m, k>>[1] = m /\ <<m, k>>[2] = k
    OBVIOUS
  <2>2. <<m, k>>[1] < <<m, k>>[2]
    BY <1>4, <2>1
  <2>3. QED
    BY <2>1, <2>2, Zenon DEF R
<1>5. ASSUME NEW m \in S PROVE n <= m
  <2>1. m \in Nat /\ n \in Nat
    OBVIOUS
  <2>2. ~ (m < n)
    BY <1>3, <1>4, <2>1, Zenon
  <2>3. QED
    BY <2>1, <2>2
<1>6. QED
  BY <1>5

\* The least XMS buffer of the map is one of it.
LEMMA FirstIn ==
    ASSUME xms_free \subseteq XmsBufs, xms_free # {}
    PROVE  First(xms_free) \in xms_free
<1>1. xms_free \subseteq Nat
  BY DEF XmsBufs
<1>2. \E i \in xms_free : \A j \in xms_free : i <= j
  BY <1>1, LeastExists
<1>3. QED
  BY <1>2 DEF First

\* The innermost activation hands its packet over and goes into the upcall as
\* f, with the staging buffer freed or kept.
LEMMA HandOverStep ==
    ASSUME RxInv, InnermostIs("have"), NEW f \in Frame, Becomes(f),
           f.at = "upcall", f.pkt = Innermost.pkt,
           \/ f.buf = None /\ staging_buffer_free(Held)
           \/ f.buf = Held /\ UNCHANGED <<freelist, in_use>>,
           UNCHANGED <<active, xms_enabled, staging, data, size, queue, qhead, qtail,
                       stage, arrived, dangling>>,
           xms_free' \subseteq XmsBufs, Hands(data[Held]) \/ UNCHANGED delivered
    PROVE  RxInv'
<1>1. /\ frames # <<>> /\ Held \in Bufs /\ Held # None
      /\ data[Held] = Innermost.pkt /\ data[Held] \in Packets
  BY HasPacket
<1>2. FrameOK(f)
  BY <1>1 DEF FrameOK
<1>3. /\ FramesInv' /\ FrameTypes' /\ frames' # <<>>
      /\ HeldBufs' \in Seq(Bufs \cup {None}) /\ Len(HeldBufs') = Len(HeldBufs)
      /\ HeldBufs'[Len(HeldBufs)] = f.buf
      /\ \A k \in 1 .. Len(HeldBufs) : k # Len(HeldBufs) => HeldBufs'[k] = HeldBufs[k]
  BY <1>1, <1>2, ChangedOK
<1>4. /\ freelist \in Seq(Bufs) /\ QueuedBufs \in Seq(Bufs)
      /\ HeldBufs \in Seq(Bufs \cup {None}) /\ Len(HeldBufs) = Len(frames)
      /\ Len(frames) \in Nat /\ HeldBufs[Len(frames)] = Innermost.buf
      /\ Placed(freelist, QueuedBufs, HeldBufs)
  BY <1>1, Busy
<1>5. delivered' \in Seq(Packets)
  <2>1. delivered \in Seq(Packets)
    BY DEF RxInv, TypeOK
  <2>2. Append(delivered, data[Held]) \in Seq(Packets)
    BY <1>1, <2>1
  <2>3. QED
    BY <2>1, <2>2 DEF Hands
<1>6. CASE f.buf = None /\ staging_buffer_free(Held)
  <2>1. \A k \in 1 .. Len(HeldBufs) - 1 : HeldBufs'[k] = HeldBufs[k]
    <3>1. PICK n : n = Len(HeldBufs)
      OBVIOUS
    <3>2. n \in Nat /\ \A k \in 1 .. n - 1 : k \in 1 .. n /\ k # n
      BY <1>4, <3>1
    <3>3. QED
      BY <1>3, <3>1, <3>2
  <2>2. /\ freelist' \in Seq(Bufs) /\ in_use' \subseteq Bufs
        /\ Placed(freelist', QueuedBufs, HeldBufs')
    BY <1>1, <1>3, <1>6, <2>1, FreedOK
  <2>3. QED
    BY <1>1, <1>3, <1>5, <2>2, OffQueueStep
<1>7. CASE f.buf = Held /\ UNCHANGED <<freelist, in_use>>
  <2>1. \A k \in 1 .. Len(HeldBufs) : HeldBufs'[k] = HeldBufs[k]
    BY <1>3, <1>4, <1>7 DEF Held
  <2>2. Placed(freelist, QueuedBufs, HeldBufs')
    BY <1>3, <1>4, <2>1, PlacedSame
  <2>3. freelist' \in Seq(Bufs) /\ in_use' \subseteq Bufs
    BY <1>4, <1>7 DEF RxInv, TypeOK
  <2>4. QED
    BY <1>1, <1>3, <1>5, <1>7, <2>2, <2>3, OffQueueStep
<1>8. QED
  BY <1>6, <1>7

\* nothing_left: the queue is empty and the loop returns.
LEMMA LeaveStep ==
    ASSUME RxInv, nothing_left
    PROVE  RxInv'
<1>1. /\ frames # <<>> /\ Innermost.at = "loop" /\ Returns
      /\ UNCHANGED <<active, xms_enabled, staging, freelist, in_use, data, size, queue, qhead, qtail,
                     xms_free, stage, arrived, delivered, dangling>>
  BY DEF nothing_left, InnermostIs, pool, content, spsc, history
<1>2. /\ FramesInv' /\ FrameTypes'
      /\ HeldBufs' \in Seq(Bufs \cup {None}) /\ Len(HeldBufs') = Len(HeldBufs) - 1
      /\ \A k \in 1 .. Len(HeldBufs') : HeldBufs'[k] = HeldBufs[k]
  BY <1>1, ReturnedOK
<1>3. /\ freelist \in Seq(Bufs) /\ QueuedBufs \in Seq(Bufs)
      /\ HeldBufs \in Seq(Bufs \cup {None}) /\ Len(HeldBufs) = Len(frames)
      /\ Len(frames) \in Nat /\ HeldBufs[Len(frames)] = Innermost.buf /\ FrameOK(Innermost)
      /\ Placed(freelist, QueuedBufs, HeldBufs)
  BY <1>1, Busy
<1>4. HeldBufs[Len(HeldBufs)] = None
  BY <1>1, <1>3 DEF FrameOK
<1>5. PICK n : n = Len(HeldBufs')
  OBVIOUS
<1>6. n \in Nat /\ Len(HeldBufs) = n + 1
  BY <1>2, <1>3, <1>5
<1>7. \A k \in 1 .. n : k \in 1 .. n + 1
  BY <1>6
<1>8. \A k \in 1 .. n + 1 : k = n + 1 \/ k \in 1 .. n
  BY <1>6
<1>9. Placed(freelist, QueuedBufs, HeldBufs')
  BY <1>2, <1>3, <1>4, <1>5, <1>6, <1>7, <1>8, PlacedSame
<1>10. in_use' \subseteq Bufs /\ xms_free' \subseteq XmsBufs /\ delivered' \in Seq(Packets)
  BY <1>1 DEF RxInv, TypeOK
<1>11. QED
  BY <1>1, <1>2, <1>3, <1>9, <1>10, OffQueueStep

\* The three ways a packet is handed over.
LEMMA ProcessStep ==
    ASSUME RxInv, by_xms \/ by_copybreak \/ from_staging
    PROVE  RxInv'
<1>1. /\ InnermostIs("have")
      /\ UNCHANGED <<active, xms_enabled, staging, data, size, queue, qhead, qtail,
                     stage, arrived, dangling>>
  BY DEF by_xms, by_copybreak, from_staging, pool, content, spsc
<1>2. /\ frames # <<>> /\ Held \in Bufs /\ Held # None
  BY <1>1, HasPacket
<1>3. Innermost \in Frame
  BY <1>2, Busy
<1>4. xms_free \subseteq XmsBufs
  BY DEF RxInv, TypeOK
<1>5. CASE by_xms
  <2>1. First(xms_free) \in XmsBufs
    BY <1>4, <1>5, FirstIn DEF by_xms
  <2>2. PICK f : f = [Innermost EXCEPT !.at = "upcall", !.buf = None, !.xms = First(xms_free)]
    OBVIOUS
  <2>3. /\ f \in Frame /\ f.at = "upcall" /\ f.pkt = Innermost.pkt /\ f.buf = None
    BY <1>3, <2>1, <2>2 DEF Frame
  <2>4. /\ Becomes(f) /\ staging_buffer_free(Held) /\ xms_free' \subseteq XmsBufs
        /\ Hands(data[Held]) \/ UNCHANGED delivered
    BY <1>4, <1>5, <2>2 DEF by_xms, xms_buffer_alloc, packet_process_from_xms
  <2>5. QED
    BY <1>1, <2>3, <2>4, HandOverStep
<1>6. CASE by_copybreak
  <2>1. PICK f : f = [Innermost EXCEPT !.at = "upcall", !.buf = None]
    OBVIOUS
  <2>2. /\ f \in Frame /\ f.at = "upcall" /\ f.pkt = Innermost.pkt /\ f.buf = None
    BY <1>3, <2>1 DEF Frame
  <2>3. /\ Becomes(f) /\ staging_buffer_free(Held) /\ xms_free' \subseteq XmsBufs
        /\ Hands(data[Held])
    BY <1>4, <1>6, <2>1 DEF by_copybreak
  <2>4. QED
    BY <1>1, <2>2, <2>3, HandOverStep
<1>7. CASE from_staging
  <2>1. PICK f : f = [Innermost EXCEPT !.at = "upcall"]
    OBVIOUS
  <2>2. /\ f \in Frame /\ f.at = "upcall" /\ f.pkt = Innermost.pkt /\ f.buf = Held
    BY <1>3, <2>1 DEF Frame, Held
  <2>3. /\ Becomes(f) /\ xms_free' \subseteq XmsBufs /\ Hands(data[Held])
        /\ UNCHANGED <<freelist, in_use>>
    BY <1>4, <1>7, <2>1 DEF from_staging, pool
  <2>4. QED
    BY <1>1, <2>2, <2>3, HandOverStep
<1>8. QED
  BY <1>5, <1>6, <1>7

\* upcall_done frees what the packet still held.
LEMMA UpcallDoneStep ==
    ASSUME RxInv, upcall_done
    PROVE  RxInv'
<1>1. /\ frames # <<>> /\ Innermost.at = "upcall" /\ (Becomes(NewFrame) \/ Returns)
      /\ UNCHANGED <<active, xms_enabled, staging, data, size, queue, qhead, qtail,
                     stage, arrived, delivered, dangling>>
  BY DEF upcall_done, InnermostIs, content, spsc, history
<1>2. /\ freelist \in Seq(Bufs) /\ QueuedBufs \in Seq(Bufs) /\ Innermost \in Frame
      /\ HeldBufs \in Seq(Bufs \cup {None}) /\ Len(HeldBufs) = Len(frames)
      /\ Len(frames) \in Nat /\ HeldBufs[Len(frames)] = Held
      /\ Len(frames) \in 1 .. Len(frames)
      /\ Placed(freelist, QueuedBufs, HeldBufs)
  BY <1>1, Busy DEF Held
<1>3. /\ xms_free' \subseteq XmsBufs /\ delivered' \in Seq(Packets)
  BY <1>1, <1>2 DEF RxInv, TypeOK, upcall_done, xms_buffer_free, Frame
<1>4. PICK n : n = Len(HeldBufs)
  OBVIOUS
<1>5. n \in Nat /\ n \in 1 .. n /\ \A k \in 1 .. n - 1 : k \in 1 .. n /\ k # n
  BY <1>2, <1>4
<1>6. /\ FramesInv' /\ FrameTypes'
      /\ HeldBufs' \in Seq(Bufs \cup {None})
      /\ \/ Len(HeldBufs') = n /\ HeldBufs'[n] = None
         \/ Len(HeldBufs') = n - 1
      /\ \A k \in 1 .. n - 1 : HeldBufs'[k] = HeldBufs[k]
  <2>1. CASE Becomes(NewFrame)
    <3>1. NewFrame \in Frame /\ FrameOK(NewFrame) /\ NewFrame.buf = None
      BY DEF NewFrame, Frame, FrameOK
    <3>2. /\ FramesInv' /\ FrameTypes'
          /\ HeldBufs' \in Seq(Bufs \cup {None}) /\ Len(HeldBufs') = Len(HeldBufs)
          /\ HeldBufs'[Len(HeldBufs)] = NewFrame.buf
          /\ \A k \in 1 .. Len(HeldBufs) : k # Len(HeldBufs) => HeldBufs'[k] = HeldBufs[k]
      BY <1>1, <2>1, <3>1, ChangedOK
    <3>3. QED
      BY <1>4, <1>5, <3>1, <3>2
  <2>2. CASE Returns
    <3>1. /\ FramesInv' /\ FrameTypes'
          /\ HeldBufs' \in Seq(Bufs \cup {None}) /\ Len(HeldBufs') = Len(HeldBufs) - 1
          /\ \A k \in 1 .. Len(HeldBufs') : HeldBufs'[k] = HeldBufs[k]
      BY <1>1, <2>2, ReturnedOK
    <3>2. QED
      BY <1>4, <3>1
  <2>3. QED
    BY <1>1, <2>1, <2>2
<1>7. CASE Held # None
  <2>1. staging_buffer_free(Held)
    BY <1>7 DEF upcall_done
  <2>2. /\ freelist' \in Seq(Bufs) /\ in_use' \subseteq Bufs
        /\ Placed(freelist', QueuedBufs, HeldBufs')
    BY <1>1, <1>4, <1>6, <1>7, <2>1, FreedOK
  <2>3. QED
    BY <1>1, <1>3, <1>6, <2>2, OffQueueStep
<1>8. CASE Held = None
  <2>1. UNCHANGED <<freelist, in_use>>
    BY <1>8 DEF upcall_done
  <2>2. PICK m : m = Len(HeldBufs')
    OBVIOUS
  <2>3. /\ \A k \in 1 .. m : (k = n /\ HeldBufs'[k] = None) \/ (k \in 1 .. n - 1 /\ k \in 1 .. n)
        /\ \A k \in 1 .. n : k = n \/ (k \in 1 .. n - 1 /\ k \in 1 .. m)
    BY <1>5, <1>6, <2>2
  <2>4. Placed(freelist, QueuedBufs, HeldBufs')
    BY <1>2, <1>4, <1>6, <1>8, <2>2, <2>3, PlacedSame
  <2>5. freelist' \in Seq(Bufs) /\ in_use' \subseteq Bufs
    BY <1>2, <2>1 DEF RxInv, TypeOK
  <2>6. QED
    BY <1>1, <1>3, <1>6, <2>1, <2>4, <2>5, OffQueueStep
<1>9. QED
  BY <1>7, <1>8

\* All steps together.
LEMMA NextRx ==
    ASSUME RxInv, [Next]_vars
    PROVE  RxInv'
<1>1. CASE UNCHANGED vars
  <2>1. UNCHANGED <<active, xms_enabled, staging, freelist, in_use, data, size, queue, qhead, qtail,
                    xms_free, frames, stage, arrived, delivered, dangling>>
    BY <1>1 DEF vars, pool, content, spsc, history
  <2>2. TypeOK'
    BY <2>1, Zenon DEF RxInv, TypeOK
  <2>3. /\ Length' = Length /\ QueuedBufs' = QueuedBufs /\ HeldBufs' = HeldBufs /\ Running' = Running
    BY <2>1 DEF Length, QueuedBufs, HeldBufs, Running
  <2>4. StoppedInv' /\ LiveInv' /\ QueueInv' /\ FramesInv'
    BY <2>1, <2>3 DEF RxInv, StoppedInv, LiveInv, QueueInv, FramesInv, FrameOK
  <2>5. QED
    BY <2>1, <2>2, <2>3, <2>4 DEF RxInv
<1>2. CASE Next
  <2>1. CASE \E s \in Sizes : packet_isr_receive(s)
    BY <2>1, DropStep, AcceptStep DEF packet_isr_receive
  <2>2. CASE BottomHalf
    BY <2>2, DequeueStep, LeaveStep, ProcessStep, UpcallDoneStep DEF BottomHalf
  <2>3. QED
    BY <1>2, <2>1, <2>2, StartStep, StopStep, CleanupStep, EnterStep DEF Next
<1>3. QED
  BY <1>1, <1>2

(***************************************************************************)
(* Deferred reception is well formed in every reachable state, for any     *)
(* numbers of buffers, packets and nested upcalls, and with interrupts     *)
(* between any two steps: the inductive invariant.                         *)
(***************************************************************************)
THEOREM RxInvariant == Spec => []RxInv
<1>1. RxInv /\ [Next]_vars => RxInv'
  BY NextRx
<1>2. QED
  BY <1>1, InitRx, PTL DEF Spec

(***************************************************************************)
(* packet_isr_receive never overwrites a packet that is still processed in *)
(* its staging buffer, however deep process_deferred_packets is nested.    *)
(***************************************************************************)
THEOREM HeldStaysIntact == Spec => []HeldIsIntact
<1>1. RxInv => HeldIsIntact
  BY DEF RxInv, FramesInv, FrameOK, HeldIsIntact
<1>2. QED
  BY <1>1, RxInvariant, PTL

-----------------------------------------------------------------------------
(* The XMS buffers.                                                        *)

\* XmsConserved of a map F and a stack s of activations.
XmsOK(F, s) ==
    /\ \A i \in XmsBufs : i \in F <=> \A k \in 1 .. Len(s) : s[k].xms # i
    /\ \A j, k \in 1 .. Len(s) : j # k /\ s[j].xms # None => s[j].xms # s[k].xms

\* XmsConserved as a condition on the free map and the activations.
LEMMA XmsParts ==
    XmsConserved <=> (active /\ stage = "none" /\ xms_enabled => XmsOK(xms_free, frames))
BY DEF XmsConserved, XmsOK

\* Activations without an XMS buffer come and go.
LEMMA XmsKept ==
    ASSUME NEW F, NEW s \in Seq(Frame), NEW t \in Seq(Frame), XmsOK(F, s),
           \A k \in 1 .. Len(t) : t[k].xms = None \/ (k \in 1 .. Len(s) /\ t[k].xms = s[k].xms),
           \A k \in 1 .. Len(s) : s[k].xms = None \/ (k \in 1 .. Len(t) /\ t[k].xms = s[k].xms)
    PROVE  XmsOK(F, t)
<1>1. \A i \in XmsBufs : i # None
  BY DEF XmsBufs, None
<1>2. ASSUME NEW i \in XmsBufs
      PROVE  i \in F <=> \A k \in 1 .. Len(t) : t[k].xms # i
  BY <1>1 DEF XmsOK
<1>3. ASSUME NEW j \in 1 .. Len(t), NEW k \in 1 .. Len(t), j # k, t[j].xms # None
      PROVE  t[j].xms # t[k].xms
  BY <1>3 DEF XmsOK
<1>4. QED
  BY <1>2, <1>3 DEF XmsOK

\* xms_buffer_alloc for the innermost activation.
LEMMA XmsTaken ==
    ASSUME NEW F, NEW s \in Seq(Frame), NEW t \in Seq(Frame), XmsOK(F, s), NEW m \in F,
           m \in XmsBufs, s # <<>>, s[Len(s)].xms = None,
           Len(t) = Len(s), t[Len(s)].xms = m,
           \A k \in 1 .. Len(s) : k # Len(s) => t[k].xms = s[k].xms
    PROVE  XmsOK(F \ {m}, t)
<1>1. \A i \in XmsBufs : i # None
  BY DEF XmsBufs, None
<1>2. Len(s) \in 1 .. Len(s)
  OBVIOUS
<1>3. \A k \in 1 .. Len(s) : s[k].xms # m
  BY DEF XmsOK
<1>4. ASSUME NEW i \in XmsBufs
      PROVE  i \in F \ {m} <=> \A k \in 1 .. Len(t) : t[k].xms # i
  <2>1. CASE i = m
    BY <1>2, <2>1
  <2>2. CASE i # m
    <3>1. i \in F <=> \A k \in 1 .. Len(s) : s[k].xms # i
      BY DEF XmsOK
    <3>2. \A k \in 1 .. Len(s) : s[k].xms # i <=> t[k].xms # i
      BY <1>1, <2>2
    <3>3. QED
      BY <2>2, <3>1, <3>2
  <2>3. QED
    BY <2>1, <2>2
<1>5. ASSUME NEW j \in 1 .. Len(t), NEW k \in 1 .. Len(t), j # k, t[j].xms # None
      PROVE  t[j].xms # t[k].xms
  BY <1>2, <1>3, <1>5 DEF XmsOK
<1>6. QED
  BY <1>4, <1>5 DEF XmsOK

\* xms_buffer_free for the innermost activation.
LEMMA XmsGiven ==
    ASSUME NEW F, NEW s \in Seq(Frame), NEW t \in Seq(Frame), XmsOK(F, s),
           s # <<>>, NEW x, x = s[Len(s)].xms,
           \/ Len(t) = Len(s) /\ t[Len(s)].xms = None
           \/ Len(t) = Len(s) - 1,
           \A k \in 1 .. Len(s) - 1 : t[k].xms = s[k].xms
    PROVE  XmsOK(F \cup ({x} \ {None}), t)
<1>1. \A i \in XmsBufs : i # None
  BY DEF XmsBufs, None
<1>2. Len(s) \in Nat /\ Len(s) \in 1 .. Len(s)
  OBVIOUS
<1>3. /\ \A k \in 1 .. Len(t) :
            t[k].xms = None \/ (k \in 1 .. Len(s) /\ k # Len(s) /\ t[k].xms = s[k].xms)
      /\ \A k \in 1 .. Len(s) : k = Len(s) \/ (k \in 1 .. Len(t) /\ t[k].xms = s[k].xms)
  BY <1>2
<1>4. ASSUME NEW i \in XmsBufs
      PROVE  i \in F \cup ({x} \ {None}) <=> \A k \in 1 .. Len(t) : t[k].xms # i
  <2>1. i # None
    BY <1>1
  <2>2. CASE i = x
    BY <1>2, <1>3, <2>1, <2>2 DEF XmsOK
  <2>3. CASE i # x
    <3>1. i \in F <=> \A k \in 1 .. Len(s) : s[k].xms # i
      BY DEF XmsOK
    <3>2. QED
      BY <1>3, <2>1, <2>3, <3>1
  <2>4. QED
    BY <2>2, <2>3
<1>5. ASSUME NEW j \in 1 .. Len(t), NEW k \in 1 .. Len(t), j # k, t[j].xms # None
      PROVE  t[j].xms # t[k].xms
  BY <1>3, <1>5 DEF XmsOK
<1>6. QED
  BY <1>4, <1>5 DEF XmsOK

\* The bottom half takes and gives back its XMS buffers.
LEMMA XmsBottomHalf ==
    ASSUME RxInv, BottomHalf, XmsOK(xms_free, frames)
    PROVE  XmsOK(xms_free', frames')
<1>1. frames # <<>>
  BY DEF BottomHalf, spsc_queue_dequeue, nothing_left, by_xms, by_copybreak, from_staging,
         upcall_done, InnermostIs
<1>2. /\ frames \in Seq(Frame) /\ Len(frames) \in Nat /\ Len(frames) \in 1 .. Len(frames)
      /\ Innermost \in Frame /\ FrameOK(Innermost) /\ Innermost = frames[Len(frames)]
  BY <1>1, Busy DEF Innermost
<1>3. PICK n : n = Len(frames)
  OBVIOUS
<1>4. n \in Nat /\ \A k \in 1 .. n - 1 : k \in 1 .. n /\ k # n
  BY <1>2, <1>3
<1>5. ASSUME NEW f, Becomes(f)
      PROVE  f \in Frame =>
                /\ frames' \in Seq(Frame) /\ Len(frames') = n /\ frames'[n] = f
                /\ \A k \in 1 .. n : k # n => frames'[k] = frames[k]
                /\ \A k \in 1 .. n - 1 : frames'[k] = frames[k]
  BY <1>1, <1>2, <1>3, <1>4, <1>5, Changed
<1>6. ASSUME Returns
      PROVE  /\ frames' \in Seq(Frame) /\ Len(frames') = n - 1
             /\ \A k \in 1 .. n - 1 : frames'[k] = frames[k]
  BY <1>1, <1>2, <1>3, <1>6, Returned
<1>7. NewFrame \in Frame /\ NewFrame.xms = None
  BY DEF NewFrame, Frame
<1>8. ASSUME NEW f \in Frame, Becomes(f), f.xms = Innermost.xms, UNCHANGED xms_free
      PROVE  XmsOK(xms_free', frames')
  <2>1. \A k \in 1 .. n : frames'[k].xms = frames[k].xms
    BY <1>2, <1>3, <1>5, <1>8
  <2>2. QED
    BY <1>2, <1>3, <1>5, <1>8, <2>1, XmsKept
<1>9. CASE spsc_queue_dequeue
  <2>1. PICK p : p = data[queue[qhead]]
    OBVIOUS
  <2>2. PICK f : f = Taken(queue[qhead], p)
    OBVIOUS
  <2>3. queue[qhead] \in Bufs
    <3>1. QueuedBufs \in Seq(Bufs)
      BY <1>1, Busy
    <3>2. QED
      BY <1>9, <3>1, Dequeued DEF RxInv, spsc_queue_dequeue
  <2>4. p \in Packets \cup {None}
    BY <2>1, <2>3 DEF RxInv, TypeOK
  <2>5. f \in Frame /\ f.xms = None
    BY <2>2, <2>3, <2>4, TakenFacts
  <2>6. Becomes(f) /\ UNCHANGED xms_free
    BY <1>9, <2>1, <2>2 DEF spsc_queue_dequeue, Taken
  <2>7. Innermost.xms = None
    BY <1>2, <1>9 DEF spsc_queue_dequeue, InnermostIs, FrameOK
  <2>8. QED
    BY <1>8, <2>5, <2>6, <2>7
<1>10. CASE nothing_left
  <2>1. Innermost.xms = None /\ Returns /\ UNCHANGED xms_free
    BY <1>2, <1>10 DEF nothing_left, InnermostIs, FrameOK
  <2>2. xms_free' = xms_free \cup ({Innermost.xms} \ {None})
    BY <2>1
  <2>3. QED
    BY <1>1, <1>2, <1>3, <1>6, <2>1, <2>2, XmsGiven
<1>11. CASE by_xms
  <2>1. xms_free \subseteq XmsBufs
    BY DEF RxInv, TypeOK
  <2>2. PICK m : m = First(xms_free)
    OBVIOUS
  <2>3. m \in xms_free /\ m \in XmsBufs
    BY <1>11, <2>1, <2>2, FirstIn DEF by_xms
  <2>4. PICK f : f = [Innermost EXCEPT !.at = "upcall", !.buf = None, !.xms = m]
    OBVIOUS
  <2>5. f \in Frame /\ f.xms = m
    BY <1>2, <2>3, <2>4 DEF Frame
  <2>6. Becomes(f) /\ xms_free' = xms_free \ {m}
    BY <1>11, <2>2, <2>4 DEF by_xms, xms_buffer_alloc
  <2>7. frames[Len(frames)].xms = None
    BY <1>2, <1>11 DEF by_xms, InnermostIs, FrameOK
  <2>8. /\ frames' \in Seq(Frame) /\ Len(frames') = Len(frames) /\ frames'[Len(frames)].xms = m
        /\ \A k \in 1 .. Len(frames) : k # Len(frames) => frames'[k].xms = frames[k].xms
    BY <1>3, <1>5, <2>5, <2>6
  <2>9. XmsOK(xms_free \ {m}, frames')
    BY <1>1, <1>2, <2>3, <2>7, <2>8, XmsTaken
  <2>10. QED
    BY <2>6, <2>9
<1>12. CASE by_copybreak
  <2>1. PICK f : f = [Innermost EXCEPT !.at = "upcall", !.buf = None]
    OBVIOUS
  <2>2. f \in Frame /\ f.xms = Innermost.xms
    BY <1>2, <2>1 DEF Frame
  <2>3. QED
    BY <1>8, <1>12, <2>1, <2>2 DEF by_copybreak
<1>13. CASE from_staging
  <2>1. PICK f : f = [Innermost EXCEPT !.at = "upcall"]
    OBVIOUS
  <2>2. f \in Frame /\ f.xms = Innermost.xms
    BY <1>2, <2>1 DEF Frame
  <2>3. QED
    BY <1>8, <1>13, <2>1, <2>2 DEF from_staging
<1>14. CASE upcall_done
  <2>1. PICK x : x = Innermost.xms
    OBVIOUS
  <2>2. xms_free' = xms_free \cup ({x} \ {None}) /\ (Becomes(NewFrame) \/ Returns)
    BY <1>14, <2>1 DEF upcall_done, xms_buffer_free
  <2>3. /\ frames' \in Seq(Frame)
        /\ \/ Len(frames') = Len(frames) /\ frames'[Len(frames)].xms = None
           \/ Len(frames') = Len(frames) - 1
        /\ \A k \in 1 .. Len(frames) - 1 : frames'[k].xms = frames[k].xms
    BY <1>3, <1>5, <1>6, <1>7, <2>2
  <2>4. XmsOK(xms_free \cup ({x} \ {None}), frames')
    BY <1>1, <1>2, <2>1, <2>3, XmsGiven
  <2>5. QED
    BY <2>2, <2>4
<1>15. QED
  BY <1>9, <1>10, <1>11, <1>12, <1>13, <1>14 DEF BottomHalf

\* Every step keeps the XMS buffers, if the map has a bit more than buffers.
LEMMA XmsStep ==
    ASSUME XmsCount < MapBits, RxInv, XmsConserved, [Next]_vars
    PROVE  XmsConserved'
<1> SUFFICES ASSUME active', stage' = "none", xms_enabled'
             PROVE  XmsOK(xms_free', frames')
  BY DEF XmsConserved, XmsOK
<1>1. CASE packet_bottom_half_init
  <2>1. frames' = <<>>
    BY <1>1 DEF packet_bottom_half_init, RxInv, StoppedInv, Running
  <2>2. xms_free' = XmsBufs
    BY <1>1 DEF packet_bottom_half_init, InitialFreeMap
  <2>3. QED
    BY <2>1, <2>2 DEF XmsOK
<1>2. CASE packet_bottom_half_cleanup \/ Cleanup
  BY <1>2 DEF packet_bottom_half_cleanup, Cleanup, drain_one, drained, reset_head, reset_tail,
              staging_buffer_cleanup, zero_state, CleanupAt
<1>3. ASSUME UNCHANGED <<active, stage, xms_enabled>>
      PROVE  XmsOK(xms_free, frames)
  BY <1>3, XmsParts
<1>4. CASE UNCHANGED vars \/ \E s \in Sizes : packet_isr_receive(s)
  <2>1. UNCHANGED <<active, stage, xms_enabled, xms_free, frames>>
    BY <1>4 DEF vars, packet_isr_receive, isr_drop, isr_accept
  <2>2. QED
    BY <1>3, <2>1
<1>5. CASE process_deferred_packets
  <2>1. /\ UNCHANGED <<active, stage, xms_enabled, xms_free>> /\ frames' = Append(frames, NewFrame)
    BY <1>5 DEF process_deferred_packets
  <2>2. NewFrame \in Frame /\ NewFrame.xms = None
    BY DEF NewFrame, Frame
  <2>3. frames \in Seq(Frame) /\ Len(frames) \in Nat
    BY DEF RxInv, TypeOK
  <2>4. /\ frames' \in Seq(Frame) /\ Len(frames') = Len(frames) + 1
        /\ frames'[Len(frames) + 1] = NewFrame
        /\ \A k \in 1 .. Len(frames) : frames'[k] = frames[k]
    BY <2>1, <2>2, <2>3
  <2>5. /\ \A k \in 1 .. Len(frames') : k = Len(frames) + 1 \/ k \in 1 .. Len(frames)
        /\ \A k \in 1 .. Len(frames) : k \in 1 .. Len(frames')
    BY <2>3, <2>4
  <2>6. XmsOK(xms_free, frames')
    BY <1>3, <2>1, <2>2, <2>3, <2>4, <2>5, XmsKept
  <2>7. QED
    BY <2>1, <2>6
<1>6. CASE BottomHalf
  <2>1. UNCHANGED <<active, stage, xms_enabled>>
    BY <1>6 DEF BottomHalf, spsc_queue_dequeue, nothing_left, by_xms, by_copybreak, from_staging,
                upcall_done
  <2>2. QED
    BY <1>3, <1>6, <2>1, XmsBottomHalf
<1>7. QED
  BY <1>1, <1>2, <1>4, <1>5, <1>6 DEF Next

(***************************************************************************)
(* No way through the bottom half leaks a staging or an XMS buffer or      *)
(* hands one out twice, as long as the XMS pool is narrower than the bit   *)
(* map: (1UL << buffer_count) - 1 is undefined when it is as wide.         *)
(***************************************************************************)
THEOREM BuffersConserved ==
    ASSUME XmsCount < MapBits
    PROVE  Spec => []BufferInv
<1>1. Init => XmsConserved
  BY DEF Init, XmsConserved
<1>2. RxInv /\ XmsConserved /\ [Next]_vars => XmsConserved'
  BY XmsStep
<1>3. RxInv /\ XmsConserved => BufferInv
  <2> SUFFICES ASSUME RxInv, XmsConserved PROVE BufferInv
    OBVIOUS
  <2>1. StagingConserved
    <3> SUFFICES ASSUME active, stage = "none", NEW b \in Bufs
                 PROVE  Places(b) = 1
      BY DEF StagingConserved
    <3>1. TypeOK /\ QueuedBufs \in Seq(Bufs) /\ Placed(freelist, QueuedBufs, HeldBufs)
      BY DEF RxInv, QueueInv, Running
    <3>2. QED
      BY <3>1, PlacesOne
  <2>2. QED
    BY <2>1 DEF RxInv, BufferInv
<1>4. QED
  BY <1>1, <1>2, <1>3, RxInvariant, PTL DEF Spec

-----------------------------------------------------------------------------
(* Deferred reception implements RxFifo.                                   *)

\* The two parts of Waiting: the packet in hand and the packets in the queue.
InHand == IF InnermostIs("have") THEN <<Innermost.pkt>> ELSE <<>>
QueuedPackets == [k \in 1 .. Length |-> data[QueuedBufs[k]]]

\* The abstract queue while packets are processed, and when they are not.
LEMMA WaitingParts == Waiting = IF Running THEN InHand \o QueuedPackets ELSE <<>>
BY DEF Waiting, Running, InHand, QueuedPackets

\* While packets are processed both parts are sequences of packets.
LEMMA WaitingTypes ==
    ASSUME RxInv, Running
    PROVE  /\ InHand \in Seq(Packets) /\ QueuedPackets \in Seq(Packets)
           /\ Len(QueuedPackets) = Length /\ Length \in Nat
           /\ Waiting = InHand \o QueuedPackets
<1>1. Length \in Nat
  BY QueueFacts DEF RxInv
<1>2. \A k \in 1 .. Length : data[QueuedBufs[k]] \in Packets
  BY DEF RxInv, QueueInv
<1>3. QueuedPackets \in Seq(Packets) /\ Len(QueuedPackets) = Length
  BY <1>1, <1>2 DEF QueuedPackets
<1>4. InHand \in Seq(Packets)
  <2>1. CASE InnermostIs("have")
    <3>1. Innermost.pkt \in Packets
      BY <2>1, HasPacket
    <3>2. InHand = <<Innermost.pkt>>
      BY <2>1 DEF InHand
    <3>3. QED
      BY <3>1, <3>2
  <2>2. CASE ~InnermostIs("have")
    BY <2>2 DEF InHand
  <2>3. QED
    BY <2>1, <2>2
<1>5. QED
  BY <1>1, <1>3, <1>4, WaitingParts

\* Appending to the second part appends to the whole.
LEMMA AppendConcat ==
    ASSUME NEW S, NEW s \in Seq(S), NEW t \in Seq(S), NEW e \in S
    PROVE  s \o Append(t, e) = Append(s \o t, e)
<1>1. /\ s \o t \in Seq(S) /\ Append(t, e) \in Seq(S) /\ <<e>> \in Seq(S)
  BY ConcatProperties
<1>2. Append(t, e) = t \o <<e>> /\ Append(s \o t, e) = (s \o t) \o <<e>>
  BY <1>1, AppendIsConcat
<1>3. QED
  BY <1>1, <1>2, ConcatAssociative

\* The head and the tail of a sequence with one member put in front.
LEMMA HeadTailFront ==
    ASSUME NEW S, NEW p \in S, NEW t \in Seq(S)
    PROVE  /\ <<p>> \o t # <<>> /\ Head(<<p>> \o t) = p /\ Tail(<<p>> \o t) = t
<1> PICK u : u = <<p>> \o t
  OBVIOUS
<1>1. /\ u \in Seq(S) /\ Len(u) = Len(t) + 1 /\ Len(t) \in Nat
      /\ u[1] = p /\ \A k \in 1 .. Len(t) : u[k + 1] = t[k]
  OBVIOUS
<1>2. u # <<>> /\ Head(u) = p
  BY <1>1
<1>3. /\ Tail(u) \in Seq(S) /\ Len(Tail(u)) = Len(t)
      /\ \A k \in 1 .. Len(Tail(u)) : Tail(u)[k] = u[k + 1]
  BY <1>1, <1>2, HeadTailProperties
<1>4. Tail(u) = t
  BY <1>1, <1>3, SeqEqual
<1>5. QED
  BY <1>2, <1>4

\* A sequence is its head followed by its tail.
LEMMA HeadTailConcat ==
    ASSUME NEW S, NEW s \in Seq(S), s # <<>>
    PROVE  s = <<Head(s)>> \o Tail(s)
<1> PICK t : t = Tail(s)
  OBVIOUS
<1> PICK u : u = <<Head(s)>> \o t
  OBVIOUS
<1>1. /\ Head(s) \in S /\ t \in Seq(S) /\ Len(t) = Len(s) - 1
      /\ \A k \in 1 .. Len(t) : t[k] = s[k + 1]
      /\ Head(s) = s[1] /\ Len(s) \in Nat /\ Len(s) > 0
  BY HeadTailProperties
<1>2. u \in Seq(S) /\ Len(u) = Len(s) /\ \A k \in 1 .. Len(s) : u[k] = IF k = 1 THEN s[1] ELSE t[k - 1]
  BY <1>1
<1>3. ASSUME NEW k \in 1 .. Len(s), k # 1
      PROVE  t[k - 1] = s[k]
  <2>1. k - 1 \in 1 .. Len(t) /\ (k - 1) + 1 = k
    BY <1>1, <1>3
  <2>2. QED
    BY <1>1, <2>1
<1>4. \A k \in 1 .. Len(s) : u[k] = s[k]
  BY <1>2, <1>3
<1>5. QED
  BY <1>2, <1>4, SeqEqual

\* What is waiting does not change with the queue and the packet in hand.
LEMMA WaitingSame ==
    ASSUME UNCHANGED <<active, stage, data, queue, qhead, qtail>>, InHand' = InHand
    PROVE  Waiting' = Waiting
<1>1. Running' = Running /\ QueuedPackets' = QueuedPackets
  BY DEF Running, QueuedPackets, QueuedBufs, Length
<1>2. Waiting' = IF Running' THEN InHand' \o QueuedPackets' ELSE <<>>
  BY DEF Waiting, Running, InHand, QueuedPackets
<1>3. QED
  BY <1>1, <1>2, WaitingParts

\* An accepted packet joins the end of what is waiting.
LEMMA AcceptWaits ==
    ASSUME RxInv, NEW s \in Sizes, isr_accept(s), Running
    PROVE  Waiting' = Append(Waiting, arrived + 1)
<1>1. TypeOK /\ PoolTypes /\ OtherTypes
  BY TypeParts DEF RxInv
<1> PICK b : b = Head(freelist)
  OBVIOUS
<1>2. /\ arrived < MaxPackets /\ freelist # <<>> /\ Advance(qtail) # qhead
      /\ data' = [data EXCEPT ![b] = arrived + 1] /\ spsc_queue_enqueue(b)
      /\ UNCHANGED <<active, stage, frames>>
  BY DEF isr_accept
<1>3. b \in Bufs /\ freelist \in Seq(Bufs) /\ 1 \in 1 .. Len(freelist) /\ freelist[1] = b /\ b # None
  <2>1. freelist \in Seq(Bufs)
    BY <1>1 DEF PoolTypes
  <2>2. b \in Bufs /\ 1 \in 1 .. Len(freelist) /\ freelist[1] = b
    BY <1>2, <2>1, HeadTailProperties
  <2>3. QED
    BY <2>1, <2>2 DEF Bufs, None
<1>4. QueuedBufs \in Seq(Bufs) /\ Placed(freelist, QueuedBufs, HeldBufs)
  BY DEF RxInv, QueueInv, Running
<1>5. QueuedBufs' = Append(QueuedBufs, b) /\ Length' = Length + 1
  BY <1>1, <1>2, <1>3, <1>4, Enqueued
<1>6. /\ InHand \in Seq(Packets) /\ QueuedPackets \in Seq(Packets)
      /\ Len(QueuedPackets) = Length /\ Length \in Nat
      /\ Waiting = InHand \o QueuedPackets
  BY WaitingTypes
<1>7. Len(QueuedBufs) = Length
  BY <1>1, QueueFacts
<1>8. arrived + 1 \in Packets
  BY <1>1, <1>2, RxAssumption DEF OtherTypes, Packets
<1>9. data'[b] = arrived + 1 /\ \A c \in Bufs : c # b => data'[c] = data[c]
  BY <1>1, <1>2, <1>3 DEF PoolTypes
<1>10. \A k \in 1 .. Length : QueuedBufs[k] \in Bufs /\ QueuedBufs[k] # b
  BY <1>3, <1>4, <1>7, ElementOfSeq DEF Placed, Apart
<1>11. ASSUME NEW k \in 1 .. Length + 1
       PROVE  data'[QueuedBufs'[k]] = IF k = Length + 1 THEN arrived + 1 ELSE QueuedPackets[k]
  <2>1. CASE k = Length + 1
    <3>1. QueuedBufs'[k] = b
      BY <1>3, <1>4, <1>5, <1>7, <2>1
    <3>2. QED
      BY <1>9, <2>1, <3>1
  <2>2. CASE k # Length + 1
    <3>1. k \in 1 .. Length
      BY <1>6, <2>2
    <3>2. QueuedBufs'[k] = QueuedBufs[k]
      BY <1>3, <1>4, <1>5, <1>7, <3>1
    <3>3. QueuedPackets[k] = data[QueuedBufs[k]]
      BY <3>1 DEF QueuedPackets
    <3>4. QED
      BY <1>9, <1>10, <2>2, <3>1, <3>2, <3>3
  <2>3. QED
    BY <2>1, <2>2
<1>12. QueuedPackets' = Append(QueuedPackets, arrived + 1)
  <2>1. QueuedPackets' = [k \in 1 .. Length + 1 |-> data'[QueuedBufs'[k]]]
    BY <1>5 DEF QueuedPackets
  <2>2. QueuedPackets' = [k \in 1 .. Len(QueuedPackets) + 1 |->
                             IF k = Len(QueuedPackets) + 1 THEN arrived + 1 ELSE QueuedPackets[k]]
    BY <1>6, <1>11, <2>1
  <2>3. QED
    BY <1>6, <1>8, <2>2, IsAppend
<1>13. InHand' = InHand
  BY <1>2 DEF InHand, InnermostIs, Innermost
<1>14. Waiting' = InHand' \o QueuedPackets'
  BY <1>2 DEF Waiting, Running, InHand, QueuedPackets
<1>15. QED
  BY <1>6, <1>8, <1>12, <1>13, <1>14, AppendConcat

\* Dequeueing takes the oldest packet in hand: what is waiting is the same.
LEMMA DequeueWaits ==
    ASSUME RxInv, spsc_queue_dequeue
    PROVE  Waiting' = Waiting
<1>1. TypeOK
  BY DEF RxInv
<1> PICK b : b = queue[qhead]
  OBVIOUS
<1>2. /\ frames # <<>> /\ Innermost.at = "loop" /\ qhead # qtail
      /\ Becomes(Taken(b, data[b])) /\ qhead' = Advance(qhead)
      /\ UNCHANGED <<active, stage, data, queue, qtail>>
  BY DEF spsc_queue_dequeue, InnermostIs, content, Taken
<1>3. Running /\ QueuedBufs \in Seq(Bufs) /\ frames \in Seq(Frame)
  BY <1>2, Busy
<1>4. /\ QueuedBufs # <<>> /\ b = Head(QueuedBufs) /\ b \in Bufs
      /\ QueuedBufs' = Tail(QueuedBufs) /\ Length = Length' + 1 /\ Length' \in Nat
  BY <1>1, <1>2, <1>3, Dequeued
<1>5. /\ QueuedPackets \in Seq(Packets) /\ Len(QueuedPackets) = Length /\ Length \in Nat
      /\ Waiting = InHand \o QueuedPackets
  BY <1>3, WaitingTypes
<1>6. PICK n : n = Length'
  OBVIOUS
<1>7. n \in Nat /\ Length = n + 1 /\ Len(QueuedBufs) = n + 1
  BY <1>1, <1>4, <1>6, QueueFacts
<1>8. QueuedPackets # <<>>
  BY <1>5, <1>7
<1>9. QueuedBufs[1] = b /\ \A k \in 1 .. n : Tail(QueuedBufs)[k] = QueuedBufs[k + 1]
  BY <1>3, <1>4, <1>7, HeadTailProperties
<1>10. /\ \A k \in 1 .. n + 1 : QueuedPackets[k] = data[QueuedBufs[k]]
       /\ \A k \in 1 .. n : k + 1 \in 1 .. n + 1
       /\ 1 \in 1 .. n + 1
  BY <1>7 DEF QueuedPackets
<1>11. QueuedPackets' = Tail(QueuedPackets)
  <2>1. QueuedPackets' = [k \in 1 .. n |-> data[Tail(QueuedBufs)[k]]]
    BY <1>2, <1>4, <1>6 DEF QueuedPackets
  <2>2. \A k \in 1 .. n : data[Tail(QueuedBufs)[k]] = QueuedPackets[k + 1]
    BY <1>9, <1>10
  <2>3. Len(QueuedPackets) - 1 = n
    BY <1>5, <1>7
  <2>4. QueuedPackets' = [k \in 1 .. Len(QueuedPackets) - 1 |-> QueuedPackets[k + 1]]
    BY <2>1, <2>2, <2>3
  <2>5. QED
    BY <1>5, <1>8, <2>4, IsTail
<1>12. Head(QueuedPackets) = data[b]
  BY <1>5, <1>8, <1>9, <1>10
<1>13. InHand = <<>>
  BY <1>2 DEF InHand, InnermostIs
<1>14. InHand' = <<data[b]>>
  <2>1. data[b] \in Packets
    BY <1>5, <1>8, <1>12, HeadTailProperties
  <2>2. Taken(b, data[b]) \in Frame /\ Taken(b, data[b]).at = "have" /\ Taken(b, data[b]).pkt = data[b]
    BY <1>4, <2>1, TakenFacts
  <2>3. frames' # <<>> /\ Len(frames') = Len(frames) /\ frames'[Len(frames)] = Taken(b, data[b])
    BY <1>2, <1>3, <2>2, Changed
  <2>4. QED
    BY <2>2, <2>3 DEF InHand, InnermostIs, Innermost
<1>15. Waiting' = InHand' \o QueuedPackets'
  BY <1>2, <1>3 DEF Waiting, Running, InHand, QueuedPackets
<1>16. QueuedPackets = <<data[b]>> \o Tail(QueuedPackets)
  BY <1>5, <1>8, <1>12, HeadTailConcat
<1>17. QED
  BY <1>5, <1>11, <1>13, <1>14, <1>15, <1>16, ConcatEmptySeq

\* Handing a packet over, or losing it, takes the oldest one.
LEMMA ProcessWaits ==
    ASSUME RxInv, by_xms \/ by_copybreak \/ from_staging
    PROVE  /\ Waiting # <<>> /\ Waiting' = Tail(Waiting)
           /\ delivered' = Append(delivered, Head(Waiting)) \/ delivered' = delivered
<1>1. /\ InnermostIs("have")
      /\ UNCHANGED <<active, stage, data, queue, qhead, qtail>>
      /\ Hands(data[Held]) \/ UNCHANGED delivered
  BY DEF by_xms, by_copybreak, from_staging, pool, content, spsc, packet_process_from_xms
<1>2. /\ frames # <<>> /\ data[Held] = Innermost.pkt /\ data[Held] \in Packets
  BY <1>1, HasPacket
<1>3. Running /\ frames \in Seq(Frame) /\ Innermost \in Frame /\ Len(frames) \in 1 .. Len(frames)
  BY <1>2, Busy
<1>4. QueuedPackets \in Seq(Packets) /\ Waiting = InHand \o QueuedPackets
  BY <1>3, WaitingTypes
<1>5. InHand = <<data[Held]>>
  BY <1>1, <1>2 DEF InHand
<1>6. /\ Waiting # <<>> /\ Head(Waiting) = data[Held] /\ Tail(Waiting) = QueuedPackets
  BY <1>2, <1>4, <1>5, HeadTailFront
<1>7. InHand' = <<>>
  <2>1. ASSUME NEW f, f.at = "upcall", Becomes(f)
        PROVE  InHand' = <<>>
    <3>1. Len(frames') = Len(frames) /\ frames'[Len(frames)] = f
      BY <1>3, <2>1 DEF Becomes
    <3>2. QED
      BY <2>1, <3>1 DEF InHand, InnermostIs, Innermost
  <2>2. CASE by_xms
    <3>1. PICK f : f = [Innermost EXCEPT !.at = "upcall", !.buf = None, !.xms = First(xms_free)]
      OBVIOUS
    <3>2. f.at = "upcall"
      BY <1>3, <3>1 DEF Frame
    <3>3. QED
      BY <2>1, <2>2, <3>1, <3>2 DEF by_xms
  <2>3. CASE by_copybreak
    <3>1. PICK f : f = [Innermost EXCEPT !.at = "upcall", !.buf = None]
      OBVIOUS
    <3>2. f.at = "upcall"
      BY <1>3, <3>1 DEF Frame
    <3>3. QED
      BY <2>1, <2>3, <3>1, <3>2 DEF by_copybreak
  <2>4. CASE from_staging
    <3>1. PICK f : f = [Innermost EXCEPT !.at = "upcall"]
      OBVIOUS
    <3>2. f.at = "upcall"
      BY <1>3, <3>1 DEF Frame
    <3>3. QED
      BY <2>1, <2>4, <3>1, <3>2 DEF from_staging
  <2>5. QED
    BY <2>2, <2>3, <2>4
<1>8. Waiting' = InHand' \o QueuedPackets' /\ QueuedPackets' = QueuedPackets
  BY <1>1, <1>3 DEF Waiting, Running, InHand, QueuedPackets, QueuedBufs, Length
<1>9. Waiting' = QueuedPackets
  BY <1>4, <1>7, <1>8, ConcatEmptySeq
<1>10. QED
  BY <1>1, <1>6, <1>9 DEF Hands

\* The loop and the upcall come and go without a packet in hand.
LEMMA LoopWaits ==
    ASSUME RxInv, process_deferred_packets \/ nothing_left \/ upcall_done
    PROVE  UNCHANGED <<arrived, delivered>> /\ Waiting' = Waiting
<1>1. UNCHANGED <<active, stage, data, queue, qhead, qtail, arrived, delivered>>
  BY DEF process_deferred_packets, nothing_left, upcall_done, pool, content, spsc, history
<1>2. ~InnermostIs("have")
  BY DEF process_deferred_packets, nothing_left, upcall_done, InnermostIs
<1>3. ~InnermostIs("have")'
  <2>1. CASE process_deferred_packets
    BY <2>1, EnterStep
  <2>2. CASE nothing_left
    BY <1>1, <2>2, ReturnedOK DEF nothing_left, InnermostIs
  <2>3. CASE upcall_done
    <3>1. frames # <<>>
      BY <2>3 DEF upcall_done, InnermostIs
    <3>2. CASE Returns
      BY <1>1, <3>1, <3>2, ReturnedOK
    <3>3. CASE Becomes(NewFrame)
      <4>1. NewFrame \in Frame /\ NewFrame.at = "loop"
        BY DEF NewFrame, Frame
      <4>2. frames \in Seq(Frame)
        BY <3>1, Busy
      <4>3. Len(frames') = Len(frames) /\ frames'[Len(frames)] = NewFrame
        BY <3>1, <3>3, <4>1, <4>2, Changed
      <4>4. QED
        BY <4>1, <4>3 DEF InnermostIs, Innermost
    <3>4. QED
      BY <2>3, <3>2, <3>3 DEF upcall_done
  <2>4. QED
    BY <2>1, <2>2, <2>3
<1>4. InHand' = InHand
  BY <1>2, <1>3 DEF InHand
<1>5. QED
  BY <1>1, <1>4, WaitingSame

\* Every step is a step of RxFifo or leaves what RxFifo sees alone.
LEMMA FifoStep ==
    ASSUME RxInv, [Next]_vars
    PROVE  [Abstract!Next]_(Abstract!vars)
<1> USE DEF Abstract!Next, Abstract!vars
<1>1. CASE UNCHANGED vars
  <2>1. UNCHANGED <<active, stage, data, queue, qhead, qtail, frames, arrived, delivered>>
    BY <1>1 DEF vars, pool, content, spsc, history
  <2>2. InHand' = InHand
    BY <2>1 DEF InHand, InnermostIs, Innermost
  <2>3. QED
    BY <2>1, <2>2, WaitingSame
<1>2. CASE packet_bottom_half_init
  <2>1. ~Running /\ frames' = <<>> /\ UNCHANGED <<arrived, delivered>>
    BY <1>2 DEF packet_bottom_half_init, Running, RxInv, StoppedInv, history
  <2>2. Length' = 0
    <3>1. QueueSize \in Nat /\ QueueSize > 1
      BY RxAssumption
    <3>2. Length' = (0 + QueueSize - 0) % QueueSize
      BY <1>2 DEF packet_bottom_half_init, spsc_queue_init, Length
    <3>3. QED
      BY <3>1, <3>2
  <2>3. InHand' = <<>> /\ QueuedPackets' = <<>>
    BY <2>1, <2>2 DEF InHand, InnermostIs, QueuedPackets
  <2>4. Waiting' = <<>>
    <3>1. Waiting' = IF Running' THEN InHand' \o QueuedPackets' ELSE <<>>
      BY DEF Waiting, Running, InHand, QueuedPackets
    <3>2. <<>> \o <<>> = <<>>
      BY EmptySeq, ConcatEmptySeq
    <3>3. QED
      BY <2>3, <3>1, <3>2
  <2>5. QED
    BY <2>1, <2>4, WaitingParts
<1>3. CASE packet_bottom_half_cleanup
  <2>1. UNCHANGED <<arrived, delivered>> /\ ~Running'
    BY <1>3 DEF packet_bottom_half_cleanup, CleanupAt, Running, history
  <2>2. Waiting' = <<>>
    BY <2>1 DEF Waiting, Running
  <2>3. QED
    BY <2>1, <2>2 DEF Abstract!Flush
<1>4. CASE Cleanup
  <2>1. UNCHANGED <<arrived, delivered>> /\ ~Running /\ ~Running'
    BY <1>4 DEF Cleanup, drain_one, drained, reset_head, reset_tail, staging_buffer_cleanup,
                zero_state, CleanupAt, Running, history
  <2>2. Waiting = <<>> /\ Waiting' = <<>>
    BY <2>1 DEF Waiting, Running
  <2>3. QED
    BY <2>1, <2>2
<1>5. ASSUME NEW s \in Sizes, isr_drop(s)
      PROVE  Abstract!Refuse
  <2>1. /\ arrived < MaxPackets /\ arrived' = arrived + 1
        /\ UNCHANGED <<active, stage, data, queue, qhead, qtail, frames, delivered>>
    BY <1>5 DEF isr_drop, content, spsc
  <2>2. InHand' = InHand
    BY <2>1 DEF InHand, InnermostIs, Innermost
  <2>3. QED
    BY <2>1, <2>2, WaitingSame DEF Abstract!Refuse
<1>6. ASSUME NEW s \in Sizes, isr_accept(s)
      PROVE  Abstract!Accept \/ Abstract!Refuse
  <2>1. /\ arrived < MaxPackets /\ arrived' = arrived + 1 /\ UNCHANGED <<active, stage, delivered>>
    BY <1>6 DEF isr_accept
  <2>2. CASE Running
    BY <1>6, <2>1, <2>2, AcceptWaits DEF Abstract!Accept
  <2>3. CASE ~Running
    <3>1. Waiting = <<>> /\ Waiting' = <<>>
      BY <2>1, <2>3 DEF Waiting, Running
    <3>2. QED
      BY <2>1, <3>1 DEF Abstract!Refuse
  <2>4. QED
    BY <2>2, <2>3
<1>7. CASE process_deferred_packets \/ nothing_left \/ upcall_done
  BY <1>7, LoopWaits
<1>8. CASE spsc_queue_dequeue
  BY <1>8, DequeueWaits DEF spsc_queue_dequeue, history
<1>9. CASE by_xms \/ by_copybreak \/ from_staging
  <2>1. UNCHANGED arrived
    BY <1>9 DEF by_xms, by_copybreak, from_staging
  <2>2. QED
    BY <1>9, <2>1, ProcessWaits DEF Abstract!Deliver, Abstract!Lose
<1>10. QED
  BY <1>1, <1>2, <1>3, <1>4, <1>5, <1>6, <1>7, <1>8, <1>9 DEF Next, BottomHalf, packet_isr_receive

(***************************************************************************)
(* The staging buffers, the SPSC queue, the nested loops and the ways out  *)
(* of them implement RxFifo: packets are handed to the protocol layer in   *)
(* the order they arrived, each at most once.                              *)
(***************************************************************************)
THEOREM DeliveryRefines == Spec => DeliversInOrder
<1>1. Init => Abstract!Init
  BY DEF Init, Abstract!Init, Waiting
<1>2. RxInv /\ [Next]_vars => [Abstract!Next]_(Abstract!vars)
  BY FifoStep
<1>3. QED
  BY <1>1, <1>2, RxInvariant, PTL DEF Spec, DeliversInOrder, Abstract!Spec
=============================================================================
