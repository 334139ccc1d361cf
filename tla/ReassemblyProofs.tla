--------------------------- MODULE ReassemblyProofs ---------------------------
(***************************************************************************)
(* What the run checks of the reassembly, for any stream of frames, any    *)
(* number of slots, any timeouts, any length of the queue and any number   *)
(* of datagrams.  First the counting of datagrams and bytes, then the      *)
(* inductive invariant, then one lemma for each of its parts.              *)
(***************************************************************************)
EXTENDS Reassembly, FiniteSetTheorems, SequenceTheorems, WellFoundedInduction, TLAPS

-----------------------------------------------------------------------------
(* Counting.  The image of a finite set is finite.                         *)
LEMMA FiniteImage ==
  ASSUME NEW S, IsFiniteSet(S), NEW g, DOMAIN g = S
  PROVE  IsFiniteSet({g[x] : x \in S})
<1> DEFINE T == {g[x] : x \in S}
           h == [x \in S |-> g[x]]
<1>1. h \in Surjection(S, T)
  BY DEF Surjection
<1>2. QED
  BY <1>1, FS_Surjection

LEMMA PairsWithOne ==
  ASSUME NEW x, NEW S, IsFiniteSet(S)
  PROVE  IsFiniteSet({x} \X S) /\ Cardinality({x} \X S) = Cardinality(S)
<1>1. IsFiniteSet({x}) /\ Cardinality({x}) = 1
  BY FS_Singleton
<1>2. Cardinality(S) \in Nat
  BY FS_CardinalityType
<1>3. QED
  BY <1>1, <1>2, FS_Product

Countable(A) ==
  /\ IsFiniteSet(A)
  /\ \A a \in A : IsFiniteSet(a.packets)

Counted(A) == UNION {{a.updated} \X a.packets : a \in A}

LEMMA CountedIsFinite ==
  ASSUME NEW A, Countable(A)
  PROVE  IsFiniteSet(Counted(A)) /\ PacketCount(A) = Cardinality(Counted(A))
         /\ PacketCount(A) \in Nat
<1> DEFINE g == [a \in A |-> {a.updated} \X a.packets]
<1>1. IsFiniteSet({g[a] : a \in A})
  <2>1. IsFiniteSet(A) /\ DOMAIN g = A
    BY DEF Countable
  <2> HIDE DEF g
  <2>2. QED
    BY <2>1, FiniteImage
<1>2. \A a \in A : IsFiniteSet(g[a])
  BY PairsWithOne DEF Countable
<1>3. IsFiniteSet(UNION {g[a] : a \in A})
  BY <1>1, <1>2, FS_UNION
<1>4. Counted(A) = UNION {g[a] : a \in A}
  BY DEF Counted
<1>5. PacketCount(A) = Cardinality(Counted(A))
  BY DEF Counted, PacketCount
<1>6. QED
  BY <1>3, <1>4, <1>5, FS_CardinalityType

LEMMA CountOne ==
  ASSUME NEW a, IsFiniteSet(a.packets)
  PROVE  PacketCount({a}) = Cardinality(a.packets)
<1>1. PacketCount({a}) = Cardinality({a.updated} \X a.packets)
  BY DEF PacketCount
<1>2. QED
  BY <1>1, PairsWithOne

LEMMA CountNone == PacketCount({}) = 0
BY FS_EmptySet DEF PacketCount

(* The datagrams of two sets of assemblies add up, unless one has the same *)
(* number in both.                                                         *)
LEMMA CountBoth ==
  ASSUME NEW A, NEW B, Countable(A), Countable(B),
         \A a \in A, b \in B : a.updated # b.updated
  PROVE  Countable(A \cup B) /\ PacketCount(A \cup B) = PacketCount(A) + PacketCount(B)
<1>1. Countable(A \cup B)
  BY FS_Union DEF Countable
<1>2. Counted(A \cup B) = Counted(A) \cup Counted(B)
  BY DEF Counted
<1>3. Counted(A) \cap Counted(B) = {}
  BY DEF Counted
<1>4. Cardinality(Counted(A) \cap Counted(B)) = 0
  BY <1>3, FS_EmptySet
<1>5. /\ IsFiniteSet(Counted(A)) /\ PacketCount(A) = Cardinality(Counted(A))
      /\ IsFiniteSet(Counted(B)) /\ PacketCount(B) = Cardinality(Counted(B))
      /\ PacketCount(A) \in Nat /\ PacketCount(B) \in Nat
      /\ PacketCount(A \cup B) = Cardinality(Counted(A \cup B))
  BY <1>1, CountedIsFinite
<1>6. Cardinality(Counted(A) \cup Counted(B)) =
        Cardinality(Counted(A)) + Cardinality(Counted(B))
          - Cardinality(Counted(A) \cap Counted(B))
  BY <1>5, FS_Union
<1> DEFINE x == PacketCount(A)  y == PacketCount(B)
<1>7. PacketCount(A \cup B) = x + y - 0
  BY <1>2, <1>4, <1>5, <1>6, Zenon
<1>8. x \in Nat /\ y \in Nat
  BY <1>5
<1> HIDE DEF x, y
<1>9. x + y - 0 = x + y
  BY <1>8
<1>10. QED
  BY <1>1, <1>7, <1>9 DEF x, y

(* The datagrams of the frames in a queue.                                 *)
Waiting(q) == UNION {{i} \X q[i].packets : i \in DOMAIN q}

LEMMA QueuedIsFinite ==
  ASSUME NEW F, NEW q \in Seq(F), \A f \in F : IsFiniteSet(f.packets)
  PROVE  /\ IsFiniteSet(Waiting(q))
         /\ Queued(q) = Cardinality(Waiting(q))
         /\ Queued(q) \in Nat
<1> DEFINE g == [i \in DOMAIN q |-> {i} \X q[i].packets]
<1>1. /\ DOMAIN q = 1..Len(q) /\ Len(q) \in Nat
      /\ \A i \in DOMAIN q : q[i] \in F
  BY LenProperties, ElementOfSeq
<1>2. IsFiniteSet({g[i] : i \in DOMAIN q})
  <2>1. IsFiniteSet(DOMAIN q) /\ DOMAIN g = DOMAIN q
    BY <1>1, FS_Interval
  <2> HIDE DEF g
  <2>2. QED
    BY <2>1, FiniteImage
<1>3. \A i \in DOMAIN q : IsFiniteSet(g[i])
  BY <1>1, PairsWithOne
<1>4. IsFiniteSet(UNION {g[i] : i \in DOMAIN q})
  BY <1>2, <1>3, FS_UNION
<1>5. Waiting(q) = UNION {g[i] : i \in DOMAIN q}
  BY DEF Waiting
<1>6. Queued(q) = Cardinality(Waiting(q))
  BY DEF Waiting, Queued
<1>7. QED
  BY <1>4, <1>5, <1>6, FS_CardinalityType

LEMMA QueuedNone == Queued(<<>>) = 0
<1>1. Waiting(<<>>) = {}
  BY DEF Waiting
<1>2. QED
  BY <1>1, FS_EmptySet DEF Queued, Waiting

LEMMA QueuedAppend ==
  ASSUME NEW F, NEW q \in Seq(F), \A f \in F : IsFiniteSet(f.packets), NEW x \in F
  PROVE  Queued(Append(q, x)) = Queued(q) + Cardinality(x.packets)
<1> DEFINE n == Len(q) + 1
           X == {n} \X x.packets
<1>1. /\ Append(q, x) \in Seq(F) /\ DOMAIN Append(q, x) = 1..n
      /\ Append(q, x)[n] = x
      /\ \A i \in 1..Len(q) : Append(q, x)[i] = q[i]
      /\ DOMAIN q = 1..Len(q) /\ Len(q) \in Nat
  BY AppendProperties, LenProperties
<1>2. Waiting(Append(q, x)) = Waiting(q) \cup X
  <2>1. 1..n = (1..Len(q)) \cup {n}
    BY <1>1
  <2> HIDE DEF n
  <2>2. QED
    BY <1>1, <2>1 DEF Waiting
<1>3. Waiting(q) \cap X = {}
  <2>1. n \notin DOMAIN q
    BY <1>1
  <2> HIDE DEF n
  <2>2. QED
    BY <2>1 DEF Waiting
<1> HIDE DEF n
<1>4. IsFiniteSet(X) /\ Cardinality(X) = Cardinality(x.packets)
  BY PairsWithOne
<1> HIDE DEF X
<1>5. IsFiniteSet(Waiting(q)) /\ Queued(q) = Cardinality(Waiting(q))
      /\ Queued(q) \in Nat
      /\ Queued(Append(q, x)) = Cardinality(Waiting(Append(q, x)))
  BY <1>1, QueuedIsFinite
<1>6. /\ Cardinality(Waiting(q) \cup X) =
           Cardinality(Waiting(q)) + Cardinality(X) - Cardinality(Waiting(q) \cap X)
      /\ Cardinality(X) \in Nat
  BY <1>4, <1>5, FS_Union, FS_CardinalityType
<1>7. Cardinality(Waiting(q) \cap X) = 0
  BY <1>3, FS_EmptySet
<1>8. Cardinality(Waiting(q) \cup X) = Queued(q) + Cardinality(X)
  BY <1>5, <1>6, <1>7
<1>9. QED
  BY <1>2, <1>4, <1>5, <1>8, Zenon

LEMMA QueuedHead ==
  ASSUME NEW F, NEW q \in Seq(F), \A f \in F : IsFiniteSet(f.packets), q # <<>>
  PROVE  Queued(q) = Cardinality(Head(q).packets) + Queued(Tail(q))
<1> DEFINE X == {1} \X q[1].packets
           R == Waiting(q) \ X
           m == [u \in R |-> <<u[1] - 1, u[2]>>]
<1>1. /\ Tail(q) \in Seq(F) /\ DOMAIN Tail(q) = 1..(Len(q) - 1)
      /\ Head(q) = q[1] /\ q[1] \in F
      /\ \A i \in 1..(Len(q) - 1) : Tail(q)[i] = q[i + 1]
      /\ DOMAIN q = 1..Len(q) /\ Len(q) \in Nat /\ Len(q) > 0
  BY HeadTailProperties, LenProperties, ElementOfSeq, EmptySeq
<1>2. Waiting(q) = X \cup R /\ X \cap R = {}
  <2>1. 1 \in DOMAIN q
    BY <1>1
  <2>2. QED
    BY <2>1 DEF Waiting
<1>3. R = UNION {{i} \X q[i].packets : i \in 2..Len(q)}
  <2>1. \A i \in DOMAIN q : i = 1 \/ i \in 2..Len(q)
    BY <1>1
  <2>2. \A i \in 2..Len(q) : i \in DOMAIN q /\ i # 1
    BY <1>1
  <2>3. QED
    BY <2>1, <2>2 DEF Waiting
<1>4. m \in Bijection(R, Waiting(Tail(q)))
  <2> HIDE DEF R
  <2>1. \A u \in R : /\ u = <<u[1], u[2]>> /\ u[1] \in 2..Len(q)
                     /\ u[2] \in q[u[1]].packets
    BY <1>3
  <2>2. \A u \in R : m[u] \in Waiting(Tail(q))
    <3>1. SUFFICES ASSUME NEW u \in R
                   PROVE  <<u[1] - 1, u[2]>> \in Waiting(Tail(q))
      OBVIOUS
    <3>2. u[1] - 1 \in DOMAIN Tail(q) /\ Tail(q)[u[1] - 1] = q[u[1]]
      BY <1>1, <2>1
    <3>3. u[2] \in Tail(q)[u[1] - 1].packets
      BY <2>1, <3>2
    <3>4. QED
      BY <3>2, <3>3 DEF Waiting
  <2>3. \A u, v \in R : m[u] = m[v] => u = v
    BY <2>1
  <2>4. \A w \in Waiting(Tail(q)) : \E u \in R : m[u] = w
    <3>0. \A w \in Waiting(Tail(q)) :
            \E i \in DOMAIN Tail(q) : \E p \in Tail(q)[i].packets : w = <<i, p>>
      BY DEF Waiting
    <3>1. ASSUME NEW i \in DOMAIN Tail(q), NEW p \in Tail(q)[i].packets
          PROVE  \E u \in R : m[u] = <<i, p>>
      <4>1. i + 1 \in 2..Len(q) /\ p \in q[i + 1].packets /\ (i + 1) - 1 = i
        BY <1>1
      <4>2. <<i + 1, p>> \in R
        BY <1>3, <4>1
      <4>3. m[<<i + 1, p>>] = <<i, p>>
        BY <4>1, <4>2
      <4>4. QED
        BY <4>2, <4>3
    <3> HIDE DEF m
    <3>2. TAKE w \in Waiting(Tail(q))
    <3>3. PICK i \in DOMAIN Tail(q) : \E p \in Tail(q)[i].packets : w = <<i, p>>
      BY <3>0
    <3>4. PICK p \in Tail(q)[i].packets : w = <<i, p>>
      BY <3>3
    <3>5. QED
      BY <3>1, <3>4
  <2>5. m \in [R -> Waiting(Tail(q))]
    BY <2>2
  <2> HIDE DEF m
  <2>6. QED
    BY <2>3, <2>4, <2>5 DEF Bijection, Injection, Surjection, IsInjective
<1>5. /\ IsFiniteSet(Waiting(q)) /\ Queued(q) = Cardinality(Waiting(q))
      /\ Queued(Tail(q)) = Cardinality(Waiting(Tail(q)))
      /\ Queued(Tail(q)) \in Nat
  BY <1>1, QueuedIsFinite
<1> HIDE DEF m
<1>6. IsFiniteSet(R) /\ Cardinality(R) = Queued(Tail(q))
  <2>1. IsFiniteSet(R)
    BY <1>5, FS_Difference
  <2>2. ExistsBijection(R, Waiting(Tail(q)))
    BY <1>4 DEF ExistsBijection
  <2>3. QED
    BY <1>5, <2>1, <2>2, FS_Bijection
<1>7. IsFiniteSet(X) /\ Cardinality(X) = Cardinality(Head(q).packets)
      /\ Cardinality(X) \in Nat
  BY <1>1, PairsWithOne, FS_CardinalityType
<1> HIDE DEF X, R
<1>8. Cardinality(X \cup R) = Cardinality(X) + Cardinality(R) - Cardinality(X \cap R)
  BY <1>6, <1>7, FS_Union
<1>9. Cardinality(X \cap R) = 0
  BY <1>2, FS_EmptySet
<1>10. QED
  BY <1>2, <1>5, <1>6, <1>7, <1>8, <1>9

LEMMA SizeIsFinite ==
  ASSUME NEW sizes \in Seq(Nat \ {0})
  PROVE  /\ IsFiniteSet(UNION {{i} \X (1..sizes[i]) : i \in DOMAIN sizes})
         /\ Size(sizes) \in Nat
<1> DEFINE bytes == UNION {{i} \X (1..sizes[i]) : i \in DOMAIN sizes}
           g == [i \in DOMAIN sizes |-> {i} \X (1..sizes[i])]
<1>1. /\ DOMAIN sizes = 1..Len(sizes) /\ Len(sizes) \in Nat
      /\ \A i \in DOMAIN sizes : sizes[i] \in Nat \ {0}
  BY LenProperties, ElementOfSeq
<1>2. IsFiniteSet({g[i] : i \in DOMAIN sizes})
  <2>1. IsFiniteSet(DOMAIN sizes) /\ DOMAIN g = DOMAIN sizes
    BY <1>1, FS_Interval
  <2> HIDE DEF g
  <2>2. QED
    BY <2>1, FiniteImage
<1>3. \A i \in DOMAIN sizes : IsFiniteSet(1..sizes[i])
  BY <1>1, FS_Interval
<1>4. \A i \in DOMAIN sizes : IsFiniteSet(g[i])
  BY <1>3, PairsWithOne
<1>5. IsFiniteSet(UNION {g[i] : i \in DOMAIN sizes})
  BY <1>2, <1>4, FS_UNION
<1>6. bytes = UNION {g[i] : i \in DOMAIN sizes}
  OBVIOUS
<1>7. IsFiniteSet(bytes)
  BY <1>5, <1>6
<1>8. QED
  BY <1>7, FS_CardinalityType DEF Size

(* A part of a frame that is as large as the frame is all of it.           *)
LEMMA WholeBySize ==
  ASSUME NEW f \in Frames, NEW packets \in SUBSET FramePackets(f),
         Payload(packets) = Size(Stream[f])
  PROVE  packets = FramePackets(f)
<1> DEFINE sizes == Stream[f]
           bytes == UNION {{i} \X (1..sizes[i]) : i \in DOMAIN sizes}
           held == UNION {{p.fragment} \X (1..p.size) : p \in packets}
<1>1. sizes \in Seq(Nat \ {0})
  BY ReassemblyAssumption, ElementOfSeq DEF Frames
<1>2. /\ DOMAIN sizes = 1..Len(sizes) /\ Len(sizes) \in Nat
      /\ \A i \in DOMAIN sizes : sizes[i] \in Nat \ {0}
  BY <1>1, LenProperties, ElementOfSeq
<1>3. \A p \in packets : /\ p.fragment \in DOMAIN sizes
                         /\ p.size = sizes[p.fragment]
                         /\ p = Packet(f, p.fragment)
  BY DEF FramePackets, Packet
<1>4. \A i \in DOMAIN sizes : Packet(f, i) \in FramePackets(f)
  BY DEF FramePackets
<1>5. FramePackets(f) = {Packet(f, i) : i \in DOMAIN sizes}
  BY DEF FramePackets
<1>6. Cardinality(held) = Cardinality(bytes)
  BY DEF Payload, Size
<1> HIDE DEF sizes
<1>7. IsFiniteSet(bytes)
  BY <1>1, SizeIsFinite
<1>8. held \subseteq bytes
  BY <1>3
<1>9. \A i \in DOMAIN sizes : <<i, 1>> \in bytes
  BY <1>2
<1>10. \A i : <<i, 1>> \in held => \E p \in packets : p.fragment = i
  OBVIOUS
<1> HIDE DEF bytes, held
<1>11. held = bytes
  BY <1>6, <1>7, <1>8, FS_Subset
<1>12. \A i \in DOMAIN sizes : Packet(f, i) \in packets
  BY <1>3, <1>9, <1>10, <1>11
<1>13. QED
  BY <1>5, <1>12

(* Two numbers of one residue are equal or a whole cycle apart.            *)
LEMMA SameResidue ==
  ASSUME NEW n \in Nat \ {0}, NEW f \in Nat, NEW g \in Nat, f % n = g % n,
         f < g + n, g < f + n
  PROVE  f = g
<1> DEFINE a == f \div n  b == g \div n
<1>1. /\ a \in Int /\ b \in Int
      /\ f = (n * a) + (f % n) /\ g = (n * b) + (g % n)
  OBVIOUS
<1> HIDE DEF a, b
<1> DEFINE d == a - b
<1>2. d \in Int /\ f - g = n * d
  BY <1>1
<1> HIDE DEF d
<1>3. ~(d >= 1)
  <2>1. d >= 1 => n * d >= n
    BY <1>2
  <2>2. QED
    BY <1>2, <2>1
<1>4. ~(d <= -1)
  <2>1. d <= -1 => n * d <= -n
    BY <1>2
  <2>2. QED
    BY <1>2, <2>1
<1>5. d = 0
  BY <1>2, <1>3, <1>4
<1>6. QED
  BY <1>2, <1>5
-----------------------------------------------------------------------------
(* Every set of numbers that is not empty has a least one.                 *)
LEMMA LessIsWellFounded == IsWellFoundedOn({p \in Nat \X Nat : p[1] < p[2]}, Nat)
BY NatLessThanWellFounded, Zenon DEF OpToRel

LEMMA LeastNumber ==
  ASSUME NEW T \in SUBSET Nat, T # {}
  PROVE  \E n \in T : \A m \in T : n <= m
<1> DEFINE R == {p \in Nat \X Nat : p[1] < p[2]}
<1>1. IsWellFoundedOn(R, Nat)
  BY LessIsWellFounded
<1>2. \A m, n \in Nat : m < n => <<m, n>> \in R
  OBVIOUS
<1> HIDE DEF R
<1>3. PICK n \in T : \A m \in T : ~ (<<m, n>> \in R)
  BY <1>1, WFMin, Zenon
<1>4. \A m \in T : ~ (m < n)
  BY <1>2, <1>3
<1>5. QED
  BY <1>4

-----------------------------------------------------------------------------
(* The inductive invariant.                                                *)
AssemblyType ==
  [seq : Nat, total : Nat, packets : SUBSET Packets, age : Nat, updated : Nat]
FrameType == [packets : SUBSET Packets, discontinuity : BOOLEAN, after : Nat]

TypeOK ==
  /\ sequenceSpace \in Nat \ {0}
  /\ now \in Nat
  /\ assemblies \in SUBSET AssemblyType
  /\ discontinuity \in BOOLEAN
  /\ complete \in FrameType
  /\ queue \in Seq(FrameType)
  /\ idle \in Nat /\ idle <= ReceiveTimeout
  /\ received \in Nat /\ dropped \in Nat /\ handed \in Nat /\ losses \in Nat
  /\ codec \in [after : Nat, flushed : Nat]

(* The slots: no two assemblies were updated by the same datagram, which   *)
(* is how their datagrams are told apart; expiry comes with every datagram *)
(* and with every receive timeout, so an age exceeds the timeout by what   *)
(* has passed since then at the most.                                      *)
AssemblyInv ==
  /\ IsFiniteSet(assemblies)
  /\ Cardinality(assemblies) <= Slots
  /\ \A a, b \in assemblies : a # b => a.seq # b.seq /\ a.updated # b.updated
  /\ \A a \in assemblies : /\ a.packets # {} /\ Payload(a.packets) < a.total
                           /\ a.updated <= received
                           /\ a.age <= Timeout + idle

(* What was lost before the last frame that is on its way to the codec.    *)
Before(i) == IF i = 1 THEN codec.after ELSE queue[i - 1].after
Known == Before(Len(queue) + 1)

(* The news of a loss travels with the frame that follows it: a frame that *)
(* does not carry it follows the losses of the frame before it.            *)
LossInv ==
  /\ codec.after <= codec.flushed
  /\ \A i \in DOMAIN queue : queue[i].discontinuity \/ queue[i].after <= Before(i)
  /\ complete # NoFrame => complete.discontinuity \/ complete.after <= Known
  /\ discontinuity \/ losses <= (IF complete = NoFrame THEN Known ELSE complete.after)

(* An assembly collects one frame, and is young enough that no other frame *)
(* of its number is on its way.                                            *)
Collects(a, f) ==
  /\ a.packets \subseteq FramePackets(f)
  /\ f <= now /\ now <= f + MaxDelay + a.age
  /\ a.seq = f % sequenceSpace
  /\ a.total = Size(Stream[f])

WholeInv ==
  sequenceSpace > MaxDelay + Timeout =>
    /\ \A a \in assemblies : \E f \in Frames : Collects(a, f)
    /\ \A i \in DOMAIN queue : \E f \in Frames : queue[i].packets = FramePackets(f)
    /\ complete # NoFrame => \E f \in Frames : complete.packets = FramePackets(f)

IInv == TypeOK /\ AssemblyInv /\ PacketsAccountedFor /\ LossInv /\ WholeInv

(* There are finitely many datagrams, and their headers say where they are *)
(* from up to the sequence space.                                          *)
LEMMA PacketsAreFinite == IsFiniteSet(Packets)
<1>1. \A f \in Frames : IsFiniteSet(FramePackets(f))
  <2>1. TAKE f \in Frames
  <2> DEFINE g == [i \in DOMAIN Stream[f] |-> Packet(f, i)]
  <2>2. Stream[f] \in Seq(Nat \ {0})
    BY ReassemblyAssumption, ElementOfSeq DEF Frames
  <2>3. IsFiniteSet(DOMAIN Stream[f]) /\ DOMAIN g = DOMAIN Stream[f]
    BY <2>2, LenProperties, FS_Interval
  <2>4. FramePackets(f) = {g[i] : i \in DOMAIN Stream[f]}
    BY DEF FramePackets
  <2> HIDE DEF g
  <2>5. QED
    BY <2>3, <2>4, FiniteImage
<1> DEFINE h == [f \in Frames |-> FramePackets(f)]
<1>2. IsFiniteSet(Frames) /\ DOMAIN h = Frames
  BY ReassemblyAssumption, LenProperties, FS_Interval DEF Frames
<1>3. /\ \A f \in Frames : IsFiniteSet(h[f])
      /\ Packets = UNION {h[f] : f \in Frames}
  BY <1>1 DEF Packets
<1> HIDE DEF h
<1>4. IsFiniteSet({h[f] : f \in Frames})
  BY <1>2, FiniteImage
<1>5. IsFiniteSet(UNION {h[f] : f \in Frames})
  BY <1>3, <1>4, FS_UNION
<1>6. QED
  BY <1>3, <1>5

LEMMA PacketHeader ==
  ASSUME sequenceSpace \in Nat \ {0}, NEW p \in Packets
  PROVE  /\ p.origin \in Frames /\ p \in FramePackets(p.origin)
         /\ p.seq = p.origin % sequenceSpace /\ p.seq \in Nat
         /\ p.total = Size(Stream[p.origin]) /\ p.total \in Nat
<1>1. PICK f \in Frames : \E i \in DOMAIN Stream[f] : p = Packet(f, i)
  BY DEF Packets, FramePackets
<1>2. /\ p.origin = f /\ p.seq = f % sequenceSpace /\ p.total = Size(Stream[f])
      /\ p \in FramePackets(f)
  BY <1>1 DEF Packet, FramePackets
<1>3. Stream[f] \in Seq(Nat \ {0}) /\ f \in Nat
  BY ReassemblyAssumption, ElementOfSeq, LenProperties DEF Frames
<1>4. Size(Stream[f]) \in Nat
  BY <1>3, SizeIsFinite
<1>5. f % sequenceSpace \in Nat
  BY <1>3
<1>6. QED
  BY <1>2, <1>4, <1>5

(* What a datagram finds: the assemblies are those it does away with, the  *)
(* one it belongs to, and those it leaves alone.                           *)
LEMMA Sorted ==
  ASSUME NEW p, TypeOK, AssemblyInv
  PROVE  /\ assemblies = (Gone(p) \cup Matching(p)) \cup Kept(p)
         /\ Gone(p) \cap Matching(p) = {}
         /\ Gone(p) \cap Kept(p) = {} /\ Matching(p) \cap Kept(p) = {}
         /\ \A a \in Matching(p) : a.seq = p.seq /\ a.total = p.total
         /\ \A a, b \in Matching(p) : a = b
         /\ \A a \in Matching(p) \cup Kept(p) : ~IsLate(a)
         /\ \A a \in Kept(p) : a.seq # p.seq
<1>1. /\ Live = assemblies \ Expired /\ Expired \subseteq assemblies
      /\ \A a \in Live : a \in assemblies /\ ~IsLate(a)
  BY DEF Live, Expired
<1>2. /\ SameSequence(p) \subseteq Live /\ Resized(p) \subseteq SameSequence(p)
      /\ Matching(p) = SameSequence(p) \ Resized(p)
      /\ Beside(p) = Live \ SameSequence(p) /\ Evicted(p) \subseteq Beside(p)
      /\ Kept(p) = Beside(p) \ Evicted(p)
  BY DEF SameSequence, Resized, Matching, Beside, Evicted, Kept
<1>3. /\ \A a \in SameSequence(p) : a.seq = p.seq
      /\ \A a \in SameSequence(p) : a \in Resized(p) \/ a.total = p.total
      /\ \A a \in Beside(p) : a.seq # p.seq
  BY DEF SameSequence, Resized, Beside
<1>4. Gone(p) = Expired \cup Resized(p) \cup Evicted(p)
  BY DEF Gone
<1>5. \A a, b \in assemblies : a.seq = b.seq => a = b
  BY DEF AssemblyInv
<1>6. QED
  BY <1>1, <1>2, <1>3, <1>4, <1>5

LEMMA AssemblyChoice ==
  ASSUME NEW p, TypeOK, AssemblyInv
  PROVE  \/ Matching(p) = {} /\ Assembly(p) = Fresh(p)
         \/ Assembly(p) \in assemblies /\ Matching(p) = {Assembly(p)}
<1>1. CASE Matching(p) = {}
  BY <1>1 DEF Assembly
<1>2. CASE Matching(p) # {}
  <2>1. Assembly(p) \in Matching(p)
    BY <1>2 DEF Assembly
  <2>2. QED
    BY <2>1, Sorted
<1>3. QED
  BY <1>1, <1>2

(* The assembly that has taken the datagram.                               *)
LEMMA GrownFields ==
  ASSUME NEW p \in Packets, TypeOK, AssemblyInv
  PROVE  /\ Grown(p) \in AssemblyType
         /\ Grown(p).seq = p.seq /\ Grown(p).total = p.total
         /\ Grown(p).packets = Assembly(p).packets \cup {p}
         /\ Grown(p).age = 0 /\ Grown(p).updated = received + 1
         /\ Assembly(p).packets \in SUBSET Packets
<1>1. p.seq \in Nat /\ p.total \in Nat
  BY PacketHeader DEF TypeOK
<1>2. Fresh(p) \in AssemblyType /\ Fresh(p).seq = p.seq /\ Fresh(p).total = p.total
  BY <1>1 DEF Fresh, AssemblyType
<1>3. /\ Assembly(p) \in AssemblyType
      /\ Assembly(p).seq = p.seq /\ Assembly(p).total = p.total
  BY <1>2, AssemblyChoice, Sorted DEF TypeOK
<1>4. received + 1 \in Nat
  BY DEF TypeOK
<1>5. QED
  BY <1>3, <1>4 DEF Grown, AssemblyType

LEMMA AllCountable ==
  ASSUME TypeOK, AssemblyInv, NEW A \in SUBSET assemblies
  PROVE  Countable(A) /\ PacketCount(A) \in Nat
<1>1. IsFiniteSet(A)
  BY FS_Subset DEF AssemblyInv
<1>2. \A a \in A : a.packets \in SUBSET Packets
  BY DEF TypeOK, AssemblyType
<1>3. Countable(A)
  BY <1>1, <1>2, PacketsAreFinite, FS_Subset DEF Countable
<1>4. QED
  BY <1>3, CountedIsFinite

(* The datagrams of the assemblies and one more are those of the           *)
(* assemblies that go, of those that are kept, and of the one that grows.  *)
LEMMA NothingIsMislaid ==
  ASSUME NEW p \in Packets, TypeOK, AssemblyInv,
         \A held \in Assembly(p).packets : held.fragment # p.fragment
  PROVE  /\ PacketCount(assemblies) + 1 =
              (PacketCount(Gone(p)) + Cardinality(Grown(p).packets)) + PacketCount(Kept(p))
         /\ PacketCount(assemblies) \in Nat
         /\ PacketCount(Gone(p)) \in Nat /\ PacketCount(Kept(p)) \in Nat
         /\ Cardinality(Grown(p).packets) \in Nat
         /\ PacketCount(Kept(p) \cup {Grown(p)}) =
              PacketCount(Kept(p)) + Cardinality(Grown(p).packets)
         /\ PacketCount(Gone(p) \cup {Grown(p)}) =
              PacketCount(Gone(p)) + Cardinality(Grown(p).packets)
<1> DEFINE G == Gone(p)  M == Matching(p)  K == Kept(p)  x == Grown(p)
<1>1. /\ assemblies = (G \cup M) \cup K
      /\ G \cap M = {} /\ (G \cup M) \cap K = {}
  BY Sorted
<1>2. /\ G \in SUBSET assemblies /\ M \in SUBSET assemblies
      /\ K \in SUBSET assemblies /\ G \cup M \in SUBSET assemblies
  BY <1>1
<1>3. x.packets = Assembly(p).packets \cup {p} /\ x.updated = received + 1
      /\ x \in AssemblyType /\ Assembly(p).packets \in SUBSET Packets
  BY GrownFields
<1>4. Cardinality(x.packets) = PacketCount(M) + 1 /\ IsFiniteSet(x.packets)
  <2>1. IsFiniteSet(Assembly(p).packets) /\ p \notin Assembly(p).packets
    BY <1>3, PacketsAreFinite, FS_Subset
  <2>2. /\ IsFiniteSet(x.packets)
        /\ Cardinality(x.packets) = Cardinality(Assembly(p).packets) + 1
    <3> DEFINE A == Assembly(p).packets
    <3>1. IsFiniteSet(A) /\ p \notin A
      BY <2>1
    <3> HIDE DEF A
    <3>2. IsFiniteSet(A \cup {p}) /\ Cardinality(A \cup {p}) = Cardinality(A) + 1
      BY <3>1, FS_AddElement
    <3>3. x.packets = A \cup {p}
      BY <1>3 DEF A
    <3>4. QED
      BY <3>2, <3>3 DEF A
  <2>3. Cardinality(Assembly(p).packets) = PacketCount(M)
    <3>1. CASE M = {} /\ Assembly(p) = Fresh(p)
      <4>1. Assembly(p).packets = {}
        BY <3>1 DEF Fresh
      <4>2. QED
        BY <3>1, <4>1, CountNone, FS_EmptySet
    <3>2. CASE M = {Assembly(p)}
      BY <2>1, <3>2, CountOne
    <3>3. QED
      BY <3>1, <3>2, AssemblyChoice
  <2>4. QED
    BY <2>2, <2>3
<1>5. /\ Countable(G) /\ Countable(M) /\ Countable(K) /\ Countable(G \cup M)
      /\ PacketCount(G) \in Nat /\ PacketCount(M) \in Nat /\ PacketCount(K) \in Nat
      /\ PacketCount(assemblies) \in Nat
  BY <1>2, AllCountable
<1>6. \A a, b \in assemblies : a # b => a.updated # b.updated
  BY DEF AssemblyInv
<1>7. PacketCount(G \cup M) = PacketCount(G) + PacketCount(M)
  <2>1. \A a \in G, b \in M : a.updated # b.updated
    BY <1>1, <1>2, <1>6
  <2> HIDE DEF G, M
  <2>2. QED
    BY <1>5, <2>1, CountBoth
<1>8. PacketCount(assemblies) = PacketCount(G \cup M) + PacketCount(K)
  <2>1. \A a \in G \cup M, b \in K : a.updated # b.updated
    BY <1>1, <1>2, <1>6
  <2> HIDE DEF G, M, K
  <2>2. QED
    BY <1>1, <1>5, <2>1, CountBoth
<1>9. Countable({x}) /\ PacketCount({x}) = Cardinality(x.packets)
  BY <1>4, FS_Singleton, CountOne DEF Countable
<1>10. \A a \in assemblies : a.updated # x.updated
  <2>1. \A a \in assemblies : a.updated \in Nat /\ a.updated <= received
    BY DEF TypeOK, AssemblyType, AssemblyInv
  <2>2. received \in Nat
    BY DEF TypeOK
  <2>3. QED
    BY <1>3, <2>1, <2>2
<1> HIDE DEF G, M, K, x
<1>11. PacketCount(K \cup {x}) = PacketCount(K) + Cardinality(x.packets)
  BY <1>2, <1>5, <1>9, <1>10, CountBoth
<1>12. PacketCount(G \cup {x}) = PacketCount(G) + Cardinality(x.packets)
  BY <1>2, <1>5, <1>9, <1>10, CountBoth
<1>13. Cardinality(x.packets) \in Nat
  BY <1>4, <1>5
<1>14. PacketCount(assemblies) + 1 =
         (PacketCount(G) + Cardinality(x.packets)) + PacketCount(K)
  BY <1>4, <1>5, <1>7, <1>8, <1>13
<1>15. QED
  BY <1>5, <1>11, <1>12, <1>13, <1>14 DEF G, K, x

(* There is room for the assembly of a datagram.                           *)
LEMMA RoomIsMade ==
  ASSUME NEW p, TypeOK, AssemblyInv
  PROVE  /\ IsFiniteSet(Kept(p))
         /\ Cardinality(Kept(p)) \in Nat /\ Cardinality(Kept(p)) < Slots
<1>1. /\ IsFiniteSet(assemblies) /\ Cardinality(assemblies) <= Slots
      /\ Cardinality(assemblies) \in Nat /\ Slots \in Nat
      /\ assemblies \subseteq AssemblyType
  BY ReassemblyAssumption, FS_CardinalityType DEF AssemblyInv, TypeOK
<1>2. /\ Beside(p) \subseteq assemblies /\ Evicted(p) \subseteq Beside(p)
      /\ Kept(p) = Beside(p) \ Evicted(p)
      /\ Beside(p) \cap Matching(p) = {} /\ Matching(p) \subseteq assemblies
  BY DEF Beside, Live, Expired, Evicted, Kept, Matching, SameSequence
<1>3. Kept(p) \subseteq assemblies
  BY <1>2
<1>4. IsFiniteSet(Kept(p)) /\ Cardinality(Kept(p)) \in Nat
      /\ Cardinality(Kept(p)) <= Cardinality(assemblies)
      /\ (Cardinality(Kept(p)) = Cardinality(assemblies) => Kept(p) = assemblies)
  BY <1>1, <1>3, FS_Subset, FS_CardinalityType
<1>5. CASE Matching(p) # {}
  <2>1. Kept(p) # assemblies
    BY <1>2, <1>5
  <2>2. QED
    BY <1>1, <1>4, <2>1
<1>6. CASE Matching(p) = {} /\ Cardinality(Beside(p)) >= Slots
  <2>1. Cardinality(assemblies) # 0
    <3>1. Slots > 0
      BY ReassemblyAssumption
    <3>2. /\ Cardinality(Beside(p)) \in Nat
          /\ Cardinality(Beside(p)) <= Cardinality(assemblies)
      BY <1>1, <1>2, FS_Subset, FS_CardinalityType
    <3>3. QED
      BY <1>1, <1>6, <3>1, <3>2
  <2>2. Beside(p) # {}
    <3>1. Slots > 0
      BY ReassemblyAssumption
    <3>2. Cardinality({}) = 0
      BY FS_EmptySet
    <3>3. QED
      BY <1>1, <1>6, <3>1, <3>2
  <2> DEFINE times == {a.updated : a \in Beside(p)}
  <2>3. times \in SUBSET Nat /\ times # {}
    BY <1>1, <1>2, <2>2 DEF AssemblyType
  <2> HIDE DEF times
  <2>4. PICK n \in times : \A m \in times : n <= m
    BY <2>3, LeastNumber
  <2>5. PICK a \in Beside(p) : a.updated = n
    BY <2>4 DEF times
  <2>6. \A b \in Beside(p) : a.updated <= b.updated
    BY <2>4, <2>5 DEF times
  <2>7. a \in Evicted(p)
    BY <1>6, <2>5, <2>6 DEF Evicted
  <2>8. Kept(p) # assemblies
    BY <1>2, <2>7
  <2>9. QED
    BY <1>1, <1>4, <2>8
<1>7. CASE ~(Cardinality(Beside(p)) >= Slots)
  <2>1. /\ Cardinality(Beside(p)) \in Nat /\ Kept(p) \subseteq Beside(p)
        /\ Cardinality(Kept(p)) <= Cardinality(Beside(p))
    BY <1>1, <1>2, FS_Subset, FS_CardinalityType
  <2>2. QED
    BY <1>1, <1>4, <1>7, <2>1
<1>8. QED
  BY <1>5, <1>6, <1>7

-----------------------------------------------------------------------------
(* The steps.  The receive thread does the same whenever what comes leaves *)
(* the fragments as they are: it drops what has expired.                   *)
Sweep(more) ==
  /\ complete = NoFrame
  /\ received' = received + more
  /\ idle' = 0
  /\ assemblies' = Live
  /\ Discard(Expired, more)
  /\ UNCHANGED <<streamVars, complete, queue, handed, codec>>

LEMMA Steps ==
  ASSUME TypeOK, [Next]_vars
  PROVE  \/ UNCHANGED vars
         \/ Sweep(0) \/ Sweep(1)
         \/ \E p \in Packets : CanArrive(p) /\ ReceiveFragment(p)
         \/ SubmitFrame \/ DecodeFrame \/ Tick
<1>1. received + 0 = received
  BY DEF TypeOK
<1>2. ASSUME NEW p, ReceiveDuplicate(p)
      PROVE  Sweep(1)
  BY <1>2 DEF ReceiveDuplicate, Receive, Sweep
<1>3. ReceiveMalformed => Sweep(1)
  BY DEF ReceiveMalformed, Receive, Sweep
<1>4. ReceiveTimesOut => Sweep(0)
  BY <1>1 DEF ReceiveTimesOut, Sweep
<1>5. QED
  BY <1>2, <1>3, <1>4 DEF Next

LEMMA SpaceIsConstant ==
  ASSUME [Next]_vars
  PROVE  /\ sequenceSpace' = sequenceSpace
         /\ \A f : FramePackets(f)' = FramePackets(f)
         /\ Packets' = Packets /\ FrameType' = FrameType /\ AssemblyType' = AssemblyType
<1>1. sequenceSpace' = sequenceSpace
  BY DEF Next, vars, streamVars, ReceiveDuplicate, ReceiveFragment, ReceiveMalformed,
         ReceiveTimesOut, SubmitFrame, DecodeFrame, Tick
<1>2. \A f : FramePackets(f)' = FramePackets(f)
  BY <1>1 DEF FramePackets, Packet
<1>3. Packets' = Packets
  BY <1>2 DEF Packets
<1>4. QED
  BY <1>1, <1>2, <1>3 DEF FrameType, AssemblyType

LEMMA OneTickOlder ==
  ASSUME NEW a \in AssemblyType
  PROVE  [a EXCEPT !.age = @ + 1] \in AssemblyType
<1>1. /\ a = [seq |-> a.seq, total |-> a.total, packets |-> a.packets,
              age |-> a.age, updated |-> a.updated]
      /\ a.seq \in Nat /\ a.total \in Nat /\ a.packets \in SUBSET Packets
      /\ a.age \in Nat /\ a.updated \in Nat
  BY DEF AssemblyType
<1>2. [a EXCEPT !.age = @ + 1] =
        [seq |-> a.seq, total |-> a.total, packets |-> a.packets,
         age |-> a.age + 1, updated |-> a.updated]
  BY <1>1
<1>3. a.age + 1 \in Nat
  BY <1>1
<1>4. QED
  BY <1>1, <1>2, <1>3 DEF AssemblyType

LEMMA TypeStep ==
  ASSUME TypeOK, AssemblyInv, [Next]_vars
  PROVE  TypeOK'
<1>1. sequenceSpace' = sequenceSpace /\ FrameType' = FrameType
      /\ AssemblyType' = AssemblyType
  BY SpaceIsConstant
<1> USE <1>1 DEF TypeOK
<1>2. NoFrame \in FrameType
  BY DEF NoFrame, FrameType
<1>3. CASE UNCHANGED vars
  BY <1>3 DEF vars, streamVars, assemblyVars, countVars
<1>4. ASSUME NEW more \in {0, 1}, Sweep(more)
      PROVE  TypeOK'
  <2>1. PacketCount(Expired) \in Nat /\ Live \subseteq assemblies
    BY AllCountable DEF Expired, Live
  <2>2. dropped' \in Nat /\ losses' \in Nat /\ received' \in Nat
    BY <1>4, <2>1 DEF Sweep, Discard
  <2>3. idle' \in Nat /\ idle' <= ReceiveTimeout
    BY <1>4, ReassemblyAssumption DEF Sweep
  <2>4. discontinuity' \in BOOLEAN
    BY <1>4 DEF Sweep, Discard
  <2>5. QED
    BY <1>4, <2>1, <2>2, <2>3, <2>4 DEF Sweep, streamVars
<1>5. ASSUME NEW p \in Packets, ReceiveFragment(p)
      PROVE  TypeOK'
  <2> USE <1>5 DEF ReceiveFragment, Receive
  <2>1. /\ PacketCount(Gone(p)) \in Nat
        /\ PacketCount(Gone(p) \cup {Grown(p)}) \in Nat
    <3>1. /\ PacketCount(Gone(p)) \in Nat /\ Cardinality(Grown(p).packets) \in Nat
          /\ PacketCount(Gone(p) \cup {Grown(p)}) =
               PacketCount(Gone(p)) + Cardinality(Grown(p).packets)
      BY NothingIsMislaid
    <3>2. QED
      BY <3>1
  <2>2. Grown(p) \in AssemblyType /\ Kept(p) \subseteq AssemblyType
    BY GrownFields, Sorted
  <2>3. dropped' \in Nat /\ losses' \in Nat /\ received' \in Nat
    BY <2>1 DEF Discard
  <2>4. idle' \in Nat /\ idle' <= ReceiveTimeout
    BY ReassemblyAssumption
  <2>5. discontinuity' \in BOOLEAN
    BY DEF Discard
  <2>6. complete' \in FrameType
    <3>1. Grown(p).packets \in SUBSET Packets
      BY <2>2 DEF AssemblyType
    <3>2. QED
      BY <2>3, <3>1 DEF FrameType
  <2>7. assemblies' \in SUBSET AssemblyType
    BY <2>2
  <2>8. QED
    BY <2>3, <2>4, <2>5, <2>6, <2>7 DEF streamVars
<1>6. CASE SubmitFrame
  <2>1. Queued(queue) \in Nat
    <3>1. \A f \in FrameType : IsFiniteSet(f.packets)
      BY PacketsAreFinite, FS_Subset DEF FrameType
    <3>2. QED
      BY <3>1, QueuedIsFinite
  <2>2. dropped' \in Nat /\ losses' \in Nat
    BY <1>6, <2>1 DEF SubmitFrame
  <2>3. queue' \in Seq(FrameType)
    <3>1. [complete EXCEPT !.discontinuity = TRUE, !.after = losses'] \in FrameType
      BY <2>2 DEF FrameType
    <3>2. QED
      <4>1. Append(queue, complete) \in Seq(FrameType)
        BY AppendProperties
      <4>2. <<[complete EXCEPT !.discontinuity = TRUE, !.after = losses']>>
              \in Seq(FrameType)
        BY <3>1
      <4>3. QED
        BY <1>6, <4>1, <4>2, Zenon DEF SubmitFrame
  <2>4. QED
    BY <1>2, <1>6, <2>2, <2>3 DEF SubmitFrame, streamVars, assemblyVars
<1>7. CASE DecodeFrame
  <2>1. Head(queue) \in FrameType /\ Tail(queue) \in Seq(FrameType)
    BY <1>7, HeadTailProperties DEF DecodeFrame
  <2>2. Cardinality(Head(queue).packets) \in Nat
    BY <2>1, PacketsAreFinite, FS_Subset, FS_CardinalityType DEF FrameType
  <2>3. codec' \in [after : Nat, flushed : Nat]
    BY <1>7, <2>1 DEF DecodeFrame, FrameType
  <2>4. handed' \in Nat
    BY <1>7, <2>2 DEF DecodeFrame
  <2>5. QED
    BY <1>7, <2>1, <2>3, <2>4 DEF DecodeFrame, streamVars, assemblyVars
<1>8. CASE Tick
  <2>1. assemblies' \in SUBSET AssemblyType
    <3> DEFINE older(a) == [a EXCEPT !.age = @ + 1]
    <3>1. assemblies' = {older(a) : a \in assemblies}
      BY <1>8 DEF Tick
    <3>2. \A a \in assemblies : older(a) \in AssemblyType
      BY OneTickOlder
    <3> HIDE DEF older
    <3>3. QED
      BY <3>1, <3>2, Zenon
  <2>2. now' \in Nat /\ idle' \in Nat /\ idle' <= ReceiveTimeout
    <3>1. now' = now + 1 /\ idle' = idle + 1 /\ idle < ReceiveTimeout
      BY <1>8 DEF Tick
    <3>2. ReceiveTimeout \in Nat
      BY ReassemblyAssumption
    <3>3. QED
      BY <3>1, <3>2
  <2>3. QED
    BY <1>8, <2>1, <2>2 DEF Tick, countVars
<1>9. QED
  BY <1>3, <1>4, <1>5, <1>6, <1>7, <1>8, Steps

LEMMA AssemblyStep ==
  ASSUME TypeOK, AssemblyInv, [Next]_vars
  PROVE  AssemblyInv'
<1>1. /\ IsFiniteSet(assemblies)
      /\ Cardinality(assemblies) \in Nat /\ Cardinality(assemblies) <= Slots
      /\ \A a, b \in assemblies : a # b => a.seq # b.seq /\ a.updated # b.updated
      /\ \A a \in assemblies : /\ a.packets # {} /\ Payload(a.packets) < a.total
                               /\ a.updated <= received
                               /\ a.age <= Timeout + idle
  BY FS_CardinalityType DEF AssemblyInv
<1>2. /\ Timeout \in Nat /\ Slots \in Nat /\ idle \in Nat /\ received \in Nat
      /\ assemblies \subseteq AssemblyType
  BY ReassemblyAssumption DEF TypeOK
<1>3. CASE UNCHANGED vars
  BY <1>3 DEF vars, assemblyVars, countVars, AssemblyInv
<1>4. ASSUME NEW more \in {0, 1}, Sweep(more)
      PROVE  AssemblyInv'
  <2>1. /\ Live \subseteq assemblies
        /\ \A a \in Live : a.age <= Timeout
    BY <1>2 DEF Live, Expired, IsLate, AssemblyType
  <2>2. IsFiniteSet(Live) /\ Cardinality(Live) <= Slots
    BY <1>1, <1>2, <2>1, FS_Subset, FS_CardinalityType
  <2>3. /\ assemblies' = Live /\ idle' = 0 /\ received' = received + more
    BY <1>4 DEF Sweep
  <2>4. \A a \in Live : a.updated <= received' /\ a.age <= Timeout + idle'
    <3>1. TAKE a \in Live
    <3>2. a.updated \in Nat /\ a.age \in Nat
      BY <1>2, <2>1 DEF AssemblyType
    <3>3. QED
      BY <1>1, <1>2, <2>1, <2>3, <3>2
  <2>5. QED
    BY <1>1, <2>1, <2>2, <2>3, <2>4 DEF AssemblyInv
<1>5. ASSUME NEW p \in Packets, ReceiveFragment(p)
      PROVE  AssemblyInv'
  <2>1. /\ Kept(p) \subseteq assemblies
        /\ \A a \in Kept(p) : a.seq # p.seq /\ ~IsLate(a)
    BY Sorted
  <2>2. /\ IsFiniteSet(Kept(p))
        /\ Cardinality(Kept(p)) \in Nat /\ Cardinality(Kept(p)) < Slots
    BY RoomIsMade
  <2>3. idle' = 0 /\ received' = received + 1
    BY <1>5 DEF ReceiveFragment, Receive
  <2>4. \A a \in Kept(p) : /\ a.updated <= received' /\ a.updated # received + 1
                           /\ a.age <= Timeout + idle'
    <3>1. TAKE a \in Kept(p)
    <3>2. a.updated \in Nat /\ a.age \in Nat /\ a.updated <= received
      BY <1>1, <1>2, <2>1 DEF AssemblyType
    <3>3. a.age <= Timeout
      BY <1>2, <2>1, <3>2 DEF IsLate
    <3>4. QED
      BY <1>2, <2>3, <3>2, <3>3
  <2>5. CASE assemblies' = Kept(p)
    <3>1. Cardinality(Kept(p)) <= Slots
      BY <1>2, <2>2
    <3>2. QED
      BY <1>1, <2>1, <2>2, <2>4, <2>5, <3>1 DEF AssemblyInv
  <2>6. CASE /\ Payload(Grown(p).packets) < p.total
             /\ assemblies' = Kept(p) \cup {Grown(p)}
    <3>1. /\ Grown(p).seq = p.seq /\ Grown(p).total = p.total
          /\ Grown(p).packets = Assembly(p).packets \cup {p}
          /\ Grown(p).age = 0 /\ Grown(p).updated = received + 1
      BY GrownFields
    <3>2. IsFiniteSet(assemblies') /\ Cardinality(assemblies') <= Slots
      <4>1. /\ IsFiniteSet(Kept(p) \cup {Grown(p)})
            /\ \/ Cardinality(Kept(p) \cup {Grown(p)}) = Cardinality(Kept(p))
               \/ Cardinality(Kept(p) \cup {Grown(p)}) = Cardinality(Kept(p)) + 1
        BY <2>2, FS_AddElement
      <4>2. QED
        BY <1>2, <2>2, <2>6, <4>1
    <3>3. /\ Grown(p).packets # {} /\ Payload(Grown(p).packets) < Grown(p).total
          /\ Grown(p).updated <= received' /\ Grown(p).age <= Timeout + idle'
      BY <1>2, <2>3, <2>6, <3>1
    <3>4. \A a \in Kept(p) : a.seq # Grown(p).seq /\ a.updated # Grown(p).updated
      BY <2>1, <2>4, <3>1
    <3>5. \A a, b \in assemblies' : a # b => a.seq # b.seq /\ a.updated # b.updated
      BY <1>1, <2>1, <2>6, <3>4
    <3>6. \A a \in assemblies' : /\ a.packets # {} /\ Payload(a.packets) < a.total
                                 /\ a.updated <= received' /\ a.age <= Timeout + idle'
      BY <1>1, <2>1, <2>4, <2>6, <3>3
    <3>7. QED
      BY <3>2, <3>5, <3>6 DEF AssemblyInv
  <2>7. QED
    BY <1>5, <2>5, <2>6 DEF ReceiveFragment
<1>6. CASE SubmitFrame
  BY <1>6 DEF SubmitFrame, assemblyVars, AssemblyInv
<1>7. CASE DecodeFrame
  BY <1>7 DEF DecodeFrame, assemblyVars, AssemblyInv
<1>8. CASE Tick
  <2> DEFINE older == [a \in assemblies |-> [a EXCEPT !.age = @ + 1]]
  <2>1. /\ assemblies' = {older[a] : a \in assemblies}
        /\ idle' = idle + 1 /\ received' = received
    BY <1>8 DEF Tick, countVars
  <2>2. \A a \in assemblies : /\ older[a].seq = a.seq /\ older[a].total = a.total
                              /\ older[a].packets = a.packets
                              /\ older[a].updated = a.updated
                              /\ older[a].age = a.age + 1 /\ a.age \in Nat
    BY <1>2 DEF AssemblyType
  <2>3. DOMAIN older = assemblies
    OBVIOUS
  <2> HIDE DEF older
  <2>4. IsFiniteSet(assemblies') /\ Cardinality(assemblies') <= Slots
    <3>1. older \in Surjection(assemblies, {older[a] : a \in assemblies})
      <4>1. older \in [assemblies -> {older[a] : a \in assemblies}]
        <5>1. older = [a \in assemblies |-> older[a]]
          BY DEF older
        <5>2. QED
          BY <5>1
      <4>2. QED
        BY <4>1 DEF Surjection
    <3>2. /\ IsFiniteSet({older[a] : a \in assemblies})
          /\ Cardinality({older[a] : a \in assemblies}) <= Cardinality(assemblies)
      BY <1>1, <3>1, FS_Surjection
    <3>3. Cardinality({older[a] : a \in assemblies}) \in Nat
      BY <3>2, FS_CardinalityType
    <3>4. QED
      BY <1>1, <1>2, <2>1, <3>2, <3>3
  <2>5. \A a, b \in assemblies' : a # b => a.seq # b.seq /\ a.updated # b.updated
    BY <1>1, <2>1, <2>2
  <2>6. \A a \in assemblies' : /\ a.packets # {} /\ Payload(a.packets) < a.total
                               /\ a.updated <= received' /\ a.age <= Timeout + idle'
    <3>1. \A a \in assemblies : a.age + 1 <= Timeout + idle'
      <4>1. TAKE a \in assemblies
      <4>2. a.age \in Nat /\ a.age <= Timeout + idle
        BY <1>1, <2>2
      <4>3. QED
        BY <1>2, <2>1, <4>2
    <3>2. QED
      BY <1>1, <2>1, <2>2, <3>1
  <2>7. QED
    BY <2>4, <2>5, <2>6 DEF AssemblyInv
<1>9. QED
  BY <1>3, <1>4, <1>5, <1>6, <1>7, <1>8, Steps

(* Every step moves the datagrams it touches from one account to another.  *)
LEMMA CountStep ==
  ASSUME TypeOK, AssemblyInv, PacketsAccountedFor, [Next]_vars
  PROVE  PacketsAccountedFor'
<1> DEFINE held == PacketCount(assemblies)  waiting == Queued(queue)
           ready == Cardinality(complete.packets)
<1>1. \A f \in FrameType : /\ IsFiniteSet(f.packets)
                           /\ Cardinality(f.packets) \in Nat
  BY PacketsAreFinite, FS_Subset, FS_CardinalityType DEF FrameType
<1>2. /\ held \in Nat /\ ready \in Nat
      /\ received \in Nat /\ dropped \in Nat /\ handed \in Nat
  BY <1>1, AllCountable DEF TypeOK
<1>3. waiting \in Nat
  BY <1>1, QueuedIsFinite DEF TypeOK
<1>4. received = dropped + handed + held + waiting + ready
  BY DEF PacketsAccountedFor
<1>5. NoFrame.packets = {} /\ Cardinality(NoFrame.packets) = 0
  BY FS_EmptySet DEF NoFrame
<1> HIDE DEF held, waiting, ready
<1>6. CASE UNCHANGED vars
  BY <1>6 DEF vars, assemblyVars, countVars, PacketsAccountedFor
<1>7. ASSUME NEW more \in {0, 1}, Sweep(more)
      PROVE  PacketsAccountedFor'
  <2>1. /\ Countable(Expired) /\ Countable(Live)
        /\ PacketCount(Expired) \in Nat /\ PacketCount(Live) \in Nat
    BY AllCountable DEF Expired, Live
  <2>2. held = PacketCount(Expired) + PacketCount(Live)
    <3>1. \A a \in Expired, b \in Live : a.updated # b.updated
      BY DEF AssemblyInv, Expired, Live
    <3>2. assemblies = Expired \cup Live
      BY DEF Expired, Live
    <3>3. QED
      BY <2>1, <3>1, <3>2, CountBoth DEF held
  <2>3. /\ received' = received + more
        /\ dropped' = dropped + PacketCount(Expired) + more
        /\ handed' = handed
    BY <1>7 DEF Sweep, Discard
  <2>4. /\ PacketCount(assemblies)' = PacketCount(Live)
        /\ Queued(queue)' = waiting /\ Cardinality(complete.packets)' = ready
    BY <1>7 DEF Sweep, waiting, ready
  <2>5. received + more =
          (dropped + PacketCount(Expired) + more) + handed + PacketCount(Live)
            + waiting + ready
    BY <1>2, <1>3, <1>4, <2>1, <2>2
  <2>6. QED
    BY <2>3, <2>4, <2>5 DEF PacketsAccountedFor
<1>8. ASSUME NEW p \in Packets, ReceiveFragment(p)
      PROVE  PacketsAccountedFor'
  <2> DEFINE G == PacketCount(Gone(p))  K == PacketCount(Kept(p))
             x == Cardinality(Grown(p).packets)
  <2>1. \A other \in Assembly(p).packets : other.fragment # p.fragment
    BY <1>8 DEF ReceiveFragment
  <2>2. /\ held + 1 = (G + x) + K
        /\ G \in Nat /\ K \in Nat /\ x \in Nat
        /\ PacketCount(Kept(p) \cup {Grown(p)}) = K + x
        /\ PacketCount(Gone(p) \cup {Grown(p)}) = G + x
    BY <2>1, NothingIsMislaid DEF held
  <2>3. /\ received' = received + 1 /\ handed' = handed /\ complete = NoFrame
        /\ Queued(queue)' = waiting
    BY <1>8 DEF ReceiveFragment, Receive, waiting
  <2>4. ready = 0
    BY <1>5, <2>3 DEF ready
  <2>5. CASE /\ assemblies' = Kept(p) \cup {Grown(p)}
             /\ Discard(Gone(p), 0) /\ UNCHANGED complete
    <3>1. /\ PacketCount(assemblies)' = K + x /\ dropped' = dropped + G + 0
          /\ Cardinality(complete.packets)' = ready
      BY <2>2, <2>5 DEF Discard, ready
    <3> HIDE DEF G, K, x
    <3>2. received + 1 = (dropped + G + 0) + handed + (K + x) + waiting + ready
      BY <1>2, <1>3, <1>4, <2>2
    <3>3. QED
      BY <2>3, <3>1, <3>2 DEF PacketsAccountedFor
  <2>6. CASE /\ assemblies' = Kept(p)
             /\ Discard(Gone(p) \cup {Grown(p)}, 0) /\ UNCHANGED complete
    <3>1. /\ PacketCount(assemblies)' = K /\ dropped' = dropped + (G + x) + 0
          /\ Cardinality(complete.packets)' = ready
      BY <2>2, <2>6 DEF Discard, ready
    <3> HIDE DEF G, K, x
    <3>2. received + 1 = (dropped + (G + x) + 0) + handed + K + waiting + ready
      BY <1>2, <1>3, <1>4, <2>2
    <3>3. QED
      BY <2>3, <3>1, <3>2 DEF PacketsAccountedFor
  <2>7. CASE /\ assemblies' = Kept(p) /\ dropped' = dropped + PacketCount(Gone(p))
             /\ complete' = [packets |-> Grown(p).packets,
                             discontinuity |-> discontinuity \/ Gone(p) # {},
                             after |-> losses']
    <3>1. /\ PacketCount(assemblies)' = K /\ dropped' = dropped + G
          /\ Cardinality(complete.packets)' = x
      BY <2>7
    <3> HIDE DEF G, K, x
    <3>2. received + 1 = (dropped + G) + handed + K + waiting + x
      BY <1>2, <1>3, <1>4, <2>2, <2>4
    <3>3. QED
      BY <2>3, <3>1, <3>2 DEF PacketsAccountedFor
  <2>8. QED
    BY <1>8, <2>5, <2>6, <2>7, Zenon DEF ReceiveFragment
<1>9. CASE SubmitFrame
  <2>1. /\ PacketCount(assemblies)' = held /\ received' = received /\ handed' = handed
        /\ Cardinality(complete.packets)' = 0
    BY <1>5, <1>9 DEF SubmitFrame, assemblyVars, held
  <2>2. CASE ~(Len(queue) >= QueueSize)
    <3>1. queue' = Append(queue, complete) /\ dropped' = dropped
      BY <1>9, <2>2 DEF SubmitFrame
    <3>2. Queued(Append(queue, complete)) = waiting + ready
      BY <1>1, QueuedAppend DEF TypeOK, waiting, ready
    <3>3. Queued(queue)' = waiting + ready
      BY <3>1, <3>2
    <3>4. received = dropped + handed + held + (waiting + ready) + 0
      BY <1>2, <1>3, <1>4
    <3>5. QED
      BY <2>1, <3>1, <3>3, <3>4 DEF PacketsAccountedFor
  <2>3. CASE Len(queue) >= QueueSize
    <3> DEFINE y == [complete EXCEPT !.discontinuity = TRUE, !.after = losses']
    <3>1. queue' = <<y>> /\ dropped' = dropped + waiting /\ losses' = losses + 1
      BY <1>9, <2>3, Zenon DEF SubmitFrame, waiting
    <3>2. y \in FrameType /\ y.packets = complete.packets
      <4>1. losses' \in Nat /\ complete \in FrameType
        BY <3>1 DEF TypeOK
      <4>2. QED
        BY <4>1 DEF FrameType
    <3> HIDE DEF y
    <3>3. /\ <<>> \in Seq(FrameType) /\ Append(<<>>, y) = <<y>>
      OBVIOUS
    <3>4. Queued(<<y>>) = 0 + ready
      BY <1>1, <3>2, <3>3, QueuedAppend, QueuedNone DEF ready
    <3>5. Queued(queue)' = 0 + ready
      BY <3>1, <3>4
    <3>6. received = (dropped + waiting) + handed + held + (0 + ready) + 0
      BY <1>2, <1>3, <1>4
    <3>7. QED
      BY <2>1, <3>1, <3>5, <3>6 DEF PacketsAccountedFor
  <2>4. QED
    BY <2>2, <2>3
<1>10. CASE DecodeFrame
  <2> DEFINE first == Cardinality(Head(queue).packets)
             rest == Queued(Tail(queue))
  <2>1. waiting = first + rest /\ first \in Nat /\ rest \in Nat
    <3>1. Head(queue) \in FrameType /\ Tail(queue) \in Seq(FrameType) /\ queue # <<>>
      BY <1>10, HeadTailProperties DEF DecodeFrame, TypeOK
    <3>2. first \in Nat
      BY <1>1, <3>1
    <3>3. rest \in Nat
      BY <1>1, <3>1, QueuedIsFinite
    <3>4. waiting = first + rest
      BY <1>1, <3>1, QueuedHead DEF TypeOK, waiting
    <3>5. QED
      BY <3>2, <3>3, <3>4
  <2>2. /\ PacketCount(assemblies)' = held /\ received' = received
        /\ Cardinality(complete.packets)' = ready /\ dropped' = dropped
        /\ handed' = handed + first /\ Queued(queue)' = rest
    BY <1>10 DEF DecodeFrame, assemblyVars, held, ready
  <2> HIDE DEF first, rest
  <2>3. received = dropped + (handed + first) + held + rest + ready
    BY <1>2, <1>3, <1>4, <2>1
  <2>4. QED
    BY <2>2, <2>3 DEF PacketsAccountedFor
<1>11. CASE Tick
  <2>1. PacketCount(assemblies)' = held
    <3> DEFINE older(a) == [a EXCEPT !.age = @ + 1]
    <3>1. assemblies' = {older(a) : a \in assemblies}
      BY <1>11 DEF Tick
    <3>2. \A a \in assemblies : /\ older(a).packets = a.packets
                                /\ older(a).updated = a.updated
      BY DEF TypeOK, AssemblyType
    <3> DEFINE mine(a) == {a.updated} \X a.packets
    <3>3. \A a \in assemblies : mine(older(a)) = mine(a)
      BY <3>2
    <3> HIDE DEF older, mine
    <3>4. {mine(b) : b \in {older(a) : a \in assemblies}} = {mine(a) : a \in assemblies}
      BY <3>3
    <3>5. PacketCount({older(a) : a \in assemblies}) = PacketCount(assemblies)
      BY <3>4 DEF PacketCount, mine
    <3>6. QED
      BY <3>1, <3>5 DEF held
  <2>2. QED
    BY <1>4, <1>11, <2>1 DEF Tick, countVars, PacketsAccountedFor, waiting, ready
<1>12. QED
  BY <1>6, <1>7, <1>8, <1>9, <1>10, <1>11, Steps

(* The news of a loss is never overtaken.                                  *)
LEMMA LossStep ==
  ASSUME TypeOK, LossInv, [Next]_vars
  PROVE  LossInv'
<1>1. /\ codec.after \in Nat /\ losses \in Nat
      /\ Len(queue) \in Nat /\ DOMAIN queue = 1..Len(queue)
      /\ \A i \in 1..Len(queue) : queue[i] \in FrameType /\ queue[i].after \in Nat
  <2>1. queue \in Seq(FrameType) /\ codec.after \in Nat /\ losses \in Nat
    BY DEF TypeOK
  <2>2. /\ Len(queue) \in Nat /\ DOMAIN queue = 1..Len(queue)
        /\ \A i \in 1..Len(queue) : queue[i] \in FrameType
    BY <2>1, LenProperties, ElementOfSeq
  <2>3. \A f \in FrameType : f.after \in Nat
    BY DEF FrameType
  <2>4. QED
    BY <2>1, <2>2, <2>3
<1>2. CASE UNCHANGED vars
  BY <1>2 DEF vars, assemblyVars, LossInv, Before, Known
<1>3. ASSUME NEW more, Sweep(more)
      PROVE  LossInv'
  <2>1. /\ complete = NoFrame /\ complete' = complete /\ queue' = queue /\ codec' = codec
        /\ discontinuity' = (discontinuity \/ Expired # {})
        /\ losses' = IF Expired = {} THEN losses ELSE losses + 1
    BY <1>3 DEF Sweep, Discard
  <2>2. discontinuity' \/ losses' <= Known
    BY <2>1 DEF LossInv
  <2>3. QED
    BY <2>1, <2>2 DEF LossInv, Before, Known
<1>4. ASSUME NEW p \in Packets, ReceiveFragment(p)
      PROVE  LossInv'
  <2>1. complete = NoFrame /\ queue' = queue /\ codec' = codec
    BY <1>4 DEF ReceiveFragment, Receive
  <2>2. ASSUME NEW gone, Discard(gone, 0), UNCHANGED complete
        PROVE  LossInv'
    <3>1. discontinuity' \/ losses' <= Known
      BY <2>1, <2>2 DEF LossInv, Discard
    <3>2. QED
      BY <2>1, <2>2, <3>1 DEF LossInv, Before, Known
  <2>3. CASE /\ losses' = IF Gone(p) = {} THEN losses ELSE losses + 1
             /\ complete' = [packets |-> Grown(p).packets,
                             discontinuity |-> discontinuity \/ Gone(p) # {},
                             after |-> losses']
    <3>1. losses' \in Nat
      BY <1>1, <2>3
    <3>2. complete'.after = losses'
      BY <2>3
    <3>3. complete'.discontinuity = (discontinuity \/ Gone(p) # {})
      BY <2>3
    <3>4. discontinuity \/ losses <= Known
      BY <2>1 DEF LossInv
    <3>5. complete'.discontinuity \/ complete'.after <= Known
      BY <2>3, <3>2, <3>3, <3>4
    <3>6. losses' <= complete'.after
      BY <3>1, <3>2
    <3>7. complete' # NoFrame
      <4>1. Grown(p).packets # {}
        BY DEF Grown
      <4>2. QED
        BY <2>3, <4>1 DEF NoFrame
    <3>8. QED
      BY <2>1, <3>5, <3>6, <3>7 DEF LossInv, Before, Known
  <2>4. QED
    BY <1>4, <2>2, <2>3, Zenon DEF ReceiveFragment
<1>5. CASE SubmitFrame
  <2>1. /\ complete # NoFrame /\ complete' = NoFrame /\ codec' = codec
        /\ discontinuity' = discontinuity
    BY <1>5 DEF SubmitFrame, assemblyVars
  <2>2. CASE ~(Len(queue) >= QueueSize)
    <3>1. queue' = Append(queue, complete) /\ losses' = losses
      BY <1>5, <2>2 DEF SubmitFrame
    <3>2. /\ DOMAIN queue' = 1..(Len(queue) + 1) /\ Len(queue') = Len(queue) + 1
          /\ \A i \in 1..Len(queue) : queue'[i] = queue[i]
          /\ queue'[Len(queue) + 1] = complete
      BY <3>1, AppendProperties DEF TypeOK
    <3>3. /\ \A i \in 1..(Len(queue) + 1) : Before(i)' = Before(i)
          /\ Known' = complete.after
      BY <1>1, <2>1, <3>2 DEF Before, Known
    <3>4. \A i \in DOMAIN queue' : queue'[i].discontinuity \/ queue'[i].after <= Before(i)
      <4>1. TAKE i \in DOMAIN queue'
      <4>2. CASE i \in 1..Len(queue)
        BY <1>1, <3>2, <4>2 DEF LossInv
      <4>3. CASE i = Len(queue) + 1
        BY <2>1, <3>2, <4>3 DEF LossInv, Known
      <4>4. QED
        BY <1>1, <3>2, <4>2, <4>3
    <3>5. QED
      BY <2>1, <3>1, <3>2, <3>3, <3>4 DEF LossInv
  <2>3. CASE Len(queue) >= QueueSize
    <3> DEFINE y == [complete EXCEPT !.discontinuity = TRUE, !.after = losses']
    <3>1. queue' = <<y>> /\ losses' = losses + 1
      BY <1>5, <2>3, Zenon DEF SubmitFrame
    <3>2. y.after = losses' /\ y.discontinuity
      BY DEF TypeOK, FrameType
    <3> HIDE DEF y
    <3>3. /\ DOMAIN queue' = {1} /\ Len(queue') = 1 /\ queue'[1] = y
      BY <3>1
    <3>4. Known' = losses'
      BY <3>2, <3>3 DEF Known, Before
    <3>5. QED
      BY <1>1, <2>1, <3>1, <3>2, <3>3, <3>4 DEF LossInv
  <2>4. QED
    BY <2>2, <2>3
<1>6. CASE DecodeFrame
  <2>1. /\ queue # <<>> /\ queue' = Tail(queue) /\ complete' = complete
        /\ losses' = losses /\ discontinuity' = discontinuity
        /\ codec' = [after |-> Head(queue).after,
                     flushed |-> IF Head(queue).discontinuity
                                 THEN Head(queue).after ELSE codec.flushed]
    BY <1>6 DEF DecodeFrame, assemblyVars
  <2>2. /\ Len(queue) > 0 /\ Head(queue) = queue[1]
        /\ DOMAIN queue' = 1..(Len(queue) - 1) /\ Len(queue') = Len(queue) - 1
        /\ \A i \in 1..(Len(queue) - 1) : queue'[i] = queue[i + 1]
    BY <1>1, <2>1, HeadTailProperties, EmptySeq DEF TypeOK
  <2>3. \A i \in 1..Len(queue) : Before(i)' = Before(i + 1)
    <3>1. codec'.after = queue[1].after
      BY <2>1, <2>2
    <3>2. TAKE i \in 1..Len(queue)
    <3>3. CASE i = 1
      BY <3>1, <3>3 DEF Before
    <3>4. CASE i # 1
      <4>1. i - 1 \in 1..(Len(queue) - 1) /\ (i - 1) + 1 = i /\ (i + 1) - 1 = i
            /\ i + 1 # 1
        BY <1>1, <3>4
      <4>2. queue'[i - 1] = queue[i]
        BY <2>2, <4>1
      <4>3. QED
        BY <3>4, <4>1, <4>2 DEF Before
    <3>5. QED
      BY <3>3, <3>4
  <2>4. Known' = Known
    <3>1. PICK n \in 1..Len(queue) : n = Len(queue) /\ Len(queue') + 1 = n
      <4>1. Len(queue) \in 1..Len(queue) /\ Len(queue') + 1 = Len(queue)
        BY <1>1, <2>2
      <4>2. QED
        BY <4>1
    <3>2. Known' = Before(n)'
      BY <3>1 DEF Known, Before
    <3>3. QED
      BY <2>3, <3>1, <3>2 DEF Known
  <2>5. codec'.after <= codec'.flushed
    <3>1. codec.flushed \in Nat /\ queue[1].after \in Nat /\ 1 \in DOMAIN queue
      BY <1>1, <2>2 DEF TypeOK
    <3>2. queue[1].discontinuity \/ queue[1].after <= codec.after
      BY <3>1 DEF LossInv, Before
    <3>3. codec.after <= codec.flushed
      BY DEF LossInv
    <3>4. CASE queue[1].discontinuity
      <4>1. codec'.after = queue[1].after /\ codec'.flushed = queue[1].after
        BY <2>1, <2>2, <3>4
      <4>2. QED
        BY <3>1, <4>1
    <3>5. CASE ~queue[1].discontinuity
      <4>1. codec'.after = queue[1].after /\ codec'.flushed = codec.flushed
        BY <2>1, <2>2, <3>5
      <4>2. QED
        BY <1>1, <3>1, <3>2, <3>3, <3>5, <4>1
    <3>6. QED
      BY <3>4, <3>5
  <2>6. \A i \in DOMAIN queue' :
          queue'[i].discontinuity \/ queue'[i].after <= Before(i)'
    <3>1. TAKE i \in DOMAIN queue'
    <3>2. i + 1 \in DOMAIN queue /\ i \in 1..Len(queue) /\ queue'[i] = queue[i + 1]
      BY <1>1, <2>2
    <3>3. QED
      BY <2>3, <3>2 DEF LossInv
  <2>7. QED
    BY <2>1, <2>4, <2>5, <2>6 DEF LossInv
<1>7. CASE Tick
  BY <1>7 DEF Tick, LossInv, Before, Known
<1>8. QED
  BY <1>2, <1>3, <1>4, <1>5, <1>6, <1>7, Steps

(* The datagram and the assembly it belongs to are of one frame: both are  *)
(* younger than the numbers take to come round.                            *)
LEMMA SameFrame ==
  ASSUME TypeOK, sequenceSpace > MaxDelay + Timeout,
         NEW p \in Packets, CanArrive(p), NEW a \in assemblies, ~IsLate(a),
         a.seq = p.seq, NEW f \in Frames, Collects(a, f)
  PROVE  f = p.origin
<1> DEFINE g == p.origin
<1>1. g \in Frames /\ p.seq = g % sequenceSpace
  BY PacketHeader DEF TypeOK
<1>2. f \in Nat /\ g \in Nat
  BY <1>1, ReassemblyAssumption, LenProperties DEF Frames
<1>3. /\ a.age \in Nat /\ Timeout \in Nat /\ MaxDelay \in Nat
      /\ now \in Nat /\ sequenceSpace \in Nat \ {0}
  BY ReassemblyAssumption DEF TypeOK, AssemblyType
<1>4. f % sequenceSpace = g % sequenceSpace
  BY <1>1 DEF Collects
<1>5. /\ f <= now /\ now <= f + MaxDelay + a.age /\ a.age <= Timeout
      /\ g <= now /\ now <= g + MaxDelay
  BY <1>3 DEF Collects, CanArrive, IsLate
<1> HIDE DEF g
<1>6. f < g + sequenceSpace /\ g < f + sequenceSpace
  BY <1>2, <1>3, <1>5
<1>7. f = g
  BY <1>2, <1>3, <1>4, <1>6, SameResidue
<1>8. QED
  BY <1>7 DEF g

LEMMA WholeStep ==
  ASSUME TypeOK, AssemblyInv, WholeInv, [Next]_vars
  PROVE  WholeInv'
<1>1. /\ sequenceSpace' = sequenceSpace
      /\ \A f : FramePackets(f)' = FramePackets(f)
  BY SpaceIsConstant
<1> SUFFICES ASSUME sequenceSpace > MaxDelay + Timeout
             PROVE  WholeInv'
  BY <1>1 DEF WholeInv
<1>2. /\ \A a \in assemblies : \E f \in Frames : Collects(a, f)
      /\ \A i \in DOMAIN queue : \E f \in Frames : queue[i].packets = FramePackets(f)
      /\ complete # NoFrame => \E f \in Frames : complete.packets = FramePackets(f)
  BY DEF WholeInv
<1>3. ASSUME now' = now, NEW a, NEW f, Collects(a, f)
      PROVE  Collects(a, f)'
  BY <1>1, <1>3 DEF Collects
<1>4. CASE UNCHANGED vars
  <2>1. UNCHANGED <<now, assemblies, queue, complete>>
    BY <1>4 DEF vars, streamVars, assemblyVars
  <2>2. QED
    BY <1>1, <1>2, <1>3, <2>1 DEF WholeInv
<1>5. ASSUME NEW more, Sweep(more)
      PROVE  WholeInv'
  <2>1. UNCHANGED <<now, queue, complete>> /\ assemblies' \subseteq assemblies
    BY <1>5 DEF Sweep, streamVars, Live
  <2>2. QED
    BY <1>1, <1>2, <1>3, <2>1 DEF WholeInv
<1>6. ASSUME NEW p \in Packets, CanArrive(p), ReceiveFragment(p)
      PROVE  WholeInv'
  <2>1. UNCHANGED <<now, queue>>
    BY <1>6 DEF ReceiveFragment, Receive, streamVars
  <2>2. PICK g \in Frames : g = p.origin
    BY PacketHeader DEF TypeOK
  <2>3. /\ p \in FramePackets(g) /\ p.seq = g % sequenceSpace
        /\ p.total = Size(Stream[g])
    BY <2>2, PacketHeader DEF TypeOK
  <2>4. /\ Grown(p).seq = p.seq /\ Grown(p).total = p.total
        /\ Grown(p).packets = Assembly(p).packets \cup {p}
        /\ Grown(p).age = 0
    BY GrownFields
  <2>5. Assembly(p).packets \subseteq FramePackets(g)
    <3>1. CASE Assembly(p) = Fresh(p)
      BY <3>1 DEF Fresh
    <3>2. CASE Assembly(p) \in assemblies /\ Matching(p) = {Assembly(p)}
      <4>1. Assembly(p).seq = p.seq /\ ~IsLate(Assembly(p))
        BY <3>2, Sorted
      <4>2. PICK f \in Frames : Collects(Assembly(p), f)
        BY <1>2, <3>2
      <4>3. f = g
        BY <1>6, <2>2, <3>2, <4>1, <4>2, SameFrame
      <4>4. QED
        BY <4>2, <4>3 DEF Collects
    <3>3. QED
      BY <3>1, <3>2, AssemblyChoice
  <2>6. Grown(p).packets \subseteq FramePackets(g)
    BY <2>3, <2>4, <2>5
  <2>7. Collects(Grown(p), g)
    <3>1. g <= now /\ now <= g + MaxDelay + Grown(p).age
      <4>1. g <= now /\ now <= g + MaxDelay
        BY <1>6, <2>2 DEF CanArrive
      <4>2. g \in Nat /\ MaxDelay \in Nat
        BY ReassemblyAssumption, LenProperties DEF Frames
      <4>3. QED
        BY <2>4, <4>1, <4>2
    <3>2. QED
      BY <2>3, <2>4, <2>6, <3>1 DEF Collects
  <2>8. Kept(p) \subseteq assemblies
    BY Sorted
  <2>9. CASE assemblies' \subseteq Kept(p) \cup {Grown(p)} /\ UNCHANGED complete
    <3>1. \A a \in assemblies' : \E f \in Frames : Collects(a, f)'
      BY <1>2, <1>3, <2>1, <2>7, <2>8, <2>9
    <3>2. QED
      BY <1>1, <1>2, <2>1, <2>9, <3>1 DEF WholeInv
  <2>10. CASE /\ Payload(Grown(p).packets) = p.total
              /\ assemblies' = Kept(p)
              /\ complete' = [packets |-> Grown(p).packets,
                              discontinuity |-> discontinuity \/ Gone(p) # {},
                              after |-> losses']
    <3>1. \A a \in assemblies' : \E f \in Frames : Collects(a, f)'
      BY <1>2, <1>3, <2>1, <2>8, <2>10
    <3>2. complete'.packets = FramePackets(g)
      <4>1. Grown(p).packets = FramePackets(g)
        BY <2>3, <2>6, <2>10, WholeBySize
      <4>2. QED
        BY <2>10, <4>1
    <3>3. QED
      BY <1>1, <1>2, <2>1, <3>1, <3>2 DEF WholeInv
  <2>11. QED
    BY <1>6, <2>9, <2>10 DEF ReceiveFragment
<1>7. CASE SubmitFrame
  <2>1. /\ complete # NoFrame /\ complete' = NoFrame
        /\ UNCHANGED <<now, assemblies>>
    BY <1>7 DEF SubmitFrame, streamVars, assemblyVars
  <2>2. \A a \in assemblies' : \E f \in Frames : Collects(a, f)'
    BY <1>2, <1>3, <2>1
  <2>3. \A i \in DOMAIN queue' : \E f \in Frames : queue'[i].packets = FramePackets(f)
    <3>1. CASE ~(Len(queue) >= QueueSize)
      <4>1. queue' = Append(queue, complete)
        BY <1>7, <3>1 DEF SubmitFrame
      <4>2. \A i \in DOMAIN queue' :
              (i \in DOMAIN queue /\ queue'[i] = queue[i]) \/ queue'[i] = complete
        BY <4>1, AppendProperties, LenProperties DEF TypeOK
      <4>3. QED
        BY <1>2, <2>1, <4>2
    <3>2. CASE Len(queue) >= QueueSize
      <4> DEFINE y == [complete EXCEPT !.discontinuity = TRUE, !.after = losses']
      <4>1. queue' = <<y>>
        BY <1>7, <3>2, Zenon DEF SubmitFrame
      <4>2. y.packets = complete.packets
        BY DEF TypeOK, FrameType
      <4> HIDE DEF y
      <4>3. \A i \in DOMAIN queue' : queue'[i] = y
        BY <4>1
      <4>4. QED
        BY <1>2, <2>1, <4>2, <4>3
    <3>3. QED
      BY <3>1, <3>2
  <2>4. QED
    BY <1>1, <2>1, <2>2, <2>3 DEF WholeInv
<1>8. CASE DecodeFrame
  <2>1. /\ queue # <<>> /\ queue' = Tail(queue)
        /\ UNCHANGED <<now, assemblies, complete>>
    BY <1>8 DEF DecodeFrame, streamVars, assemblyVars
  <2>2. \A i \in DOMAIN queue' : i + 1 \in DOMAIN queue /\ queue'[i] = queue[i + 1]
    <3>1. queue \in Seq(FrameType)
      BY DEF TypeOK
    <3>2. /\ Len(queue) \in Nat /\ DOMAIN queue = 1..Len(queue)
          /\ DOMAIN Tail(queue) = 1..(Len(queue) - 1)
          /\ \A i \in 1..(Len(queue) - 1) : Tail(queue)[i] = queue[i + 1]
      BY <2>1, <3>1, HeadTailProperties, LenProperties
    <3>3. QED
      BY <2>1, <3>2
  <2>3. QED
    BY <1>1, <1>2, <1>3, <2>1, <2>2 DEF WholeInv
<1>9. CASE Tick
  <2> DEFINE older(a) == [a EXCEPT !.age = @ + 1]
  <2>1. /\ now' = now + 1 /\ assemblies' = {older(a) : a \in assemblies}
        /\ UNCHANGED <<queue, complete>>
    BY <1>9 DEF Tick
  <2>2. ASSUME NEW a \in assemblies, NEW f \in Frames, Collects(a, f)
        PROVE  Collects(older(a), f)'
    <3>1. /\ older(a).packets = a.packets /\ older(a).seq = a.seq
          /\ older(a).total = a.total /\ older(a).age = a.age + 1
      BY DEF TypeOK, AssemblyType
    <3>2. /\ a.age \in Nat /\ now \in Nat /\ f \in Nat /\ MaxDelay \in Nat
      BY ReassemblyAssumption, LenProperties DEF TypeOK, AssemblyType, Frames
    <3> HIDE DEF older
    <3>3. f <= now' /\ now' <= f + MaxDelay + older(a).age
      BY <2>1, <2>2, <3>1, <3>2 DEF Collects
    <3>4. QED
      BY <1>1, <2>2, <3>1, <3>3 DEF Collects
  <2> HIDE DEF older
  <2>3. \A a \in assemblies' : \E f \in Frames : Collects(a, f)'
    BY <1>2, <2>1, <2>2
  <2>4. QED
    BY <1>1, <1>2, <2>1, <2>3 DEF WholeInv
<1>10. QED
  BY <1>4, <1>5, <1>6, <1>7, <1>8, <1>9, Steps

-----------------------------------------------------------------------------
LEMMA InitInv == Init => IInv
<1> SUFFICES ASSUME Init
             PROVE  IInv
  OBVIOUS
<1> USE DEF Init
<1>1. TypeOK
  <2>1. SequenceSpaces \subseteq Nat \ {0} /\ 0 <= ReceiveTimeout
    BY ReassemblyAssumption
  <2>2. NoFrame \in FrameType
    BY DEF NoFrame, FrameType
  <2>3. sequenceSpace \in Nat \ {0}
    BY <2>1
  <2>4. queue \in Seq(FrameType) /\ codec \in [after : Nat, flushed : Nat]
    OBVIOUS
  <2>5. complete \in FrameType /\ discontinuity \in BOOLEAN
    BY <2>2
  <2>6. QED
    BY <2>1, <2>3, <2>4, <2>5 DEF TypeOK
<1>2. AssemblyInv
  <2>1. IsFiniteSet({}) /\ Cardinality({}) = 0
    BY FS_EmptySet
  <2>2. 0 <= Slots
    BY ReassemblyAssumption
  <2>3. QED
    BY <2>1, <2>2 DEF AssemblyInv
<1>3. PacketsAccountedFor
  <2>1. Cardinality(NoFrame.packets) = 0
    BY FS_EmptySet DEF NoFrame
  <2>2. QED
    BY <2>1, CountNone, QueuedNone DEF PacketsAccountedFor
<1>4. LossInv
  BY DEF LossInv, Known, Before
<1>5. WholeInv
  BY DEF WholeInv
<1>6. QED
  BY <1>1, <1>2, <1>3, <1>4, <1>5 DEF IInv

(* The inductive invariant of the receive and decode threads' stream state *)
(* (receive_loop, process_datagram, submit_frame, decode_loop).            *)
THEOREM InvariantHolds == Spec => []IInv
<1>1. IInv /\ [Next]_vars => IInv'
  BY TypeStep, AssemblyStep, CountStep, LossStep, WholeStep DEF IInv
<1>2. QED
  BY InitInv, <1>1, PTL DEF Spec

(* Whatever the frames are and however the network treats their datagrams, *)
(* a frame that is queued for the codec has all the fragments of one frame *)
(* and none of another, as long as the numbers take longer to come round   *)
(* than a datagram and an assembly live (process_datagram).                *)
THEOREM OnlyWholeFrames == Spec => []FramesAreWhole
<1>1. IInv => FramesAreWhole
  <2> SUFFICES ASSUME WholeInv, sequenceSpace > MaxDelay + Timeout,
                      NEW frame \in Range(queue) \cup ({complete} \ {NoFrame})
               PROVE  \E f \in Frames : frame.packets = FramePackets(f)
    BY DEF IInv, FramesAreWhole
  <2>1. CASE frame \in Range(queue)
    BY <2>1 DEF WholeInv, Range
  <2>2. CASE frame = complete /\ complete # NoFrame
    BY <2>2 DEF WholeInv
  <2>3. QED
    BY <2>1, <2>2
<1>2. QED
  BY InvariantHolds, <1>1, PTL

(* No frame reaches the codec with an unflushed loss before it, in however *)
(* many places datagrams are dropped and however long the queue is         *)
(* (stream_discontinuity_, submit_frame).                                  *)
THEOREM LossesReachTheCodec == Spec => []CodecFlushedForLosses
<1>1. IInv => CodecFlushedForLosses
  BY DEF IInv, LossInv, CodecFlushedForLosses
<1>2. QED
  BY InvariantHolds, <1>1, PTL

(* The statistics account for every datagram (dropped_).                   *)
THEOREM NoPacketIsLost == Spec => []PacketsAccountedFor
<1>1. IInv => PacketsAccountedFor
  BY DEF IInv
<1>2. QED
  BY InvariantHolds, <1>1, PTL

(* The slots hold different frames, and never more of them than there are  *)
(* slots (get_or_create_assembly).                                         *)
THEOREM SlotsAreKept == Spec => []AssembliesAreDistinct
<1>1. IInv => AssembliesAreDistinct
  BY DEF IInv, AssemblyInv, AssembliesAreDistinct
<1>2. QED
  BY InvariantHolds, <1>1, PTL

(* No assembly outlives the timeout by more than one receive timeout       *)
(* (expire_assemblies, receive_loop).                                      *)
THEOREM SlotsAreFreed == Spec => []AssembliesExpire
<1>1. IInv => AssembliesExpire
  <2> SUFFICES ASSUME IInv, NEW a \in assemblies
               PROVE  a.age <= Timeout + ReceiveTimeout
    BY DEF AssembliesExpire
  <2>1. a.age \in Nat /\ idle \in Nat /\ idle <= ReceiveTimeout
    BY DEF IInv, TypeOK, AssemblyType
  <2>2. a.age <= Timeout + idle
    BY DEF IInv, AssemblyInv
  <2>3. Timeout \in Nat /\ ReceiveTimeout \in Nat
    BY ReassemblyAssumption
  <2>4. QED
    BY <2>1, <2>2, <2>3
<1>2. QED
  BY InvariantHolds, <1>1, PTL
=============================================================================
