--------------------------- MODULE FrameInputProofs ---------------------------
(***************************************************************************)
(* Proofs about FrameInput, for any stamps, delays, limits and time-outs.  *)
(***************************************************************************)
EXTENDS FrameInput, SequenceTheorems, WellFoundedInduction, TLAPS

-----------------------------------------------------------------------------
(* Every set of numbers that is not empty has a least one.                 *)
LEMMA LessIsWellFounded == IsWellFoundedOn({p \in Nat \X Nat : p[1] < p[2]}, Nat)
BY NatLessThanWellFounded, Zenon DEF OpToRel

LEMMA LeastNumber ==
  ASSUME NEW T \in SUBSET Nat, T # {}
  PROVE  \E n \in T : \A m \in T : n <= m
<1> DEFINE R == {p \in Nat \X Nat : p[1] < p[2]}
<1>1. IsWellFoundedOn(R, Nat)
  BY LessIsWellFounded
<1>2. \A m, n \in Nat : m < n => <<m, n>> \in R
  OBVIOUS
<1> HIDE DEF R
<1>3. PICK n \in T : \A m \in T : ~ (<<m, n>> \in R)
  BY <1>1, WFMin, Zenon
<1>4. \A m \in T : ~ (m < n)
  BY <1>2, <1>3
<1>5. QED
  BY <1>4

LEMMA MinIsLeast ==
  ASSUME NEW T \in SUBSET Nat, T # {}
  PROVE  Min(T) \in T /\ \A m \in T : Min(T) <= m
<1>1. \E n \in T : \A m \in T : n <= m
  BY LeastNumber
<1>2. QED
  BY <1>1 DEF Min

-----------------------------------------------------------------------------
(* The search: it finds a sample when there is one near enough, and what   *)
(* it finds is near enough.                                                *)
Near(buffer, stamp) ==
  {i \in DOMAIN buffer : Delta(buffer[i], stamp) <= SyncTolerance}

LEMMA NearestIsNear ==
  ASSUME NEW buffer \in Seq(Int), NEW stamp \in Int
  PROVE  \/ Near(buffer, stamp) = {} /\ Nearest(buffer, stamp) = None
         \/ \E i \in Near(buffer, stamp) : Nearest(buffer, stamp) = buffer[i]
<1> DEFINE delta(i) == Delta(buffer[i], stamp)
           near == Near(buffer, stamp)
           first == {i \in near : /\ \A j \in near : delta(i) <= delta(j)
                                  /\ \A j \in near : j < i => delta(i) < delta(j)}
<1>1. Nearest(buffer, stamp) =
        IF near = {} THEN None ELSE buffer[CHOOSE i \in first : TRUE]
  BY DEF Nearest, Near
<1>2. \A i \in near : i \in Nat /\ delta(i) \in Nat
  <2>1. DOMAIN buffer = 1..Len(buffer) /\ Len(buffer) \in Nat
        /\ \A i \in DOMAIN buffer : buffer[i] \in Int
    BY LenProperties, ElementOfSeq
  <2>2. QED
    BY <2>1 DEF Near, Delta
<1> HIDE DEF delta, near
<1>3. CASE near = {}
  BY <1>1, <1>3 DEF near
<1>4. CASE near # {}
  <2> DEFINE deltas == {delta(i) : i \in near}
  <2>1. deltas \in SUBSET Nat /\ deltas # {}
    BY <1>2, <1>4
  <2>2. PICK d \in deltas : \A e \in deltas : d <= e
    <3> HIDE DEF deltas
    <3>1. QED
      BY <2>1, LeastNumber
  <2> DEFINE best == {i \in near : delta(i) = d}
  <2>3. best \in SUBSET Nat /\ best # {}
    BY <1>2, <2>2
  <2>4. PICK i \in best : \A j \in best : i <= j
    <3> HIDE DEF best
    <3>1. QED
      BY <2>3, LeastNumber
  <2>5. \A j \in near : delta(i) <= delta(j)
    BY <2>2, <2>4
  <2>6. \A j \in near : j < i => delta(i) < delta(j)
    <3>1. SUFFICES ASSUME NEW j \in near, j < i, ~(delta(i) < delta(j))
                   PROVE  FALSE
      OBVIOUS
    <3>2. delta(i) \in Nat /\ delta(j) \in Nat /\ i \in Nat /\ j \in Nat
      BY <1>2, <2>4, <3>1
    <3>3. delta(j) = d
      BY <2>4, <2>5, <3>1, <3>2
    <3>4. i <= j
      BY <2>4, <3>1, <3>3
    <3>5. QED
      BY <3>1, <3>2, <3>4
  <2>7. i \in first
    BY <2>4, <2>5, <2>6
  <2> HIDE DEF first
  <2>8. (CHOOSE k \in first : TRUE) \in first
    BY <2>7
  <2>9. (CHOOSE k \in first : TRUE) \in near
    BY <2>8 DEF first
  <2>10. QED
    BY <1>1, <1>4, <2>9, Zenon DEF near
<1>5. QED
  BY <1>3, <1>4

(* The part of a sequence from one of its places on.                       *)
LEMMA Cut ==
  ASSUME NEW b \in Seq(Int), NEW k \in 1..(Len(b) + 1)
  PROVE  /\ SubSeq(b, k, Len(b)) \in Seq(Int)
         /\ Len(SubSeq(b, k, Len(b))) = Len(b) + 1 - k
         /\ \A i \in 1..(Len(b) + 1 - k) : SubSeq(b, k, Len(b))[i] = b[i + (k - 1)]
<1>1. Len(b) \in Nat /\ k \in Nat \ {0}
  BY LenProperties
<1>2. \A i \in k..Len(b) : b[i] \in Int
  BY <1>1, ElementOfSeq
<1> DEFINE c == SubSeq(b, k, Len(b))
<1>3. /\ c \in Seq(Int)
      /\ Len(c) = IF k <= Len(b) THEN Len(b) - k + 1 ELSE 0
      /\ \A i \in 1..(Len(b) - k + 1) : c[i] = b[k + i - 1]
  BY <1>1, <1>2, SubSeqProperties
<1> HIDE DEF c
<1>4. Len(c) = Len(b) + 1 - k /\ Len(b) - k + 1 = Len(b) + 1 - k
  BY <1>1, <1>3
<1>5. \A i \in 1..(Len(b) + 1 - k) : k + i - 1 = i + (k - 1)
  BY <1>1
<1>6. QED
  BY <1>3, <1>4, <1>5 DEF c


-----------------------------------------------------------------------------
(* read() never consumes more than has arrived.                            *)
SequenceInv ==
  /\ latestSeq \in Nat
  /\ consumedSeq \in Nat
  /\ consumedSeq <= latestSeq

(* The image of read() is one that arrived, and none later than the latest.*)
ImageInv ==
  /\ now \in Nat
  /\ (latestImage \in Int) \/ (latestImage = None /\ latestSeq = 0)
  /\ reader \in {"imu", "convert"} => image \in Int
  /\ image \in Int => latestImage \in Int /\ image <= latestImage

(* The history is in order, at most one sample to a tick ...               *)
OrderInv ==
  /\ imuBuffer \in Seq(Int)
  /\ \A i, j \in DOMAIN imuBuffer :
       i <= j => imuBuffer[i] + (j - i) <= imuBuffer[j]

(* ... it holds samples that arrived ...                                   *)
SeenInv ==
  /\ \A i \in DOMAIN imuBuffer : imuBuffer[i] \in imuSeen
  /\ \A s \in imuSeen : s \in Int /\ s <= now

(* ... and lacks one only when the bound pushed it out, which takes MaxImu *)
(* later ones, or when it is too old for the image that read() took last.  *)
InHistory(s) == \E i \in DOMAIN imuBuffer : imuBuffer[i] = s

Outdated(s) == image \in Int /\ s < image - (SyncTolerance + KeepBehind)

KeptInv ==
  \A s \in imuSeen : InHistory(s) \/ s + MaxImu <= now \/ Outdated(s)

HistoryInv == OrderInv /\ SeenInv /\ KeptInv

IInv == SequenceInv /\ ImageInv /\ HistoryInv /\ FrameIsSynchronous
          /\ NoImageSkipped

-----------------------------------------------------------------------------
(* What the actions do to the history.  A new sample at the end ...        *)
LEMMA Domain ==
  ASSUME NEW b \in Seq(Int)
  PROVE  /\ Len(b) \in Nat
         /\ DOMAIN b = 1..Len(b)
         /\ \A i \in DOMAIN b : b[i] \in Int
BY LenProperties, ElementOfSeq

Ordered(b) == \A i, j \in DOMAIN b : i <= j => b[i] + (j - i) <= b[j]

LEMMA AppendOrdered ==
  ASSUME NEW b \in Seq(Int), Ordered(b), NEW stamp \in Int,
         \A i \in DOMAIN b : b[i] < stamp
  PROVE  Append(b, stamp) \in Seq(Int) /\ Ordered(Append(b, stamp))
<1> DEFINE c == Append(b, stamp)
<1>1. Len(b) \in Nat /\ DOMAIN b = 1..Len(b) /\ \A i \in DOMAIN b : b[i] \in Int
  BY Domain
<1>2. /\ c \in Seq(Int)
      /\ DOMAIN c = 1..(Len(b) + 1)
      /\ c[Len(b) + 1] = stamp
      /\ \A i \in 1..Len(b) : c[i] = b[i]
  BY <1>1, AppendProperties
<1> HIDE DEF c
<1>3. ASSUME NEW i \in DOMAIN c, NEW j \in DOMAIN c, i <= j
      PROVE  c[i] + (j - i) <= c[j]
  <2>1. CASE j \in 1..Len(b)
    <3>1. i \in DOMAIN b /\ j \in DOMAIN b
      BY <1>1, <1>2, <1>3, <2>1
    <3>2. b[i] + (j - i) <= b[j]
      BY <1>3, <3>1 DEF Ordered
    <3>3. QED
      BY <1>1, <1>2, <3>1, <3>2
  <2>2. CASE i \in 1..Len(b) /\ j = Len(b) + 1
    <3>1. i \in DOMAIN b /\ Len(b) \in DOMAIN b /\ i <= Len(b)
      BY <1>1, <2>2
    <3>2. b[i] + (Len(b) - i) <= b[Len(b)]
      BY <3>1 DEF Ordered
    <3>3. b[Len(b)] < stamp /\ b[i] \in Int /\ b[Len(b)] \in Int
      BY <1>1, <3>1
    <3>4. c[i] = b[i] /\ c[j] = stamp
      BY <1>2, <2>2
    <3>5. b[i] + (Len(b) + 1 - i) <= stamp
      BY <1>1, <2>2, <3>2, <3>3
    <3>6. QED
      BY <2>2, <3>4, <3>5
  <2>3. CASE i = Len(b) + 1 /\ j = Len(b) + 1
    BY <1>1, <1>2, <2>3
  <2>4. QED
    BY <1>1, <1>2, <1>3, <2>1, <2>2, <2>3
<1>4. QED
  BY <1>2, <1>3 DEF Ordered, c

(* ... and the samples that are left when some go at the front.            *)
FromOn(b, k) == SubSeq(b, k, Len(b))

LEMMA CutOrdered ==
  ASSUME NEW b \in Seq(Int), Ordered(b), NEW k \in 1..(Len(b) + 1)
  PROVE  /\ FromOn(b, k) \in Seq(Int)
         /\ Ordered(FromOn(b, k))
         /\ \A i \in DOMAIN FromOn(b, k) : \E j \in DOMAIN b : FromOn(b, k)[i] = b[j]
         /\ \A j \in DOMAIN b :
              j >= k => \E i \in DOMAIN FromOn(b, k) : FromOn(b, k)[i] = b[j]
<1> DEFINE c == FromOn(b, k)
<1>1. Len(b) \in Nat /\ DOMAIN b = 1..Len(b) /\ k \in Nat \ {0}
      /\ \A i \in DOMAIN b : b[i] \in Int
  BY Domain
<1>2. /\ c \in Seq(Int)
      /\ Len(c) = Len(b) + 1 - k
      /\ \A i \in 1..(Len(b) + 1 - k) : c[i] = b[i + (k - 1)]
  BY Cut DEF FromOn
<1> HIDE DEF c
<1>3. DOMAIN c = 1..(Len(b) + 1 - k)
  BY <1>2, Domain
<1>4. \A i \in DOMAIN c : i + (k - 1) \in DOMAIN b /\ c[i] = b[i + (k - 1)]
  <2>1. \A i \in 1..(Len(b) + 1 - k) : i + (k - 1) \in 1..Len(b)
    BY <1>1
  <2>2. QED
    BY <1>1, <1>2, <1>3, <2>1, Zenon
<1>5. Ordered(c)
  <2>1. SUFFICES ASSUME NEW i \in DOMAIN c, NEW j \in DOMAIN c, i <= j
                 PROVE  c[i] + (j - i) <= c[j]
    BY DEF Ordered
  <2> DEFINE p == i + (k - 1)
             q == j + (k - 1)
  <2>2. p \in DOMAIN b /\ q \in DOMAIN b /\ c[i] = b[p] /\ c[j] = b[q]
    BY <1>4
  <2>3. p <= q /\ q - p = j - i
    BY <1>1, <1>3, <2>1
  <2> HIDE DEF p, q
  <2>4. b[p] + (q - p) <= b[q]
    BY <2>2, <2>3 DEF Ordered
  <2>5. QED
    BY <2>2, <2>3, <2>4
<1>6. ASSUME NEW j \in DOMAIN b, j >= k
      PROVE  \E i \in DOMAIN c : c[i] = b[j]
  <2>1. j - (k - 1) \in DOMAIN c /\ (j - (k - 1)) + (k - 1) = j
    BY <1>1, <1>3, <1>6
  <2>2. c[j - (k - 1)] = b[j]
    BY <1>4, <2>1
  <2>3. QED
    BY <2>1, <2>2
<1>7. QED
  BY <1>2, <1>4, <1>5, <1>6 DEF c

(* A push keeps all samples but the first, and that one too while there is *)
(* room.                                                                   *)
LEMMA PushKeeps ==
  ASSUME NEW b \in Seq(Int), Ordered(b), NEW stamp \in Int,
         \A i \in DOMAIN b : b[i] < stamp
  PROVE  /\ Push(b, stamp) \in Seq(Int)
         /\ Ordered(Push(b, stamp))
         /\ \A i \in DOMAIN Push(b, stamp) :
              \/ Push(b, stamp)[i] = stamp
              \/ \E j \in DOMAIN b : Push(b, stamp)[i] = b[j]
         /\ \E i \in DOMAIN Push(b, stamp) : Push(b, stamp)[i] = stamp
         /\ \A j \in DOMAIN b :
              \/ b[j] + MaxImu <= stamp
              \/ \E i \in DOMAIN Push(b, stamp) : Push(b, stamp)[i] = b[j]
<1> DEFINE c == Push(b, stamp)
           l == Append(b, stamp)
<1>1. Len(b) \in Nat /\ DOMAIN b = 1..Len(b) /\ \A i \in DOMAIN b : b[i] \in Int
  BY Domain
<1>2. l \in Seq(Int) /\ Ordered(l)
  BY AppendOrdered
<1>3. /\ Len(l) = Len(b) + 1
      /\ DOMAIN l = 1..(Len(b) + 1)
      /\ l[Len(b) + 1] = stamp
      /\ \A i \in 1..Len(b) : l[i] = b[i]
  BY <1>1, AppendProperties
<1>4. c = IF Len(l) > MaxImu THEN Tail(l) ELSE l
  BY DEF Push
<1> HIDE DEF l
<1>5. \A i \in DOMAIN l : l[i] = stamp \/ \E j \in DOMAIN b : l[i] = b[j]
  <2>1. \A i \in DOMAIN l : i = Len(b) + 1 \/ i \in DOMAIN b
    BY <1>1, <1>3
  <2>2. QED
    BY <1>1, <1>3, <2>1
<1>6. Len(b) + 1 \in DOMAIN l /\ \A j \in DOMAIN b : j \in DOMAIN l /\ l[j] = b[j]
  BY <1>1, <1>3
<1>7. CASE ~(Len(l) > MaxImu)
  BY <1>2, <1>3, <1>4, <1>5, <1>6, <1>7
<1>8. CASE Len(l) > MaxImu
  <2>1. MaxImu \in Nat \ {0}
    BY InputAssumption
  <2>2. 2 \in 1..(Len(l) + 1) /\ Len(l) \in Nat /\ Len(l) >= 2
    BY <1>1, <1>3, <1>8, <2>1
  <2>3. c = FromOn(l, 2)
    <3>1. l # << >>
      BY <2>2
    <3>2. QED
      BY <1>2, <1>4, <1>8, <3>1, TailIsSubSeq DEF FromOn
  <2>4. /\ c \in Seq(Int)
        /\ Ordered(c)
        /\ \A i \in DOMAIN c : \E j \in DOMAIN l : c[i] = l[j]
        /\ \A j \in DOMAIN l : j >= 2 => \E i \in DOMAIN c : c[i] = l[j]
    BY <1>2, <2>2, <2>3, CutOrdered
  <2>5. \E i \in DOMAIN c : c[i] = stamp
    BY <1>1, <1>3, <1>6, <2>2, <2>4
  <2>6. ASSUME NEW j \in DOMAIN b
        PROVE  b[j] + MaxImu <= stamp \/ \E i \in DOMAIN c : c[i] = b[j]
    <3>1. j \in DOMAIN l /\ l[j] = b[j] /\ j \in Nat /\ j >= 1
      BY <1>1, <1>6
    <3>2. CASE j >= 2
      BY <2>4, <3>1, <3>2
    <3>3. CASE j = 1
      <4>1. l[1] + ((Len(b) + 1) - 1) <= l[Len(b) + 1]
        <5>1. 1 \in DOMAIN l /\ 1 <= Len(b) + 1
          BY <1>1, <3>1, <3>3
        <5>2. QED
          BY <1>2, <1>6, <5>1 DEF Ordered
      <4>2. b[1] + Len(b) <= stamp /\ b[1] \in Int
        BY <1>1, <1>3, <3>1, <3>3, <4>1
      <4>3. Len(b) >= MaxImu
        BY <1>1, <1>3, <1>8, <2>1
      <4>4. QED
        BY <1>1, <2>1, <3>3, <4>2, <4>3
    <3>4. QED
      BY <3>1, <3>2, <3>3
  <2>7. QED
    BY <1>5, <2>4, <2>5, <2>6
<1>9. QED
  BY <1>7, <1>8

(* Trimming drops only samples that are too old for the image.             *)
LEMMA TrimKeeps ==
  ASSUME NEW b \in Seq(Int), Ordered(b), NEW stamp \in Int
  PROVE  /\ Trimmed(b, stamp) \in Seq(Int)
         /\ Ordered(Trimmed(b, stamp))
         /\ \A i \in DOMAIN Trimmed(b, stamp) :
              \E j \in DOMAIN b : Trimmed(b, stamp)[i] = b[j]
         /\ \A j \in DOMAIN b :
              \/ b[j] < stamp - (SyncTolerance + KeepBehind)
              \/ \E i \in DOMAIN Trimmed(b, stamp) : Trimmed(b, stamp)[i] = b[j]
<1>1. Len(b) \in Nat /\ DOMAIN b = 1..Len(b) /\ \A i \in DOMAIN b : b[i] \in Int
  BY Domain
<1> DEFINE c == Trimmed(b, stamp)
           limit == stamp - (SyncTolerance + KeepBehind)
           useful == {i \in DOMAIN b : b[i] >= limit}
           k == Min(useful \cup {Len(b) + 1})
<1>2. limit \in Int
  BY InputAssumption
<1>3. c = FromOn(b, k)
  BY DEF Trimmed, FromOn
<1>4. k \in useful \cup {Len(b) + 1} /\ \A m \in useful : k <= m
  <2>1. (useful \cup {Len(b) + 1}) \in SUBSET Nat
    BY <1>1
  <2> HIDE DEF useful
  <2>2. QED
    BY <2>1, MinIsLeast
<1>5. k \in 1..(Len(b) + 1)
  BY <1>1, <1>4
<1> HIDE DEF k
<1>6. /\ c \in Seq(Int)
      /\ Ordered(c)
      /\ \A i \in DOMAIN c : \E j \in DOMAIN b : c[i] = b[j]
      /\ \A j \in DOMAIN b : j >= k => \E i \in DOMAIN c : c[i] = b[j]
  BY <1>3, <1>5, CutOrdered
<1>7. ASSUME NEW j \in DOMAIN b
      PROVE  b[j] < limit \/ \E i \in DOMAIN c : c[i] = b[j]
  <2>1. CASE j \in useful
    <3>1. j >= k
      BY <1>1, <1>4, <1>5, <2>1
    <3>2. QED
      BY <1>6, <3>1
  <2>2. CASE j \notin useful
    BY <1>1, <1>2, <2>2
  <2>3. QED
    BY <2>1, <2>2
<1>8. QED
  BY <1>6, <1>7

-----------------------------------------------------------------------------
(* The search, read off its result.                                        *)
LEMMA FoundIsNear ==
  ASSUME NEW buffer \in Seq(Int), NEW stamp \in Int, Nearest(buffer, stamp) # None
  PROVE  /\ Nearest(buffer, stamp) \in Int
         /\ Delta(Nearest(buffer, stamp), stamp) <= SyncTolerance
<1>1. PICK i \in Near(buffer, stamp) : Nearest(buffer, stamp) = buffer[i]
  BY NearestIsNear
<1>2. i \in DOMAIN buffer /\ Delta(buffer[i], stamp) <= SyncTolerance
  BY <1>1 DEF Near
<1>3. buffer[i] \in Int
  BY <1>2, Domain
<1>4. QED
  BY <1>1, <1>2, <1>3

LEMMA MissedMeansNone ==
  ASSUME NEW buffer \in Seq(Int), NEW stamp \in Int, Nearest(buffer, stamp) = None
  PROVE  \A i \in DOMAIN buffer : Delta(buffer[i], stamp) > SyncTolerance
<1>1. Near(buffer, stamp) = {}
  <2>1. SUFFICES ASSUME NEW i \in Near(buffer, stamp), Nearest(buffer, stamp) = buffer[i]
                 PROVE  FALSE
    BY NearestIsNear
  <2>2. buffer[i] \in Int
    BY Domain DEF Near
  <2>3. QED
    BY <2>1, <2>2, InputAssumption
<1>2. SyncTolerance \in Int /\ \A i \in DOMAIN buffer : Delta(buffer[i], stamp) \in Int
  BY Domain, InputAssumption DEF Delta
<1>3. QED
  BY <1>1, <1>2 DEF Near

-----------------------------------------------------------------------------
(* Steps that leave the history alone, as most do: an image only becomes   *)
(* later, and time passes.                                                 *)
LEMMA HistoryStays ==
  ASSUME HistoryInv, now \in Nat, now' \in Nat, now <= now',
         UNCHANGED <<imuBuffer, imuSeen>>,
         image \in Int => image' \in Int /\ image <= image'
  PROVE  HistoryInv'
<1>1. OrderInv'
  BY DEF HistoryInv, OrderInv
<1>2. SeenInv'
  BY DEF HistoryInv, SeenInv
<1>3. KeptInv'
  <2>1. SUFFICES ASSUME NEW s \in imuSeen
                 PROVE  (InHistory(s) \/ s + MaxImu <= now \/ Outdated(s))'
    BY DEF KeptInv
  <2>2. s \in Int /\ MaxImu \in Nat /\ SyncTolerance \in Nat /\ KeepBehind \in Nat
    BY InputAssumption DEF HistoryInv, SeenInv
  <2>3. InHistory(s) => InHistory(s)'
    BY DEF InHistory
  <2>4. s + MaxImu <= now => s + MaxImu <= now'
    BY <2>2
  <2>5. Outdated(s) => Outdated(s)'
    BY <2>2 DEF Outdated
  <2>6. InHistory(s) \/ s + MaxImu <= now \/ Outdated(s)
    BY DEF HistoryInv, KeptInv
  <2>7. QED
    BY <2>3, <2>4, <2>5, <2>6
<1>4. QED
  BY <1>1, <1>2, <1>3 DEF HistoryInv

LEMMA CallbacksPreserve ==
  ASSUME IInv, Callbacks
  PROVE  IInv'
<1>1. ASSUME NEW stamp \in Stamps, ImageCallback(stamp)
      PROVE  IInv'
  <2>1. /\ latestSeq' = latestSeq + 1 /\ latestImage' = stamp
        /\ latestImage # None => stamp > latestImage
        /\ UNCHANGED <<now, imuBuffer, imuSeen>> /\ UNCHANGED readVars
    BY <1>1 DEF ImageCallback
  <2>2. stamp \in Int
    BY InputAssumption DEF Stamps
  <2>3. consumedSeq' # latestSeq' /\ SequenceInv'
    BY <2>1 DEF IInv, SequenceInv, readVars
  <2>4. FrameIsSynchronous'
    BY <2>1 DEF IInv, FrameIsSynchronous, Delta, readVars
  <2>5. NoImageSkipped'
    BY <2>3 DEF NoImageSkipped
  <2>6. ImageInv'
    <3>1. latestImage \in Int => latestImage < stamp
      BY <2>1, <2>2, InputAssumption
    <3>2. QED
      BY <2>1, <2>2, <3>1 DEF IInv, ImageInv, readVars
  <2>7. HistoryInv'
    BY <2>1, HistoryStays DEF IInv, ImageInv, readVars
  <2>8. QED
    BY <2>3, <2>4, <2>5, <2>6, <2>7 DEF IInv
<1>2. ASSUME NEW stamp \in Stamps, stamp \in (now - MaxDelay)..now, ImuCallback(stamp)
      PROVE  IInv'
  <2>1. /\ imuBuffer' = Push(imuBuffer, stamp) /\ imuSeen' = imuSeen \cup {stamp}
        /\ \A s \in imuSeen : stamp > s
        /\ UNCHANGED <<now, latestImage, latestSeq>> /\ UNCHANGED readVars
    BY <1>2 DEF ImuCallback
  <2>2. stamp \in Int /\ stamp <= now /\ now \in Nat /\ MaxImu \in Nat
    BY <1>2, InputAssumption DEF Stamps, IInv, ImageInv
  <2>3. SequenceInv' /\ NoImageSkipped' /\ FrameIsSynchronous' /\ ImageInv'
    BY <2>1 DEF readVars, IInv, SequenceInv, FrameIsSynchronous, NoImageSkipped,
                ImageInv, Delta
  <2>4. /\ imuBuffer \in Seq(Int) /\ Ordered(imuBuffer)
        /\ \A i \in DOMAIN imuBuffer : imuBuffer[i] \in imuSeen
        /\ \A s \in imuSeen : s \in Int /\ s <= now
    BY DEF IInv, HistoryInv, OrderInv, SeenInv, Ordered
  <2>5. \A i \in DOMAIN imuBuffer : imuBuffer[i] < stamp
    BY <2>1, <2>2, <2>4
  <2>6. /\ imuBuffer' \in Seq(Int)
        /\ Ordered(imuBuffer')
        /\ \A i \in DOMAIN imuBuffer' :
             \/ imuBuffer'[i] = stamp
             \/ \E j \in DOMAIN imuBuffer : imuBuffer'[i] = imuBuffer[j]
        /\ \E i \in DOMAIN imuBuffer' : imuBuffer'[i] = stamp
        /\ \A j \in DOMAIN imuBuffer :
             \/ imuBuffer[j] + MaxImu <= stamp
             \/ \E i \in DOMAIN imuBuffer' : imuBuffer'[i] = imuBuffer[j]
    BY <2>1, <2>2, <2>4, <2>5, PushKeeps
  <2>7. OrderInv'
    BY <2>6 DEF OrderInv, Ordered
  <2>8. SeenInv'
    <3>1. \A i \in DOMAIN imuBuffer' : imuBuffer'[i] \in imuSeen'
      BY <2>1, <2>4, <2>6
    <3>2. \A s \in imuSeen' : s \in Int /\ s <= now'
      BY <2>1, <2>2, <2>4
    <3>3. QED
      BY <3>1, <3>2 DEF SeenInv
  <2>9. KeptInv'
    <3>1. SUFFICES ASSUME NEW s \in imuSeen'
                   PROVE  InHistory(s)' \/ s + MaxImu <= now' \/ Outdated(s)'
      BY DEF KeptInv
    <3>2. CASE s = stamp
      BY <2>6, <3>2 DEF InHistory
    <3>3. CASE s \in imuSeen
      <4>1. InHistory(s) \/ s + MaxImu <= now \/ Outdated(s)
        BY <3>3 DEF IInv, HistoryInv, KeptInv
      <4>2. CASE InHistory(s)
        <5>1. PICK j \in DOMAIN imuBuffer : imuBuffer[j] = s
          BY <4>2 DEF InHistory
        <5>2. s \in Int /\ (s + MaxImu <= stamp => s + MaxImu <= now')
          BY <2>1, <2>2, <2>4, <3>3
        <5>3. QED
          BY <2>6, <5>1, <5>2 DEF InHistory
      <4>3. Outdated(s) => Outdated(s)'
        BY <2>1 DEF Outdated, readVars
      <4>4. QED
        BY <2>1, <4>1, <4>2, <4>3
    <3>4. QED
      BY <2>1, <3>1, <3>2, <3>3
  <2>10. QED
    BY <2>3, <2>7, <2>8, <2>9 DEF IInv, HistoryInv
<1>3. QED
  BY <1>1, <1>2 DEF Callbacks

LEMMA PairPreserves ==
  ASSUME IInv, PairImu
  PROVE  IInv'
<1>1. image \in Int /\ imuBuffer \in Seq(Int) /\ Ordered(imuBuffer)
  BY DEF PairImu, IInv, ImageInv, HistoryInv, OrderInv, Ordered
<1>2. FrameIsSynchronous'
  <2>1. Delta(imu', image') <= SyncTolerance
    BY <1>1, FoundIsNear DEF PairImu
  <2>2. QED
    BY <2>1 DEF FrameIsSynchronous, Delta
<1>3. SequenceInv' /\ NoImageSkipped' /\ ImageInv'
  BY <1>1 DEF PairImu, IInv, SequenceInv, NoImageSkipped, ImageInv
<1>4. /\ imuBuffer' \in Seq(Int)
      /\ Ordered(imuBuffer')
      /\ \A i \in DOMAIN imuBuffer' :
           \E j \in DOMAIN imuBuffer : imuBuffer'[i] = imuBuffer[j]
      /\ \A j \in DOMAIN imuBuffer :
           \/ imuBuffer[j] < image - (SyncTolerance + KeepBehind)
           \/ \E i \in DOMAIN imuBuffer' : imuBuffer'[i] = imuBuffer[j]
  BY <1>1, TrimKeeps DEF PairImu
<1>5. OrderInv'
  BY <1>4 DEF OrderInv, Ordered
<1>6. UNCHANGED <<now, imuSeen, image>>
  BY DEF PairImu
<1>7. SeenInv'
  BY <1>4, <1>6 DEF IInv, HistoryInv, SeenInv
<1>8. KeptInv'
  <2>1. SUFFICES ASSUME NEW s \in imuSeen
                 PROVE  InHistory(s)' \/ s + MaxImu <= now' \/ Outdated(s)'
    BY <1>6 DEF KeptInv
  <2>2. InHistory(s) \/ s + MaxImu <= now \/ Outdated(s)
    BY DEF IInv, HistoryInv, KeptInv
  <2>3. CASE InHistory(s)
    <3>1. PICK j \in DOMAIN imuBuffer : imuBuffer[j] = s
      BY <2>3 DEF InHistory
    <3>2. s < image - (SyncTolerance + KeepBehind)
            \/ \E i \in DOMAIN imuBuffer' : imuBuffer'[i] = s
      BY <1>4, <3>1
    <3>3. QED
      BY <1>1, <1>6, <3>2 DEF InHistory, Outdated
  <2>4. Outdated(s) => Outdated(s)'
    BY <1>6 DEF Outdated
  <2>5. QED
    BY <1>6, <2>2, <2>3, <2>4
<1>9. QED
  BY <1>2, <1>3, <1>5, <1>7, <1>8 DEF IInv, HistoryInv

LEMMA ReadPreserves ==
  ASSUME IInv, ReadStep
  PROVE  IInv'
<1>1. CASE TakeImage
  <2>1. latestImage \in Int
    BY <1>1 DEF TakeImage, IInv, SequenceInv, ImageInv
  <2>2. SequenceInv' /\ FrameIsSynchronous' /\ NoImageSkipped' /\ ImageInv'
    BY <1>1, <2>1 DEF TakeImage, cacheVars, IInv, SequenceInv, FrameIsSynchronous,
                      NoImageSkipped, ImageInv
  <2>3. HistoryInv'
    BY <1>1, <2>1, HistoryStays DEF TakeImage, cacheVars, IInv, ImageInv
  <2>4. QED
    BY <2>2, <2>3 DEF IInv
<1>2. CASE PairImu
  BY <1>2, PairPreserves
<1>3. CASE StartRead \/ ImageTimeout \/ ImuTimeout \/ Convert
  <2>1. /\ UNCHANGED <<now, cacheVars, consumedSeq, image, imu, taken>>
        /\ reader' \in {"idle", "image"}
    BY <1>3 DEF StartRead, ImageTimeout, ImuTimeout, Convert, Return
  <2>2. (reader' = "idle" /\ status' = "ok") => reader = "convert"
    BY <1>3 DEF StartRead, ImageTimeout, ImuTimeout, Convert, Return
  <2>3. FrameIsSynchronous'
    BY <2>1, <2>2 DEF IInv, FrameIsSynchronous, Delta
  <2>4. SequenceInv' /\ NoImageSkipped' /\ ImageInv'
    BY <2>1 DEF cacheVars, IInv, SequenceInv, NoImageSkipped, ImageInv
  <2>5. HistoryInv'
    BY <2>1, HistoryStays DEF cacheVars, IInv, ImageInv
  <2>6. QED
    BY <2>3, <2>4, <2>5 DEF IInv
<1>4. QED
  BY <1>1, <1>2, <1>3 DEF ReadStep

LEMMA Invariance == Spec => []IInv
<1>1. Init => IInv
  <2>1. ASSUME Init
        PROVE  SequenceInv /\ ImageInv /\ FrameIsSynchronous /\ NoImageSkipped
    BY <2>1, InputAssumption DEF Init, SequenceInv, ImageInv, FrameIsSynchronous,
                NoImageSkipped
  <2>2. ASSUME Init
        PROVE  HistoryInv
    BY <2>2 DEF Init, HistoryInv, OrderInv, SeenInv, KeptInv
  <2>3. QED
    BY <2>1, <2>2 DEF IInv
<1>2. IInv /\ [Next]_vars => IInv'
  <2>1. ASSUME IInv, Tick \/ UNCHANGED vars
        PROVE  IInv'
    <3>1. SequenceInv' /\ FrameIsSynchronous' /\ NoImageSkipped' /\ ImageInv'
      BY <2>1 DEF Tick, vars, cacheVars, readVars, IInv, SequenceInv,
                  FrameIsSynchronous, NoImageSkipped, ImageInv, Delta
    <3>2. HistoryInv'
      BY <2>1, HistoryStays DEF Tick, vars, cacheVars, readVars, IInv, ImageInv
    <3>3. QED
      BY <3>1, <3>2 DEF IInv
  <2>2. QED
    BY <2>1, CallbacksPreserve, ReadPreserves DEF Next
<1>3. QED
  BY <1>1, <1>2, PTL DEF Spec

-----------------------------------------------------------------------------
(* The image and the sample that read() returns belong together, whatever  *)
(* arrives while it waits.                                                 *)
THEOREM SynchronousFrames == Spec => []FrameIsSynchronous
<1>1. IInv => FrameIsSynchronous
  BY DEF IInv
<1>2. QED
  BY <1>1, Invariance, PTL

(* No image that arrives during a call is taken for consumed.              *)
THEOREM NoSkippedImage == Spec => []NoImageSkipped
<1>1. IInv => NoImageSkipped
  BY DEF IInv
<1>2. QED
  BY <1>1, Invariance, PTL

(* The history is long enough: when it spans the age that a frame may have *)
(* and the tolerance, a fresh image that finds no sample never had one.    *)
LEMMA NothingNearWasLost ==
  ASSUME IInv, MaxImu > SyncTolerance + MaxFrameAge - UpstreamLatency,
         ImuTimeout, EffectiveAge(image) <= MaxFrameAge, NEW s \in imuSeen
  PROVE  Delta(s, image) > SyncTolerance
<1>1. /\ SyncTolerance \in Nat /\ KeepBehind \in Nat /\ MaxFrameAge \in Nat
      /\ UpstreamLatency \in Nat /\ MaxImu \in Nat
  BY InputAssumption
<1>2. image \in Int /\ now \in Nat /\ s \in Int /\ s <= now /\ imuBuffer \in Seq(Int)
  BY DEF ImuTimeout, IInv, ImageInv, HistoryInv, OrderInv, SeenInv
<1>3. now - image + UpstreamLatency <= MaxFrameAge
  BY <1>1, <1>2 DEF EffectiveAge
<1>4. InHistory(s) \/ s + MaxImu <= now \/ Outdated(s)
  BY DEF IInv, HistoryInv, KeptInv
<1>5. CASE InHistory(s)
  <2>1. \A i \in DOMAIN imuBuffer : Delta(imuBuffer[i], image) > SyncTolerance
    BY <1>2, MissedMeansNone DEF ImuTimeout
  <2>2. QED
    BY <1>5, <2>1 DEF InHistory
<1>6. CASE s + MaxImu <= now
  BY <1>1, <1>2, <1>3, <1>6 DEF Delta
<1>7. CASE Outdated(s)
  BY <1>1, <1>2, <1>7 DEF Outdated, Delta
<1>8. QED
  BY <1>4, <1>5, <1>6, <1>7

THEOREM HistorySuffices ==
  ASSUME MaxImu > SyncTolerance + MaxFrameAge - UpstreamLatency
  PROVE  Spec => UnmatchedMeansNoSample
<1>1. IInv /\ [Next]_vars
        => [ImuTimeout /\ EffectiveAge(image) <= MaxFrameAge
              => \A s \in imuSeen : Delta(s, image) > SyncTolerance]_vars
  BY NothingNearWasLost
<1>2. QED
  BY <1>1, Invariance, PTL DEF Spec, UnmatchedMeansNoSample
===============================================================================
