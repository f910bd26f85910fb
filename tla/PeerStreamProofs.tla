-------------------------- MODULE PeerStreamProofs --------------------------
(***************************************************************************)
(* Proofs about PeerStream: the windows and the table of tracked streams   *)
(* stay within their limits, what goes up rises or is reported, and what   *)
(* is thrown out of an answered window is carried again.                   *)
(***************************************************************************)
EXTENDS PeerStream, FiniteSetTheorems, SequenceTheorems, WellFoundedInduction,
        NaturalsInduction, TLAPS

Tracks == [gen : Nat, last : 0..MaxSeq, held : SUBSET (1..MaxSeq)]
Pieces == [key : Streams, gen : Nat \ {0}, seq : 1..MaxSeq]

(* What the consumer has of a stream whose track is t. *)
Passed(t) == [gen |-> t.gen, last |-> t.last, held |-> {}]

(* A track within its limits, whose window does not overlap what has gone  *)
(* up; only a stream without a track has incarnation 0.                    *)
TrackOK(t) ==
  /\ t \in Tracks
  /\ Cardinality(t.held) < Highest({2, ResumeBuffer})
  /\ \A n \in t.held : n > t.last + 1
  /\ t.gen = 0 => t = NoTrack

(* What the invariant says of `order`, for a set T of tracked streams. *)
OrderOK(o, T) ==
  /\ o \in Seq(Streams) /\ Len(o) <= MaxStreams
  /\ ToSet(o) = T /\ IsInjective(o)

(* The inductive invariant: the windows are bounded, and the consumer has  *)
(* exactly what the tracks say it has.                                     *)
LedgerInv ==
  /\ DOMAIN seen = Streams /\ \A k \in Streams : TrackOK(seen[k])
  /\ seen = [k \in Streams |-> seen[k]]
  /\ got = [k \in Streams |-> Passed(seen[k])]
  /\ OrderOK(order, Tracked)

(* The rest of the type invariant: what is on its way. *)
WireOK ==
  /\ sender \in [Streams -> [gen : Nat \ {0}, top : 0..MaxSeq]]
  /\ link \in {"up", "cut", "down", "closed"}
  /\ wire \in Seq(Pieces)
  /\ asks \in Seq([key : Streams, after : Nat])

StreamInv == WireOK /\ LedgerInv

-----------------------------------------------------------------------------
(* Numbers *)

(* A set of pieces that is not empty has a lowest one: the floor that a    *)
(* truncation reports exists.                                              *)
LEMMA LowestIsLowest ==
  ASSUME NEW S \in SUBSET Nat, S # {}
  PROVE  Lowest(S) \in S /\ \A m \in S : Lowest(S) <= m
<1>1. IsWellFoundedOn(OpToRel(<, Nat), Nat)
  BY NatLessThanWellFounded
<1>2. PICK x \in S : \A y \in S : ~(<<y, x>> \in OpToRel(<, Nat))
  BY <1>1, WFMin
<1>3. \A y \in S : ~(y < x)
  BY <1>2 DEF OpToRel
<1>4. \A y \in S : x <= y
  BY <1>3
<1> QED
  BY <1>4 DEF Lowest

(* And a highest one, which the track moves on to. *)
LEMMA HighestIsHighest ==
  ASSUME NEW b \in Nat, NEW S \in SUBSET (0..b), S # {}
  PROVE  Highest(S) \in S /\ \A m \in S : m <= Highest(S)
<1> DEFINE T == {b - n : n \in S}
<1>1. T \in SUBSET Nat /\ T # {}
  <2>1. \A n \in S : n \in Nat /\ b - n \in Nat
    OBVIOUS
  <2> QED
    BY <2>1
<1>2. Lowest(T) \in T /\ \A m \in T : Lowest(T) <= m
  BY <1>1, LowestIsLowest
<1>3. PICK x \in S : Lowest(T) = b - x
  BY <1>2
<1>4. \A m \in S : m <= x
  <2> TAKE m \in S
  <2>1. b - m \in T
    OBVIOUS
  <2>2. b - x <= b - m
    BY <1>2, <1>3, <2>1
  <2>3. m \in Nat /\ x \in Nat
    OBVIOUS
  <2> QED
    BY <2>2, <2>3
<1> QED
  BY <1>4 DEF Highest

(* The highest of one piece is that piece. *)
LEMMA HighestOfOne ==
  ASSUME NEW n \in Nat
  PROVE  Highest({n}) = n
<1>1. {n} \in SUBSET (0..n) /\ {n} # {}
  OBVIOUS
<1> QED
  BY <1>1, HighestIsHighest

(* The limit on a window is at least two, and at least the buffer. *)
LEMMA WindowLimit ==
  /\ Highest({2, ResumeBuffer}) \in Nat
  /\ Highest({2, ResumeBuffer}) >= 2 /\ Highest({2, ResumeBuffer}) >= ResumeBuffer
<1>1. ResumeBuffer \in Nat
  BY StreamAssumption
<1>2. {2, ResumeBuffer} \in SUBSET (0..(ResumeBuffer + 2)) /\ ResumeBuffer + 2 \in Nat
  BY <1>1
<1>3. /\ Highest({2, ResumeBuffer}) \in {2, ResumeBuffer}
      /\ \A m \in {2, ResumeBuffer} : m <= Highest({2, ResumeBuffer})
  BY <1>2, HighestIsHighest
<1> QED
  BY <1>1, <1>3

(* An empty window is within every limit. *)
LEMMA EmptyWindow == Cardinality({}) < Highest({2, ResumeBuffer})
BY WindowLimit, FS_EmptySet

-----------------------------------------------------------------------------
(* The order of the tracked streams *)

(* What a slice of a sequence holds. *)
LEMMA Slice ==
  ASSUME NEW S, NEW s \in Seq(S), NEW a \in Nat \ {0}, NEW b \in Nat,
         b <= Len(s), a <= b + 1
  PROVE  /\ SubSeq(s, a, b) \in Seq(S) /\ Len(SubSeq(s, a, b)) = b - a + 1
         /\ \A j \in 1..(b - a + 1) : SubSeq(s, a, b)[j] = s[a + j - 1]
<1>1. \A i \in a..b : i \in 1..Len(s)
  BY LenProperties
<1>2. \A i \in a..b : s[i] \in S
  BY <1>1, ElementOfSeq
<1>3. /\ SubSeq(s, a, b) \in Seq(S)
      /\ Len(SubSeq(s, a, b)) = IF a <= b THEN b - a + 1 ELSE 0
      /\ \A i \in 1..(b - a + 1) : SubSeq(s, a, b)[i] = s[a + i - 1]
  BY <1>2, SubSeqProperties
<1> QED
  BY <1>3

(* Appending to a sequence. *)
LEMMA Appended ==
  ASSUME NEW S, NEW s \in Seq(S), NEW e \in S, NEW n \in Nat, Len(s) = n
  PROVE  /\ Append(s, e) \in Seq(S) /\ Len(Append(s, e)) = n + 1
         /\ DOMAIN Append(s, e) = 1..(n + 1)
         /\ \A j \in 1..n : Append(s, e)[j] = s[j]
         /\ Append(s, e)[n + 1] = e
<1>1. /\ Append(s, e) \in Seq(S) /\ Len(Append(s, e)) = n + 1
      /\ \A j \in 1..n : Append(s, e)[j] = s[j]
      /\ Append(s, e)[n + 1] = e
  BY AppendProperties
<1> QED
  BY <1>1, LenProperties

(* What is left of a sequence after an element is taken out. *)
LEMMA TakenOut ==
  ASSUME NEW S, NEW s \in Seq(S), NEW i \in 1..Len(s), NEW n \in Nat, Len(s) = n
  PROVE  /\ RemoveAt(s, i) \in Seq(S) /\ Len(RemoveAt(s, i)) = n - 1
         /\ \A j \in 1..(n - 1) : RemoveAt(s, i)[j] = IF j < i THEN s[j] ELSE s[j + 1]
<1>1. i \in Nat \ {0} /\ i <= n /\ i - 1 \in Nat /\ i + 1 \in Nat \ {0}
  OBVIOUS
<1> DEFINE u == SubSeq(s, 1, i - 1)
           v == SubSeq(s, i + 1, n)
<1>2. /\ u \in Seq(S) /\ Len(u) = i - 1
      /\ \A j \in 1..(i - 1) : u[j] = s[j]
  <2>1. /\ u \in Seq(S) /\ Len(u) = (i - 1) - 1 + 1
        /\ \A j \in 1..((i - 1) - 1 + 1) : u[j] = s[1 + j - 1]
    BY <1>1, Slice
  <2> QED
    BY <1>1, <2>1
<1>3. /\ v \in Seq(S) /\ Len(v) = n - i
      /\ \A j \in 1..(n - i) : v[j] = s[i + j]
  <2>1. /\ v \in Seq(S) /\ Len(v) = n - (i + 1) + 1
        /\ \A j \in 1..(n - (i + 1) + 1) : v[j] = s[i + 1 + j - 1]
    BY <1>1, Slice
  <2> QED
    BY <1>1, <2>1
<1>4. RemoveAt(s, i) = u \o v
  BY DEF RemoveAt
<1> HIDE DEF u, v
<1>5. /\ u \o v \in Seq(S) /\ Len(u \o v) = (i - 1) + (n - i)
      /\ \A j \in 1..((i - 1) + (n - i)) :
           (u \o v)[j] = IF j <= i - 1 THEN u[j] ELSE v[j - (i - 1)]
  <2>1. /\ u \o v \in Seq(S) /\ Len(u \o v) = Len(u) + Len(v)
        /\ \A j \in 1..(Len(u) + Len(v)) :
             (u \o v)[j] = IF j <= Len(u) THEN u[j] ELSE v[j - Len(u)]
    BY <1>2, <1>3, ConcatProperties
  <2> QED
    BY <1>2, <1>3, <2>1
<1>6. ASSUME NEW j \in 1..(n - 1)
      PROVE  (u \o v)[j] = IF j < i THEN s[j] ELSE s[j + 1]
  <2>1. CASE j < i
    BY <1>1, <1>2, <1>5, <2>1
  <2>2. CASE ~(j < i)
    <3>1. j - (i - 1) \in 1..(n - i) /\ i + (j - (i - 1)) = j + 1
      BY <1>1, <2>2
    <3> QED
      BY <1>1, <1>3, <1>5, <2>2, <3>1
  <2> QED
    BY <2>1, <2>2
<1> QED
  BY <1>1, <1>4, <1>5, <1>6

(* Streams::touch moves a stream to the end and does nothing else. *)
LEMMA TouchKeeps ==
  ASSUME NEW T \in SUBSET Streams, OrderOK(order, T), NEW k \in T, Touch(k)
  PROVE  OrderOK(order', T)
<1>1. PICK i \in DOMAIN order : order[i] = k /\ order' = Append(RemoveAt(order, i), k)
  BY DEF Touch
<1>2. PICK n \in Nat : Len(order) = n /\ DOMAIN order = 1..n
  BY LenProperties DEF OrderOK
<1>3. order \in Seq(Streams) /\ i \in 1..n /\ n - 1 \in Nat /\ k \in Streams
  BY <1>1, <1>2 DEF OrderOK
<1>4. /\ RemoveAt(order, i) \in Seq(Streams) /\ Len(RemoveAt(order, i)) = n - 1
      /\ \A j \in 1..(n - 1) :
           RemoveAt(order, i)[j] = IF j < i THEN order[j] ELSE order[j + 1]
  BY <1>2, <1>3, TakenOut
<1> DEFINE o == Append(RemoveAt(order, i), k)
<1>5. /\ o \in Seq(Streams) /\ Len(o) = (n - 1) + 1 /\ DOMAIN o = 1..((n - 1) + 1)
      /\ \A j \in 1..(n - 1) : o[j] = RemoveAt(order, i)[j]
      /\ o[(n - 1) + 1] = k
  BY <1>3, <1>4, Appended
<1> HIDE DEF o
<1>6. /\ o \in Seq(Streams) /\ Len(o) = n /\ DOMAIN o = 1..n
      /\ \A j \in 1..(n - 1) : o[j] = IF j < i THEN order[j] ELSE order[j + 1]
      /\ o[n] = order[i]
  BY <1>1, <1>3, <1>4, <1>5
<1>7. IsInjective(o)
  <2>1. \A a, b \in 1..n : order[a] = order[b] => a = b
    BY <1>2 DEF OrderOK, IsInjective
  <2>2. \A a, b \in 1..n : o[a] = o[b] => a = b
    BY <1>3, <1>6, <2>1
  <2> QED
    BY <1>6, <2>2 DEF IsInjective
<1>8. ToSet(o) = ToSet(order)
  <2>1. \A j \in 1..n : \E l \in 1..n : o[j] = order[l]
    BY <1>3, <1>6
  <2>2. ASSUME NEW l \in 1..n PROVE \E j \in 1..n : o[j] = order[l]
    <3>1. CASE l < i
      BY <1>3, <1>6, <3>1
    <3>2. CASE l = i
      BY <1>3, <1>6, <3>2
    <3>3. CASE l > i
      <4>1. l - 1 \in 1..(n - 1) /\ l - 1 \in 1..n /\ (l - 1) + 1 = l /\ ~(l - 1 < i)
        BY <1>3, <3>3
      <4> QED
        BY <1>6, <4>1
    <3> QED
      BY <1>3, <3>1, <3>2, <3>3
  <2>3. ToSet(o) = {o[j] : j \in 1..n} /\ ToSet(order) = {order[j] : j \in 1..n}
    BY <1>2, <1>6 DEF ToSet
  <2> QED
    BY <2>1, <2>2, <2>3
<1>9. order' = o
  BY <1>1 DEF o
<1> QED
  BY <1>2, <1>6, <1>7, <1>8, <1>9 DEF OrderOK

(* The streams that admit forgets. *)
Room    == IF Len(order) < MaxStreams THEN 0 ELSE Len(order) - MaxStreams + 1
Victims == {order[i] : i \in 1..Room}

(* admit forgets streams from the front and tracks the new one at the end. *)
LEMMA AdmitKeeps ==
  ASSUME NEW T \in SUBSET Streams, OrderOK(order, T), NEW k \in Streams \ T,
         order' = Append(SubSeq(order, Room + 1, Len(order)), k)
  PROVE  /\ Victims \subseteq T
         /\ OrderOK(order', (T \ Victims) \cup {k})
<1>1. PICK n \in Nat : Len(order) = n /\ DOMAIN order = 1..n
  BY LenProperties DEF OrderOK
<1>2. PICK r \in Nat : r = Room /\ r <= n /\ n - r + 1 <= MaxStreams
  <2>1. MaxStreams \in Nat \ {0} /\ n <= MaxStreams
    BY <1>1, StreamAssumption DEF OrderOK
  <2>2. Room \in Nat /\ Room <= n /\ n - Room + 1 <= MaxStreams
    BY <1>1, <2>1 DEF Room
  <2> QED
    BY <2>2
<1>3. PICK l \in Nat : l = n - r
  BY <1>2
<1>4. /\ order \in Seq(Streams) /\ ToSet(order) = T /\ k \in Streams
      /\ r + 1 \in Nat \ {0} /\ n = r + l
  BY <1>2, <1>3 DEF OrderOK
<1>5. Victims = {order[i] : i \in 1..r} /\ Victims \subseteq T
  BY <1>1, <1>2, <1>4 DEF Victims, ToSet
<1> DEFINE s == SubSeq(order, r + 1, n)
<1>6. s \in Seq(Streams) /\ Len(s) = l /\ \A j \in 1..l : s[j] = order[r + j]
  <2>1. /\ s \in Seq(Streams) /\ Len(s) = n - (r + 1) + 1
        /\ \A j \in 1..(n - (r + 1) + 1) : s[j] = order[r + 1 + j - 1]
    BY <1>1, <1>2, <1>4, Slice
  <2> QED
    BY <1>4, <2>1
<1>7. order' = Append(s, k)
  BY <1>1, <1>2
<1> HIDE DEF s
<1>8. /\ order' \in Seq(Streams) /\ Len(order') = l + 1 /\ DOMAIN order' = 1..(l + 1)
      /\ \A j \in 1..l : order'[j] = s[j]
      /\ order'[l + 1] = k
  <2>1. s \in Seq(Streams) /\ Len(s) = l /\ k \in Streams /\ l \in Nat
    BY <1>4, <1>6
  <2>2. /\ Append(s, k) \in Seq(Streams) /\ Len(Append(s, k)) = l + 1
        /\ DOMAIN Append(s, k) = 1..(l + 1)
        /\ \A j \in 1..l : Append(s, k)[j] = s[j]
        /\ Append(s, k)[l + 1] = k
    BY <2>1, Appended
  <2> QED
    BY <1>7, <2>2
<1>9. ASSUME NEW j \in 1..l PROVE order'[j] = order[r + j] /\ r + j \in 1..n
  <2>1. order'[j] = s[j] /\ s[j] = order[r + j]
    BY <1>6, <1>8
  <2>2. r + j \in 1..n
    BY <1>4
  <2> QED
    BY <2>1, <2>2
<1>10. \A j \in 1..n : order[j] # k
  BY <1>1, <1>4 DEF ToSet
<1>11. \A a, b \in 1..n : order[a] = order[b] => a = b
  BY <1>1 DEF OrderOK, IsInjective
<1>12. IsInjective(order')
  <2>1. ASSUME NEW a \in 1..l, NEW b \in 1..l, order'[a] = order'[b] PROVE a = b
    <3>1. order[r + a] = order[r + b] /\ r + a \in 1..n /\ r + b \in 1..n
      BY <1>9, <2>1
    <3>2. r + a = r + b
      BY <1>11, <3>1
    <3> QED
      BY <3>2
  <2>2. \A a \in 1..l : order'[a] # k
    BY <1>9, <1>10
  <2>3. \A a \in 1..(l + 1) : a \in 1..l \/ a = l + 1
    OBVIOUS
  <2> QED
    BY <1>8, <2>1, <2>2, <2>3 DEF IsInjective
<1>13. ToSet(order') = (T \ Victims) \cup {k}
  <2>1. ASSUME NEW j \in 1..l PROVE order'[j] \in T \ Victims
    <3>1. r + j \in 1..n /\ \A i \in 1..r : i \in 1..n /\ i # r + j
      BY <1>4
    <3>2. order[r + j] \in T /\ \A i \in 1..r : order[i] # order[r + j]
      <4>1. order[r + j] \in T
        BY <1>1, <1>4, <3>1 DEF ToSet
      <4> QED
        BY <1>11, <3>1, <4>1
    <3> QED
      BY <1>5, <1>9, <3>2
  <2>2. ASSUME NEW x \in T \ Victims PROVE \E j \in 1..l : order'[j] = x
    <3>1. PICK i \in 1..n : order[i] = x
      BY <1>1, <1>4 DEF ToSet
    <3>2. i \notin 1..r
      BY <1>5, <3>1
    <3>3. i - r \in 1..l /\ r + (i - r) = i
      BY <1>4, <3>2
    <3> QED
      BY <1>9, <3>1, <3>3
  <2>3. ToSet(order') = {order'[j] : j \in 1..(l + 1)}
    BY <1>8 DEF ToSet
  <2>4. 1..(l + 1) = 1..l \cup {l + 1}
    OBVIOUS
  <2>5. ASSUME NEW x \in ToSet(order') PROVE x \in (T \ Victims) \cup {k}
    <3>1. PICK j \in 1..(l + 1) : x = order'[j]
      BY <2>3
    <3> QED
      BY <1>8, <2>1, <2>4, <3>1
  <2>6. ASSUME NEW x \in T \ Victims PROVE x \in ToSet(order')
    BY <2>2, <2>3, <2>4
  <2>7. k \in ToSet(order')
    BY <1>8, <2>3, <2>4
  <2> QED
    BY <2>5, <2>6, <2>7
<1>14. l + 1 <= MaxStreams
  BY <1>2, <1>3
<1> QED
  BY <1>5, <1>8, <1>12, <1>13, <1>14 DEF OrderOK

-----------------------------------------------------------------------------
(* One verdict *)

(* What the consumer has after a step that hands up for one stream. *)
LEMMA RememberOne ==
  ASSUME NEW k \in Streams, NEW h, h.key = k, h.report # "forgotten", Remember({h})
  PROVE  /\ told' = {h}
         /\ got' = [j \in Streams |->
              IF j = k /\ h.batch # {}
              THEN [gen |-> h.gen, last |-> Highest(h.batch), held |-> {}]
              ELSE got[j]]
<1> DEFINE mine(j) == {x \in {h} : x.key = j /\ x.batch # {}}
<1>1. ASSUME NEW j \in Streams
      PROVE  got'[j] = IF j = k /\ h.batch # {}
              THEN [gen |-> h.gen, last |-> Highest(h.batch), held |-> {}]
              ELSE got[j]
  <2>1. ~(\E x \in {h} : x.key = j /\ x.report = "forgotten")
    OBVIOUS
  <2>2. got'[j] = IF mine(j) = {} THEN got[j]
                  ELSE LET x == CHOOSE x \in mine(j) : TRUE
                       IN  [gen |-> x.gen, last |-> Highest(x.batch), held |-> {}]
    BY <2>1 DEF Remember
  <2>3. CASE j = k /\ h.batch # {}
    <3>1. mine(j) = {h}
      BY <2>3
    <3>2. (CHOOSE x \in mine(j) : TRUE) = h
      BY <3>1
    <3> QED
      BY <2>2, <2>3, <3>1, <3>2
  <2>4. CASE ~(j = k /\ h.batch # {})
    <3>1. mine(j) = {}
      BY <2>4
    <3> QED
      BY <2>2, <2>4, <3>1
  <2> QED
    BY <2>3, <2>4
<1>2. DOMAIN got' = Streams /\ got' = [j \in Streams |-> got'[j]]
  BY DEF Remember
<1> QED
  BY <1>1, <1>2 DEF Remember

(* And after one that hands up nothing. *)
LEMMA RememberNone ==
  ASSUME got = [j \in Streams |-> got[j]], Remember({})
  PROVE  told' = {} /\ got' = got
<1>1. got' = [j \in Streams |-> got[j]]
  BY DEF Remember
<1> QED
  BY <1>1 DEF Remember

(* A verdict on one tracked stream replaces its track by another one that  *)
(* is within the limits and moves the stream to the end of the order.      *)
LEMMA TrackReplaced ==
  ASSUME LedgerInv, NEW k \in Tracked, Touch(k),
         NEW t, TrackOK(t), t.gen # 0,
         seen' = [seen EXCEPT ![k] = t],
         got' = [j \in Streams |-> IF j = k THEN Passed(t) ELSE got[j]]
  PROVE  LedgerInv'
<1>1. k \in Streams /\ Tracked \in SUBSET Streams
  BY DEF Tracked
<1>2. /\ DOMAIN seen' = Streams /\ \A j \in Streams : seen'[j] = IF j = k THEN t ELSE seen[j]
      /\ seen' = [j \in Streams |-> seen'[j]]
  BY DEF LedgerInv
<1>3. \A j \in Streams : TrackOK(seen'[j])
  BY <1>2 DEF LedgerInv
<1>4. got' = [j \in Streams |-> Passed(seen'[j])]
  BY <1>2 DEF LedgerInv
<1>5. Tracked' = Tracked
  <2>1. t # NoTrack
    BY DEF NoTrack
  <2> QED
    BY <1>2, <2>1 DEF Tracked
<1>6. OrderOK(order', Tracked)
  BY <1>1, TouchKeeps DEF LedgerInv
<1> QED
  BY <1>2, <1>3, <1>4, <1>5, <1>6 DEF LedgerInv, TrackOK, OrderOK

(* What every verdict keeps, and what it hands up. *)
Sound == LedgerInv' /\ \A h \in told' : RisesOrReports(h)

(* The parts of a hand-over. *)
LEMMA HandedParts ==
  ASSUME NEW k, NEW g, NEW report, NEW floor, NEW batch
  PROVE  LET h == Handed(k, g, report, floor, batch)
         IN  h.key = k /\ h.gen = g /\ h.report = report /\ h.floor = floor /\ h.batch = batch
BY DEF Handed

(* A piece that has its own report or simply follows replaces the track by *)
(* a new one with nothing held.                                            *)
LEMMA FreshTrack ==
  ASSUME NEW g \in Nat \ {0}, NEW n \in 1..MaxSeq
  PROVE  /\ TrackOK([gen |-> g, last |-> n, held |-> {}])
         /\ n \in Nat /\ Highest({n}) = n
<1>1. MaxSeq \in Nat
  BY StreamAssumption
<1> QED
  BY <1>1, HighestOfOne, EmptyWindow DEF TrackOK, Tracks

(* Verdict::GenerationChanged: the change is reported with the piece. *)
LEMMA NewGenerationSound ==
  ASSUME LedgerInv, NEW m \in Pieces, NewGeneration(m)
  PROVE  Sound
<1> DEFINE h == Handed(m.key, m.gen, "generation", 0, {m.seq})
           t == [gen |-> m.gen, last |-> m.seq, held |-> {}]
<1>1. m.key \in Streams /\ m.gen \in Nat \ {0} /\ m.seq \in 1..MaxSeq
  BY DEF Pieces
<1>2. TrackOK(t) /\ t.gen # 0 /\ Highest({m.seq}) = m.seq
  BY <1>1, FreshTrack
<1>3. /\ h.key = m.key /\ h.gen = m.gen /\ h.report = "generation"
      /\ h.batch = {m.seq}
  BY HandedParts
<1>4. /\ told' = {h}
      /\ got' = [j \in Streams |->
           IF j = m.key /\ h.batch # {}
           THEN [gen |-> h.gen, last |-> Highest(h.batch), held |-> {}]
           ELSE got[j]]
  <2>1. Remember({h}) /\ h.report # "forgotten"
    BY <1>3 DEF NewGeneration
  <2> HIDE DEF h
  <2> QED
    BY <1>1, <1>3, <2>1, RememberOne
<1>5. got' = [j \in Streams |-> IF j = m.key THEN Passed(t) ELSE got[j]]
  BY <1>2, <1>3, <1>4 DEF Passed
<1>6. LedgerInv'
  BY <1>2, <1>5, TrackReplaced DEF NewGeneration
<1>7. RisesOrReports(h)
  <2>1. got[m.key].gen = seen[m.key].gen
    BY <1>1 DEF LedgerInv, Passed
  <2> HIDE DEF h
  <2> QED
    BY <1>3, <2>1 DEF NewGeneration, RisesOrReports
<1> QED
  BY <1>4, <1>6, <1>7 DEF Sound

(* Verdict::Duplicate: nothing goes up and the track stays. *)
LEMMA DuplicateSound ==
  ASSUME LedgerInv, NEW m \in Pieces, Duplicate(m)
  PROVE  Sound
<1> DEFINE t == seen[m.key]
<1>1. m.key \in Tracked /\ m.key \in Streams /\ m.gen # 0 /\ t.gen = m.gen
  BY DEF Pieces, Duplicate, SameGeneration
<1>2. told' = {} /\ got' = got
  BY RememberNone DEF Duplicate, LedgerInv
<1>3. TrackOK(t) /\ t.gen # 0
  BY <1>1 DEF LedgerInv
<1>4. seen' = [seen EXCEPT ![m.key] = t]
  BY <1>1 DEF Duplicate, LedgerInv
<1>5. got' = [j \in Streams |-> IF j = m.key THEN Passed(t) ELSE got[j]]
  BY <1>2 DEF LedgerInv
<1>6. LedgerInv'
  BY <1>1, <1>3, <1>4, <1>5, TrackReplaced DEF Duplicate
<1> QED
  BY <1>2, <1>6 DEF Sound

(* Verdict::Deliver: the piece that follows goes up. *)
LEMMA FollowsSound ==
  ASSUME LedgerInv, NEW m \in Pieces, Follows(m)
  PROVE  Sound
<1> DEFINE h == Handed(m.key, m.gen, "none", 0, {m.seq})
           t == [gen |-> m.gen, last |-> m.seq, held |-> {}]
<1>1. m.key \in Streams /\ m.gen \in Nat \ {0} /\ m.seq \in 1..MaxSeq
  BY DEF Pieces
<1>2. TrackOK(t) /\ t.gen # 0 /\ Highest({m.seq}) = m.seq /\ m.seq \in Nat
  BY <1>1, FreshTrack
<1>3. /\ h.key = m.key /\ h.gen = m.gen /\ h.report = "none"
      /\ h.batch = {m.seq}
  BY HandedParts
<1>4. /\ told' = {h}
      /\ got' = [j \in Streams |->
           IF j = m.key /\ h.batch # {}
           THEN [gen |-> h.gen, last |-> Highest(h.batch), held |-> {}]
           ELSE got[j]]
  <2>1. Remember({h}) /\ h.report # "forgotten"
    BY <1>3 DEF Follows
  <2> HIDE DEF h
  <2> QED
    BY <1>1, <1>3, <2>1, RememberOne
<1>5. got' = [j \in Streams |-> IF j = m.key THEN Passed(t) ELSE got[j]]
  BY <1>2, <1>3, <1>4 DEF Passed
<1>6. seen[m.key] \in Tracks /\ seen[m.key].gen = m.gen /\ m.seq = seen[m.key].last + 1
  BY <1>1 DEF LedgerInv, TrackOK, Follows, SameGeneration
<1>7. seen' = [seen EXCEPT ![m.key] = t]
  BY <1>1, <1>6 DEF Follows
<1>8. LedgerInv'
  BY <1>2, <1>5, <1>7, TrackReplaced DEF Follows, SameGeneration
<1>9. RisesOrReports(h)
  <2>1. got[m.key].gen = m.gen /\ got[m.key].last + 1 = m.seq /\ got[m.key].last \in Nat
    BY <1>1, <1>6 DEF LedgerInv, Passed, Tracks
  <2> HIDE DEF h
  <2> QED
    BY <1>3, <2>1 DEF RisesOrReports
<1> QED
  BY <1>4, <1>8, <1>9 DEF Sound

(* What a piece that is ahead of its track finds. *)
LEMMA AheadFinds ==
  ASSUME LedgerInv, NEW m \in Pieces, Ahead(m)
  PROVE  /\ m.key \in Tracked /\ m.key \in Streams /\ m.seq \in 1..MaxSeq
         /\ seen[m.key].gen = m.gen /\ m.gen \in Nat \ {0}
         /\ seen[m.key] \in Tracks /\ TrackOK(seen[m.key])
         /\ got[m.key] = Passed(seen[m.key])
         /\ seen[m.key].held \cup {m.seq} \in SUBSET (1..MaxSeq)
         /\ \A n \in seen[m.key].held \cup {m.seq} : n > seen[m.key].last + 1
<1>1. m.key \in Tracked /\ m.key \in Streams /\ m.seq \in 1..MaxSeq /\ m.gen \in Nat \ {0}
      /\ seen[m.key].gen = m.gen /\ m.seq > seen[m.key].last + 1
  BY DEF Pieces, Ahead, SameGeneration
<1>2. TrackOK(seen[m.key]) /\ seen[m.key] \in Tracks /\ got[m.key] = Passed(seen[m.key])
  BY <1>1 DEF LedgerInv, TrackOK
<1>3. seen[m.key].held \in SUBSET (1..MaxSeq)
  BY <1>2 DEF Tracks
<1>4. \A n \in seen[m.key].held : n > seen[m.key].last + 1
  BY <1>2 DEF TrackOK
<1> QED
  BY <1>1, <1>2, <1>3, <1>4

(* Verdict::Gap: the piece is held and nothing goes up. *)
LEMMA GapSound ==
  ASSUME LedgerInv, NEW m \in Pieces, NEW tight, Gap(m, tight)
  PROVE  Sound
<1> DEFINE h == Handed(m.key, m.gen, "gap", 0, {})
           t == [gen |-> m.gen, last |-> seen[m.key].last, held |-> {m.seq}]
<1>1. Ahead(m) /\ Touch(m.key) /\ seen[m.key].held = {}
  BY DEF Gap
<1>2. /\ m.key \in Tracked /\ m.key \in Streams /\ m.seq \in 1..MaxSeq
      /\ seen[m.key].gen = m.gen /\ m.gen \in Nat \ {0}
      /\ seen[m.key] \in Tracks /\ got[m.key] = Passed(seen[m.key])
      /\ \A n \in seen[m.key].held \cup {m.seq} : n > seen[m.key].last + 1
  BY <1>1, AheadFinds
<1>3. /\ h.key = m.key /\ h.report = "gap" /\ h.batch = {}
  BY HandedParts
<1>4. /\ told' = {h}
      /\ got' = [j \in Streams |->
           IF j = m.key /\ h.batch # {}
           THEN [gen |-> h.gen, last |-> Highest(h.batch), held |-> {}]
           ELSE got[j]]
  <2>1. Remember({h}) /\ h.report # "forgotten"
    BY <1>3 DEF Gap
  <2> HIDE DEF h
  <2> QED
    BY <1>2, <1>3, <2>1, RememberOne
<1>5. got' = [j \in Streams |-> IF j = m.key THEN Passed(t) ELSE got[j]]
  <2>1. Passed(t) = got[m.key]
    BY <1>2 DEF Passed
  <2>2. ~(h.batch # {})
    BY <1>3
  <2> HIDE DEF h, t
  <2> QED
    BY <1>4, <2>1, <2>2
<1>6. TrackOK(t) /\ t.gen # 0
  <2>1. t \in Tracks
    BY <1>2 DEF Tracks
  <2>2. Cardinality(t.held) = 1
    BY FS_Singleton
  <2>3. \A n \in t.held : n > t.last + 1
    BY <1>2
  <2> QED
    BY <1>2, <2>1, <2>2, <2>3, WindowLimit DEF TrackOK
<1>7. seen' = [seen EXCEPT ![m.key] = t]
  <2>1. DOMAIN seen = Streams /\ seen = [j \in Streams |-> seen[j]]
    BY DEF LedgerInv
  <2>2. [seen EXCEPT ![m.key].held = {m.seq}]
          = [seen EXCEPT ![m.key] = [seen[m.key] EXCEPT !.held = {m.seq}]]
    BY <1>2, <2>1
  <2>3. [seen[m.key] EXCEPT !.held = {m.seq}] = t
    <3> DEFINE H == {m.seq}
    <3> HIDE DEF H
    <3>1. [seen[m.key] EXCEPT !.held = H] = [gen |-> m.gen, last |-> seen[m.key].last, held |-> H]
      BY <1>2 DEF Tracks
    <3> QED
      BY <3>1 DEF H
  <2> QED
    BY <2>2, <2>3 DEF Gap
<1>8. LedgerInv'
  <2> HIDE DEF t
  <2> QED
    BY <1>1, <1>2, <1>5, <1>6, <1>7, TrackReplaced
<1>9. RisesOrReports(h)
  <2> HIDE DEF h
  <2> QED
    BY <1>3 DEF RisesOrReports
<1> QED
  BY <1>4, <1>8, <1>9 DEF Sound

(* Verdict::Held: one more piece is held, below the limit. *)
LEMMA HoldSound ==
  ASSUME LedgerInv, NEW m \in Pieces, NEW tight, Hold(m, tight)
  PROVE  Sound
<1> DEFINE H == seen[m.key].held \cup {m.seq}
           t == [gen |-> m.gen, last |-> seen[m.key].last, held |-> H]
<1>1. Ahead(m) /\ Touch(m.key) /\ ~Full(H) /\ Remember({})
  BY DEF Hold
<1>2. /\ m.key \in Tracked /\ m.key \in Streams
      /\ seen[m.key].gen = m.gen /\ m.gen \in Nat \ {0}
      /\ seen[m.key] \in Tracks /\ got[m.key] = Passed(seen[m.key])
      /\ H \in SUBSET (1..MaxSeq)
      /\ \A n \in H : n > seen[m.key].last + 1
  BY <1>1, AheadFinds
<1>3. told' = {} /\ got' = got
  BY <1>1, RememberNone DEF LedgerInv
<1>4. got' = [j \in Streams |-> IF j = m.key THEN Passed(t) ELSE got[j]]
  <2>1. Passed(t) = got[m.key]
    BY <1>2 DEF Passed
  <2>2. got = [j \in Streams |-> got[j]]
    BY DEF LedgerInv
  <2> HIDE DEF t
  <2> QED
    BY <1>3, <2>1, <2>2
<1>5. TrackOK(t) /\ t.gen # 0
  <2>1. t \in Tracks
    BY <1>2 DEF Tracks
  <2>2. IsFiniteSet(1..MaxSeq)
    BY FS_Interval, StreamAssumption
  <2>3. IsFiniteSet(H)
    BY <1>2, <2>2, FS_Subset
  <2>4. Cardinality(H) \in Nat
    BY <2>3, FS_CardinalityType
  <2>5. ResumeBuffer \in Nat
    BY StreamAssumption
  <2>6. Cardinality(H) < ResumeBuffer
    <3> HIDE DEF H
    <3> QED
      BY <1>1, <2>4, <2>5 DEF Full
  <2> HIDE DEF H
  <2> QED
    BY <1>2, <2>1, <2>4, <2>5, <2>6, WindowLimit DEF TrackOK
<1>6. seen' = [seen EXCEPT ![m.key] = t]
  <2>1. DOMAIN seen = Streams /\ seen = [j \in Streams |-> seen[j]]
    BY DEF LedgerInv
  <2>2. seen' = [seen EXCEPT ![m.key].held = H]
    BY DEF Hold
  <2> HIDE DEF H
  <2>3. [seen EXCEPT ![m.key].held = H]
          = [seen EXCEPT ![m.key] = [seen[m.key] EXCEPT !.held = H]]
    BY <1>2, <2>1
  <2>4. [seen[m.key] EXCEPT !.held = H] = t
    BY <1>2 DEF Tracks
  <2> QED
    BY <2>2, <2>3, <2>4
<1>7. LedgerInv'
  <2> HIDE DEF t
  <2> QED
    BY <1>1, <1>2, <1>4, <1>5, <1>6, TrackReplaced
<1> QED
  BY <1>3, <1>7 DEF Sound

(* A window that closes hands up a rising batch, its floor in front: what  *)
(* the report names is what follows it.                                    *)
LEMMA WindowRises ==
  ASSUME NEW k \in Streams, seen[k] \in Tracks, got[k] = Passed(seen[k]),
         NEW H \in SUBSET (1..MaxSeq), H # {},
         \A n \in H : n > seen[k].last + 1,
         NEW report
  PROVE  /\ RisesOrReports(Flushed(k, H, report))
         /\ Highest(H) \in H /\ \A n \in H : n <= Highest(H)
         /\ Highest(H) \in 1..MaxSeq
<1> DEFINE h == Flushed(k, H, report)
<1>1. MaxSeq \in Nat
  BY StreamAssumption
<1>2. H \in SUBSET Nat /\ H \in SUBSET (0..MaxSeq)
  BY <1>1
<1>3. Lowest(H) \in H /\ \A n \in H : Lowest(H) <= n
  BY <1>2, LowestIsLowest
<1>4. Highest(H) \in H /\ \A n \in H : n <= Highest(H)
  BY <1>1, <1>2, HighestIsHighest
<1>5. h.key = k /\ h.gen = seen[k].gen /\ h.floor = Lowest(H) /\ h.batch = H
  BY DEF Flushed, Handed
<1>6. got[k].gen = seen[k].gen /\ got[k].last = seen[k].last /\ seen[k].last \in Nat
  BY DEF Passed, Tracks
<1>7. RisesOrReports(h)
  <2> HIDE DEF h
  <2>1. \A n \in H : n > got[k].last
    BY <1>2, <1>6
  <2> QED
    BY <1>3, <1>5, <1>6, <2>1 DEF RisesOrReports
<1> QED
  BY <1>4, <1>7

(* Verdict::Truncated: everything held goes up and the track moves on to   *)
(* the highest of it.                                                      *)
LEMMA TruncateSound ==
  ASSUME LedgerInv, NEW m \in Pieces, NEW tight, Truncate(m, tight)
  PROVE  Sound
<1> DEFINE H == seen[m.key].held \cup {m.seq}
           h == Flushed(m.key, H, "truncated")
           t == [gen |-> m.gen, last |-> Highest(H), held |-> {}]
<1>1. /\ Ahead(m) /\ Touch(m.key) /\ Remember({h})
      /\ seen' = [seen EXCEPT ![m.key] = t]
  BY DEF Truncate
<1>2. /\ m.key \in Tracked /\ m.key \in Streams
      /\ seen[m.key].gen = m.gen /\ m.gen \in Nat \ {0}
      /\ seen[m.key] \in Tracks /\ got[m.key] = Passed(seen[m.key])
      /\ H \in SUBSET (1..MaxSeq) /\ H # {}
      /\ \A n \in H : n > seen[m.key].last + 1
  BY <1>1, AheadFinds
<1>3. RisesOrReports(h) /\ Highest(H) \in 1..MaxSeq
  BY <1>2, WindowRises
<1>4. /\ h.key = m.key /\ h.gen = m.gen /\ h.report # "forgotten" /\ h.batch = H
  BY <1>2 DEF Flushed, Handed
<1>5. TrackOK(t) /\ t.gen # 0
  BY <1>2, <1>3, FreshTrack
<1>6. seen' = [seen EXCEPT ![m.key] = t]
  BY <1>1
<1> HIDE DEF H, h
<1>7. /\ told' = {h}
      /\ got' = [j \in Streams |->
           IF j = m.key /\ h.batch # {}
           THEN [gen |-> h.gen, last |-> Highest(h.batch), held |-> {}]
           ELSE got[j]]
  BY <1>1, <1>2, <1>4, RememberOne
<1>8. got' = [j \in Streams |-> IF j = m.key THEN Passed(t) ELSE got[j]]
  BY <1>2, <1>4, <1>7 DEF Passed
<1>9. LedgerInv'
  <2> HIDE DEF t
  <2> QED
    BY <1>1, <1>2, <1>5, <1>6, <1>8, TrackReplaced
<1> QED
  BY <1>3, <1>7, <1>9 DEF Sound

-----------------------------------------------------------------------------
(* Verdicts on several streams *)

(* What the consumer has of a stream after a step that hands up for many:  *)
(* nothing of a forgotten one, what it had of one with no batch, and the   *)
(* highest of the only batch there is for it otherwise.                    *)
LEMMA RememberMany ==
  ASSUME NEW hands, NEW k \in Streams, Remember(hands)
  PROVE  /\ (\E h \in hands : h.key = k /\ h.report = "forgotten") => got'[k] = NoTrack
         /\ (\A h \in hands : h.key # k) => got'[k] = got[k]
         /\ \A h \in hands :
              /\ h.key = k /\ h.batch # {} /\ h.report # "forgotten"
              /\ \A x \in hands : x.key = k => x = h
              => got'[k] = [gen |-> h.gen, last |-> Highest(h.batch), held |-> {}]
<1> DEFINE mine == {h \in hands : h.key = k /\ h.batch # {}}
<1>1. got'[k] = IF \E h \in hands : h.key = k /\ h.report = "forgotten" THEN NoTrack
                ELSE IF mine = {} THEN got[k]
                ELSE LET x == CHOOSE x \in mine : TRUE
                     IN  [gen |-> x.gen, last |-> Highest(x.batch), held |-> {}]
  BY DEF Remember
<1>2. ASSUME \A h \in hands : h.key # k PROVE got'[k] = got[k]
  <2>1. mine = {}
    BY <1>2
  <2> QED
    BY <1>1, <1>2, <2>1
<1>3. ASSUME NEW h \in hands, h.key = k, h.batch # {}, h.report # "forgotten",
             \A x \in hands : x.key = k => x = h
      PROVE  got'[k] = [gen |-> h.gen, last |-> Highest(h.batch), held |-> {}]
  <2>1. mine = {h}
    BY <1>3
  <2>2. (CHOOSE x \in mine : TRUE) = h
    BY <2>1
  <2>3. ~(\E x \in hands : x.key = k /\ x.report = "forgotten")
    BY <1>3
  <2> QED
    BY <1>1, <2>1, <2>2, <2>3
<1> QED
  BY <1>1, <1>2, <1>3

(* What an open window looks like. *)
LEMMA OpenWindow ==
  ASSUME LedgerInv, NEW k \in Streams, seen[k].held # {}
  PROVE  /\ seen[k] \in Tracks /\ seen[k].gen \in Nat \ {0}
         /\ seen[k].held \in SUBSET (1..MaxSeq)
         /\ \A n \in seen[k].held : n > seen[k].last + 1
         /\ got[k] = Passed(seen[k])
<1>1. TrackOK(seen[k]) /\ got[k] = Passed(seen[k])
  BY DEF LedgerInv
<1>2. seen[k] \in Tracks
  BY <1>1 DEF TrackOK
<1>3. seen[k].gen # 0
  BY <1>1 DEF TrackOK, NoTrack
<1> QED
  BY <1>1, <1>2, <1>3 DEF TrackOK, Tracks

(* collapse: each window that closes hands up what it held, and its track  *)
(* moves on to the highest piece of it.                                    *)
LEMMA CollapseSound ==
  ASSUME LedgerInv, NEW K \in SUBSET Open, Collapse(K)
  PROVE  Sound
<1> DEFINE hand(k) == Flushed(k, seen[k].held, "truncated")
           hands   == {hand(k) : k \in K}
           t(k)    == [gen |-> seen[k].gen, last |-> Highest(seen[k].held), held |-> {}]
<1>1. /\ Remember(hands) /\ order' = order
      /\ seen' = [k \in Streams |->
           IF k \notin K THEN seen[k]
           ELSE [seen[k] EXCEPT !.last = Highest({@} \cup seen[k].held), !.held = {}]]
  BY DEF Collapse
<1>2. ASSUME NEW k \in K
      PROVE  /\ k \in Streams /\ seen[k].held # {}
             /\ seen[k] \in Tracks /\ seen[k].gen \in Nat \ {0}
             /\ seen[k].held \in SUBSET (1..MaxSeq)
             /\ \A n \in seen[k].held : n > seen[k].last + 1
             /\ got[k] = Passed(seen[k])
             /\ RisesOrReports(hand(k))
             /\ Highest(seen[k].held) \in seen[k].held
             /\ \A n \in seen[k].held : n <= Highest(seen[k].held)
             /\ Highest(seen[k].held) \in 1..MaxSeq
  <2>1. k \in Streams /\ seen[k].held # {}
    BY DEF Open
  <2>2. /\ seen[k] \in Tracks /\ seen[k].gen \in Nat \ {0}
        /\ seen[k].held \in SUBSET (1..MaxSeq)
        /\ \A n \in seen[k].held : n > seen[k].last + 1
        /\ got[k] = Passed(seen[k])
    BY <2>1, OpenWindow
  <2>3. /\ RisesOrReports(hand(k))
        /\ Highest(seen[k].held) \in seen[k].held
        /\ \A n \in seen[k].held : n <= Highest(seen[k].held)
        /\ Highest(seen[k].held) \in 1..MaxSeq
    BY <2>1, <2>2, WindowRises
  <2> QED
    BY <2>1, <2>2, <2>3
<1>3. ASSUME NEW k \in K PROVE seen'[k] = t(k)
  <2> DEFINE H == seen[k].held
             A == {seen[k].last} \cup H
  <2>1. seen[k].last \in 0..MaxSeq /\ MaxSeq \in Nat /\ H \in SUBSET (1..MaxSeq)
    BY <1>2, StreamAssumption DEF Tracks
  <2>2. A \in SUBSET (0..MaxSeq) /\ A # {}
    BY <2>1
  <2>3. Highest(A) \in A /\ \A n \in A : n <= Highest(A)
    BY <2>1, <2>2, HighestIsHighest
  <2>4. /\ Highest(H) \in H /\ \A n \in H : n <= Highest(H)
        /\ \A n \in H : n > seen[k].last + 1
    BY <1>2
  <2>5. Highest(A) = Highest(H)
    <3> DEFINE a == Highest(A)
               b == Highest(H)
    <3>1. a \in A /\ b \in H /\ b <= a /\ (a \in H => a <= b) /\ b > seen[k].last + 1
      BY <2>3, <2>4
    <3>2. a \in Nat /\ b \in Nat /\ seen[k].last \in Nat
      BY <2>1, <3>1
    <3> HIDE DEF a, b
    <3>3. a \in H
      BY <3>1, <3>2
    <3>4. a = b
      BY <3>1, <3>2, <3>3
    <3> QED
      BY <3>4 DEF a, b
  <2>6. seen'[k] = [seen[k] EXCEPT !.last = Highest(A), !.held = {}]
    BY <1>1, <1>2
  <2> DEFINE l == Highest(H)
             u == [seen[k] EXCEPT !.last = l]
  <2>7. seen'[k] = [u EXCEPT !.held = {}]
    BY <2>5, <2>6
  <2> HIDE DEF l
  <2>8. u = [gen |-> seen[k].gen, last |-> l, held |-> H]
    BY <1>2 DEF Tracks
  <2> HIDE DEF u
  <2>9. seen'[k] = [gen |-> seen[k].gen, last |-> l, held |-> {}]
    BY <2>7, <2>8
  <2> QED
    BY <2>9 DEF l
<1>4. \A k \in Streams \ K : seen'[k] = seen[k]
  BY <1>1
<1>5. DOMAIN seen' = Streams /\ seen' = [k \in Streams |-> seen'[k]]
  BY <1>1
<1>6. ASSUME NEW k \in K PROVE TrackOK(t(k)) /\ t(k).gen # 0
  BY <1>2, FreshTrack
<1>7. \A k \in Streams : TrackOK(seen'[k])
  BY <1>3, <1>4, <1>6 DEF LedgerInv
<1>8. ASSUME NEW k \in K
      PROVE  /\ hand(k).key = k /\ hand(k).gen = seen[k].gen
             /\ hand(k).report = "truncated" /\ hand(k).batch = seen[k].held
  BY DEF Flushed, Handed
<1>9. ASSUME NEW k \in Streams PROVE got'[k] = Passed(seen'[k])
  <2>1. CASE k \in K
    <3>1. hand(k) \in hands /\ \A x \in hands : x.key = k => x = hand(k)
      BY <1>8, <2>1
    <3>2. /\ hand(k).key = k /\ hand(k).batch # {} /\ hand(k).report # "forgotten"
      BY <1>2, <1>8, <2>1
    <3>3. got'[k] = [gen |-> hand(k).gen, last |-> Highest(hand(k).batch), held |-> {}]
      <4> HIDE DEF hands, hand
      <4> QED
        BY <1>1, <3>1, <3>2, RememberMany
    <3> QED
      BY <1>3, <1>8, <2>1, <3>3 DEF Passed
  <2>2. CASE k \notin K
    <3>1. \A x \in hands : x.key # k
      BY <1>8, <2>2
    <3>2. got'[k] = got[k]
      <4> HIDE DEF hands
      <4> QED
        BY <1>1, <3>1, RememberMany
    <3> QED
      BY <1>4, <2>2, <3>2 DEF LedgerInv
  <2> QED
    BY <2>1, <2>2
<1>10. got' = [k \in Streams |-> Passed(seen'[k])]
  <2>1. got' = [k \in Streams |-> got'[k]]
    BY <1>1 DEF Remember
  <2> QED
    BY <1>9, <2>1
<1>11. Tracked' = Tracked
  <2>1. ASSUME NEW k \in K PROVE seen'[k] # NoTrack /\ seen[k] # NoTrack
    <3>1. seen'[k].gen # 0 /\ seen[k].gen # 0
      <4>1. seen'[k] = t(k) /\ t(k).gen # 0
        BY <1>3, <1>6
      <4>2. seen[k].gen # 0
        BY <1>2
      <4> HIDE DEF t
      <4> QED
        BY <4>1, <4>2
    <3>2. NoTrack.gen = 0
      BY DEF NoTrack
    <3> QED
      BY <3>1, <3>2
  <2> QED
    BY <1>4, <2>1 DEF Tracked
<1>12. LedgerInv'
  BY <1>1, <1>5, <1>7, <1>10, <1>11 DEF LedgerInv, TrackOK, OrderOK
<1>13. told' = hands
  BY <1>1 DEF Remember
<1> QED
  BY <1>2, <1>12, <1>13 DEF Sound

(* admit: what the forgotten streams held goes up in order, and they start *)
(* over; the piece that came starts its own track.                         *)
LEMMA AdmitSound ==
  ASSUME LedgerInv, NEW m \in Pieces, Admit(m)
  PROVE  Sound
<1> DEFINE q     == m.key
           V     == Victims
           t     == [gen |-> m.gen, last |-> m.seq, held |-> {}]
           new   == Handed(q, m.gen, "none", 0, {m.seq})
           ev(v) == IF seen[v].held = {}
                    THEN Handed(v, seen[v].gen, "forgotten", 0, {})
                    ELSE Flushed(v, seen[v].held, "forgotten")
           hands == {ev(v) : v \in V} \cup {new}
<1>1. /\ q \notin Tracked
      /\ order' = Append(SubSeq(order, Room + 1, Len(order)), q)
      /\ seen' = [k \in Streams |->
           IF k = q THEN t ELSE IF k \in V THEN NoTrack ELSE seen[k]]
      /\ Remember(hands)
  BY DEF Admit, Victims, Room
<1>2. q \in Streams /\ m.gen \in Nat \ {0} /\ m.seq \in 1..MaxSeq
  BY DEF Pieces
<1>3. TrackOK(t) /\ t.gen # 0 /\ Highest({m.seq}) = m.seq
  BY <1>2, FreshTrack
<1>4. V \subseteq Tracked /\ OrderOK(order', (Tracked \ V) \cup {q})
  <2>1. Tracked \in SUBSET Streams /\ OrderOK(order, Tracked) /\ q \in Streams \ Tracked
    BY <1>1, <1>2 DEF Tracked, LedgerInv
  <2> HIDE DEF q, V
  <2>2. Victims \subseteq Tracked /\ OrderOK(order', (Tracked \ Victims) \cup {q})
    BY <1>1, <2>1, AdmitKeeps
  <2> QED
    BY <2>2 DEF V
<1>5. q \notin V /\ V \subseteq Streams
  BY <1>1, <1>4 DEF Tracked
<1> HIDE DEF V
<1>6. /\ new.key = q /\ new.gen = m.gen /\ new.report = "none" /\ new.batch = {m.seq}
  BY DEF Handed
<1>7. ASSUME NEW v \in V
      PROVE  /\ ev(v).key = v /\ ev(v).report = "forgotten" /\ RisesOrReports(ev(v))
  <2>1. CASE seen[v].held = {}
    <3>1. ev(v) = Handed(v, seen[v].gen, "forgotten", 0, {})
      BY <2>1
    <3>2. ev(v).key = v /\ ev(v).report = "forgotten" /\ ev(v).batch = {}
      BY <3>1 DEF Handed
    <3> HIDE DEF ev
    <3> QED
      BY <3>2 DEF RisesOrReports
  <2>2. CASE seen[v].held # {}
    <3>1. ev(v) = Flushed(v, seen[v].held, "forgotten")
      BY <2>2
    <3>2. v \in Streams
      BY <1>5
    <3>3. /\ seen[v] \in Tracks /\ seen[v].held \in SUBSET (1..MaxSeq)
          /\ \A n \in seen[v].held : n > seen[v].last + 1
          /\ got[v] = Passed(seen[v])
      BY <2>2, <3>2, OpenWindow
    <3>4. RisesOrReports(Flushed(v, seen[v].held, "forgotten"))
      BY <2>2, <3>2, <3>3, WindowRises
    <3>5. ev(v).key = v /\ ev(v).report = "forgotten"
      BY <3>1 DEF Flushed, Handed
    <3> QED
      BY <3>1, <3>4, <3>5
  <2> QED
    BY <2>1, <2>2
<1>8. RisesOrReports(new)
  <2>1. got[q] = NoTrack
    <3>1. seen[q] = NoTrack /\ got[q] = Passed(seen[q])
      BY <1>1, <1>2 DEF LedgerInv, Tracked
    <3> QED
      BY <3>1 DEF Passed, NoTrack
  <2> HIDE DEF new
  <2> QED
    BY <1>6, <2>1 DEF RisesOrReports
<1>9. \A h \in hands : RisesOrReports(h)
  <2> HIDE DEF ev, new
  <2> QED
    BY <1>7, <1>8
<1>10. /\ DOMAIN seen' = Streams /\ seen' = [k \in Streams |-> seen'[k]]
       /\ seen'[q] = t
       /\ \A k \in V : seen'[k] = NoTrack
       /\ \A k \in Streams \ (V \cup {q}) : seen'[k] = seen[k]
  BY <1>1, <1>2, <1>5
<1>11. TrackOK(NoTrack)
  <2>1. MaxSeq \in Nat
    BY StreamAssumption
  <2> QED
    BY <2>1, EmptyWindow DEF TrackOK, Tracks, NoTrack
<1>12. \A k \in Streams : TrackOK(seen'[k])
  BY <1>3, <1>10, <1>11 DEF LedgerInv
<1>13. ASSUME NEW k \in Streams PROVE got'[k] = Passed(seen'[k])
  <2>1. CASE k = q
    <3>1. new \in hands /\ \A x \in hands : x.key = k => x = new
      <4> HIDE DEF ev, new
      <4> QED
        BY <1>5, <1>7, <2>1
    <3>2. got'[k] = [gen |-> new.gen, last |-> Highest(new.batch), held |-> {}]
      <4>1. new.key = k /\ new.batch # {} /\ new.report # "forgotten"
        BY <1>6, <2>1
      <4> HIDE DEF hands, new
      <4> QED
        BY <1>1, <3>1, <4>1, RememberMany
    <3> QED
      BY <1>3, <1>6, <1>10, <2>1, <3>2 DEF Passed
  <2>2. CASE k \in V
    <3>1. \E h \in hands : h.key = k /\ h.report = "forgotten"
      <4> HIDE DEF ev, new
      <4> QED
        BY <1>7, <2>2
    <3>2. got'[k] = NoTrack
      <4> HIDE DEF hands
      <4> QED
        BY <1>1, <3>1, RememberMany
    <3>3. Passed(NoTrack) = NoTrack
      BY DEF Passed, NoTrack
    <3> QED
      BY <1>10, <2>2, <3>2, <3>3
  <2>3. CASE k \notin V \cup {q}
    <3>1. \A h \in hands : h.key # k
      <4> HIDE DEF ev, new
      <4> QED
        BY <1>6, <1>7, <2>3
    <3>2. got'[k] = got[k]
      <4> HIDE DEF hands
      <4> QED
        BY <1>1, <3>1, RememberMany
    <3> QED
      BY <1>10, <2>3, <3>2 DEF LedgerInv
  <2> QED
    BY <2>1, <2>2, <2>3
<1>14. got' = [k \in Streams |-> Passed(seen'[k])]
  <2>1. got' = [k \in Streams |-> got'[k]]
    BY <1>1 DEF Remember
  <2> QED
    BY <1>13, <2>1
<1>15. Tracked' = (Tracked \ V) \cup {q}
  <2>1. t # NoTrack
    <3>1. NoTrack.gen = 0
      BY DEF NoTrack
    <3> QED
      BY <1>3, <3>1
  <2> HIDE DEF t, q
  <2> QED
    BY <1>2, <1>4, <1>5, <1>10, <2>1 DEF Tracked
<1>16. LedgerInv'
  <2> HIDE DEF q, t
  <2> QED
    BY <1>4, <1>10, <1>12, <1>14, <1>15 DEF LedgerInv, TrackOK, OrderOK
<1>17. told' = hands
  BY <1>1 DEF Remember
<1> QED
  BY <1>9, <1>16, <1>17 DEF Sound

-----------------------------------------------------------------------------
(* The supervisor and the sender *)

(* A step that leaves the ledger alone hands up nothing. *)
LEMMA IdleSound ==
  ASSUME LedgerInv, Idle
  PROVE  Sound
<1>1. seen' = seen /\ order' = order /\ got' = got /\ told' = {}
  BY DEF Idle, ledger, history
<1>2. Tracked' = Tracked
  BY <1>1 DEF Tracked
<1> QED
  BY <1>1, <1>2 DEF Sound, LedgerInv, TrackOK, OrderOK

(* Every verdict is sound. *)
LEMMA VerdictsSound ==
  ASSUME LedgerInv, NEW m \in Pieces, NEW tight, Observe(m, tight) \/ Gap(m, tight)
  PROVE  Sound
BY AdmitSound, NewGenerationSound, DuplicateSound, FollowsSound, HoldSound,
   TruncateSound, GapSound
   DEF Observe

(* The two parts of the invariant are all of it. *)
LEMMA LedgerTypes ==
  ASSUME LedgerInv, WireOK
  PROVE  TypeOK
<1>1. seen \in [Streams -> Tracks]
  BY DEF LedgerInv, TrackOK
<1>2. got \in [Streams -> [gen : Nat, last : 0..MaxSeq, held : {{}}]]
  <2>1. \A k \in Streams : Passed(seen[k]) \in [gen : Nat, last : 0..MaxSeq, held : {{}}]
    BY <1>1 DEF Passed, Tracks
  <2> QED
    BY <2>1 DEF LedgerInv
<1> QED
  BY <1>1, <1>2 DEF LedgerInv, WireOK, TypeOK, OrderOK, Tracks, Pieces

(* A lost link leaves a prefix of what was read ahead. *)
LEMMA LostTypes ==
  ASSUME NEW w \in Seq(Pieces), LinkLost(w)
  PROVE  link' = "cut" /\ asks' = <<>> /\ wire' \in Seq(Pieces)
<1>1. PICK n \in 0..Len(w) : wire' = SubSeq(w, 1, n)
  BY DEF LinkLost
<1>2. Len(w) \in Nat
  BY LenProperties
<1>3. SubSeq(w, 1, n) \in Seq(Pieces)
  BY <1>2, Slice
<1> QED
  BY <1>1, <1>3 DEF LinkLost

(* A function on 1..n is a sequence. *)
LEMMA Listed ==
  ASSUME NEW S, NEW n \in Nat, NEW f \in [1..n -> S]
  PROVE  f \in Seq(S)
BY SeqDef

(* The sender's answer is made of pieces of the stream it is asked for. *)
LEMMA ReplayTypes ==
  ASSUME WireOK, NEW k \in Streams, NEW after \in Nat
  PROVE  Replay(k, after) \in Seq(Pieces)
<1> DEFINE s     == sender[k]
           A     == {after, s.top - Rewind}
           first == Highest(A) + 1
           n     == s.top - first + 1
<1>1. s.top \in 0..MaxSeq /\ s.gen \in Nat \ {0} /\ MaxSeq \in Nat /\ Rewind \in Nat
  BY StreamAssumption DEF WireOK
<1>2. Highest(A) \in Nat
  <2>1. \E x \in A : \A y \in A : y <= x
    BY <1>1
  <2>2. Highest(A) \in A /\ \A y \in A : y <= Highest(A)
    BY <2>1 DEF Highest
  <2> QED
    BY <1>1, <2>2
<1>3. first \in Nat \ {0} /\ n \in Int
  BY <1>1, <1>2
<1>4. \A i \in 1..n : Chunk(k, s.gen, first + i - 1) \in Pieces
  BY <1>1, <1>3 DEF Chunk, Pieces
<1>5. Replay(k, after) = [i \in 1..n |-> Chunk(k, s.gen, first + i - 1)]
  BY DEF Replay
<1> HIDE DEF first
<1>6. CASE n \in Nat
  <2>1. [i \in 1..n |-> Chunk(k, s.gen, first + i - 1)] \in [1..n -> Pieces]
    BY <1>4
  <2> HIDE DEF n
  <2> QED
    BY <1>5, <1>6, <2>1, Listed
<1>7. CASE n \notin Nat
  <2>1. 1..n = 1..0
    BY <1>3, <1>7
  <2>2. Replay(k, after) \in [1..0 -> Pieces]
    BY <1>4, <1>5, <2>1
  <2> HIDE DEF n
  <2> QED
    BY <2>2, Listed
<1> QED
  BY <1>6, <1>7

(* pending_resumes asks for tracked streams, after numbers they have. *)
LEMMA PendingTypes ==
  ASSUME LedgerInv, NEW s \in PendingResumes
  PROVE  [i \in DOMAIN s |-> Ask(s[i], seen[s[i]].last)] \in Seq([key : Streams, after : Nat])
<1>1. Open \subseteq Tracked
  BY DEF Open, Tracked, NoTrack
<1>2. IsFiniteSet(Tracked)
  <2>1. order \in Seq(Streams) /\ ToSet(order) = Tracked
    BY DEF LedgerInv, OrderOK
  <2>2. Len(order) \in Nat /\ DOMAIN order = 1..Len(order)
    BY <2>1, LenProperties
  <2>3. IsFiniteSet(1..Len(order))
    BY <2>2, FS_Interval
  <2>4. Tracked = {order[i] : i \in 1..Len(order)}
    BY <2>1, <2>2 DEF ToSet
  <2>5. order \in Surjection(1..Len(order), Tracked)
    BY <2>1, <2>2, <2>4 DEF Surjection
  <2> QED
    BY <2>3, <2>5, FS_Surjection
<1>3. Cardinality(Open) \in Nat
  BY <1>1, <1>2, FS_Subset, FS_CardinalityType
<1>4. s \in [1..Cardinality(Open) -> Open]
  BY DEF PendingResumes, SetToSeqs
<1>5. ASSUME NEW k \in Open PROVE Ask(k, seen[k].last) \in [key : Streams, after : Nat]
  <2>1. k \in Streams /\ seen[k] \in Tracks /\ MaxSeq \in Nat
    BY StreamAssumption DEF Open, LedgerInv, TrackOK
  <2> QED
    BY <2>1 DEF Ask, Tracks
<1> DEFINE n == Cardinality(Open)
<1>6. [i \in DOMAIN s |-> Ask(s[i], seen[s[i]].last)] \in [1..n -> [key : Streams, after : Nat]]
  BY <1>4, <1>5
<1> HIDE DEF n
<1> QED
  BY <1>3, <1>6, Listed DEF n

(* The initial state: nothing tracked, nothing on its way. *)
LEMMA InitInv == Init => StreamInv
<1> SUFFICES ASSUME Init PROVE StreamInv
  OBVIOUS
<1>1. MaxSeq \in Nat /\ MaxStreams \in Nat
  BY StreamAssumption
<1>2. WireOK
  BY <1>1 DEF Init, WireOK
<1>3. TrackOK(NoTrack) /\ Passed(NoTrack) = NoTrack
  BY <1>1, EmptyWindow DEF TrackOK, Tracks, NoTrack, Passed
<1>4. seen = [k \in Streams |-> NoTrack] /\ got = [k \in Streams |-> NoTrack] /\ order = <<>>
  BY DEF Init
<1>5. OrderOK(order, Tracked)
  <2>1. Tracked = {}
    BY <1>4 DEF Tracked
  <2>2. DOMAIN order = {} /\ order \in Seq(Streams) /\ Len(order) = 0
    BY <1>4
  <2> QED
    BY <1>1, <2>1, <2>2 DEF OrderOK, ToSet, IsInjective
<1>6. LedgerInv
  BY <1>3, <1>4, <1>5 DEF LedgerInv
<1> QED
  BY <1>2, <1>6 DEF StreamInv

(* The frame that is taken next is a piece. *)
LEMMA NextFrame ==
  ASSUME WireOK, wire # <<>>
  PROVE  Head(wire) \in Pieces /\ Tail(wire) \in Seq(Pieces)
BY HeadTailProperties DEF WireOK

(* run_live on a frame keeps the types of what is on its way. *)
LEMMA TakeFrameSound ==
  ASSUME StreamInv, TakeFrame
  PROVE  WireOK' /\ Sound
<1>1. WireOK /\ LedgerInv /\ wire # <<>> /\ link = "up" /\ sender' = sender
  BY DEF StreamInv, TakeFrame
<1>2. Head(wire) \in Pieces /\ Tail(wire) \in Seq(Pieces)
  BY <1>1, NextFrame
<1>3. PICK tight \in BOOLEAN :
        \/ /\ Observe(Head(wire), tight)
           /\ wire' = Tail(wire) /\ UNCHANGED <<link, asks>>
        \/ /\ Gap(Head(wire), tight)
           /\ \/ /\ asks' = Append(asks, Ask(Head(wire).key, seen[Head(wire).key].last))
                 /\ wire' = Tail(wire) /\ UNCHANGED link
              \/ LinkLost(Tail(wire))
  BY DEF TakeFrame
<1>4. Sound
  <2> DEFINE m == Head(wire)
  <2>1. Observe(m, tight) \/ Gap(m, tight)
    BY <1>3
  <2>2. m \in Pieces
    BY <1>2
  <2> HIDE DEF m
  <2> QED
    BY <1>1, <2>1, <2>2, VerdictsSound
<1>5. CASE wire' = Tail(wire) /\ UNCHANGED <<link, asks>>
  BY <1>1, <1>2, <1>4, <1>5 DEF WireOK
<1>6. CASE /\ asks' = Append(asks, Ask(Head(wire).key, seen[Head(wire).key].last))
           /\ wire' = Tail(wire) /\ UNCHANGED link
  <2> DEFINE k == Head(wire).key
  <2>1. k \in Streams
    BY <1>2 DEF Pieces
  <2>2. seen[k] \in Tracks /\ MaxSeq \in Nat
    BY <1>1, <2>1, StreamAssumption DEF LedgerInv, TrackOK
  <2>3. Ask(k, seen[k].last) \in [key : Streams, after : Nat]
    BY <2>1, <2>2 DEF Ask, Tracks
  <2>4. asks' \in Seq([key : Streams, after : Nat])
    <3> HIDE DEF k
    <3>1. Append(asks, Ask(k, seen[k].last)) \in Seq([key : Streams, after : Nat])
      BY <1>1, <2>3, AppendProperties DEF WireOK
    <3> QED
      BY <1>6, <3>1 DEF k
  <2> QED
    BY <1>1, <1>2, <1>4, <1>6, <2>4 DEF WireOK
<1>7. CASE LinkLost(Tail(wire))
  <2>1. link' = "cut" /\ asks' = <<>> /\ wire' \in Seq(Pieces)
    BY <1>2, <1>7, LostTypes
  <2> QED
    BY <1>1, <1>4, <2>1 DEF WireOK
<1> QED
  BY <1>3, <1>4, <1>5, <1>6, <1>7

(* So does the salvage of what was read ahead. *)
LEMMA SalvageSound ==
  ASSUME StreamInv, Salvage
  PROVE  WireOK' /\ Sound
<1> DEFINE m == Head(wire)
<1>1. /\ WireOK /\ LedgerInv /\ wire # <<>> /\ wire' = Tail(wire)
      /\ UNCHANGED <<sender, link, asks>>
  BY DEF StreamInv, Salvage
<1>2. m \in Pieces /\ Tail(wire) \in Seq(Pieces)
  BY <1>1, NextFrame
<1>3. PICK tight \in BOOLEAN : Observe(m, tight) \/ Gap(m, tight)
  BY DEF Salvage
<1> HIDE DEF m
<1>4. Sound
  BY <1>1, <1>2, <1>3, VerdictsSound
<1> QED
  BY <1>1, <1>2, <1>4 DEF WireOK

(* And the sender's steps, which touch nothing of the ledger. *)
LEMMA SenderSound ==
  ASSUME StreamInv, Answer \/ \E k \in Streams : Stamp(k) \/ Restart(k)
  PROVE  WireOK' /\ Sound
<1>1. WireOK /\ LedgerInv
  BY DEF StreamInv
<1>2. Sound
  BY <1>1, IdleSound DEF Answer, Stamp, Restart
<1>3. MaxSeq \in Nat
  BY StreamAssumption
<1>4. CASE Answer
  <2>1. Head(asks) \in [key : Streams, after : Nat]
        /\ Tail(asks) \in Seq([key : Streams, after : Nat])
    BY <1>1, <1>4, HeadTailProperties DEF WireOK, Answer
  <2>2. Replay(Head(asks).key, Head(asks).after) \in Seq(Pieces)
    BY <1>1, <2>1, ReplayTypes
  <2>3. wire \o Replay(Head(asks).key, Head(asks).after) \in Seq(Pieces)
    BY <1>1, <2>2, ConcatProperties DEF WireOK
  <2> QED
    BY <1>1, <1>2, <1>4, <2>1, <2>3 DEF WireOK, Answer
<1>5. ASSUME NEW k \in Streams, Stamp(k) PROVE WireOK'
  <2>1. /\ sender[k] \in [gen : Nat \ {0}, top : 0..MaxSeq] /\ sender[k].top < MaxSeq
        /\ sender' = [sender EXCEPT ![k].top = @ + 1]
        /\ UNCHANGED <<link, asks>>
    BY <1>1, <1>5 DEF WireOK, Stamp
  <2>2. sender' \in [Streams -> [gen : Nat \ {0}, top : 0..MaxSeq]]
    BY <1>1, <1>3, <2>1, SMTT(30) DEF WireOK
  <2> DEFINE c == Chunk(k, sender[k].gen, sender[k].top + 1)
  <2>3. c \in Pieces
    BY <1>3, <2>1 DEF Chunk, Pieces
  <2>4. wire' \in {wire, Sendable(<<c>>)}
    BY <1>5 DEF Stamp
  <2> HIDE DEF c
  <2>5. wire \o <<c>> \in Seq(Pieces)
    <3>1. <<c>> \in Seq(Pieces)
      BY <2>3
    <3> QED
      BY <1>1, <3>1, ConcatProperties DEF WireOK
  <2>6. wire' \in Seq(Pieces)
    BY <1>1, <2>4, <2>5 DEF WireOK, Sendable
  <2> QED
    BY <1>1, <2>1, <2>2, <2>6 DEF WireOK
<1>6. ASSUME NEW k \in Streams, Restart(k) PROVE WireOK'
  <2>1. /\ sender[k] \in [gen : Nat \ {0}, top : 0..MaxSeq]
        /\ sender' = [sender EXCEPT ![k] = [gen |-> @.gen + 1, top |-> 0]]
        /\ UNCHANGED <<link, wire, asks>>
    BY <1>1, <1>6 DEF WireOK, Restart
  <2>2. sender' \in [Streams -> [gen : Nat \ {0}, top : 0..MaxSeq]]
    BY <1>1, <1>3, <2>1 DEF WireOK
  <2> QED
    BY <1>1, <2>1, <2>2 DEF WireOK
<1> QED
  BY <1>2, <1>4, <1>5, <1>6

(* Every step keeps the invariant and hands up only what rises or is       *)
(* reported.                                                               *)
LEMMA StepSound ==
  ASSUME StreamInv, Next
  PROVE  WireOK' /\ Sound
<1>1. WireOK /\ LedgerInv
  BY DEF StreamInv
<1>2. CASE TakeFrame
  BY <1>2, TakeFrameSound
<1>3. CASE Timer
  <2>1. PICK K \in SUBSET Open : Collapse(K) /\ UNCHANGED <<sender, link, wire, asks>>
    BY <1>3 DEF Timer, Expire
  <2>2. Sound
    BY <1>1, <2>1, CollapseSound
  <2> QED
    BY <1>1, <2>1, <2>2 DEF WireOK
<1>4. CASE Lose
  <2>1. LinkLost(wire) /\ Idle /\ sender' = sender
    BY <1>4 DEF Lose
  <2>2. wire \in Seq(Pieces)
    BY <1>1 DEF WireOK
  <2>3. link' = "cut" /\ asks' = <<>> /\ wire' \in Seq(Pieces)
    BY <2>1, <2>2, LostTypes
  <2> QED
    BY <1>1, <2>1, <2>3, IdleSound DEF WireOK
<1>5. CASE Salvage
  BY <1>5, SalvageSound
<1>6. CASE DropLink
  BY <1>1, <1>6, IdleSound DEF DropLink, WireOK
<1>7. CASE Connect
  <2>1. Idle /\ UNCHANGED <<sender, wire>> /\ link' \in {"up", "cut"}
    BY <1>7 DEF Connect
  <2>2. asks' \in Seq([key : Streams, after : Nat])
    <3>1. CASE asks' = <<>>
      BY <3>1
    <3>2. CASE \E s \in PendingResumes :
                 asks' = [i \in DOMAIN s |-> Ask(s[i], seen[s[i]].last)]
      BY <1>1, <3>2, PendingTypes
    <3> QED
      BY <1>7, <3>1, <3>2 DEF Connect
  <2> QED
    BY <1>1, <2>1, <2>2, IdleSound DEF WireOK
<1>8. CASE Close
  <2>1. Collapse(Open) /\ link' = "closed" /\ UNCHANGED <<sender, wire, asks>>
    BY <1>8 DEF Close
  <2>2. Sound
    BY <1>1, <2>1, CollapseSound
  <2> QED
    BY <1>1, <2>1, <2>2 DEF WireOK
<1>9. CASE \E k \in Streams, n \in 0..MaxSeq : ResumeStream(k, n)
  <2>1. PICK k \in Streams, n \in 0..MaxSeq : ResumeStream(k, n)
    BY <1>9
  <2>2. Ask(k, n) \in [key : Streams, after : Nat]
    BY StreamAssumption DEF Ask
  <2>3. Append(asks, Ask(k, n)) \in Seq([key : Streams, after : Nat])
    BY <1>1, <2>2, AppendProperties DEF WireOK
  <2> QED
    BY <1>1, <2>1, <2>3, IdleSound DEF ResumeStream, WireOK
<1>10. CASE Answer \/ \E k \in Streams : Stamp(k) \/ Restart(k)
  BY <1>10, SenderSound
<1> QED
  BY <1>2, <1>3, <1>4, <1>5, <1>6, <1>7, <1>8, <1>9, <1>10 DEF Next

(* A stuttering step keeps the invariant. *)
LEMMA StillInv == StreamInv /\ UNCHANGED vars => StreamInv'
<1> SUFFICES ASSUME StreamInv, UNCHANGED vars PROVE StreamInv'
  OBVIOUS
<1>1. UNCHANGED <<sender, link, wire, asks, seen, order, got>>
  BY DEF vars, ledger, history
<1>2. Tracked' = Tracked
  BY <1>1 DEF Tracked
<1> QED
  BY <1>1, <1>2 DEF StreamInv, WireOK, LedgerInv, TrackOK, OrderOK

(* What the invariant says about the limits. *)
LEMMA InvGivesBounds == StreamInv => WindowsAreBounded
<1> SUFFICES ASSUME StreamInv PROVE WindowsAreBounded
  OBVIOUS
<1>1. TypeOK
  BY LedgerTypes DEF StreamInv
<1> QED
  BY <1>1 DEF StreamInv, LedgerInv, TrackOK, OrderOK, WindowsAreBounded

(* stream.rs, resume_buffer and max_streams: in every reachable state, for *)
(* any streams, limits and bounds, a window holds less than its buffer and *)
(* nothing that has gone up, and exactly the streams in the LRU order, no  *)
(* more than max_streams, are tracked.                                     *)
THEOREM StreamsAreBounded == Spec => []WindowsAreBounded
<1>1. StreamInv /\ [Next]_vars => StreamInv'
  BY StepSound, StillInv DEF StreamInv, Sound
<1> QED
  BY <1>1, InitInv, InvGivesBounds, PTL DEF Spec

(* observe_capped: every step hands up, of every stream, pieces that rise  *)
(* above what the consumer has, and passes a number over only with a       *)
(* report that says so.                                                    *)
THEOREM DeliveryRises == Spec => DeliveredInOrder
<1>1. StreamInv /\ [Next]_vars => StreamInv'
  BY StepSound, StillInv DEF StreamInv, Sound
<1>2. StreamInv /\ [Next]_vars => [\A h \in told' : RisesOrReports(h)]_vars
  BY StepSound DEF Sound
<1> QED
  BY <1>1, <1>2, InitInv, PTL DEF Spec, DeliveredInOrder

-----------------------------------------------------------------------------
(* Answered windows.  The wire carries runs: a piece that comes again is   *)
(* part of a replay, and a replay goes on to the sender's last piece.      *)

\* From place i on, w carries the pieces a to b of an incarnation in a row.
Run(w, i, k, g, a, b) ==
  \A s \in a..b : i + (s - a) \in DOMAIN w /\ w[i + (s - a)] = Chunk(k, g, s)

\* Every piece of that incarnation up to n starts a run up to n.
Recurs(w, k, g, n) ==
  \A i \in DOMAIN w :
    w[i].key = k /\ w[i].gen = g /\ w[i].seq <= n => Run(w, i, k, g, w[i].seq, n)

\* What comes behind a piece, and is not newer, starts a run up to it.
Replayed(w, k, g) ==
  \A i, j \in DOMAIN w :
    /\ i < j /\ w[i].key = k /\ w[i].gen = g
    /\ w[j].key = k /\ w[j].gen = g /\ w[j].seq <= w[i].seq
    => Run(w, j, k, g, w[j].seq, w[i].seq)

\* The sender has stamped piece n of incarnation g.
Stamped(k, g, n) == g <= sender[k].gen /\ (g = sender[k].gen => n <= sender[k].top)

\* The wire still carries everything from what goes up next to the piece p.
Owing(p) ==
  /\ seen[p.key].gen = p.gen /\ seen[p.key].last < p.seq
  /\ \E i \in DOMAIN wire : Run(wire, i, p.key, p.gen, seen[p.key].last + 1, p.seq)

\* What is owed, and on which link.
OwedTyped ==
  /\ used \in [links : Nat, wishes : Nat]
  /\ \A p \in owed : /\ p.key \in Streams /\ p.gen \in Nat \ {0} /\ p.seq \in 1..MaxSeq
                     /\ p.on \in Nat /\ p.on <= used.links /\ p.gen <= sender[p.key].gen

\* What is on the wire or held was stamped.
AllStamped ==
  /\ link = "down" => wire = <<>>
  /\ \A i \in DOMAIN wire : Stamped(wire[i].key, wire[i].gen, wire[i].seq)
  /\ \A k \in Streams : /\ seen[k].gen <= sender[k].gen
                        /\ \A n \in seen[k].held : Stamped(k, seen[k].gen, n)

\* What is held recurs with all that precedes it, if anything of that does.
HeldRecurs ==
  link = "up" => \A k \in Streams :
    /\ Replayed(wire, k, sender[k].gen)
    /\ seen[k].gen = sender[k].gen =>
         \A n \in seen[k].held : Recurs(wire, k, sender[k].gen, n)

\* What was dropped as answered is on its way.
OwedIsOwing ==
  link = "up" => \A p \in owed :
    p.on = used.links /\ p.gen = sender[p.key].gen => Owing(p)

CarryInv == OwedTyped /\ AllStamped /\ HeldRecurs /\ OwedIsOwing

(* The pieces behind the first one. *)
LEMMA TailPlaces ==
  ASSUME NEW w \in Seq(Pieces), w # <<>>
  PROVE  /\ 1 \in DOMAIN w /\ Head(w) = w[1] /\ Tail(w) \in Seq(Pieces)
         /\ \A i \in DOMAIN w : i \in Nat \ {0} /\ w[i] \in Pieces
         /\ \A i \in DOMAIN Tail(w) : /\ i \in Nat \ {0} /\ i + 1 \in DOMAIN w
                                      /\ Tail(w)[i] = w[i + 1]
         /\ \A i \in DOMAIN w : i > 1 => i - 1 \in DOMAIN Tail(w) /\ Tail(w)[i - 1] = w[i]
<1>1. PICK n \in Nat : Len(w) = n /\ DOMAIN w = 1..n /\ n # 0
  BY LenProperties, EmptySeq
<1>2. \A i \in 1..n : w[i] \in Pieces
  BY <1>1, ElementOfSeq
<1>3. /\ Head(w) = w[1] /\ Tail(w) \in Seq(Pieces) /\ Len(Tail(w)) = n - 1
      /\ \A i \in 1..(n - 1) : Tail(w)[i] = w[i + 1]
  BY <1>1, HeadTailProperties
<1>4. DOMAIN Tail(w) = 1..(n - 1)
  BY <1>3, LenProperties
<1>5. QED
  BY <1>1, <1>2, <1>3, <1>4

(* A run that does not begin with the first piece outlives it. *)
LEMMA RunOutlives ==
  ASSUME NEW w \in Seq(Pieces), w # <<>>, NEW k, NEW g, NEW a \in Nat, NEW b \in Nat,
         NEW i \in Nat, i > 1, Run(w, i, k, g, a, b)
  PROVE  Run(Tail(w), i - 1, k, g, a, b)
<1> SUFFICES ASSUME NEW s \in a..b
             PROVE  /\ (i - 1) + (s - a) \in DOMAIN Tail(w)
                    /\ Tail(w)[(i - 1) + (s - a)] = Chunk(k, g, s)
  BY DEF Run
<1>1. i + (s - a) \in DOMAIN w /\ w[i + (s - a)] = Chunk(k, g, s) /\ i + (s - a) > 1
  BY DEF Run
<1>2. (i - 1) + (s - a) = (i + (s - a)) - 1
  OBVIOUS
<1>3. QED
  BY <1>1, <1>2, TailPlaces

(* The rest of a run is a run. *)
LEMMA RunFrom ==
  ASSUME NEW w, NEW k, NEW g, NEW a \in Nat, NEW b \in Nat, NEW i \in Nat,
         Run(w, i, k, g, a, b), NEW c \in Nat, a <= c
  PROVE  Run(w, i + (c - a), k, g, c, b)
<1> SUFFICES ASSUME NEW s \in c..b
             PROVE  /\ (i + (c - a)) + (s - c) \in DOMAIN w
                    /\ w[(i + (c - a)) + (s - c)] = Chunk(k, g, s)
  BY DEF Run
<1>1. s \in a..b /\ (i + (c - a)) + (s - c) = i + (s - a)
  OBVIOUS
<1>2. QED
  BY <1>1 DEF Run

(* What is appended leaves the runs of a wire alone. *)
LEMMA RunStays ==
  ASSUME NEW w \in Seq(Pieces), NEW x \in Seq(Pieces), NEW k, NEW g, NEW a \in Nat,
         NEW b \in Nat, NEW i \in Nat, Run(w, i, k, g, a, b)
  PROVE  Run(w \o x, i, k, g, a, b)
<1>1. \A j \in DOMAIN w : j \in DOMAIN (w \o x) /\ (w \o x)[j] = w[j]
  BY ConcatProperties, LenProperties
<1>2. QED
  BY <1>1 DEF Run

(* Taking the first piece keeps the runs behind it; the piece recurs with  *)
(* all that precedes it.                                                   *)
LEMMA TakenRecurs ==
  ASSUME NEW w \in Seq(Pieces), w # <<>>, NEW k, NEW g
  PROVE  /\ \A n \in Nat : Recurs(w, k, g, n) => Recurs(Tail(w), k, g, n)
         /\ Replayed(w, k, g) => Replayed(Tail(w), k, g)
         /\ Replayed(w, k, g) /\ Head(w).key = k /\ Head(w).gen = g
              => Recurs(Tail(w), k, g, Head(w).seq)
<1> DEFINE v == Tail(w)
<1>1. /\ 1 \in DOMAIN w /\ Head(w) = w[1]
      /\ \A i \in DOMAIN w : i \in Nat \ {0} /\ w[i].seq \in Nat
      /\ \A i \in DOMAIN v : /\ i \in Nat \ {0} /\ i + 1 \in DOMAIN w /\ v[i] = w[i + 1]
  <2>1. \A x \in Pieces : x.seq \in Nat
    BY StreamAssumption DEF Pieces
  <2>2. /\ 1 \in DOMAIN w /\ Head(w) = w[1]
        /\ \A i \in DOMAIN w : i \in Nat \ {0} /\ w[i] \in Pieces
        /\ \A i \in DOMAIN v : /\ i \in Nat \ {0} /\ i + 1 \in DOMAIN w /\ v[i] = w[i + 1]
    BY TailPlaces
  <2> HIDE DEF v
  <2>3. QED
    BY <2>1, <2>2
<1>2. ASSUME NEW i \in DOMAIN v, NEW n \in Nat, Run(w, i + 1, k, g, w[i + 1].seq, n)
      PROVE  Run(v, i, k, g, v[i].seq, n)
  <2>1. i + 1 \in Nat /\ i + 1 > 1 /\ (i + 1) - 1 = i /\ w[i + 1].seq \in Nat
        /\ v[i] = w[i + 1]
    BY <1>1
  <2> DEFINE a == w[i + 1].seq
             j == i + 1
  <2>2. j \in Nat /\ j > 1 /\ a \in Nat /\ Run(w, j, k, g, a, n) /\ j - 1 = i /\ v[i].seq = a
    BY <1>2, <2>1
  <2> HIDE DEF a, j, v
  <2>3. Run(Tail(w), j - 1, k, g, a, n)
    BY <2>2, RunOutlives
  <2>4. QED
    BY <2>2, <2>3 DEF v
<1> HIDE DEF v
<1>3. ASSUME NEW n \in Nat, Recurs(w, k, g, n)
      PROVE  Recurs(v, k, g, n)
  BY <1>1, <1>2, <1>3 DEF Recurs
<1>4. ASSUME Replayed(w, k, g)
      PROVE  Replayed(v, k, g)
  <2> SUFFICES ASSUME NEW i \in DOMAIN v, NEW j \in DOMAIN v,
                      i < j, v[i].key = k, v[i].gen = g,
                      v[j].key = k, v[j].gen = g, v[j].seq <= v[i].seq
               PROVE  Run(v, j, k, g, v[j].seq, v[i].seq)
    BY DEF Replayed
  <2>1. /\ i + 1 \in DOMAIN w /\ j + 1 \in DOMAIN w /\ i + 1 < j + 1
        /\ v[i] = w[i + 1] /\ v[j] = w[j + 1] /\ v[i].seq \in Nat
    BY <1>1
  <2>2. Run(w, j + 1, k, g, w[j + 1].seq, w[i + 1].seq)
    BY <1>4, <2>1 DEF Replayed
  <2>3. QED
    BY <1>2, <2>1, <2>2
<1>5. ASSUME Replayed(w, k, g), Head(w).key = k, Head(w).gen = g
      PROVE  Recurs(v, k, g, Head(w).seq)
  <2> SUFFICES ASSUME NEW i \in DOMAIN v, v[i].key = k, v[i].gen = g,
                      v[i].seq <= Head(w).seq
               PROVE  Run(v, i, k, g, v[i].seq, Head(w).seq)
    BY DEF Recurs
  <2>1. /\ i + 1 \in DOMAIN w /\ 1 < i + 1 /\ v[i] = w[i + 1] /\ Head(w) = w[1]
        /\ 1 \in DOMAIN w /\ Head(w).seq \in Nat
    BY <1>1
  <2>2. Run(w, i + 1, k, g, w[i + 1].seq, Head(w).seq)
    BY <1>5, <2>1 DEF Replayed
  <2>3. QED
    BY <1>2, <2>1, <2>2
<1>6. QED
  BY <1>3, <1>4, <1>5 DEF v

\* What x has of an incarnation goes on to piece top, one by one.
UpTo(x, k, g, top) ==
  \A i \in DOMAIN x : x[i].key = k /\ x[i].gen = g =>
    /\ Run(x, i, k, g, x[i].seq, top)
    /\ \A j \in DOMAIN x : i < j /\ x[j].key = k /\ x[j].gen = g => x[i].seq < x[j].seq

(* The places of a wire with more on it. *)
LEMMA MorePlaces ==
  ASSUME NEW w \in Seq(Pieces), NEW x \in Seq(Pieces)
  PROVE  /\ w \o x \in Seq(Pieces) /\ Len(w) \in Nat
         /\ \A i \in DOMAIN w : /\ i \in DOMAIN (w \o x) /\ (w \o x)[i] = w[i]
                                /\ i \in Nat /\ w[i] \in Pieces
         /\ \A i \in DOMAIN x : /\ Len(w) + i \in DOMAIN (w \o x)
                                /\ (w \o x)[Len(w) + i] = x[i]
                                /\ i \in Nat /\ x[i] \in Pieces
         /\ \A i \in DOMAIN (w \o x) :
              \/ i \in DOMAIN w /\ i <= Len(w)
              \/ /\ i \in Nat /\ i - Len(w) \in DOMAIN x /\ i > Len(w)
                 /\ (w \o x)[i] = x[i - Len(w)]
<1>1. PICK m \in Nat : Len(w) = m /\ DOMAIN w = 1..m
  BY LenProperties
<1>2. PICK n \in Nat : Len(x) = n /\ DOMAIN x = 1..n
  BY LenProperties
<1>3. /\ w \o x \in Seq(Pieces) /\ Len(w \o x) = m + n
      /\ \A i \in 1..(m + n) : (w \o x)[i] = IF i <= m THEN w[i] ELSE x[i - m]
  BY <1>1, <1>2, ConcatProperties
<1>4. DOMAIN (w \o x) = 1..(m + n)
  BY <1>3, LenProperties
<1>5. /\ \A i \in 1..m : w[i] \in Pieces
      /\ \A i \in 1..n : x[i] \in Pieces
  BY <1>1, <1>2, ElementOfSeq
<1>6. QED
  BY <1>1, <1>2, <1>3, <1>4, <1>5

(* A run of what is appended is one of the whole. *)
LEMMA RunMoves ==
  ASSUME NEW w \in Seq(Pieces), NEW x \in Seq(Pieces), NEW k, NEW g, NEW a \in Nat,
         NEW b \in Nat, NEW i \in Nat, Run(x, i, k, g, a, b)
  PROVE  Run(w \o x, Len(w) + i, k, g, a, b)
<1> SUFFICES ASSUME NEW s \in a..b
             PROVE  /\ (Len(w) + i) + (s - a) \in DOMAIN (w \o x)
                    /\ (w \o x)[(Len(w) + i) + (s - a)] = Chunk(k, g, s)
  BY DEF Run
<1>1. PICK j \in DOMAIN x : j = i + (s - a) /\ x[j] = Chunk(k, g, s)
  BY DEF Run
<1>2. PICK l \in Nat : l = Len(w)
  BY MorePlaces
<1>3. (l + i) + (s - a) = l + j
  BY <1>1
<1>4. Len(w) + j \in DOMAIN (w \o x) /\ (w \o x)[Len(w) + j] = x[j]
  BY MorePlaces
<1>5. QED
  BY <1>1, <1>2, <1>3, <1>4

(* The shorter run. *)
LEMMA RunTo ==
  ASSUME NEW w, NEW k, NEW g, NEW a \in Nat, NEW b \in Nat, NEW i \in Nat,
         Run(w, i, k, g, a, b), NEW c \in Nat, c <= b
  PROVE  Run(w, i, k, g, a, c)
BY DEF Run

(* What goes on to the sender's last piece keeps every recurrence. *)
LEMMA AppendedRecurs ==
  ASSUME NEW w \in Seq(Pieces), NEW x \in Seq(Pieces), NEW k, NEW g, NEW top \in Nat,
         UpTo(x, k, g, top),
         \A i \in DOMAIN w : w[i].key = k /\ w[i].gen = g => w[i].seq <= top,
         \A i \in DOMAIN x : x[i].key = k /\ x[i].gen = g => x[i].seq <= top
  PROVE  /\ Replayed(w, k, g) => Replayed(w \o x, k, g)
         /\ \A n \in Nat : n <= top /\ Recurs(w, k, g, n) => Recurs(w \o x, k, g, n)
<1> DEFINE v == w \o x
<1>1. PICK l \in Nat : l = Len(w)
  BY MorePlaces
<1>2. /\ \A i \in DOMAIN w : /\ i \in DOMAIN v /\ v[i] = w[i] /\ i \in Nat /\ w[i].seq \in Nat
      /\ \A i \in DOMAIN v :
           \/ i \in DOMAIN w /\ i <= l
           \/ /\ i \in Nat /\ i - l \in DOMAIN x /\ i > l
              /\ v[i] = x[i - l] /\ v[i].seq \in Nat
  <2>1. \A e \in Pieces : e.seq \in Nat
    BY StreamAssumption DEF Pieces
  <2> QED
    BY <1>1, <2>1, MorePlaces
<1>3. ASSUME NEW i \in DOMAIN w, NEW n \in Nat, Run(w, i, k, g, w[i].seq, n)
      PROVE  Run(v, i, k, g, v[i].seq, n)
  <2>1. Run(v, i, k, g, w[i].seq, n)
    BY <1>2, <1>3, RunStays
  <2> QED
    BY <1>2, <2>1
<1>4. ASSUME NEW i \in DOMAIN v, i - l \in DOMAIN x, i > l, v[i].key = k, v[i].gen = g,
             NEW n \in Nat, n <= top
      PROVE  Run(v, i, k, g, v[i].seq, n)
  <2>1. PICK j \in DOMAIN x : j \in Nat /\ i = l + j /\ v[i] = x[j] /\ x[j].seq \in Nat
    <3>1. i \notin DOMAIN w
      BY <1>1, <1>4, LenProperties
    <3>2. i \in Nat /\ v[i] = x[i - l] /\ v[i].seq \in Nat
      BY <1>2, <3>1
    <3>3. i - l \in Nat
      BY <1>4, <3>2
    <3>4. i = l + (i - l)
      BY <3>2
    <3> HIDE DEF v
    <3> QED
      BY <1>4, <3>2, <3>3, <3>4
  <2>2. Run(x, j, k, g, x[j].seq, top)
    BY <1>4, <2>1 DEF UpTo
  <2>3. Run(x, j, k, g, x[j].seq, n)
    BY <1>4, <2>1, <2>2, RunTo
  <2>4. Run(v, Len(w) + j, k, g, x[j].seq, n)
    BY <2>1, <2>3, RunMoves
  <2> QED
    BY <1>1, <2>1, <2>4
<1> HIDE DEF v
<1>5. ASSUME NEW n \in Nat, n <= top, Recurs(w, k, g, n)
      PROVE  Recurs(v, k, g, n)
  BY <1>2, <1>3, <1>4, <1>5 DEF Recurs
<1>6. ASSUME Replayed(w, k, g)
      PROVE  Replayed(v, k, g)
  <2> SUFFICES ASSUME NEW i \in DOMAIN v, NEW j \in DOMAIN v,
                      i < j, v[i].key = k, v[i].gen = g,
                      v[j].key = k, v[j].gen = g, v[j].seq <= v[i].seq
               PROVE  Run(v, j, k, g, v[j].seq, v[i].seq)
    BY DEF Replayed
  <2>1. v[i].seq \in Nat /\ v[i].seq <= top /\ i \in Nat /\ j \in Nat
    BY <1>2
  <2>2. CASE j \in DOMAIN w /\ j <= l
    <3>1. i \in DOMAIN w
      BY <1>2, <2>1, <2>2
    <3>2. Run(w, j, k, g, w[j].seq, w[i].seq)
      BY <1>2, <1>6, <2>2, <3>1 DEF Replayed
    <3> QED
      BY <1>2, <1>3, <2>1, <2>2, <3>1, <3>2
  <2>3. CASE j - l \in DOMAIN x /\ j > l
    BY <1>4, <2>1, <2>3
  <2> QED
    BY <1>2, <2>2, <2>3
<1> QED
  BY <1>5, <1>6 DEF v

-----------------------------------------------------------------------------
(* What a verdict on a piece m leaves held and owed. *)

\* A track moves on in its incarnation, short of piece n that follows it.
ShortOf(k, g, n) ==
  seen[k].gen = g /\ seen[k].last < n =>
    seen'[k].gen = g /\ seen[k].last <= seen'[k].last /\ seen'[k].last < n

\* m is the piece of incarnation g that k waits for.
IsNext(m, k, g) == m.key = k /\ m.gen = g /\ seen[k].gen = g /\ m.seq = seen[k].last + 1

\* p is dropped from a window that m answers.
Answered(p, m) ==
  /\ p.on = used.links /\ IsNext(m, p.key, p.gen) /\ p.seq \in seen[p.key].held
  /\ seen'[p.key] = [gen |-> m.gen, last |-> m.seq, held |-> {}]

Leaves(m) ==
  /\ \A k \in Streams :
       /\ seen'[k].gen \in {0, seen[k].gen} \/ (k = m.key /\ seen'[k].gen = m.gen)
       /\ \A n \in seen'[k].held :
            \/ n \in seen[k].held /\ seen'[k].gen = seen[k].gen
            \/ k = m.key /\ n = m.seq /\ seen'[k].gen = m.gen
  /\ \A p \in owed' :
       \/ /\ p \in owed /\ ShortOf(p.key, p.gen, p.seq)
          /\ IsNext(m, p.key, p.gen) => seen[p.key].last < seen'[p.key].last
       \/ Answered(p, m)

\* What an owed piece is, on a ledger that is in order.
Debts == \A p \in owed : p.key \in Streams /\ p.gen \in Nat \ {0} /\ p.seq \in 1..MaxSeq

(* A track that is replaced, the rest of the ledger left alone. *)
LEMMA OthersStay ==
  ASSUME LedgerInv, NEW q \in Streams, NEW t, seen' = [seen EXCEPT ![q] = t]
  PROVE  /\ seen'[q] = t
         /\ \A k \in Streams : k # q => seen'[k] = seen[k]
BY DEF LedgerInv

(* A track's fields. *)
LEMMA TrackParts ==
  ASSUME LedgerInv, NEW k \in Streams
  PROVE  /\ seen[k].gen \in Nat /\ seen[k].last \in Nat
         /\ seen[k].held \in SUBSET (1..MaxSeq)
         /\ \A n \in seen[k].held : n \in Nat /\ n > seen[k].last + 1
<1>1. TrackOK(seen[k])
  BY DEF LedgerInv
<1> QED
  BY <1>1, StreamAssumption DEF TrackOK, Tracks

(* A repeated piece leaves everything as it is. *)
LEMMA DuplicateLeaves ==
  ASSUME LedgerInv, Debts, NEW m \in Pieces, Duplicate(m)
  PROVE  Leaves(m)
<1>1. /\ seen' = seen /\ owed' = owed /\ m.key \in Streams /\ m.seq \in Nat
      /\ m.seq <= seen[m.key].last \/ m.seq \in seen[m.key].held
  BY StreamAssumption DEF Duplicate, Pieces
<1>2. m.seq # seen[m.key].last + 1
  BY <1>1, TrackParts
<1>3. \A p \in owed : seen[p.key].last \in Nat
  BY TrackParts DEF Debts
<1> QED
  BY <1>1, <1>2, <1>3 DEF Leaves, ShortOf, IsNext

(* So does a piece that is held, but for the piece itself. *)
LEMMA HoldLeaves ==
  ASSUME LedgerInv, Debts, NEW m \in Pieces, NEW tight, Hold(m, tight) \/ Gap(m, tight)
  PROVE  Leaves(m)
<1> DEFINE q == m.key
<1>1. /\ owed' = owed /\ q \in Streams /\ m.seq \in Nat
      /\ seen[q].gen = m.gen /\ m.seq > seen[q].last + 1
      /\ \/ seen' = [seen EXCEPT ![q].held = seen[q].held \cup {m.seq}]
         \/ seen' = [seen EXCEPT ![q].held = {m.seq}]
  BY StreamAssumption DEF Hold, Gap, Ahead, SameGeneration, Pieces
<1>2. /\ \A k \in Streams : k # q => seen'[k] = seen[k]
      /\ seen'[q].gen = seen[q].gen /\ seen'[q].last = seen[q].last
      /\ seen'[q].held \subseteq seen[q].held \cup {m.seq}
  <2>1. seen \in [Streams -> Tracks]
    BY DEF LedgerInv, TrackOK
  <2> QED
    BY <1>1, <2>1 DEF Tracks
<1>3. \A p \in owed : p.key \in Streams /\ p.seq \in Nat /\ seen[p.key].last \in Nat
  BY StreamAssumption, TrackParts DEF Debts
<1>4. seen[q].last \in Nat
  BY <1>1, TrackParts
<1> HIDE DEF q
<1>5. \A p \in owed : ShortOf(p.key, p.gen, p.seq) /\ ~IsNext(m, p.key, p.gen)
  BY <1>1, <1>2, <1>3, <1>4 DEF ShortOf, IsNext, q
<1> QED
  BY <1>1, <1>2, <1>5 DEF Leaves, q

(* The piece that is waited for: the window it answers is dropped, and is  *)
(* owed above it.                                                          *)
LEMMA FollowsLeaves ==
  ASSUME LedgerInv, Debts, NEW m \in Pieces, Follows(m)
  PROVE  Leaves(m)
<1> DEFINE q    == m.key
           t    == [gen |-> m.gen, last |-> m.seq, held |-> {}]
           B    == {m.seq}
           more == {[key |-> q, gen |-> m.gen, seq |-> n, on |-> used.links] :
                    n \in seen[q].held}
<1>1. /\ q \in Streams /\ m.seq \in Nat /\ m.seq = seen[q].last + 1
      /\ seen[q].gen = m.gen /\ seen[q].last \in Nat
      /\ seen' = [seen EXCEPT ![q] = t]
      /\ Settle({Handed(q, m.gen, "none", 0, B)}, more)
  BY StreamAssumption, TrackParts DEF Follows, SameGeneration, Pieces
<1>0. m.seq \in B
  OBVIOUS
<1> HIDE DEF q, t, B
<1>2. seen'[q] = t /\ \A k \in Streams : k # q => seen'[k] = seen[k]
  BY <1>1, OthersStay
<1>3. \A p \in owed' : /\ p \in owed \/ p \in more
                       /\ p.key = q => p.gen = m.gen /\ m.seq < p.seq
  <2> HIDE DEF more
  <2>1. \A p \in owed' : /\ p \in owed \/ p \in more
                         /\ p.key = q => p.gen = m.gen /\ \A n \in B : n < p.seq
    BY <1>1 DEF Settle, Handed
  <2> QED
    BY <1>0, <2>1
<1>4. t.gen = m.gen /\ t.last = m.seq /\ t.held = {}
  BY DEF t
<1>5. \A k \in Streams :
       /\ seen'[k].gen \in {0, seen[k].gen} \/ (k = m.key /\ seen'[k].gen = m.gen)
       /\ \A n \in seen'[k].held : n \in seen[k].held /\ seen'[k].gen = seen[k].gen
  BY <1>1, <1>2, <1>4 DEF q
<1>6. ASSUME NEW p \in owed', p \in owed
      PROVE  /\ ShortOf(p.key, p.gen, p.seq)
             /\ IsNext(m, p.key, p.gen) => seen[p.key].last < seen'[p.key].last
  <2>1. p.key \in Streams /\ p.seq \in Nat /\ seen[p.key].last \in Nat
    BY <1>6, StreamAssumption, TrackParts DEF Debts
  <2>2. CASE p.key = q
    BY <1>1, <1>2, <1>3, <1>4, <2>1, <2>2 DEF ShortOf, IsNext
  <2>3. CASE p.key # q
    BY <1>2, <2>1, <2>3 DEF ShortOf, IsNext, q
  <2> QED
    BY <2>2, <2>3
<1>7. ASSUME NEW p \in more
      PROVE  Answered(p, m)
  BY <1>1, <1>2 DEF Answered, IsNext, q, t
<1> QED
  BY <1>3, <1>5, <1>6, <1>7 DEF Leaves

(* A new incarnation: nothing of the old one stays held or owed. *)
LEMMA NewGenerationLeaves ==
  ASSUME LedgerInv, Debts, NEW m \in Pieces, NewGeneration(m)
  PROVE  Leaves(m)
<1> DEFINE q == m.key
           t == [gen |-> m.gen, last |-> m.seq, held |-> {}]
           B == {m.seq}
<1>1. /\ q \in Streams /\ m.seq \in Nat /\ seen[q].gen # m.gen
      /\ seen' = [seen EXCEPT ![q] = t]
      /\ Settle({Handed(q, m.gen, "generation", 0, B)}, {})
  BY StreamAssumption DEF NewGeneration, Pieces
<1>0. m.seq \in B
  OBVIOUS
<1> HIDE DEF q, t, B
<1>2. seen'[q] = t /\ \A k \in Streams : k # q => seen'[k] = seen[k]
  BY <1>1, OthersStay
<1>3. \A p \in owed' : p \in owed /\ (p.key = q => p.gen = m.gen)
  <2>1. \A p \in owed' : p \in owed /\ (p.key = q => p.gen = m.gen /\ \A n \in B : n < p.seq)
    BY <1>1 DEF Settle, Handed
  <2> QED
    BY <1>0, <2>1
<1>4. t.gen = m.gen /\ t.held = {}
  BY DEF t
<1>5. \A k \in Streams :
       /\ seen'[k].gen \in {0, seen[k].gen} \/ (k = m.key /\ seen'[k].gen = m.gen)
       /\ \A n \in seen'[k].held : n \in seen[k].held /\ seen'[k].gen = seen[k].gen
  BY <1>1, <1>2, <1>4 DEF q
<1>6. ASSUME NEW p \in owed'
      PROVE  ShortOf(p.key, p.gen, p.seq) /\ ~IsNext(m, p.key, p.gen)
  <2>1. p \in owed /\ p.key \in Streams /\ p.seq \in Nat /\ seen[p.key].last \in Nat
    BY <1>3, <1>6, StreamAssumption, TrackParts DEF Debts
  <2>2. CASE p.key = q
    BY <1>1, <1>3, <2>1, <2>2 DEF ShortOf, IsNext
  <2>3. CASE p.key # q
    BY <1>2, <2>1, <2>3 DEF ShortOf, IsNext, q
  <2> QED
    BY <2>2, <2>3
<1> QED
  BY <1>3, <1>5, <1>6 DEF Leaves

(* A truncation passes over everything held. *)
LEMMA TruncateLeaves ==
  ASSUME LedgerInv, Debts, NEW m \in Pieces, NEW tight, Truncate(m, tight)
  PROVE  Leaves(m)
<1> DEFINE q == m.key
           H == seen[q].held \cup {m.seq}
           l == Highest(H)
           t == [gen |-> m.gen, last |-> l, held |-> {}]
<1>1. /\ q \in Streams /\ m.seq \in 1..MaxSeq /\ m.seq > seen[q].last + 1
      /\ seen[q].gen = m.gen /\ seen[q].last \in Nat /\ MaxSeq \in Nat
      /\ seen[q].held \in SUBSET (1..MaxSeq)
      /\ seen' = [seen EXCEPT ![q] = t]
      /\ Settle({Handed(q, seen[q].gen, "truncated", Lowest(H), H)}, {})
  BY StreamAssumption, TrackParts DEF Truncate, Ahead, SameGeneration, Pieces, Flushed
<1>2. l \in H /\ m.seq <= l /\ l \in Nat
  <2>1. H \in SUBSET (1..MaxSeq) /\ m.seq \in H /\ H \in SUBSET Nat
    BY <1>1
  <2> HIDE DEF H
  <2>2. Highest(H) \in H /\ \A n \in H : n <= Highest(H)
    BY <1>1, <2>1, HighestIsHighest
  <2> QED
    BY <2>1, <2>2
<1> HIDE DEF q, t, H, l
<1>3. seen'[q] = t /\ \A k \in Streams : k # q => seen'[k] = seen[k]
  BY <1>1, OthersStay
<1>4. \A p \in owed' : p \in owed /\ (p.key = q => p.gen = m.gen /\ l < p.seq)
  <2>1. \A p \in owed' : p \in owed /\ (p.key = q => p.gen = seen[q].gen /\ \A n \in H : n < p.seq)
    BY <1>1 DEF Settle, Handed
  <2> QED
    BY <1>1, <1>2, <2>1
<1>5. t.gen = m.gen /\ t.last = l /\ t.held = {}
  BY DEF t
<1>6. \A k \in Streams :
       /\ seen'[k].gen \in {0, seen[k].gen} \/ (k = m.key /\ seen'[k].gen = m.gen)
       /\ \A n \in seen'[k].held : n \in seen[k].held /\ seen'[k].gen = seen[k].gen
  BY <1>1, <1>3, <1>5 DEF q
<1>7. ASSUME NEW p \in owed'
      PROVE  ShortOf(p.key, p.gen, p.seq) /\ ~IsNext(m, p.key, p.gen)
  <2>1. p \in owed /\ p.key \in Streams /\ p.seq \in Nat /\ seen[p.key].last \in Nat
    BY <1>4, <1>7, StreamAssumption, TrackParts DEF Debts
  <2>2. CASE p.key = q
    BY <1>1, <1>2, <1>3, <1>4, <1>5, <2>1, <2>2 DEF ShortOf, IsNext
  <2>3. CASE p.key # q
    BY <1>3, <2>1, <2>3 DEF ShortOf, IsNext, q
  <2> QED
    BY <2>2, <2>3
<1> QED
  BY <1>4, <1>6, <1>7 DEF Leaves

(* A stream that is admitted starts afresh, and so do those it displaces:  *)
(* nothing of either is owed.                                              *)
LEMMA AdmitLeaves ==
  ASSUME LedgerInv, Debts, NEW m \in Pieces, Admit(m)
  PROVE  Leaves(m)
<1> DEFINE q     == m.key
           V     == Victims
           t     == [gen |-> m.gen, last |-> m.seq, held |-> {}]
           new   == Handed(q, m.gen, "none", 0, {m.seq})
           ev(v) == IF seen[v].held = {}
                    THEN Handed(v, seen[v].gen, "forgotten", 0, {})
                    ELSE Flushed(v, seen[v].held, "forgotten")
           hands == {ev(v) : v \in V} \cup {new}
<1>1. /\ q \in Streams /\ m.seq \in Nat /\ seen[q] = NoTrack
      /\ seen' = [k \in Streams |->
           IF k = q THEN t ELSE IF k \in V THEN NoTrack ELSE seen[k]]
      /\ Settle(hands, {})
  BY StreamAssumption DEF Admit, Victims, Room, Tracked, Pieces
<1>2. \A v \in V : ev(v) \in hands /\ ev(v).key = v /\ ev(v).report = "forgotten"
  BY DEF Handed, Flushed
<1> HIDE DEF hands, ev, q
<1>3. \A p \in owed' : p \in owed /\ p.key \notin V
  BY <1>1, <1>2 DEF Settle
<1>4. /\ seen'[q] = t /\ t.gen = m.gen /\ t.held = {}
      /\ \A k \in Streams : k # q => seen'[k] = NoTrack \/ (k \notin V /\ seen'[k] = seen[k])
      /\ \A k \in Streams : k # q /\ k \notin V => seen'[k] = seen[k]
  BY <1>1
<1> HIDE DEF V, t
<1>5. \A k \in Streams :
       /\ seen'[k].gen \in {0, seen[k].gen} \/ (k = m.key /\ seen'[k].gen = m.gen)
       /\ \A n \in seen'[k].held : n \in seen[k].held /\ seen'[k].gen = seen[k].gen
  BY <1>1, <1>4 DEF q, NoTrack
<1>6. ASSUME NEW p \in owed'
      PROVE  ShortOf(p.key, p.gen, p.seq) /\ ~IsNext(m, p.key, p.gen)
  <2>1. /\ p \in owed /\ p.key \in Streams /\ p.seq \in Nat /\ p.gen \in Nat \ {0}
        /\ seen[p.key].last \in Nat
    BY <1>3, <1>6, StreamAssumption, TrackParts DEF Debts
  <2>2. CASE p.key = q
    BY <1>1, <2>1, <2>2 DEF ShortOf, IsNext, NoTrack
  <2>3. CASE p.key # q
    BY <1>3, <1>4, <2>1, <2>3 DEF ShortOf, IsNext, q
  <2> QED
    BY <2>2, <2>3
<1> QED
  BY <1>3, <1>5, <1>6 DEF Leaves

(* Every verdict. *)
LEMMA VerdictLeaves ==
  ASSUME LedgerInv, Debts, NEW m \in Pieces, NEW tight, Observe(m, tight) \/ Gap(m, tight)
  PROVE  Leaves(m)
BY AdmitLeaves, NewGenerationLeaves, DuplicateLeaves, FollowsLeaves, HoldLeaves, TruncateLeaves
   DEF Observe

(* A window that closes passes over what it held, and owes nothing more.   *)
LEMMA CollapseLeaves ==
  ASSUME LedgerInv, Debts, NEW K \in SUBSET Open, Collapse(K)
  PROVE  /\ \A k \in Streams : /\ seen'[k].gen = seen[k].gen
                               /\ seen'[k].held \subseteq seen[k].held
         /\ \A p \in owed' : p \in owed /\ ShortOf(p.key, p.gen, p.seq)
<1> DEFINE hand(k) == Flushed(k, seen[k].held, "truncated")
           hands   == {hand(k) : k \in K}
           top(k)  == Highest({seen[k].last} \cup seen[k].held)
<1>1. /\ K \subseteq Streams
      /\ seen' = [k \in Streams |->
           IF k \notin K THEN seen[k] ELSE [seen[k] EXCEPT !.last = top(k), !.held = {}]]
      /\ Settle(hands, {})
  BY DEF Collapse, Open
<1>2. \A k \in K : /\ hand(k) \in hands /\ hand(k).key = k
                   /\ hand(k).gen = seen[k].gen /\ hand(k).batch = seen[k].held
  BY DEF Flushed, Handed
<1>3. \A p \in owed' : /\ p \in owed
                       /\ p.key \in K => /\ p.gen = seen[p.key].gen
                                         /\ \A n \in seen[p.key].held : n < p.seq
  <2> HIDE DEF hand, hands
  <2> TAKE p \in owed'
  <2>1. p \in owed /\ \A h \in hands : h.key = p.key => h.gen = p.gen /\ \A n \in h.batch : n < p.seq
    BY <1>1 DEF Settle
  <2>2. ASSUME p.key \in K
        PROVE  p.gen = seen[p.key].gen /\ \A n \in seen[p.key].held : n < p.seq
    <3>1. PICK h \in hands : /\ h.key = p.key /\ h.gen = seen[p.key].gen
                            /\ h.batch = seen[p.key].held
      BY <1>2, <2>2
    <3> QED
      BY <2>1, <3>1
  <2> QED
    BY <2>1, <2>2
<1>4. ASSUME NEW k \in K
      PROVE  /\ top(k) \in {seen[k].last} \cup seen[k].held /\ seen[k].last <= top(k)
             /\ top(k) \in Nat
  <2>1. k \in Streams /\ seen[k].last \in 0..MaxSeq /\ seen[k].held \in SUBSET (1..MaxSeq)
    BY <1>1, <1>4 DEF LedgerInv, TrackOK, Tracks
  <2> DEFINE S == {seen[k].last} \cup seen[k].held
  <2>2. S \in SUBSET (0..MaxSeq) /\ S # {} /\ MaxSeq \in Nat /\ seen[k].last \in S
    BY <2>1, StreamAssumption
  <2> HIDE DEF S
  <2>3. Highest(S) \in S /\ \A n \in S : n <= Highest(S)
    BY <2>2, HighestIsHighest
  <2> QED
    BY <2>2, <2>3 DEF S
<1> HIDE DEF hand, hands, top
<1>5. \A k \in Streams :
       /\ k \notin K => seen'[k] = seen[k]
       /\ k \in K => /\ seen'[k].gen = seen[k].gen /\ seen'[k].held = {}
                     /\ seen'[k].last = top(k)
  <2>1. \A k \in Streams : seen[k] \in Tracks
    BY DEF LedgerInv, TrackOK
  <2> QED
    BY <1>1, <2>1 DEF Tracks
<1>6. \A k \in Streams : seen'[k].gen = seen[k].gen /\ seen'[k].held \subseteq seen[k].held
  BY <1>5
<1>7. ASSUME NEW p \in owed'
      PROVE  ShortOf(p.key, p.gen, p.seq)
  <2>1. p \in owed /\ p.key \in Streams /\ p.seq \in Nat /\ seen[p.key].last \in Nat
    BY <1>3, <1>7, StreamAssumption, TrackParts DEF Debts
  <2>2. CASE p.key \in K
    BY <1>3, <1>4, <1>5, <2>1, <2>2 DEF ShortOf
  <2>3. CASE p.key \notin K
    BY <1>5, <2>1, <2>3 DEF ShortOf
  <2> QED
    BY <2>2, <2>3
<1> QED
  BY <1>3, <1>6, <1>7

-----------------------------------------------------------------------------
(* The steps keep what is owed on its way. *)

\* The held half of AllStamped.
HeldStamped ==
  \A k \in Streams : /\ seen[k].gen <= sender[k].gen
                     /\ \A n \in seen[k].held : Stamped(k, seen[k].gen, n)

(* The ledger's part of the invariant is in order. *)
LEMMA CarryDebts ==
  ASSUME OwedTyped
  PROVE  Debts
BY DEF OwedTyped, Debts

(* The piece at the front of the wire: its types, and that it was stamped. *)
LEMMA FrontPiece ==
  ASSUME StreamInv, CarryInv, wire # <<>>
  PROVE  /\ wire \in Seq(Pieces) /\ Head(wire) \in Pieces /\ Tail(wire) \in Seq(Pieces)
         /\ Head(wire).key \in Streams /\ Head(wire).gen \in Nat \ {0}
         /\ Head(wire).seq \in Nat
         /\ Stamped(Head(wire).key, Head(wire).gen, Head(wire).seq)
<1>1. wire \in Seq(Pieces) /\ Head(wire) \in Pieces /\ Tail(wire) \in Seq(Pieces)
  BY NextFrame DEF StreamInv, WireOK
<1>2. 1 \in DOMAIN wire /\ Head(wire) = wire[1]
  BY <1>1, TailPlaces
<1>3. \A e \in Pieces : e.key \in Streams /\ e.gen \in Nat \ {0} /\ e.seq \in Nat
  BY StreamAssumption DEF Pieces
<1> QED
  BY <1>1, <1>2, <1>3 DEF CarryInv, AllStamped

(* A verdict on that piece owes only pieces that were held, and holds only *)
(* pieces that were stamped.                                               *)
LEMMA VerdictStamps ==
  ASSUME StreamInv, CarryInv, wire # <<>>, Leaves(Head(wire)), UNCHANGED <<sender, used>>
  PROVE  OwedTyped' /\ HeldStamped'
<1> DEFINE m == Head(wire)
<1>1. /\ m.key \in Streams /\ m.gen \in Nat \ {0} /\ m.seq \in Nat
      /\ Stamped(m.key, m.gen, m.seq)
  BY FrontPiece
<1>2. Leaves(m)
  OBVIOUS
<1> HIDE DEF m
<1>3. LedgerInv /\ \A k \in Streams : sender[k].gen \in Nat /\ sender[k].top \in Nat
  BY StreamAssumption DEF StreamInv, WireOK
<1>4. OwedTyped'
  <2> SUFFICES ASSUME NEW p \in owed'
               PROVE  /\ p.key \in Streams /\ p.gen \in Nat \ {0} /\ p.seq \in 1..MaxSeq
                      /\ p.on \in Nat /\ p.on <= used.links /\ p.gen <= sender[p.key].gen
    BY DEF OwedTyped, CarryInv
  <2>1. CASE p \in owed
    BY <2>1 DEF CarryInv, OwedTyped
  <2>2. CASE Answered(p, m)
    <3>1. /\ p.on = used.links /\ p.key = m.key /\ p.gen = m.gen
          /\ p.seq \in seen[m.key].held
      BY <2>2 DEF Answered, IsNext
    <3>2. p.seq \in 1..MaxSeq
      BY <1>1, <1>3, <3>1, TrackParts
    <3>3. used.links \in Nat
      BY DEF CarryInv, OwedTyped
    <3> QED
      BY <1>1, <1>3, <3>1, <3>2, <3>3 DEF Stamped
  <2> QED
    BY <1>2, <2>1, <2>2 DEF Leaves
<1>5. HeldStamped'
  <2> SUFFICES ASSUME NEW k \in Streams
               PROVE  /\ seen'[k].gen <= sender[k].gen
                      /\ \A n \in seen'[k].held : Stamped(k, seen'[k].gen, n)
    BY DEF HeldStamped, Stamped
  <2>1. seen[k].gen <= sender[k].gen /\ \A n \in seen[k].held : Stamped(k, seen[k].gen, n)
    BY DEF CarryInv, AllStamped
  <2>2. seen'[k].gen <= sender[k].gen
    BY <1>1, <1>2, <1>3, <2>1 DEF Leaves, Stamped
  <2>3. ASSUME NEW n \in seen'[k].held
        PROVE  Stamped(k, seen'[k].gen, n)
    BY <1>1, <1>2, <2>1, <2>3 DEF Leaves
  <2> QED
    BY <2>2, <2>3
<1> QED
  BY <1>4, <1>5

(* A run begins with its first piece. *)
LEMMA RunStarts ==
  ASSUME NEW w, NEW k, NEW g, NEW a \in Nat, NEW b \in Nat, NEW i \in Nat,
         a <= b, Run(w, i, k, g, a, b)
  PROVE  i \in DOMAIN w /\ w[i] = Chunk(k, g, a)
<1>1. a \in a..b /\ i + (a - a) = i
  OBVIOUS
<1> QED
  BY <1>1 DEF Run

(* What is left of a run when its first pieces have gone up. *)
LEMMA RunLater ==
  ASSUME NEW w, NEW k, NEW g, NEW l \in Nat, NEW b \in Nat, NEW n \in Nat, NEW i \in Nat,
         l <= b, b < n, Run(w, i, k, g, l + 1, n)
  PROVE  /\ i + (b - l) \in DOMAIN w
         /\ Run(w, i + (b - l), k, g, b + 1, n)
<1> DEFINE x == l + 1
           c == b + 1
           j == i + (c - x)
<1>1. x \in Nat /\ c \in Nat /\ x <= c /\ c <= n /\ j \in Nat /\ j = i + (b - l)
  OBVIOUS
<1> HIDE DEF x, c
<1>2. Run(w, j, k, g, c, n)
  <2>1. Run(w, i, k, g, x, n)
    BY DEF x
  <2> QED
    BY <1>1, <2>1, RunFrom
<1> HIDE DEF j
<1>3. j \in DOMAIN w
  BY <1>1, <1>2, RunStarts
<1> QED
  BY <1>1, <1>2, <1>3 DEF c

(* What a verdict holds recurs behind the piece that was taken. *)
LEMMA TakenHeld ==
  ASSUME StreamInv, CarryInv, wire # <<>>, Leaves(Head(wire)), sender' = sender,
         link = "up", wire' = Tail(wire)
  PROVE  HeldRecurs'
<1> DEFINE m == Head(wire)
<1>1. /\ wire \in Seq(Pieces) /\ m.key \in Streams /\ m.seq \in Nat
      /\ wire # <<>> /\ Leaves(m)
  BY FrontPiece
<1>2. \A k \in Streams : \A n \in seen[k].held : n \in Nat
  BY TrackParts DEF StreamInv
<1> SUFFICES ASSUME NEW k \in Streams
             PROVE  /\ Replayed(wire', k, sender[k].gen)
                    /\ seen'[k].gen = sender[k].gen =>
                         \A n \in seen'[k].held : Recurs(wire', k, sender[k].gen, n)
  BY DEF HeldRecurs
<1>3. PICK g : g = sender[k].gen
  OBVIOUS
<1>4. /\ Replayed(wire, k, g)
      /\ seen[k].gen = g => \A n \in seen[k].held : Recurs(wire, k, g, n)
  BY <1>3 DEF CarryInv, HeldRecurs
<1>5. /\ \A n \in Nat : Recurs(wire, k, g, n) => Recurs(Tail(wire), k, g, n)
      /\ Replayed(Tail(wire), k, g)
      /\ m.key = k /\ m.gen = g => Recurs(Tail(wire), k, g, m.seq)
  BY <1>1, <1>4, TakenRecurs
<1> HIDE DEF m
<1>6. ASSUME seen'[k].gen = g, NEW n \in seen'[k].held
      PROVE  Recurs(Tail(wire), k, g, n)
  <2>1. CASE n \in seen[k].held /\ seen'[k].gen = seen[k].gen
    BY <1>2, <1>4, <1>5, <1>6, <2>1
  <2>2. CASE k = m.key /\ n = m.seq /\ seen'[k].gen = m.gen
    BY <1>5, <1>6, <2>2
  <2> QED
    BY <1>1, <2>1, <2>2 DEF Leaves
<1> QED
  BY <1>3, <1>5, <1>6

(* What is owed is still behind the piece that was taken. *)
LEMMA TakenOwed ==
  ASSUME StreamInv, CarryInv, wire # <<>>, Leaves(Head(wire)), UNCHANGED <<sender, used>>,
         StreamInv', link = "up", wire' = Tail(wire)
  PROVE  OwedIsOwing'
<1> DEFINE m == Head(wire)
<1>1. /\ wire \in Seq(Pieces) /\ m.key \in Streams /\ m.seq \in Nat
      /\ wire # <<>> /\ Leaves(m)
  BY FrontPiece
<1>2. /\ 1 \in DOMAIN wire /\ m = wire[1]
      /\ \A i \in DOMAIN wire : /\ i \in Nat \ {0}
                                /\ i > 1 => i - 1 \in DOMAIN Tail(wire)
  BY <1>1, TailPlaces
<1> HIDE DEF m
<1> SUFFICES ASSUME NEW p \in owed', p.on = used.links, p.gen = sender[p.key].gen
             PROVE  Owing(p)'
  BY DEF OwedIsOwing
<1>3. ASSUME NEW l \in Nat, NEW i \in DOMAIN wire, i > 1, p.gen = seen'[p.key].gen,
             p.key \in Streams, p.seq \in Nat, l = seen'[p.key].last, l < p.seq,
             Run(wire, i, p.key, p.gen, l + 1, p.seq)
      PROVE  Owing(p)'
  <2>1. i \in Nat /\ i - 1 \in DOMAIN Tail(wire)
    BY <1>2, <1>3
  <2>2. Run(Tail(wire), i - 1, p.key, p.gen, l + 1, p.seq)
    BY <1>1, <1>3, <2>1, RunOutlives
  <2> QED
    BY <1>3, <2>1, <2>2 DEF Owing
<1>4. CASE p \in owed /\ ShortOf(p.key, p.gen, p.seq)
           /\ (IsNext(m, p.key, p.gen) => seen[p.key].last < seen'[p.key].last)
  <2>1. Owing(p) /\ p.key \in Streams /\ p.seq \in Nat
    BY <1>4, StreamAssumption DEF CarryInv, OwedIsOwing, OwedTyped
  <2>2. PICK l \in Nat, b \in Nat : l = seen[p.key].last /\ b = seen'[p.key].last
    <3>1. seen[p.key].last \in Nat /\ seen'[p.key].last \in Nat
      BY <2>1, StreamAssumption DEF StreamInv, LedgerInv, TrackOK, Tracks
    <3> QED
      BY <3>1
  <2>3. /\ seen[p.key].gen = p.gen /\ l < p.seq
        /\ seen'[p.key].gen = p.gen /\ l <= b /\ b < p.seq
    BY <1>4, <2>1, <2>2 DEF Owing, ShortOf
  <2>4. PICK i \in DOMAIN wire : Run(wire, i, p.key, p.gen, l + 1, p.seq)
    BY <2>1, <2>2 DEF Owing
  <2>5. i \in Nat /\ i > 0
    BY <1>2
  <2>6. i = 1 => l < b
    <3>1. ASSUME i = 1
          PROVE  m = Chunk(p.key, p.gen, l + 1)
      <4>1. l + 1 \in Nat /\ l + 1 <= p.seq /\ p.seq \in Nat
        BY <2>1, <2>3
      <4>2. wire[i] = Chunk(p.key, p.gen, l + 1)
        BY <2>4, <2>5, <4>1, RunStarts
      <4> QED
        BY <1>2, <3>1, <4>2
    <3> QED
      BY <1>4, <2>2, <2>3, <3>1 DEF IsNext, Chunk
  <2>7. i + (b - l) \in DOMAIN wire /\ Run(wire, i + (b - l), p.key, p.gen, b + 1, p.seq)
    BY <2>1, <2>2, <2>3, <2>4, <2>5, RunLater
  <2>8. i + (b - l) > 1
    BY <2>2, <2>3, <2>5, <2>6
  <2> QED
    BY <1>3, <2>1, <2>2, <2>3, <2>7, <2>8
<1>5. CASE Answered(p, m)
  <2>1. /\ p.key = m.key /\ p.gen = m.gen /\ seen[m.key].gen = m.gen
        /\ m.seq = seen[m.key].last + 1 /\ p.seq \in seen[m.key].held
        /\ seen'[m.key].gen = m.gen /\ seen'[m.key].last = m.seq
    BY <1>5 DEF Answered, IsNext
  <2>2. p.seq \in Nat /\ m.seq < p.seq /\ seen[m.key].last \in Nat
    BY <1>1, <2>1, TrackParts DEF StreamInv
  <2>3. Recurs(wire, p.key, p.gen, p.seq)
    BY <1>1, <2>1 DEF CarryInv, HeldRecurs
  <2>4. Run(wire, 1, p.key, p.gen, seen[m.key].last + 1, p.seq)
    BY <1>2, <2>1, <2>2, <2>3 DEF Recurs
  <2>5. /\ 1 + (m.seq - seen[m.key].last) \in DOMAIN wire
        /\ Run(wire, 1 + (m.seq - seen[m.key].last), p.key, p.gen, m.seq + 1, p.seq)
    <3>1. /\ m.seq \in Nat /\ p.seq \in Nat /\ seen[m.key].last \in Nat /\ 1 \in Nat
          /\ seen[m.key].last <= m.seq /\ m.seq < p.seq
      BY <1>1, <2>1, <2>2
    <3> QED
      BY <2>4, <3>1, RunLater
  <2>6. 1 + (m.seq - seen[m.key].last) > 1
    BY <1>1, <2>1, <2>2
  <2> QED
    BY <1>1, <1>3, <2>1, <2>2, <2>5, <2>6
<1> QED
  BY <1>1, <1>4, <1>5 DEF Leaves

\* Nothing comes on the wire.
NothingNew == \A i \in DOMAIN wire' : \E j \in DOMAIN wire : wire'[i] = wire[j]

(* Taking a piece off the wire, and cutting it, put nothing on it. *)
LEMMA NothingAdded ==
  ASSUME wire \in Seq(Pieces)
  PROVE  /\ wire' = wire => NothingNew
         /\ LinkLost(wire) => NothingNew
         /\ wire # <<>> /\ wire' = Tail(wire) => NothingNew
         /\ wire # <<>> /\ LinkLost(Tail(wire)) => NothingNew
<1>1. ASSUME NEW w \in Seq(Pieces), LinkLost(w)
      PROVE  \A i \in DOMAIN wire' : i \in DOMAIN w /\ wire'[i] = w[i]
  <2>1. PICK l \in Nat : Len(w) = l /\ DOMAIN w = 1..l
    BY LenProperties
  <2>2. PICK n \in 0..l : wire' = SubSeq(w, 1, n)
    BY <1>1, <2>1 DEF LinkLost
  <2>3. /\ SubSeq(w, 1, n) \in Seq(Pieces) /\ Len(SubSeq(w, 1, n)) = n - 1 + 1
        /\ \A i \in 1..(n - 1 + 1) : SubSeq(w, 1, n)[i] = w[1 + i - 1]
    BY <2>1, <2>2, Slice
  <2>4. wire' \in Seq(Pieces) /\ Len(wire') = n
    BY <2>2, <2>3
  <2>5. DOMAIN wire' = 1..n
    BY <2>4, LenProperties
  <2> QED
    BY <2>1, <2>2, <2>3, <2>5
<1>2. ASSUME wire # <<>>
      PROVE  /\ Tail(wire) \in Seq(Pieces)
             /\ \A i \in DOMAIN Tail(wire) : i + 1 \in DOMAIN wire /\ Tail(wire)[i] = wire[i + 1]
  BY <1>2, TailPlaces
<1>3. wire # <<>> /\ LinkLost(Tail(wire)) =>
        \A i \in DOMAIN wire' : i \in DOMAIN Tail(wire) /\ wire'[i] = Tail(wire)[i]
  BY <1>1, <1>2
<1>4. LinkLost(wire) => \A i \in DOMAIN wire' : i \in DOMAIN wire /\ wire'[i] = wire[i]
  BY <1>1
<1> QED
  BY <1>2, <1>3, <1>4 DEF NothingNew

(* So what it carries stays stamped. *)
LEMMA StillStamped ==
  ASSUME AllStamped, NothingNew, sender' = sender, HeldStamped',
         link' = "down" => wire' = <<>>
  PROVE  AllStamped'
<1>1. \A i \in DOMAIN wire' : Stamped(wire'[i].key, wire'[i].gen, wire'[i].seq)
  BY DEF AllStamped, NothingNew
<1>2. \A k, g, n : Stamped(k, g, n) => (Stamped(k, g, n))'
  BY DEF Stamped
<1> QED
  BY <1>1, <1>2 DEF AllStamped, HeldStamped, Stamped

(* Without a link nothing recurs and nothing is on its way. *)
LEMMA NoLink ==
  ASSUME link' # "up"
  PROVE  HeldRecurs' /\ OwedIsOwing'
BY DEF HeldRecurs, OwedIsOwing

(* run_live on a frame. *)
LEMMA TakeFrameCarry ==
  ASSUME StreamInv, CarryInv, StreamInv', TakeFrame
  PROVE  CarryInv'
<1>1. /\ StreamInv /\ CarryInv /\ wire # <<>> /\ link = "up" /\ UNCHANGED <<sender, used>>
      /\ \/ wire' = Tail(wire) /\ link' = link
         \/ LinkLost(Tail(wire)) /\ link' = "cut"
  BY DEF TakeFrame, LinkLost
<1>2. Leaves(Head(wire))
  <2>1. PICK tight \in BOOLEAN : Observe(Head(wire), tight) \/ Gap(Head(wire), tight)
    BY DEF TakeFrame
  <2>2. Head(wire) \in Pieces /\ LedgerInv /\ Debts
    BY <1>1, FrontPiece, CarryDebts DEF CarryInv, StreamInv
  <2> QED
    BY <2>1, <2>2, VerdictLeaves
<1>3. OwedTyped' /\ HeldStamped'
  BY <1>1, <1>2, VerdictStamps
<1>4. NothingNew
  BY <1>1, NothingAdded DEF StreamInv, WireOK
<1>5. AllStamped'
  BY <1>1, <1>3, <1>4, StillStamped DEF CarryInv
<1>6. HeldRecurs' /\ OwedIsOwing'
  <2>1. CASE wire' = Tail(wire) /\ link' = link
    BY <1>1, <1>2, <2>1, TakenHeld, TakenOwed
  <2>2. CASE link' = "cut"
    BY <2>2, NoLink
  <2> QED
    BY <1>1, <2>1, <2>2
<1> QED
  BY <1>3, <1>5, <1>6 DEF CarryInv

(* The salvage of what was read ahead. *)
LEMMA SalvageCarry ==
  ASSUME StreamInv, CarryInv, Salvage
  PROVE  CarryInv'
<1>1. /\ wire # <<>> /\ link' = "cut" /\ UNCHANGED <<sender, used>> /\ wire' = Tail(wire)
  BY DEF Salvage
<1>2. Leaves(Head(wire))
  <2>1. PICK tight \in BOOLEAN : Observe(Head(wire), tight) \/ Gap(Head(wire), tight)
    BY DEF Salvage
  <2>2. Head(wire) \in Pieces /\ LedgerInv /\ Debts
    BY <1>1, FrontPiece, CarryDebts DEF CarryInv, StreamInv
  <2> QED
    BY <2>1, <2>2, VerdictLeaves
<1>3. OwedTyped' /\ HeldStamped'
  BY <1>1, <1>2, VerdictStamps
<1>4. NothingNew
  BY <1>1, NothingAdded DEF StreamInv, WireOK
<1>5. AllStamped'
  BY <1>1, <1>3, <1>4, StillStamped DEF CarryInv
<1> QED
  BY <1>1, <1>3, <1>5, NoLink DEF CarryInv

(* Windows that close. *)
LEMMA CollapseCarry ==
  ASSUME StreamInv, CarryInv, StreamInv', NEW K \in SUBSET Open, Collapse(K),
         UNCHANGED <<sender, wire, used>>, link' \in {link, "closed"}
  PROVE  CarryInv'
<1>1. LedgerInv /\ Debts /\ CarryInv
  BY CarryDebts DEF CarryInv, StreamInv
<1>2. /\ \A k \in Streams : /\ seen'[k].gen = seen[k].gen
                            /\ seen'[k].held \subseteq seen[k].held
      /\ \A p \in owed' : p \in owed /\ ShortOf(p.key, p.gen, p.seq)
  BY <1>1, CollapseLeaves
<1>3. OwedTyped'
  BY <1>1, <1>2 DEF CarryInv, OwedTyped
<1>4. HeldStamped'
  BY <1>1, <1>2 DEF CarryInv, AllStamped, HeldStamped, Stamped
<1>5. AllStamped'
  <2>1. NothingNew
    BY DEF NothingNew
  <2> QED
    BY <1>1, <1>4, <2>1, StillStamped DEF CarryInv, AllStamped
<1>6. HeldRecurs'
  BY <1>1, <1>2 DEF CarryInv, HeldRecurs
<1>7. OwedIsOwing'
  <2> SUFFICES ASSUME link = "up", NEW p \in owed', p.on = used.links, p.gen = sender[p.key].gen
               PROVE  Owing(p)'
    BY DEF OwedIsOwing
  <2>1. /\ p \in owed /\ Owing(p) /\ p.key \in Streams /\ p.seq \in Nat
        /\ ShortOf(p.key, p.gen, p.seq)
    BY <1>1, <1>2, StreamAssumption DEF CarryInv, OwedIsOwing, OwedTyped
  <2>2. PICK l \in Nat, b \in Nat : l = seen[p.key].last /\ b = seen'[p.key].last
    <3>1. seen[p.key].last \in Nat /\ seen'[p.key].last \in Nat
      BY <2>1, StreamAssumption DEF StreamInv, LedgerInv, TrackOK, Tracks
    <3> QED
      BY <3>1
  <2>3. /\ seen[p.key].gen = p.gen /\ l < p.seq
        /\ seen'[p.key].gen = p.gen /\ l <= b /\ b < p.seq
    BY <2>1, <2>2 DEF Owing, ShortOf
  <2>4. PICK i \in DOMAIN wire : Run(wire, i, p.key, p.gen, l + 1, p.seq)
    BY <2>1, <2>2 DEF Owing
  <2>5. i \in Nat
    <3>1. wire \in Seq(Pieces)
      BY DEF StreamInv, WireOK
    <3>2. DOMAIN wire = 1..Len(wire)
      BY <3>1, LenProperties
    <3> QED
      BY <3>2
  <2>6. i + (b - l) \in DOMAIN wire /\ Run(wire, i + (b - l), p.key, p.gen, b + 1, p.seq)
    BY <2>1, <2>2, <2>3, <2>4, <2>5, RunLater
  <2> QED
    BY <2>2, <2>3, <2>6 DEF Owing
<1> QED
  BY <1>3, <1>5, <1>6, <1>7 DEF CarryInv

(* The sender's answer goes on to its last piece. *)
LEMMA ReplayUpTo ==
  ASSUME WireOK, NEW k \in Streams, NEW after \in Nat
  PROVE  LET x == Replay(k, after)
         IN  /\ UpTo(x, k, sender[k].gen, sender[k].top)
             /\ \A i \in DOMAIN x : /\ x[i].key = k /\ x[i].gen = sender[k].gen
                                   /\ x[i].seq <= sender[k].top
<1> DEFINE g     == sender[k].gen
           top   == sender[k].top
           A     == {after, top - Rewind}
           first == Highest(A) + 1
           n     == top - first + 1
           x     == Replay(k, after)
<1>1. top \in Nat /\ Rewind \in Nat
  BY StreamAssumption DEF WireOK
<1>2. first \in Int
  <2>1. \E y \in A : \A z \in A : z <= y
    BY <1>1
  <2>2. Highest(A) \in A
    BY <2>1 DEF Highest
  <2> QED
    BY <1>1, <2>2
<1>3. x = [i \in 1..n |-> Chunk(k, g, first + i - 1)]
  BY DEF Replay
<1> HIDE DEF x, first, g, top
<1>4. /\ DOMAIN x = 1..n
      /\ \A i \in 1..n : /\ x[i] = Chunk(k, g, first + i - 1) /\ x[i].key = k
                         /\ x[i].gen = g /\ x[i].seq = first + i - 1
  BY <1>3 DEF Chunk
<1>5. ASSUME NEW i \in 1..n
      PROVE  Run(x, i, k, g, x[i].seq, top)
  <2> SUFFICES ASSUME NEW s \in x[i].seq..top
               PROVE  /\ i + (s - x[i].seq) \in DOMAIN x
                      /\ x[i + (s - x[i].seq)] = Chunk(k, g, s)
    BY DEF Run
  <2>1. x[i].seq = first + i - 1 /\ i \in Nat /\ 1 <= i
    BY <1>4
  <2> DEFINE j == i + (s - x[i].seq)
  <2>2. s \in Int /\ first + i - 1 <= s /\ s <= top
    BY <1>1, <1>2, <2>1
  <2>3. j = s - first + 1 /\ j \in 1..n /\ first + j - 1 = s
    BY <1>1, <1>2, <2>1, <2>2
  <2> HIDE DEF j
  <2>4. j \in DOMAIN x /\ x[j] = Chunk(k, g, s)
    BY <1>4, <2>3
  <2> QED
    BY <2>4 DEF j
<1>6. \A i \in 1..n : \A j \in 1..n : i < j => x[i].seq < x[j].seq
  BY <1>1, <1>2, <1>4
<1>7. \A i \in 1..n : x[i].seq <= top
  BY <1>1, <1>2, <1>4
<1> QED
  BY <1>4, <1>5, <1>6, <1>7 DEF UpTo, x, g, top

(* What the sender puts on the wire, up to its last piece, leaves what is  *)
(* owed on its way.                                                        *)
LEMMA SentCarry ==
  ASSUME StreamInv, CarryInv, StreamInv', NEW x \in Seq(Pieces), NEW k \in Streams,
         wire' = wire \o x, link' = link, link # "up" => x = <<>>,
         UNCHANGED <<seen, owed>>,
         used' \in [links : Nat, wishes : Nat], used'.links = used.links,
         \A q \in Streams : sender'[q].gen = sender[q].gen /\ sender[q].top <= sender'[q].top,
         \A i \in DOMAIN x : /\ x[i].key = k /\ x[i].gen = sender[k].gen
                            /\ x[i].seq <= sender'[k].top,
         UpTo(x, k, sender[k].gen, sender'[k].top)
  PROVE  CarryInv'
<1>1. /\ wire \in Seq(Pieces) /\ WireOK
      /\ \A q \in Streams : sender[q].gen \in Nat /\ sender[q].top \in Nat /\ sender'[q].top \in Nat
  BY StreamAssumption DEF StreamInv, WireOK
<1>2. \A e \in Pieces : e.key \in Streams /\ e.gen \in Nat /\ e.seq \in Nat
  BY StreamAssumption DEF Pieces
<1>3. /\ \A i \in DOMAIN wire : /\ i \in DOMAIN wire' /\ wire'[i] = wire[i]
                               /\ i \in Nat /\ wire[i] \in Pieces
      /\ \A i \in DOMAIN x : x[i] \in Pieces
      /\ \A i \in DOMAIN wire' :
           \/ i \in DOMAIN wire
           \/ i - Len(wire) \in DOMAIN x /\ wire'[i] = x[i - Len(wire)]
  BY <1>1, MorePlaces
<1>4. ASSUME NEW q \in Streams, NEW g, NEW n \in Nat, Stamped(q, g, n)
      PROVE  Stamped(q, g, n)'
  BY <1>1, <1>4 DEF Stamped
<1>5. OwedTyped'
  BY DEF CarryInv, OwedTyped
<1>6. AllStamped'
  <2>1. ASSUME link' = "down" PROVE wire' = <<>>
    <3>1. wire = <<>> /\ x = <<>>
      BY <2>1 DEF CarryInv, AllStamped
    <3> QED
      BY <3>1
  <2>2. ASSUME NEW i \in DOMAIN wire'
        PROVE  (Stamped(wire[i].key, wire[i].gen, wire[i].seq))'
    <3>1. CASE i \in DOMAIN wire
      <4>1. /\ wire'[i] = wire[i] /\ wire[i].key \in Streams /\ wire[i].seq \in Nat
            /\ Stamped(wire[i].key, wire[i].gen, wire[i].seq)
        BY <1>2, <1>3, <3>1 DEF CarryInv, AllStamped
      <4>2. Stamped(wire[i].key, wire[i].gen, wire[i].seq)'
        <5>1. PICK e : e = wire[i]
          OBVIOUS
        <5>2. Stamped(e.key, e.gen, e.seq)'
          BY <1>4, <4>1, <5>1
        <5> QED
          BY <4>1, <5>1, <5>2
      <4> QED
        BY <4>2
    <3>2. CASE i - Len(wire) \in DOMAIN x /\ wire'[i] = x[i - Len(wire)]
      BY <1>1, <3>2 DEF Stamped
    <3> QED
      BY <1>3, <2>2, <3>1, <3>2
  <2>3. ASSUME NEW q \in Streams
        PROVE  /\ seen'[q].gen <= sender'[q].gen
               /\ \A n \in seen'[q].held : (Stamped(q, seen[q].gen, n))'
    <3>1. /\ seen[q].gen <= sender[q].gen
          /\ \A n \in seen[q].held : Stamped(q, seen[q].gen, n) /\ n \in Nat
      BY TrackParts DEF CarryInv, AllStamped, StreamInv
    <3>2. \A n \in seen[q].held : Stamped(q, seen[q].gen, n)'
      BY <1>4, <3>1
    <3> QED
      BY <1>1, <3>1, <3>2
  <2> QED
    BY <2>1, <2>2, <2>3 DEF AllStamped
<1>7. HeldRecurs'
  <2> SUFFICES ASSUME link = "up", NEW q \in Streams
               PROVE  /\ Replayed(wire', q, sender'[q].gen)
                      /\ seen[q].gen = sender'[q].gen =>
                           \A n \in seen[q].held : Recurs(wire', q, sender'[q].gen, n)
    BY DEF HeldRecurs
  <2> DEFINE g   == sender[q].gen
             top == sender'[q].top
  <2>1. top \in Nat /\ sender'[q].gen = g
    BY <1>1
  <2>2. UpTo(x, q, g, top) /\ \A i \in DOMAIN x : x[i].key = q /\ x[i].gen = g => x[i].seq <= top
    BY DEF UpTo
  <2>3. ASSUME NEW i \in DOMAIN wire, wire[i].key = q, wire[i].gen = g
        PROVE  wire[i].seq <= top
    <3>1. wire[i].seq \in Nat /\ Stamped(q, g, wire[i].seq)
      BY <1>2, <1>3, <2>3 DEF CarryInv, AllStamped
    <3>2. wire[i].seq <= sender[q].top
      BY <3>1 DEF Stamped
    <3>3. sender[q].top \in Nat /\ sender[q].top <= top
      BY <1>1
    <3> HIDE DEF top
    <3> QED
      BY <2>1, <3>1, <3>2, <3>3
  <2>4. /\ Replayed(wire, q, g)
        /\ seen[q].gen = g => \A n \in seen[q].held : Recurs(wire, q, g, n)
    BY DEF CarryInv, HeldRecurs
  <2>5. seen[q].gen = g => \A n \in seen[q].held : n \in Nat /\ n <= top
    <3>1. \A n \in seen[q].held : n \in Nat /\ Stamped(q, seen[q].gen, n)
      BY TrackParts DEF CarryInv, AllStamped, StreamInv
    <3>2. sender[q].top \in Nat /\ sender[q].top <= top
      BY <1>1
    <3>3. \A n \in Nat : Stamped(q, g, n) => n <= sender[q].top
      BY DEF Stamped
    <3> HIDE DEF g, top
    <3> QED
      BY <2>1, <3>1, <3>2, <3>3
  <2> HIDE DEF g, top
  <2>6. /\ Replayed(wire \o x, q, g)
        /\ \A n \in Nat : n <= top /\ Recurs(wire, q, g, n) => Recurs(wire \o x, q, g, n)
    BY <1>1, <2>1, <2>2, <2>3, <2>4, AppendedRecurs
  <2> QED
    BY <2>1, <2>4, <2>5, <2>6
<1>8. OwedIsOwing'
  <2> SUFFICES ASSUME link = "up", NEW p \in owed, p.on = used.links, p.gen = sender'[p.key].gen
               PROVE  Owing(p)'
    BY DEF OwedIsOwing
  <2>1. p.key \in Streams /\ p.seq \in Nat /\ seen[p.key].last \in Nat
    BY StreamAssumption, TrackParts DEF CarryInv, OwedTyped, StreamInv
  <2>2. Owing(p)
    BY <2>1 DEF CarryInv, OwedIsOwing
  <2>3. PICK i \in DOMAIN wire : Run(wire, i, p.key, p.gen, seen[p.key].last + 1, p.seq)
    BY <2>2 DEF Owing
  <2>4. i \in DOMAIN wire' /\ i \in Nat
    BY <1>3
  <2>5. Run(wire \o x, i, p.key, p.gen, seen[p.key].last + 1, p.seq)
    <3>1. seen[p.key].last + 1 \in Nat
      BY <2>1
    <3> QED
      BY <1>1, <2>1, <2>3, <2>4, <3>1, RunStays
  <2> QED
    BY <2>2, <2>4, <2>5 DEF Owing
<1> QED
  BY <1>5, <1>6, <1>7, <1>8 DEF CarryInv

(* The sender's steps. *)
LEMMA SenderCarry ==
  ASSUME StreamInv, CarryInv, StreamInv',
         Answer \/ \E k \in Streams : Stamp(k) \/ Restart(k)
  PROVE  CarryInv'
<1>1. /\ WireOK /\ WireOK' /\ UNCHANGED <<seen, owed, link, used>>
      /\ used' \in [links : Nat, wishes : Nat]
  BY DEF StreamInv, Answer, Stamp, Restart, Idle, ledger, history, CarryInv, OwedTyped
<1>2. /\ wire \in Seq(Pieces)
      /\ sender \in [Streams -> [gen : Nat \ {0}, top : 0..MaxSeq]]
      /\ \A q \in Streams : /\ sender[q].gen \in Nat /\ sender[q].top \in Nat
                            /\ sender'[q].top \in Nat
  BY <1>1, StreamAssumption DEF WireOK
<1>3. CASE Answer
  <2>1. PICK k \in Streams, after \in Nat : wire' = wire \o Replay(k, after) /\ link = "up"
                                           /\ sender' = sender
    <3>1. Head(asks) \in [key : Streams, after : Nat]
      BY <1>1, <1>3, HeadTailProperties DEF WireOK, Answer
    <3> QED
      BY <1>3, <3>1 DEF Answer
  <2>2. PICK x \in Seq(Pieces) : x = Replay(k, after)
    BY <1>1, ReplayTypes
  <2>3. /\ UpTo(x, k, sender[k].gen, sender[k].top)
        /\ \A i \in DOMAIN x : /\ x[i].key = k /\ x[i].gen = sender[k].gen
                              /\ x[i].seq <= sender[k].top
    BY <1>1, <2>2, ReplayUpTo
  <2>4. /\ \A q \in Streams : sender'[q].gen = sender[q].gen /\ sender[q].top <= sender'[q].top
        /\ sender'[k].top = sender[k].top
    BY <1>2, <2>1
  <2>5. wire' = wire \o x /\ (link # "up" => x = <<>>) /\ used'.links = used.links
    BY <1>1, <2>1, <2>2
  <2> QED
    BY <1>1, <1>2, <2>3, <2>4, <2>5, SentCarry
<1>4. ASSUME NEW k \in Streams, Stamp(k)
      PROVE  CarryInv'
  <2> DEFINE g == sender[k].gen
             c == Chunk(k, g, sender[k].top + 1)
  <2>1. /\ sender[k].top < MaxSeq /\ sender' = [sender EXCEPT ![k].top = @ + 1]
        /\ wire' = wire \/ wire' = Sendable(<<c>>)
    BY <1>4 DEF Stamp
  <2>2. /\ \A q \in Streams : sender'[q].gen = sender[q].gen /\ sender[q].top <= sender'[q].top
        /\ sender'[k].top = sender[k].top + 1
    BY <1>2, <2>1, SMTT(30)
  <2>3. c \in Pieces /\ c.key = k /\ c.gen = g /\ c.seq = sender'[k].top
    BY <1>2, <2>1, <2>2, StreamAssumption DEF Chunk, Pieces
  <2>4. PICK n \in Nat : n = sender'[k].top
    BY <1>2
  <2>5. CASE wire' = wire
    <3>1. PICK x \in Seq(Pieces) : x = <<>>
      BY EmptySeq
    <3>2. DOMAIN x = {} /\ wire' = wire \o x
      BY <1>2, <2>5, <3>1
    <3>3. UpTo(x, k, sender[k].gen, sender'[k].top)
      BY <3>2 DEF UpTo
    <3> QED
      BY <1>1, <1>2, <2>2, <3>1, <3>2, <3>3, SentCarry
  <2>6. CASE link = "up" /\ wire' = wire \o <<c>>
    <3>0. <<c>> \in Seq(Pieces)
      BY <2>3
    <3>1. PICK x \in Seq(Pieces) : x = <<c>>
      BY <3>0
    <3>2. DOMAIN x = {1} /\ x[1] = c
      BY <3>1
    <3> HIDE DEF c, g
    <3>3. \A i \in DOMAIN x : x[i].key = k /\ x[i].gen = g /\ x[i].seq = n
      BY <2>3, <2>4, <3>2
    <3>4. Run(x, 1, k, g, n, n)
      <4> SUFFICES ASSUME NEW s \in n..n
                   PROVE  1 + (s - n) \in DOMAIN x /\ x[1 + (s - n)] = Chunk(k, g, s)
        BY DEF Run
      <4>1. s = n /\ 1 + (s - n) = 1
        OBVIOUS
      <4>2. c = Chunk(k, g, n)
        BY <2>2, <2>4 DEF c
      <4> QED
        BY <3>2, <4>1, <4>2
    <3>5. UpTo(x, k, g, n)
      BY <3>2, <3>3, <3>4 DEF UpTo
    <3>6. \A i \in DOMAIN x : x[i].seq <= n
      BY <3>3
    <3>7. /\ wire' = wire \o x /\ (link # "up" => x = <<>>)
          /\ used'.links = used.links /\ link' = link /\ seen' = seen /\ owed' = owed
      BY <1>1, <2>6, <3>1 DEF c
    <3>8. /\ UpTo(x, k, sender[k].gen, sender'[k].top)
          /\ \A i \in DOMAIN x : /\ x[i].key = k /\ x[i].gen = sender[k].gen
                                /\ x[i].seq <= sender'[k].top
      BY <2>4, <3>3, <3>5, <3>6 DEF g
    <3> QED
      BY <1>1, <2>2, <3>7, <3>8, SentCarry
  <2> QED
    BY <2>1, <2>5, <2>6 DEF Sendable
<1>5. ASSUME NEW k \in Streams, Restart(k)
      PROVE  CarryInv'
  <2>1. wire' = wire /\ sender' = [sender EXCEPT ![k] = [gen |-> @.gen + 1, top |-> 0]]
    BY <1>5 DEF Restart
  <2>2. /\ sender'[k].gen = sender[k].gen + 1
        /\ \A q \in Streams : q # k => sender'[q] = sender[q]
    BY <1>2, <2>1
  <2>3. OwedTyped'
    <3>1. \A p \in owed : /\ p.key \in Streams /\ p.gen \in Nat
                          /\ p.gen <= sender[p.key].gen
      BY DEF CarryInv, OwedTyped
    <3>2. \A p \in owed : p.gen <= sender'[p.key].gen
      <4> TAKE p \in owed
      <4>1. CASE p.key = k
        BY <1>2, <2>2, <3>1, <4>1
      <4>2. CASE p.key # k
        BY <2>2, <3>1, <4>2
      <4> QED
        BY <4>1, <4>2
    <3> QED
      BY <1>1, <3>2 DEF CarryInv, OwedTyped
  <2>4. ASSUME NEW q \in Streams, NEW g \in Nat, NEW n, Stamped(q, g, n)
        PROVE  Stamped(q, g, n)' /\ (q = k => g < sender'[k].gen)
    BY <1>2, <2>2, <2>4 DEF Stamped
  <2>5. /\ \A i \in DOMAIN wire : /\ wire[i].key \in Streams /\ wire[i].gen \in Nat
                                 /\ Stamped(wire[i].key, wire[i].gen, wire[i].seq)
        /\ \A q \in Streams : /\ seen[q].gen \in Nat /\ seen[q].gen <= sender[q].gen
                              /\ \A n \in seen[q].held : Stamped(q, seen[q].gen, n)
    <3>1. \A i \in DOMAIN wire : wire[i] \in Pieces
      BY <1>2, MorePlaces
    <3>2. \A e \in Pieces : e.key \in Streams /\ e.gen \in Nat
      BY DEF Pieces
    <3> QED
      BY <3>1, <3>2, TrackParts DEF CarryInv, AllStamped, StreamInv
  <2>6. AllStamped'
    <3>1. \A i \in DOMAIN wire : Stamped(wire[i].key, wire[i].gen, wire[i].seq)'
      <4> TAKE i \in DOMAIN wire
      <4>1. PICK e : e = wire[i]
        OBVIOUS
      <4>2. Stamped(e.key, e.gen, e.seq)'
        BY <2>4, <2>5, <4>1
      <4> QED
        BY <2>1, <4>1, <4>2
    <3>2. \A q \in Streams : /\ seen[q].gen <= sender'[q].gen
                            /\ \A n \in seen[q].held : Stamped(q, seen[q].gen, n)'
      <4> TAKE q \in Streams
      <4>1. PICK g : g = seen[q].gen
        OBVIOUS
      <4>2. \A n \in seen[q].held : Stamped(q, g, n)'
        BY <2>4, <2>5, <4>1
      <4>3. g <= sender'[q].gen
        <5>1. g \in Nat /\ g <= sender[q].gen /\ sender[q].gen \in Nat
          BY <1>2, <2>5, <4>1
        <5>2. CASE q = k
          BY <2>2, <5>1, <5>2
        <5>3. CASE q # k
          BY <2>2, <5>1, <5>3
        <5> QED
          BY <5>2, <5>3
      <4> QED
        BY <1>1, <4>1, <4>2, <4>3
    <3> QED
      BY <1>1, <2>1, <3>1, <3>2 DEF CarryInv, AllStamped
  <2>7. HeldRecurs'
    <3> SUFFICES ASSUME link = "up", NEW q \in Streams
                 PROVE  /\ Replayed(wire, q, sender'[q].gen)
                        /\ seen[q].gen = sender'[q].gen =>
                             \A n \in seen[q].held : Recurs(wire, q, sender'[q].gen, n)
      BY <1>1, <2>1 DEF HeldRecurs
    <3>1. CASE q = k
      <4>1. PICK g : g = sender'[k].gen
        OBVIOUS
      <4>2. \A i \in DOMAIN wire : ~(wire[i].key = k /\ wire[i].gen = g)
        BY <1>2, <2>4, <2>5, <4>1
      <4>3. seen[k].gen # g
        BY <1>2, <2>2, <2>5, <4>1
      <4> QED
        BY <3>1, <4>1, <4>2, <4>3 DEF Replayed
    <3>2. CASE q # k
      BY <2>2, <3>2 DEF CarryInv, HeldRecurs
    <3> QED
      BY <3>1, <3>2
  <2>8. OwedIsOwing'
    <3> SUFFICES ASSUME link = "up", NEW p \in owed, p.on = used.links,
                        p.gen = sender'[p.key].gen
                 PROVE  Owing(p)
      BY <1>1, <2>1 DEF OwedIsOwing, Owing
    <3>1. p.key \in Streams /\ p.gen \in Nat /\ p.gen <= sender[p.key].gen
      BY DEF CarryInv, OwedTyped
    <3>2. p.key # k
      BY <1>2, <2>2, <3>1
    <3> QED
      BY <2>2, <3>1, <3>2 DEF CarryInv, OwedIsOwing
  <2> QED
    BY <2>3, <2>6, <2>7, <2>8 DEF CarryInv
<1> QED
  BY <1>3, <1>4, <1>5

(* The first state, and a step that changes nothing. *)
LEMMA InitCarry == Init => CarryInv
<1> SUFFICES ASSUME Init PROVE CarryInv
  OBVIOUS
<1>1. /\ sender = [k \in Streams |-> [gen |-> 1, top |-> 0]] /\ link = "up" /\ wire = <<>>
      /\ seen = [k \in Streams |-> NoTrack] /\ owed = {}
      /\ used = [links |-> 0, wishes |-> 0]
  BY DEF Init
<1>2. DOMAIN wire = {}
  BY <1>1
<1>3. \A k \in Streams : seen[k].gen = 0 /\ seen[k].held = {} /\ sender[k].gen = 1
  BY <1>1 DEF NoTrack
<1>4. OwedTyped /\ OwedIsOwing
  BY <1>1 DEF OwedTyped, OwedIsOwing
<1>5. AllStamped
  BY <1>1, <1>2, <1>3 DEF AllStamped
<1>6. HeldRecurs
  BY <1>2, <1>3 DEF HeldRecurs, Replayed
<1> QED
  BY <1>4, <1>5, <1>6 DEF CarryInv

(* A ledger that is left alone, on a wire that gets nothing. *)
LEMMA IdleCarry ==
  ASSUME StreamInv, CarryInv, Idle, sender' = sender, NothingNew, link' # "up",
         link' = "down" => wire' = <<>>, used' \in [links : Nat, wishes : Nat],
         used.links <= used'.links
  PROVE  CarryInv'
<1>1. seen' = seen /\ owed' = owed
  BY DEF Idle, ledger, history
<1>2. OwedTyped'
  BY <1>1 DEF CarryInv, OwedTyped
<1>3. HeldStamped'
  BY <1>1 DEF CarryInv, AllStamped, HeldStamped, Stamped
<1>4. AllStamped'
  BY <1>3, StillStamped DEF CarryInv
<1> QED
  BY <1>2, <1>4, NoLink DEF CarryInv

(* A fresh link carries nothing, and nothing dropped before is owed on it. *)
LEMMA ConnectCarry ==
  ASSUME StreamInv, CarryInv, Connect
  PROVE  CarryInv'
<1>1. /\ Idle /\ sender' = sender /\ wire' = wire /\ wire = <<>> /\ link' # "down"
      /\ used' = [used EXCEPT !.links = @ + 1]
  BY DEF Connect, CarryInv, AllStamped
<1>2. /\ used' \in [links : Nat, wishes : Nat] /\ used.links \in Nat
      /\ used'.links = used.links + 1
  BY <1>1 DEF CarryInv, OwedTyped
<1>3. seen' = seen /\ owed' = owed /\ DOMAIN wire' = {}
  BY <1>1 DEF Idle, ledger, history
<1>4. OwedTyped'
  BY <1>1, <1>2, <1>3 DEF CarryInv, OwedTyped
<1>5. AllStamped'
  BY <1>1, <1>3 DEF CarryInv, AllStamped, Stamped
<1>6. HeldRecurs'
  BY <1>3 DEF HeldRecurs, Replayed, Recurs
<1>7. OwedIsOwing'
  <2>1. \A p \in owed : p.on # used'.links
    BY <1>2 DEF CarryInv, OwedTyped
  <2> QED
    BY <1>3, <2>1 DEF OwedIsOwing
<1> QED
  BY <1>4, <1>5, <1>6, <1>7 DEF CarryInv

(* The consumer's wish for a replay touches nothing but the requests. *)
LEMMA WishCarry ==
  ASSUME StreamInv, CarryInv, NEW k \in Streams, NEW n \in 0..MaxSeq, ResumeStream(k, n)
  PROVE  CarryInv'
<1>1. /\ UNCHANGED <<seen, owed, sender, link, wire>>
      /\ used' = [used EXCEPT !.wishes = @ + 1]
  BY DEF ResumeStream, Idle, ledger, history
<1>2. used' \in [links : Nat, wishes : Nat] /\ used'.links = used.links
  BY <1>1 DEF CarryInv, OwedTyped
<1> QED
  BY <1>1, <1>2 DEF CarryInv, OwedTyped, AllStamped, HeldRecurs, OwedIsOwing, Owing, Stamped

(* Every step keeps what is owed on its way. *)
LEMMA StepCarry ==
  ASSUME StreamInv, CarryInv, StreamInv', [Next]_vars
  PROVE  CarryInv'
<1>1. wire \in Seq(Pieces) /\ used \in [links : Nat, wishes : Nat]
  BY DEF StreamInv, WireOK, CarryInv, OwedTyped
<1>2. CASE TakeFrame
  BY <1>2, TakeFrameCarry
<1>3. CASE Timer \/ Close
  <2>1. PICK K \in SUBSET Open : /\ Collapse(K) /\ UNCHANGED <<sender, wire, used>>
                                /\ link' \in {link, "closed"}
    BY <1>3 DEF Timer, Expire, Close
  <2> QED
    BY <2>1, CollapseCarry
<1>4. CASE Lose
  <2>1. /\ Idle /\ sender' = sender /\ used' = used /\ LinkLost(wire)
    BY <1>4 DEF Lose
  <2>2. link' = "cut" /\ NothingNew
    BY <1>1, <2>1, NothingAdded DEF LinkLost
  <2>3. used.links <= used'.links
    BY <1>1, <2>1
  <2> QED
    BY <1>1, <2>1, <2>2, <2>3, IdleCarry
<1>5. CASE Salvage
  BY <1>5, SalvageCarry
<1>6. CASE DropLink
  <2>1. /\ Idle /\ sender' = sender /\ used' = used /\ wire' = wire /\ wire = <<>>
        /\ link' = "down"
    BY <1>6 DEF DropLink
  <2>2. NothingNew
    BY <2>1 DEF NothingNew
  <2>3. used.links <= used'.links
    BY <1>1, <2>1
  <2> QED
    BY <1>1, <2>1, <2>2, <2>3, IdleCarry
<1>7. CASE Connect
  BY <1>7, ConnectCarry
<1>8. CASE \E k \in Streams, n \in 0..MaxSeq : ResumeStream(k, n)
  BY <1>8, WishCarry
<1>9. CASE Answer \/ \E k \in Streams : Stamp(k) \/ Restart(k)
  BY <1>9, SenderCarry
<1>10. CASE UNCHANGED vars
  BY <1>10 DEF vars, ledger, history, CarryInv, OwedTyped, AllStamped, HeldRecurs,
               OwedIsOwing, Owing, Stamped
<1> QED
  BY <1>2, <1>3, <1>4, <1>5, <1>6, <1>7, <1>8, <1>9, <1>10 DEF Next

(* What is on its way in a run is carried. *)
LEMMA OwingIsCarried ==
  ASSUME StreamInv, CarryInv
  PROVE  AnsweredIsCarried
<1> SUFFICES ASSUME link = "up", NEW p \in owed,
                    p.on = used.links, sender[p.key].gen = p.gen
             PROVE  Carried(p)
  BY DEF AnsweredIsCarried
<1>1. Owing(p) /\ p.key \in Streams /\ p.seq \in Nat
  BY StreamAssumption DEF CarryInv, OwedIsOwing, OwedTyped
<1>2. PICK l \in Nat : l = seen[p.key].last /\ l < p.seq
  BY <1>1, TrackParts DEF Owing, StreamInv
<1>3. PICK i \in DOMAIN wire : Run(wire, i, p.key, p.gen, l + 1, p.seq)
  BY <1>1, <1>2 DEF Owing
<1>4. p.seq \in (l + 1)..p.seq
  BY <1>1, <1>2
<1> QED
  BY <1>3, <1>4 DEF Run, Carried

(* stream.rs:219, the window that an answer closes: for any streams,       *)
(* limits and bounds, whatever is lost, stamped and not sent, replayed or  *)
(* timed out, a piece thrown out of that window is on the link again for   *)
(* as long as it is owed there and its sender has not restarted.           *)
THEOREM AnswersCarryWindows == Spec => []AnsweredIsCarried
<1>1. StreamInv /\ [Next]_vars => StreamInv'
  BY StepSound, StillInv DEF StreamInv, Sound
<1>2. StreamInv /\ CarryInv /\ StreamInv' /\ [Next]_vars => CarryInv'
  BY StepCarry
<1>3. StreamInv /\ CarryInv => AnsweredIsCarried
  BY OwingIsCarried
<1> QED
  BY <1>1, <1>2, <1>3, InitInv, InitCarry, PTL DEF Spec
=============================================================================
