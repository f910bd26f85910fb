--------------------------- MODULE FlushLaneProofs ---------------------------
(***************************************************************************)
(* Proofs about FlushLane: claims, lanes and deliveries account for every  *)
(* ring, every incarnation appears, and the channels and tasks implement   *)
(* the doorbells the messaging kernel is written against.                  *)
(***************************************************************************)
EXTENDS FlushLane, FiniteSetTheorems, FunctionTheorems, SequenceTheorems, TLAPS

-----------------------------------------------------------------------------
(* Counting entries in a queue *)

At(q, m) == {i \in DOMAIN q : q[i] = m}

(* The places an entry has in a queue are finitely many. *)
LEMMA CountType ==
  ASSUME NEW S, NEW q \in Seq(S), NEW m
  PROVE  IsFiniteSet(At(q, m)) /\ CountIn(q, m) = Cardinality(At(q, m)) /\ CountIn(q, m) \in Nat
<1>1. Len(q) \in Nat /\ DOMAIN q = 1..Len(q)
  BY LenProperties
<1>2. IsFiniteSet(1..Len(q))
  BY <1>1, FS_Interval
<1>3. At(q, m) \subseteq 1..Len(q)
  BY <1>1 DEF At
<1>4. IsFiniteSet(At(q, m))
  BY <1>2, <1>3, FS_Subset
<1> QED
  BY <1>4, FS_CardinalityType DEF CountIn, At

(* An empty queue has none. *)
LEMMA CountEmpty ==
  ASSUME NEW m
  PROVE  CountIn(<<>>, m) = 0
<1>1. {i \in DOMAIN <<>> : <<>>[i] = m} = {}
  OBVIOUS
<1> QED
  BY <1>1, FS_EmptySet DEF CountIn

(* A queue of one has one or none. *)
LEMMA CountOne ==
  ASSUME NEW e, NEW m
  PROVE  CountIn(<<e>>, m) = IF e = m THEN 1 ELSE 0
<1>1. {i \in DOMAIN <<e>> : <<e>>[i] = m} = IF e = m THEN {1} ELSE {}
  OBVIOUS
<1>2. Cardinality({1}) = 1 /\ Cardinality({}) = 0
  BY FS_Singleton, FS_EmptySet
<1> QED
  BY <1>1, <1>2 DEF CountIn

(* Queues put one after the other have the sum. *)
LEMMA CountConcat ==
  ASSUME NEW S, NEW q \in Seq(S), NEW r \in Seq(S), NEW m
  PROVE  CountIn(q \o r, m) = CountIn(q, m) + CountIn(r, m)
<1>1. PICK n \in Nat : n = Len(q) /\ DOMAIN q = 1..n
  BY LenProperties
<1>2. PICK k \in Nat : k = Len(r) /\ DOMAIN r = 1..k
  BY LenProperties
<1>3. /\ q \o r \in Seq(S) /\ DOMAIN (q \o r) = 1..(n + k)
      /\ \A i \in 1..(n + k) : (q \o r)[i] = IF i <= n THEN q[i] ELSE r[i - n]
  <2>1. /\ q \o r \in Seq(S) /\ Len(q \o r) = n + k
        /\ \A i \in 1..(n + k) : (q \o r)[i] = IF i <= n THEN q[i] ELSE r[i - n]
    BY <1>1, <1>2, ConcatProperties
  <2> QED
    BY <2>1, LenProperties
<1> DEFINE A == At(q, m)
           B == At(r, m)
           C == {i \in (n + 1)..(n + k) : r[i - n] = m}
           f == [i \in B |-> n + i]
<1>4. IsFiniteSet(A) /\ IsFiniteSet(B)
  BY CountType
<1>5. At(q \o r, m) = A \cup C
  <2>1. \A i \in 1..(n + k) : i \in 1..n \/ i \in (n + 1)..(n + k)
    OBVIOUS
  <2>2. \A i \in 1..n : i \in 1..(n + k) /\ (q \o r)[i] = q[i]
    BY <1>3
  <2>3. \A i \in (n + 1)..(n + k) : i \in 1..(n + k) /\ (q \o r)[i] = r[i - n]
    BY <1>3
  <2>4. At(q \o r, m) = {i \in 1..(n + k) : (q \o r)[i] = m} /\ A = {i \in 1..n : q[i] = m}
    BY <1>1, <1>3 DEF At
  <2> QED
    BY <2>1, <2>2, <2>3, <2>4
<1>6. A \cap C = {}
  BY <1>1 DEF At
<1>7. f \in Bijection(B, C)
  <2>1. B = {i \in 1..k : r[i] = m}
    BY <1>2 DEF At
  <2>2. \A i \in B : f[i] \in C
    <3> TAKE i \in B
    <3>1. i \in 1..k /\ r[i] = m /\ f[i] = n + i
      BY <2>1
    <3>2. n + i \in (n + 1)..(n + k) /\ (n + i) - n = i
      BY <3>1
    <3> QED
      BY <3>1, <3>2
  <2>3. f \in [B -> C]
    BY <2>2
  <2>4. \A i, j \in B : f[i] = f[j] => i = j
    BY <2>1
  <2>5. \A c \in C : \E i \in B : f[i] = c
    <3> TAKE c \in C
    <3>1. c - n \in 1..k /\ r[c - n] = m /\ n + (c - n) = c
      OBVIOUS
    <3>2. c - n \in B
      BY <2>1, <3>1
    <3> QED
      BY <3>1, <3>2
  <2> HIDE DEF f, B, C
  <2> QED
    BY <2>3, <2>4, <2>5 DEF Bijection, Injection, Surjection, IsInjective
<1>8. IsFiniteSet(C) /\ Cardinality(C) = Cardinality(B)
  <2> HIDE DEF f, B, C
  <2>1. ExistsBijection(B, C)
    BY <1>7 DEF ExistsBijection
  <2> QED
    BY <1>4, <2>1, FS_Bijection
<1>9. Cardinality(A \cup C) = Cardinality(A) + Cardinality(C)
  <2> HIDE DEF A, C
  <2>1. Cardinality(A \cup C) = Cardinality(A) + Cardinality(C) - Cardinality(A \cap C)
    BY <1>4, <1>8, FS_Union
  <2>2. Cardinality(A \cap C) = 0
    BY <1>6, FS_EmptySet
  <2>3. Cardinality(A) \in Nat /\ Cardinality(C) \in Nat
    BY <1>4, <1>8, FS_CardinalityType
  <2> QED
    BY <2>1, <2>2, <2>3
<1>10. /\ CountIn(q \o r, m) = Cardinality(At(q \o r, m))
       /\ CountIn(q, m) = Cardinality(A) /\ CountIn(r, m) = Cardinality(B)
  BY DEF CountIn, At
<1> HIDE DEF A, B, C
<1> QED
  BY <1>5, <1>8, <1>9, <1>10

(* Sending an entry. *)
LEMMA CountAppend ==
  ASSUME NEW S, NEW q \in Seq(S), NEW e \in S, NEW m
  PROVE  CountIn(Append(q, e), m) = CountIn(q, m) + IF e = m THEN 1 ELSE 0
<1>1. Append(q, e) = q \o <<e>> /\ <<e>> \in Seq(S)
  BY AppendIsConcat
<1>2. CountIn(q \o <<e>>, m) = CountIn(q, m) + CountIn(<<e>>, m)
  BY <1>1, CountConcat
<1> QED
  BY <1>1, <1>2, CountOne

(* Receiving one. *)
LEMMA CountTail ==
  ASSUME NEW S, NEW q \in Seq(S), q # <<>>, NEW m
  PROVE  CountIn(q, m) = CountIn(Tail(q), m) + IF Head(q) = m THEN 1 ELSE 0
<1>1. Head(q) \in S /\ Tail(q) \in Seq(S) /\ <<Head(q)>> \in Seq(S)
  BY HeadTailProperties
<1>2. q = <<Head(q)>> \o Tail(q)
  OBVIOUS
<1>3. CountIn(<<Head(q)>> \o Tail(q), m) = CountIn(<<Head(q)>>, m) + CountIn(Tail(q), m)
  BY <1>1, CountConcat
<1>4. CountIn(Tail(q), m) \in Nat
  BY <1>1, CountType
<1> DEFINE h == Head(q)
<1>5. CountIn(<<h>>, m) = IF h = m THEN 1 ELSE 0
  BY CountOne
<1> HIDE DEF h
<1>6. CountIn(q, m) = CountIn(<<h>>, m) + CountIn(Tail(q), m)
  BY <1>2, <1>3 DEF h
<1>7. CountIn(q, m) = CountIn(Tail(q), m) + IF h = m THEN 1 ELSE 0
  BY <1>4, <1>5, <1>6
<1> QED
  BY <1>7 DEF h

-----------------------------------------------------------------------------
(* The state the invariant talks about *)

Claimants(a) == {c \in Callers : caller[c] = a}
OnWay(a)     == OnTheWay(Entry("Appear", a))
Busy(a)      == started[a] + flushed[a]

(* A step of the doorbells, or none. *)
BellStep == Bells!Next \/ UNCHANGED Bells!vars

(* What every step keeps. *)
Kept == RingsAreAccounted' /\ BellStep

(* An entry has a recipient and a kind. *)
LEMMA EntryParts ==
  ASSUME NEW k, NEW a
  PROVE  Entry(k, a).kind = k /\ Entry(k, a).id = a
BY DEF Entry

(* An entry of the queues is one of the two entries of its recipient. *)
LEMMA EntryForms ==
  ASSUME NEW A, NEW m \in EntriesFor(A)
  PROVE  m.id \in A /\ (m = Entry("Idle", m.id) \/ m = Entry("Appear", m.id))
BY DEF EntriesFor, Entry

(* The entries are told apart by kind and recipient. *)
LEMMA EntriesDiffer ==
  ASSUME NEW k, NEW a, NEW l, NEW b
  PROVE  Entry(k, a) = Entry(l, b) <=> k = l /\ a = b
<1>1. Entry(k, a) = Entry(l, b) => k = l /\ a = b
  BY EntryParts
<1> QED
  BY <1>1

(* What is on the way is counted in three queues. *)
LEMMA OnTheWayIs ==
  ASSUME TypeOK, NEW k, NEW a \in Agents
  PROVE  /\ OnTheWay(Entry(k, a)) = CountIn(flushChan, Entry(k, a))
              + CountIn(laneChan, Entry(k, a)) + CountIn(lanes[a], Entry(k, a))
         /\ CountIn(flushChan, Entry(k, a)) \in Nat
         /\ CountIn(laneChan, Entry(k, a)) \in Nat
         /\ CountIn(lanes[a], Entry(k, a)) \in Nat
         /\ CountIn(doneChan, a) \in Nat
         /\ IsFiniteSet(Claimants(a)) /\ Cardinality(Claimants(a)) \in Nat
<1>1. IsFiniteSet(Claimants(a))
  <2>1. IsFiniteSet(Callers) /\ Claimants(a) \subseteq Callers
    BY FlushAssumption DEF Claimants
  <2> QED
    BY <2>1, FS_Subset
<1>2. Cardinality(Claimants(a)) \in Nat
  BY <1>1, FS_CardinalityType
<1>3. OnTheWay(Entry(k, a)) = CountIn(flushChan, Entry(k, a))
              + CountIn(laneChan, Entry(k, a)) + CountIn(lanes[a], Entry(k, a))
  BY EntryParts DEF OnTheWay
<1>4. /\ flushChan \in Seq(EntriesFor(Agents)) /\ laneChan \in Seq(EntriesFor(Agents))
      /\ lanes[a] \in Seq(EntriesFor({a})) /\ doneChan \in Seq(Agents)
  BY DEF TypeOK
<1>5. CountIn(flushChan, Entry(k, a)) \in Nat /\ CountIn(laneChan, Entry(k, a)) \in Nat
  BY <1>4, CountType
<1>6. CountIn(lanes[a], Entry(k, a)) \in Nat /\ CountIn(doneChan, a) \in Nat
  BY <1>4, CountType
<1> QED
  BY <1>1, <1>2, <1>3, <1>5, <1>6

(* The accounts, in the terms used here. *)
LEMMA Accounts ==
  ASSUME RingsAreAccounted, NEW a \in Agents
  PROVE  /\ OnTheWay(Entry("Idle", a)) + Cardinality(Claimants(a))
              = IF a \in pending THEN 1 ELSE 0
         /\ started[a] + flushed[a] + CountIn(doneChan, a) = IF a \in occupied THEN 1 ELSE 0
         /\ a \notin occupied => lanes[a] = <<>>
         /\ a \in due => a \in pending \/ started[a] > 0
         /\ started[a] \in Nat /\ flushed[a] \in Nat
BY DEF RingsAreAccounted, ClaimHasEntry, LaneHasOneDelivery, NoLostWakeup, Claimants, TypeOK

(* A step that the doorbells do not see. *)
LEMMA BellsStill ==
  ASSUME pending' = pending,
         \A a \in Agents : OnWay(a)' = OnWay(a),
         \A a \in Agents : (Busy(a) > 0)' <=> Busy(a) > 0
  PROVE  BellStep
<1>1. [a \in Agents |-> OnTheWay(Entry("Appear", a))]'
        = [a \in Agents |-> OnTheWay(Entry("Appear", a))]
  BY DEF OnWay
<1>2. {a \in Agents : started[a] + flushed[a] > 0}' = {a \in Agents : started[a] + flushed[a] > 0}
  BY DEF Busy
<1> QED
  BY <1>1, <1>2 DEF BellStep, Bells!vars

(* A claim is a ring. *)
LEMMA BellsRing ==
  ASSUME NEW b \in Agents, pending' = pending \cup {b},
         \A a \in Agents : OnWay(a)' = OnWay(a),
         \A a \in Agents : (Busy(a) > 0)' <=> Busy(a) > 0
  PROVE  BellStep
<1>1. [a \in Agents |-> OnTheWay(Entry("Appear", a))]'
        = [a \in Agents |-> OnTheWay(Entry("Appear", a))]
  BY DEF OnWay
<1>2. {a \in Agents : started[a] + flushed[a] > 0}' = {a \in Agents : started[a] + flushed[a] > 0}
  BY DEF Busy
<1>3. Bells!Ring(b)
  BY <1>1, <1>2 DEF Bells!Ring
<1> QED
  BY <1>3 DEF BellStep, Bells!Next

(* A delivery that takes an Idle entry answers the bell... *)
LEMMA BellsAnswer ==
  ASSUME NEW b \in Agents, b \in pending, pending' = pending \ {b},
         \A a \in Agents : OnWay(a)' = OnWay(a),
         ~(Busy(b) > 0),
         \A a \in Agents : (Busy(a) > 0)' <=> a = b \/ Busy(a) > 0
  PROVE  BellStep
<1>1. [a \in Agents |-> OnTheWay(Entry("Appear", a))]'
        = [a \in Agents |-> OnTheWay(Entry("Appear", a))]
  BY DEF OnWay
<1>2. {a \in Agents : started[a] + flushed[a] > 0}'
        = {a \in Agents : started[a] + flushed[a] > 0} \cup {b}
  BY DEF Busy
<1>3. b \notin {a \in Agents : started[a] + flushed[a] > 0}
  BY DEF Busy
<1>4. Bells!Start(b)
  BY <1>1, <1>2, <1>3 DEF Bells!Start
<1> QED
  BY <1>4 DEF BellStep, Bells!Next

(* ... and one that takes an Appear entry serves the appearance. *)
LEMMA BellsServe ==
  ASSUME NEW b \in Agents, pending' = pending,
         OnWay(b) > 0, OnWay(b)' = OnWay(b) - 1,
         \A a \in Agents \ {b} : OnWay(a)' = OnWay(a),
         ~(Busy(b) > 0),
         \A a \in Agents : (Busy(a) > 0)' <=> a = b \/ Busy(a) > 0
  PROVE  BellStep
<1> DEFINE ap == [a \in Agents |-> OnTheWay(Entry("Appear", a))]
<1>1. ap' = [ap EXCEPT ![b] = @ - 1]
  BY DEF OnWay
<1>2. {a \in Agents : started[a] + flushed[a] > 0}'
        = {a \in Agents : started[a] + flushed[a] > 0} \cup {b}
  BY DEF Busy
<1>3. b \notin {a \in Agents : started[a] + flushed[a] > 0} /\ ap[b] > 0
  BY DEF Busy, OnWay
<1>4. Bells!Start(b)
  BY <1>1, <1>2, <1>3 DEF Bells!Start
<1> QED
  BY <1>4 DEF BellStep, Bells!Next

(* A delivery that ends finishes. *)
LEMMA BellsFinish ==
  ASSUME NEW b \in Agents, pending' = pending,
         \A a \in Agents : OnWay(a)' = OnWay(a),
         Busy(b) > 0,
         \A a \in Agents : (Busy(a) > 0)' <=> a # b /\ Busy(a) > 0
  PROVE  BellStep
<1>1. [a \in Agents |-> OnTheWay(Entry("Appear", a))]'
        = [a \in Agents |-> OnTheWay(Entry("Appear", a))]
  BY DEF OnWay
<1>2. {a \in Agents : started[a] + flushed[a] > 0}'
        = {a \in Agents : started[a] + flushed[a] > 0} \ {b}
  BY DEF Busy
<1>3. b \in {a \in Agents : started[a] + flushed[a] > 0}
  BY DEF Busy
<1>4. Bells!Finish(b)
  BY <1>1, <1>2, <1>3 DEF Bells!Finish
<1> QED
  BY <1>4 DEF BellStep, Bells!Next

(* A dispatch announces the incarnations it has not seen before. *)
LEMMA BellsAnnounce ==
  ASSUME NEW new \in SUBSET Agents, pending' = pending,
         \A a \in Agents : OnWay(a)' = IF a \in new THEN OnWay(a) + 1 ELSE OnWay(a),
         \A a \in Agents : (Busy(a) > 0)' <=> Busy(a) > 0
  PROVE  BellStep
<1> DEFINE ap == [a \in Agents |-> OnTheWay(Entry("Appear", a))]
<1>1. ap' = [a \in Agents |-> IF a \in new THEN ap[a] + 1 ELSE ap[a]]
  BY DEF OnWay
<1>2. {a \in Agents : started[a] + flushed[a] > 0}' = {a \in Agents : started[a] + flushed[a] > 0}
  BY DEF Busy
<1>3. Bells!Announce
  BY <1>1, <1>2 DEF Bells!Announce
<1> QED
  BY <1>3 DEF BellStep, Bells!Next

-----------------------------------------------------------------------------
(* Ringing *)

(* ChannelIdleNotifier::enqueue claims at most once per agent. *)
LEMMA ClaimKeeps ==
  ASSUME RingsAreAccounted, NEW c \in Callers, NEW b \in Agents, Claim(c, b)
  PROVE  Kept
<1>1. /\ caller[c] = None /\ due' = due \cup {b} /\ pending' = pending \cup {b}
      /\ caller' = [caller EXCEPT ![c] = IF b \in pending THEN None ELSE b]
      /\ UNCHANGED <<flushChan, laneChan, doneChan, lanes, occupied, started, flushed,
                     prev, roster, lastEpoch, host, announced>>
  BY DEF Claim, channels, tasks, session
<1>2. TypeOK /\ None \notin Agents
  BY FlushAssumption DEF RingsAreAccounted, None
<1>3. TypeOK'
  BY <1>1, <1>2 DEF TypeOK
<1>4. \A m : OnTheWay(m)' = OnTheWay(m)
  BY <1>1 DEF OnTheWay
<1>5. ASSUME NEW a \in Agents
      PROVE  OnTheWay(Entry("Idle", a))' + Cardinality(Claimants(a)')
              = IF a \in pending' THEN 1 ELSE 0
  <2>1. OnTheWay(Entry("Idle", a)) + Cardinality(Claimants(a)) = IF a \in pending THEN 1 ELSE 0
    BY Accounts
  <2>2. /\ OnTheWay(Entry("Idle", a)) \in Nat /\ Cardinality(Claimants(a)) \in Nat
        /\ IsFiniteSet(Claimants(a))
    BY <1>2, OnTheWayIs
  <2>3. CASE a = b /\ b \notin pending
    <3>1. OnTheWay(Entry("Idle", a)) = 0 /\ Cardinality(Claimants(a)) = 0
      BY <2>1, <2>2, <2>3
    <3>2. Claimants(a) = {}
      BY <2>2, <3>1, FS_EmptySet
    <3>3. Claimants(a)' = {c}
      BY <1>1, <1>2, <2>3, <3>2 DEF Claimants, TypeOK
    <3>4. Cardinality({c}) = 1
      BY FS_Singleton
    <3> QED
      BY <1>1, <1>4, <2>3, <3>1, <3>3, <3>4
  <2>4. CASE ~(a = b /\ b \notin pending)
    <3>1. Claimants(a)' = Claimants(a)
      BY <1>1, <1>2, <2>4 DEF Claimants, TypeOK
    <3>2. a \in pending' <=> a \in pending
      BY <1>1, <2>4
    <3> QED
      BY <1>4, <2>1, <3>1, <3>2
  <2> QED
    BY <2>3, <2>4
<1>6. ClaimHasEntry'
  BY <1>5 DEF ClaimHasEntry, Claimants
<1>7. LaneHasOneDelivery'
  BY <1>1 DEF RingsAreAccounted, LaneHasOneDelivery
<1>8. NoLostWakeup'
  BY <1>1 DEF RingsAreAccounted, NoLostWakeup
<1>9. BellStep
  <2>1. \A a \in Agents : OnWay(a)' = OnWay(a) /\ Busy(a)' = Busy(a)
    BY <1>1, <1>4 DEF OnWay, Busy
  <2> QED
    BY <1>1, <2>1, BellsRing
<1> QED
  BY <1>3, <1>6, <1>7, <1>8, <1>9 DEF Kept, RingsAreAccounted

(* The winner of a claim turns it into an entry. *)
LEMMA SendIdleKeeps ==
  ASSUME RingsAreAccounted, NEW c \in Callers, SendIdle(c)
  PROVE  Kept
<1> DEFINE b == caller[c]
           e == Entry("Idle", b)
<1>1. /\ b # None /\ flushChan' = Append(flushChan, e)
      /\ caller' = [caller EXCEPT ![c] = None]
      /\ UNCHANGED <<pending, laneChan, doneChan, lanes, occupied, started, flushed,
                     prev, roster, lastEpoch, host, announced, due>>
  BY DEF SendIdle, tasks, session
<1>2. /\ TypeOK /\ None \notin Agents /\ b \in Agents
      /\ flushChan \in Seq(EntriesFor(Agents))
  BY <1>1, FlushAssumption DEF RingsAreAccounted, None, TypeOK
<1>3. e \in EntriesFor(Agents)
  BY <1>2 DEF Entry, EntriesFor
<1>4. Append(flushChan, e) \in Seq(EntriesFor(Agents))
  BY <1>2, <1>3, AppendProperties
<1>5. TypeOK'
  <2>1. caller' \in [Callers -> Agents \cup {None}]
    BY <1>1, <1>2 DEF TypeOK
  <2> QED
    BY <1>1, <1>2, <1>4, <2>1 DEF TypeOK
<1>6. ASSUME NEW k, NEW a \in Agents
      PROVE  OnTheWay(Entry(k, a))' = OnTheWay(Entry(k, a))
               + IF k = "Idle" /\ a = b THEN 1 ELSE 0
  <2> DEFINE m == Entry(k, a)
  <2>1. CountIn(Append(flushChan, e), m) = CountIn(flushChan, m) + IF e = m THEN 1 ELSE 0
    BY <1>2, <1>3, CountAppend
  <2>2. e = m <=> k = "Idle" /\ a = b
    BY EntriesDiffer
  <2>3. /\ OnTheWay(m) = CountIn(flushChan, m) + CountIn(laneChan, m) + CountIn(lanes[a], m)
        /\ CountIn(flushChan, m) \in Nat /\ CountIn(laneChan, m) \in Nat
        /\ CountIn(lanes[a], m) \in Nat
    BY <1>2, OnTheWayIs
  <2>4. OnTheWay(m)' = CountIn(flushChan', m) + CountIn(laneChan, m) + CountIn(lanes[a], m)
    BY <1>1, EntryParts DEF OnTheWay
  <2> HIDE DEF m, e, b
  <2> QED
    BY <1>1, <2>1, <2>2, <2>3, <2>4 DEF m
<1>7. ASSUME NEW a \in Agents
      PROVE  OnTheWay(Entry("Idle", a))' + Cardinality(Claimants(a)')
              = IF a \in pending' THEN 1 ELSE 0
  <2>1. OnTheWay(Entry("Idle", a)) + Cardinality(Claimants(a)) = IF a \in pending THEN 1 ELSE 0
    BY Accounts
  <2>2. /\ OnTheWay(Entry("Idle", a)) \in Nat /\ Cardinality(Claimants(a)) \in Nat
        /\ IsFiniteSet(Claimants(a))
    BY <1>2, OnTheWayIs
  <2>3. Claimants(a)' = Claimants(a) \ {c}
    BY <1>1, <1>2 DEF Claimants, TypeOK
  <2>4. Cardinality(Claimants(a) \ {c})
          = IF c \in Claimants(a) THEN Cardinality(Claimants(a)) - 1 ELSE Cardinality(Claimants(a))
    BY <2>2, FS_RemoveElement
  <2>5. c \in Claimants(a) <=> a = b
    BY DEF Claimants
  <2>6. OnTheWay(Entry("Idle", a))' = OnTheWay(Entry("Idle", a)) + IF a = b THEN 1 ELSE 0
    BY <1>6
  <2> HIDE DEF b
  <2> QED
    BY <1>1, <2>1, <2>2, <2>3, <2>4, <2>5, <2>6
<1>8. ClaimHasEntry'
  BY <1>7 DEF ClaimHasEntry, Claimants
<1>9. LaneHasOneDelivery' /\ NoLostWakeup'
  BY <1>1 DEF RingsAreAccounted, LaneHasOneDelivery, NoLostWakeup
<1>10. BellStep
  <2>1. ASSUME NEW a \in Agents PROVE OnWay(a)' = OnWay(a) /\ Busy(a)' = Busy(a)
    <3>1. OnTheWay(Entry("Appear", a))' = OnTheWay(Entry("Appear", a)) + 0
      BY <1>6
    <3>2. OnTheWay(Entry("Appear", a)) \in Nat
      BY <1>2, OnTheWayIs
    <3> QED
      BY <1>1, <3>1, <3>2 DEF OnWay, Busy
  <2> QED
    BY <1>1, <2>1, BellsStill
<1> QED
  BY <1>5, <1>8, <1>9, <1>10 DEF Kept, RingsAreAccounted

-----------------------------------------------------------------------------
(* The lanes *)

(* A step that only moves entries keeps the accounts and is no step of the *)
(* doorbells.                                                              *)
LEMMA MovesKeep ==
  ASSUME RingsAreAccounted, TypeOK',
         \A k : \A a \in Agents : OnTheWay(Entry(k, a))' = OnTheWay(Entry(k, a)),
         UNCHANGED <<pending, caller, doneChan, occupied, started, flushed, due>>,
         \A a \in Agents \ occupied : lanes'[a] = lanes[a]
  PROVE  Kept
<1>1. ClaimHasEntry'
  BY DEF RingsAreAccounted, ClaimHasEntry
<1>2. LaneHasOneDelivery' /\ NoLostWakeup'
  BY DEF RingsAreAccounted, LaneHasOneDelivery, NoLostWakeup
<1>3. \A a \in Agents : OnWay(a)' = OnWay(a) /\ Busy(a)' = Busy(a)
  BY DEF OnWay, Busy
<1>4. BellStep
  BY <1>3, BellsStill
<1> QED
  BY <1>1, <1>2, <1>4 DEF Kept, RingsAreAccounted

(* run_flush_worker moves an entry from one channel to the next. *)
LEMMA ForwardKeeps ==
  ASSUME RingsAreAccounted, Forward
  PROVE  Kept
<1> DEFINE E == EntriesFor(Agents)
           e == Head(flushChan)
<1>1. /\ flushChan # <<>> /\ flushChan' = Tail(flushChan)
      /\ laneChan' = Append(laneChan, e)
      /\ UNCHANGED <<pending, caller, doneChan, lanes, occupied, started, flushed,
                     prev, roster, lastEpoch, host, announced, due>>
  BY DEF Forward, tasks, session
<1>2. TypeOK /\ flushChan \in Seq(E) /\ laneChan \in Seq(E)
  BY DEF RingsAreAccounted, TypeOK
<1> HIDE DEF E
<1>3. e \in E /\ Tail(flushChan) \in Seq(E)
  BY <1>1, <1>2, HeadTailProperties
<1> HIDE DEF e
<1>4. Append(laneChan, e) \in Seq(E)
  BY <1>2, <1>3, AppendProperties
<1>5. TypeOK'
  BY <1>1, <1>2, <1>3, <1>4 DEF TypeOK, E
<1>6. ASSUME NEW k, NEW a \in Agents
      PROVE  OnTheWay(Entry(k, a))' = OnTheWay(Entry(k, a))
  <2> DEFINE m == Entry(k, a)
  <2>1. /\ OnTheWay(m) = CountIn(flushChan, m) + CountIn(laneChan, m) + CountIn(lanes[a], m)
        /\ CountIn(flushChan, m) \in Nat /\ CountIn(laneChan, m) \in Nat
        /\ CountIn(lanes[a], m) \in Nat
    BY <1>2, OnTheWayIs
  <2>2. OnTheWay(m)' = CountIn(flushChan', m) + CountIn(laneChan', m) + CountIn(lanes[a], m)
    BY <1>1, EntryParts DEF OnTheWay
  <2> HIDE DEF m
  <2>3. CountIn(Append(laneChan, e), m) = CountIn(laneChan, m) + IF e = m THEN 1 ELSE 0
    BY <1>2, <1>3, CountAppend
  <2>4. CountIn(flushChan, m) = CountIn(Tail(flushChan), m) + IF e = m THEN 1 ELSE 0
    BY <1>1, <1>2, CountTail DEF e
  <2>5. CountIn(Tail(flushChan), m) \in Nat
    BY <1>3, CountType
  <2> QED
    BY <1>1, <2>1, <2>2, <2>3, <2>4, <2>5 DEF m
<1> QED
  BY <1>1, <1>5, <1>6, MovesKeep

(* spawn_delivery: an entry leaves the queues, its claim is cleared if it  *)
(* is an Idle one, and the only delivery of its recipient starts.          *)
LEMMA StartKeeps ==
  ASSUME RingsAreAccounted, TypeOK', NEW b \in Agents, NEW e \in EntriesFor({b}),
         \A k : \A a \in Agents :
           /\ OnTheWay(Entry(k, a))' \in Nat
           /\ OnTheWay(Entry(k, a))
                = OnTheWay(Entry(k, a))' + IF Entry(k, a) = e THEN 1 ELSE 0,
         pending' = Taken(e), started' = [started EXCEPT ![b] = @ + 1],
         UNCHANGED <<caller, flushed, due>>,
         Busy(b) = 0, occupied' = occupied \cup {b},
         \A a \in Agents \ {b} : lanes'[a] = lanes[a],
         \A a \in Agents : CountIn(doneChan', a) = IF a = b THEN 0 ELSE CountIn(doneChan, a)
  PROVE  Kept
<1>1. TypeOK
  BY DEF RingsAreAccounted
<1>2. e = Entry("Idle", b) \/ e = Entry("Appear", b)
  BY EntryForms
<1>3. "Idle" # "Appear"
  OBVIOUS
<1>4. ASSUME NEW a \in Agents
      PROVE  /\ OnTheWay(Entry("Idle", a)) + Cardinality(Claimants(a))
                  = IF a \in pending THEN 1 ELSE 0
             /\ Cardinality(Claimants(a)) \in Nat /\ Claimants(a)' = Claimants(a)
             /\ OnTheWay(Entry("Idle", a))' \in Nat
             /\ OnTheWay(Entry("Idle", a)) = OnTheWay(Entry("Idle", a))'
                  + IF Entry("Idle", a) = e THEN 1 ELSE 0
  BY <1>1, Accounts, OnTheWayIs DEF Claimants
<1>5. CASE e = Entry("Idle", b)
  <2>1. \A a \in Agents : (Entry("Idle", a) = e <=> a = b) /\ Entry("Appear", a) # e
    BY <1>3, <1>5, EntriesDiffer
  <2>2. pending' = pending \ {b}
    BY <1>5, EntryParts DEF Taken
  <2>3. ASSUME NEW a \in Agents
        PROVE  OnTheWay(Entry("Idle", a))' + Cardinality(Claimants(a)')
                = IF a \in pending' THEN 1 ELSE 0
    <3>1. CASE a = b
      <4>1. OnTheWay(Entry("Idle", a)) = OnTheWay(Entry("Idle", a))' + 1
        BY <1>4, <2>1, <3>1
      <4> QED
        BY <1>4, <2>2, <3>1, <4>1
    <3>2. CASE a # b
      <4>1. OnTheWay(Entry("Idle", a)) = OnTheWay(Entry("Idle", a))'
        BY <1>4, <2>1, <3>2
      <4> QED
        BY <1>4, <2>2, <3>2, <4>1
    <3> QED
      BY <3>1, <3>2
  <2>4. b \in pending
    <3>1. OnTheWay(Entry("Idle", b)) = OnTheWay(Entry("Idle", b))' + 1
      BY <1>4, <2>1
    <3> QED
      BY <1>4, <3>1
  <2>5. ClaimHasEntry'
    BY <2>3 DEF ClaimHasEntry, Claimants
  <2>6. \A a \in Agents : OnWay(a)' = OnWay(a)
    BY <2>1 DEF OnWay
  <2>7. \A a \in Agents : (Busy(a) > 0)' <=> a = b \/ Busy(a) > 0
    BY <1>1 DEF Busy, TypeOK
  <2>8. BellStep
    BY <2>2, <2>4, <2>6, <2>7, BellsAnswer
  <2>9. NoLostWakeup'
    BY <1>1, <2>2 DEF RingsAreAccounted, NoLostWakeup, TypeOK
  <2> QED
    <3>1. LaneHasOneDelivery'
      BY <1>1 DEF RingsAreAccounted, LaneHasOneDelivery, Busy, TypeOK
    <3> QED
      BY <2>5, <2>8, <2>9, <3>1 DEF Kept, RingsAreAccounted
<1>6. CASE e = Entry("Appear", b)
  <2>1. \A a \in Agents : (Entry("Appear", a) = e <=> a = b) /\ Entry("Idle", a) # e
    BY <1>3, <1>6, EntriesDiffer
  <2>2. pending' = pending
    BY <1>6, EntryParts DEF Taken
  <2>3. ASSUME NEW a \in Agents
        PROVE  OnTheWay(Entry("Idle", a))' + Cardinality(Claimants(a)')
                = IF a \in pending' THEN 1 ELSE 0
    <3>1. OnTheWay(Entry("Idle", a)) = OnTheWay(Entry("Idle", a))'
      BY <1>4, <2>1
    <3> QED
      BY <1>4, <2>2, <3>1
  <2>4. ClaimHasEntry'
    BY <2>3 DEF ClaimHasEntry, Claimants
  <2>5. /\ OnWay(b)' = OnWay(b) - 1 /\ OnWay(b) > 0
        /\ \A a \in Agents \ {b} : OnWay(a)' = OnWay(a)
    <3>1. /\ OnWay(b)' \in Nat /\ OnWay(b) = OnWay(b)' + 1
      BY <2>1 DEF OnWay
    <3>2. \A a \in Agents \ {b} : OnWay(a)' = OnWay(a)
      BY <2>1 DEF OnWay
    <3> QED
      BY <3>1, <3>2
  <2>6. \A a \in Agents : (Busy(a) > 0)' <=> a = b \/ Busy(a) > 0
    BY <1>1 DEF Busy, TypeOK
  <2>7. BellStep
    BY <2>2, <2>5, <2>6, BellsServe
  <2>8. NoLostWakeup'
    BY <1>1, <2>2 DEF RingsAreAccounted, NoLostWakeup, TypeOK
  <2> QED
    <3>1. LaneHasOneDelivery'
      BY <1>1 DEF RingsAreAccounted, LaneHasOneDelivery, Busy, TypeOK
    <3> QED
      BY <2>4, <2>7, <2>8, <3>1 DEF Kept, RingsAreAccounted
<1> QED
  BY <1>2, <1>5, <1>6

(* run_flush_lane: an entry waits behind the running delivery of its       *)
(* recipient or starts one.                                                *)
LEMMA ReceiveKeeps ==
  ASSUME RingsAreAccounted, Receive
  PROVE  Kept
<1> DEFINE E == EntriesFor(Agents)
           e == Head(laneChan)
           b == e.id
<1>1. /\ laneChan # <<>> /\ laneChan' = Tail(laneChan)
      /\ UNCHANGED <<caller, flushChan, doneChan, flushed, prev, roster, lastEpoch, host,
                     announced, due>>
  BY DEF Receive, session
<1>2. TypeOK /\ laneChan \in Seq(E)
  BY DEF RingsAreAccounted, TypeOK
<1>3. e \in E /\ Tail(laneChan) \in Seq(E)
  <2> HIDE DEF E
  <2> QED
    BY <1>1, <1>2, HeadTailProperties
<1>4. b \in Agents /\ e \in EntriesFor({b})
  BY <1>3 DEF EntriesFor
<1>5. ASSUME NEW m
      PROVE  /\ CountIn(laneChan, m) = CountIn(Tail(laneChan), m) + IF e = m THEN 1 ELSE 0
             /\ CountIn(Tail(laneChan), m) \in Nat
  <2> HIDE DEF E
  <2> QED
    BY <1>1, <1>2, <1>3, CountTail, CountType
<1>6. CASE b \in occupied
  <2>1. /\ lanes' = [lanes EXCEPT ![b] = Append(@, e)]
        /\ UNCHANGED <<pending, occupied, started>>
    BY <1>6 DEF Receive
  <2> HIDE DEF b, e, E
  <2>2. lanes[b] \in Seq(EntriesFor({b})) /\ DOMAIN lanes = Agents
    BY <1>2, <1>4 DEF TypeOK
  <2>3. Append(lanes[b], e) \in Seq(EntriesFor({b}))
    BY <1>4, <2>2, AppendProperties
  <2>4. /\ DOMAIN lanes' = Agents /\ lanes'[b] = Append(lanes[b], e)
        /\ \A a \in Agents \ {b} : lanes'[a] = lanes[a]
    BY <1>4, <2>1, <2>2
  <2>5. TypeOK'
    <3>1. \A a \in Agents : lanes'[a] \in Seq(EntriesFor({a}))
      BY <1>2, <2>3, <2>4 DEF TypeOK
    <3> QED
      BY <1>1, <1>2, <1>3, <2>1, <2>4, <3>1 DEF TypeOK, E
  <2>6. ASSUME NEW k, NEW a \in Agents
        PROVE  OnTheWay(Entry(k, a))' = OnTheWay(Entry(k, a))
    <3> DEFINE m == Entry(k, a)
    <3>1. /\ OnTheWay(m) = CountIn(flushChan, m) + CountIn(laneChan, m) + CountIn(lanes[a], m)
          /\ CountIn(flushChan, m) \in Nat /\ CountIn(lanes[a], m) \in Nat
      BY <1>2, OnTheWayIs
    <3>2. OnTheWay(m)' = CountIn(flushChan, m) + CountIn(laneChan', m) + CountIn(lanes'[a], m)
      BY <1>1, EntryParts DEF OnTheWay
    <3>3. CountIn(lanes'[a], m) = CountIn(lanes[a], m) + IF e = m THEN 1 ELSE 0
      <4>1. CASE a = b
        <5>1. CountIn(Append(lanes[b], e), m) = CountIn(lanes[b], m) + IF e = m THEN 1 ELSE 0
          BY <1>4, <2>2, CountAppend
        <5> QED
          BY <2>4, <4>1, <5>1
      <4>2. CASE a # b
        <5>1. e # m
          BY <4>2, EntryParts DEF b
        <5> QED
          BY <2>4, <3>1, <4>2, <5>1
      <4> QED
        BY <4>1, <4>2
    <3> HIDE DEF m
    <3>4. OnTheWay(m)' = OnTheWay(m)
      BY <1>1, <1>5, <3>1, <3>2, <3>3
    <3> QED
      BY <3>4 DEF m
  <2>7. \A a \in Agents \ occupied : lanes'[a] = lanes[a]
    BY <1>6, <2>4
  <2> QED
    BY <1>1, <2>1, <2>5, <2>6, <2>7, MovesKeep
<1>7. CASE b \notin occupied
  <2>1. /\ occupied' = occupied \cup {b} /\ started' = [started EXCEPT ![b] = @ + 1]
        /\ pending' = Taken(e) /\ lanes' = lanes
    BY <1>7 DEF Receive
  <2> HIDE DEF b, e, E
  <2>2. Busy(b) = 0 /\ CountIn(doneChan, b) = 0
    <3>1. /\ started[b] + flushed[b] + CountIn(doneChan, b) = 0
          /\ started[b] \in Nat /\ flushed[b] \in Nat
      BY <1>4, <1>7, Accounts
    <3>2. CountIn(doneChan, b) \in Nat
      BY <1>2, <1>4, OnTheWayIs
    <3> QED
      BY <3>1, <3>2 DEF Busy
  <2>3. TypeOK'
    <3>1. pending' \subseteq Agents
      BY <1>2, <2>1 DEF TypeOK, Taken
    <3> QED
      BY <1>1, <1>2, <1>3, <1>4, <2>1, <3>1 DEF TypeOK, E
  <2>4. ASSUME NEW k, NEW a \in Agents
        PROVE  /\ OnTheWay(Entry(k, a))' \in Nat
               /\ OnTheWay(Entry(k, a))
                    = OnTheWay(Entry(k, a))' + IF Entry(k, a) = e THEN 1 ELSE 0
    <3> DEFINE m == Entry(k, a)
    <3>1. /\ OnTheWay(m) = CountIn(flushChan, m) + CountIn(laneChan, m) + CountIn(lanes[a], m)
          /\ CountIn(flushChan, m) \in Nat /\ CountIn(lanes[a], m) \in Nat
      BY <1>2, OnTheWayIs
    <3>2. OnTheWay(m)' = CountIn(flushChan, m) + CountIn(laneChan', m) + CountIn(lanes[a], m)
      BY <1>1, <2>1, EntryParts DEF OnTheWay
    <3> HIDE DEF m
    <3>3. OnTheWay(m)' \in Nat /\ OnTheWay(m) = OnTheWay(m)' + IF m = e THEN 1 ELSE 0
      BY <1>1, <1>5, <3>1, <3>2
    <3> QED
      BY <3>3 DEF m
  <2>5. \A a \in Agents : CountIn(doneChan', a) = IF a = b THEN 0 ELSE CountIn(doneChan, a)
    BY <1>1, <2>2
  <2> QED
    BY <1>1, <1>4, <2>1, <2>2, <2>3, <2>4, <2>5, StartKeeps
<1> QED
  BY <1>6, <1>7

(* advance_lane: a completion starts the next waiting entry or frees the   *)
(* lane.                                                                   *)
LEMMA AdvanceKeeps ==
  ASSUME RingsAreAccounted, Advance
  PROVE  Kept
<1> DEFINE b == Head(doneChan)
           q == lanes[b]
           e == Head(q)
<1>1. /\ doneChan # <<>> /\ doneChan' = Tail(doneChan)
      /\ UNCHANGED <<caller, flushChan, laneChan, flushed, prev, roster, lastEpoch, host,
                     announced, due>>
  BY DEF Advance, session
<1>2. TypeOK /\ doneChan \in Seq(Agents)
  BY DEF RingsAreAccounted, TypeOK
<1>3. b \in Agents /\ Tail(doneChan) \in Seq(Agents)
  BY <1>1, <1>2, HeadTailProperties
<1>4. ASSUME NEW a
      PROVE  /\ CountIn(doneChan, a) = CountIn(Tail(doneChan), a) + IF b = a THEN 1 ELSE 0
             /\ CountIn(Tail(doneChan), a) \in Nat
  BY <1>1, <1>2, <1>3, CountTail, CountType
<1>5. IF q = <<>>
      THEN occupied' = occupied \ {b} /\ UNCHANGED <<lanes, started, pending>>
      ELSE /\ lanes' = [lanes EXCEPT ![b] = Tail(@)]
           /\ started' = [started EXCEPT ![b] = @ + 1]
           /\ pending' = Taken(e) /\ occupied' = occupied
  BY DEF Advance
<1> HIDE DEF b
<1>6. /\ b \in occupied /\ Busy(b) = 0 /\ CountIn(doneChan', b) = 0
      /\ \A a \in Agents \ {b} : CountIn(doneChan', a) = CountIn(doneChan, a)
  <2>1. /\ started[b] + flushed[b] + CountIn(doneChan, b) = IF b \in occupied THEN 1 ELSE 0
        /\ started[b] \in Nat /\ flushed[b] \in Nat
    BY <1>3, Accounts
  <2>2. CountIn(doneChan, b) = CountIn(doneChan', b) + 1 /\ CountIn(doneChan', b) \in Nat
    BY <1>1, <1>4
  <2>3. \A a \in Agents \ {b} : CountIn(doneChan', a) = CountIn(doneChan, a)
    BY <1>1, <1>4
  <2>4. b \in occupied
    BY <2>1, <2>2
  <2>5. started[b] + flushed[b] + CountIn(doneChan, b) = 1
    BY <2>1, <2>4
  <2>6. started[b] = 0 /\ flushed[b] = 0 /\ CountIn(doneChan', b) = 0
    BY <2>1, <2>2, <2>5
  <2> QED
    BY <2>3, <2>4, <2>6 DEF Busy
<1>7. CASE q = <<>>
  <2>1. occupied' = occupied \ {b} /\ UNCHANGED <<lanes, started, pending>>
    BY <1>5, <1>7
  <2>2. TypeOK'
    BY <1>1, <1>2, <1>3, <2>1 DEF TypeOK
  <2>3. \A m : OnTheWay(m)' = OnTheWay(m)
    BY <1>1, <2>1 DEF OnTheWay
  <2>4. ClaimHasEntry'
    BY <1>1, <2>1, <2>3 DEF RingsAreAccounted, ClaimHasEntry
  <2>5. LaneHasOneDelivery'
    <3> SUFFICES ASSUME NEW a \in Agents
                 PROVE  /\ started'[a] + flushed'[a] + CountIn(doneChan', a)
                             = IF a \in occupied' THEN 1 ELSE 0
                        /\ a \notin occupied' => lanes'[a] = <<>>
      BY DEF LaneHasOneDelivery
    <3>1. /\ started[a] + flushed[a] + CountIn(doneChan, a) = IF a \in occupied THEN 1 ELSE 0
          /\ a \notin occupied => lanes[a] = <<>>
      BY Accounts
    <3>2. CASE a = b
      BY <1>1, <1>6, <1>7, <2>1, <3>2 DEF Busy
    <3>3. CASE a # b
      BY <1>1, <1>6, <2>1, <3>1, <3>3
    <3> QED
      BY <3>2, <3>3
  <2>6. NoLostWakeup'
    BY <1>1, <2>1 DEF RingsAreAccounted, NoLostWakeup
  <2>7. BellStep
    <3>1. \A a \in Agents : OnWay(a)' = OnWay(a) /\ Busy(a)' = Busy(a)
      BY <1>1, <2>1, <2>3 DEF OnWay, Busy
    <3> QED
      BY <2>1, <3>1, BellsStill
  <2> QED
    BY <2>2, <2>4, <2>5, <2>6, <2>7 DEF Kept, RingsAreAccounted
<1>8. CASE q # <<>>
  <2>1. /\ lanes' = [lanes EXCEPT ![b] = Tail(@)]
        /\ started' = [started EXCEPT ![b] = @ + 1]
        /\ pending' = Taken(e) /\ occupied' = occupied
    BY <1>5, <1>8
  <2>2. q \in Seq(EntriesFor({b})) /\ DOMAIN lanes = Agents
    BY <1>2, <1>3 DEF TypeOK
  <2>3. /\ DOMAIN lanes' = Agents /\ lanes'[b] = Tail(q)
        /\ \A a \in Agents \ {b} : lanes'[a] = lanes[a]
    BY <1>3, <2>1, <2>2
  <2> HIDE DEF q
  <2>4. e \in EntriesFor({b}) /\ Tail(q) \in Seq(EntriesFor({b}))
    BY <1>8, <2>2, HeadTailProperties
  <2>5. ASSUME NEW m
        PROVE  /\ CountIn(q, m) = CountIn(Tail(q), m) + IF e = m THEN 1 ELSE 0
               /\ CountIn(Tail(q), m) \in Nat
    BY <1>8, <2>2, <2>4, CountTail, CountType
  <2> HIDE DEF e
  <2>6. TypeOK'
    <3>1. \A a \in Agents : lanes'[a] \in Seq(EntriesFor({a}))
      BY <1>2, <2>3, <2>4 DEF TypeOK
    <3>2. pending' \subseteq Agents
      BY <1>2, <2>1 DEF TypeOK, Taken
    <3> QED
      BY <1>1, <1>2, <1>3, <2>1, <2>3, <3>1, <3>2 DEF TypeOK
  <2>7. ASSUME NEW k, NEW a \in Agents
        PROVE  /\ OnTheWay(Entry(k, a))' \in Nat
               /\ OnTheWay(Entry(k, a))
                    = OnTheWay(Entry(k, a))' + IF Entry(k, a) = e THEN 1 ELSE 0
    <3> DEFINE m == Entry(k, a)
    <3>1. /\ OnTheWay(m) = CountIn(flushChan, m) + CountIn(laneChan, m) + CountIn(lanes[a], m)
          /\ CountIn(flushChan, m) \in Nat /\ CountIn(laneChan, m) \in Nat
          /\ CountIn(lanes[a], m) \in Nat
      BY <1>2, OnTheWayIs
    <3>2. OnTheWay(m)' = CountIn(flushChan, m) + CountIn(laneChan, m) + CountIn(lanes'[a], m)
      BY <1>1, EntryParts DEF OnTheWay
    <3>3. /\ CountIn(lanes'[a], m) \in Nat
          /\ CountIn(lanes[a], m) = CountIn(lanes'[a], m) + IF e = m THEN 1 ELSE 0
      <4>1. CASE a = b
        <5>1. lanes[a] = q /\ lanes'[a] = Tail(q)
          BY <2>3, <4>1 DEF q
        <5> HIDE DEF m
        <5> QED
          BY <2>5, <5>1
      <4>2. CASE a # b
        <5>1. e # m
          BY <2>4, <4>2, EntryParts DEF EntriesFor
        <5> HIDE DEF m
        <5> QED
          BY <2>3, <3>1, <4>2, <5>1
      <4> QED
        BY <4>1, <4>2
    <3> HIDE DEF m
    <3>4. OnTheWay(m)' \in Nat /\ OnTheWay(m) = OnTheWay(m)' + IF m = e THEN 1 ELSE 0
      BY <3>1, <3>2, <3>3
    <3> QED
      BY <3>4 DEF m
  <2>8. \A a \in Agents : CountIn(doneChan', a) = IF a = b THEN 0 ELSE CountIn(doneChan, a)
    BY <1>6
  <2>9. occupied' = occupied \cup {b}
    BY <1>6, <2>1
  <2> QED
    BY <1>1, <1>3, <1>6, <2>1, <2>3, <2>4, <2>6, <2>7, <2>8, <2>9, StartKeeps
<1> QED
  BY <1>7, <1>8

(* The blocking task looks at the mail. *)
LEMMA FlushKeeps ==
  ASSUME RingsAreAccounted, NEW b \in Agents, Flush(b)
  PROVE  Kept
<1>1. /\ started[b] > 0 /\ started' = [started EXCEPT ![b] = @ - 1]
      /\ flushed' = [flushed EXCEPT ![b] = @ + 1] /\ due' = due \ {b}
      /\ UNCHANGED <<pending, caller, flushChan, laneChan, doneChan, lanes, occupied,
                     prev, roster, lastEpoch, host, announced>>
  BY DEF Flush, channels, session
<1>2. TypeOK
  BY DEF RingsAreAccounted
<1>3. TypeOK'
  BY <1>1, <1>2 DEF TypeOK
<1>4. \A m : OnTheWay(m)' = OnTheWay(m)
  BY <1>1 DEF OnTheWay
<1>5. ClaimHasEntry'
  BY <1>1, <1>4 DEF RingsAreAccounted, ClaimHasEntry
<1>6. \A a \in Agents : Busy(a)' = Busy(a)
  BY <1>1, <1>2 DEF Busy, TypeOK
<1>7. LaneHasOneDelivery'
  BY <1>1, <1>6 DEF RingsAreAccounted, LaneHasOneDelivery, Busy
<1>8. NoLostWakeup'
  BY <1>1, <1>2 DEF RingsAreAccounted, NoLostWakeup, TypeOK
<1>9. \A a \in Agents : OnWay(a)' = OnWay(a)
  BY <1>4 DEF OnWay
<1>10. BellStep
  BY <1>1, <1>6, <1>9, BellsStill
<1> QED
  BY <1>3, <1>5, <1>7, <1>8, <1>10 DEF Kept, RingsAreAccounted

(* DeliveryDone reports the completion, panic or not. *)
LEMMA TaskEndsKeeps ==
  ASSUME RingsAreAccounted, NEW b \in Agents, TaskEnds(b)
  PROVE  Kept
<1>1. /\ flushed[b] > 0 /\ flushed' = [flushed EXCEPT ![b] = @ - 1]
      /\ doneChan' = Append(doneChan, b)
      /\ UNCHANGED <<pending, caller, flushChan, laneChan, lanes, occupied, started,
                     prev, roster, lastEpoch, host, announced, due>>
  BY DEF TaskEnds, session
<1>2. TypeOK /\ doneChan \in Seq(Agents)
  BY DEF RingsAreAccounted, TypeOK
<1>3. TypeOK'
  <2>1. Append(doneChan, b) \in Seq(Agents)
    BY <1>2, AppendProperties
  <2> QED
    BY <1>1, <1>2, <2>1 DEF TypeOK
<1>4. \A m : OnTheWay(m)' = OnTheWay(m)
  BY <1>1 DEF OnTheWay
<1>5. ClaimHasEntry'
  BY <1>1, <1>4 DEF RingsAreAccounted, ClaimHasEntry
<1>6. ASSUME NEW a \in Agents
      PROVE  /\ CountIn(doneChan', a) = CountIn(doneChan, a) + IF b = a THEN 1 ELSE 0
             /\ CountIn(doneChan, a) \in Nat /\ started[a] \in Nat /\ flushed[a] \in Nat
             /\ flushed'[a] = flushed[a] - IF b = a THEN 1 ELSE 0
             /\ started[a] + flushed[a] + CountIn(doneChan, a) = IF a \in occupied THEN 1 ELSE 0
             /\ a \notin occupied => lanes[a] = <<>>
  <2>1. CountIn(doneChan', a) = CountIn(doneChan, a) + IF b = a THEN 1 ELSE 0
    BY <1>1, <1>2, CountAppend
  <2>2. CountIn(doneChan, a) \in Nat
    BY <1>2, CountType
  <2> QED
    BY <1>1, <1>2, <2>1, <2>2, Accounts DEF TypeOK
<1>7. LaneHasOneDelivery'
  BY <1>1, <1>6, SMTT(30) DEF LaneHasOneDelivery
<1>8. NoLostWakeup'
  BY <1>1 DEF RingsAreAccounted, NoLostWakeup
<1>9. \A a \in Agents : OnWay(a)' = OnWay(a)
  BY <1>4 DEF OnWay
<1>10. Busy(b) > 0 /\ \A a \in Agents : (Busy(a) > 0)' <=> a # b /\ Busy(a) > 0
  BY <1>1, <1>6 DEF Busy
<1>11. BellStep
  BY <1>1, <1>9, <1>10, BellsFinish
<1> QED
  BY <1>3, <1>5, <1>7, <1>8, <1>11 DEF Kept, RingsAreAccounted

-----------------------------------------------------------------------------
(* Sessions and the roster diff *)

(* A session that changes and a list that is taken ring no bell. *)
LEMMA SessionKeeps ==
  ASSUME RingsAreAccounted, NEW h \in HostThreads,
         ListAgents(h) \/ \E a \in Agents : SessionChanges(h, a)
  PROVE  Kept
<1>1. TypeOK /\ MaxEpoch \in Nat
  BY FlushAssumption DEF RingsAreAccounted
<1>2. UNCHANGED <<pending, caller, flushChan, laneChan, doneChan, lanes, occupied, started,
                  flushed, due>>
  BY DEF ListAgents, SessionChanges, channels, tasks
<1>3. {prev', roster', lastEpoch'} \subseteq Epochs
  <2>1. CASE ListAgents(h)
    BY <1>1, <2>1 DEF ListAgents, TypeOK
  <2>2. ASSUME NEW a \in Agents, SessionChanges(h, a) PROVE {prev', roster', lastEpoch'} \subseteq Epochs
    <3>1. prev \in Epochs /\ roster \in Epochs /\ lastEpoch \in Epochs /\ prev' = prev
      BY <1>1, <2>2 DEF TypeOK, SessionChanges
    <3>2. CASE /\ lastEpoch[a] < MaxEpoch
               /\ lastEpoch' = [lastEpoch EXCEPT ![a] = @ + 1]
               /\ roster' = [roster EXCEPT ![a] = lastEpoch'[a]]
      BY <1>1, <3>1, <3>2 DEF Epochs
    <3>3. CASE roster' = [roster EXCEPT ![a] = 0] /\ lastEpoch' = lastEpoch
      BY <1>1, <3>1, <3>3 DEF Epochs
    <3> QED
      BY <2>2, <3>1, <3>2, <3>3 DEF SessionChanges
  <2> QED
    BY <2>1, <2>2
<1>4. host' \in [HostThreads -> [pc : {"idle", "list", "dispatch"}, snap : Epochs]]
  <2>1. /\ host \in [HostThreads -> [pc : {"idle", "list", "dispatch"}, snap : Epochs]]
        /\ roster \in Epochs
    BY <1>1 DEF TypeOK
  <2>2. CASE host' = [host EXCEPT ![h] = [pc |-> "dispatch", snap |-> roster]]
    BY <2>1, <2>2
  <2>3. CASE host' = [host EXCEPT ![h].pc = "list"]
    BY <2>1, <2>3
  <2> QED
    BY <2>2, <2>3 DEF ListAgents, SessionChanges
<1>5. TypeOK'
  BY <1>1, <1>2, <1>3, <1>4 DEF TypeOK
<1>6. \A m : OnTheWay(m)' = OnTheWay(m)
  BY <1>2 DEF OnTheWay
<1> QED
  BY <1>2, <1>5, <1>6, MovesKeep

(* An order in which a finite set is sent has every element of it once. *)
LEMMA OrderIsComplete ==
  ASSUME NEW S, IsFiniteSet(S), NEW o \in SetToSeqs(S)
  PROVE  /\ Cardinality(S) \in Nat /\ o \in [1..Cardinality(S) -> S]
         /\ \A i, j \in 1..Cardinality(S) : o[i] = o[j] => i = j
         /\ \A x \in S : \E i \in 1..Cardinality(S) : o[i] = x
<1> DEFINE n == Cardinality(S)
           D == 1..n
<1>1. n \in Nat
  BY FS_CardinalityType
<1>2. o \in [D -> S] /\ \A i, j \in D : o[i] = o[j] => i = j
  BY DEF SetToSeqs
<1>3. IsFiniteSet(D) /\ Cardinality(D) = n
  <2> HIDE DEF n
  <2>1. IsFiniteSet(1..n) /\ Cardinality(1..n) = n
    BY <1>1, FS_Interval
  <2> QED
    BY <2>1
<1> HIDE DEF D
<1>4. o \in Injection(D, S)
  BY <1>2 DEF Injection, IsInjective
<1>5. o \in Surjection(D, S)
  BY <1>3, <1>4, FS_Injection
<1>6. \A x \in S : \E i \in D : o[i] = x
  BY <1>5 DEF Surjection
<1> QED
  BY <1>1, <1>2, <1>6 DEF D

(* The Appear entries of a dispatch: one for each agent that appeared. *)
LEMMA AppearEntries ==
  ASSUME NEW S \in SUBSET Agents, NEW o \in SetToSeqs(S)
  PROVE  LET L == [i \in DOMAIN o |-> Entry("Appear", o[i])]
         IN  /\ L \in Seq(EntriesFor(Agents))
             /\ \A a \in Agents :
                  /\ CountIn(L, Entry("Appear", a)) = IF a \in S THEN 1 ELSE 0
                  /\ CountIn(L, Entry("Idle", a)) = 0
<1> DEFINE L == [i \in DOMAIN o |-> Entry("Appear", o[i])]
<1>1. IsFiniteSet(S)
  BY FlushAssumption, FS_Subset
<1>2. PICK n \in Nat :
        /\ o \in [1..n -> S]
        /\ \A i, j \in 1..n : o[i] = o[j] => i = j
        /\ \A x \in S : \E i \in 1..n : o[i] = x
  BY <1>1, OrderIsComplete
<1>3. DOMAIN L = 1..n /\ \A i \in 1..n : L[i] = Entry("Appear", o[i])
  BY <1>2
<1>4. L \in Seq(EntriesFor(Agents))
  <2>1. \A i \in 1..n : Entry("Appear", o[i]) \in EntriesFor(Agents)
    BY <1>2 DEF Entry, EntriesFor
  <2>2. L \in [1..n -> EntriesFor(Agents)]
    BY <1>2, <2>1
  <2> HIDE DEF L
  <2> QED
    BY <2>2, SeqDef
<1> HIDE DEF L
<1>5. ASSUME NEW a \in Agents
      PROVE  /\ CountIn(L, Entry("Appear", a)) = IF a \in S THEN 1 ELSE 0
             /\ CountIn(L, Entry("Idle", a)) = 0
  <2>1. \A i \in 1..n : (L[i] = Entry("Appear", a) <=> o[i] = a) /\ L[i] # Entry("Idle", a)
    BY <1>3, EntriesDiffer
  <2>2. At(L, Entry("Idle", a)) = {}
    BY <1>3, <2>1 DEF At
  <2>3. At(L, Entry("Appear", a)) = {i \in 1..n : o[i] = a}
    BY <1>3, <2>1 DEF At
  <2>4. CountIn(L, Entry("Idle", a)) = 0
    BY <2>2, FS_EmptySet DEF CountIn, At
  <2>5. CASE a \in S
    <3>1. PICK i \in 1..n : o[i] = a
      BY <1>2, <2>5
    <3>2. At(L, Entry("Appear", a)) = {i}
      BY <1>2, <2>3, <3>1
    <3>3. Cardinality({i}) = 1
      BY FS_Singleton
    <3> QED
      BY <2>4, <2>5, <3>2, <3>3 DEF CountIn, At
  <2>6. CASE a \notin S
    <3>1. At(L, Entry("Appear", a)) = {}
      BY <1>2, <2>3, <2>6
    <3> QED
      BY <2>4, <2>6, <3>1, FS_EmptySet DEF CountIn, At
  <2> QED
    BY <2>5, <2>6
<1> QED
  BY <1>4, <1>5 DEF L

(* RosterDiff::dispatch sends one Appear entry for each incarnation that   *)
(* is new to it, and claims nothing.                                       *)
LEMMA DispatchKeeps ==
  ASSUME RingsAreAccounted, NEW h \in HostThreads, Dispatch(h)
  PROVE  Kept
<1> DEFINE snap == host[h].snap
           S    == Appeared(snap)
<1>1. /\ prev' = snap /\ host' = [host EXCEPT ![h] = Quiet]
      /\ UNCHANGED <<pending, caller, laneChan, doneChan, lanes, occupied, started, flushed,
                     roster, lastEpoch, due>>
  BY DEF Dispatch, tasks
<1>2. TypeOK /\ S \in SUBSET Agents /\ MaxEpoch \in Nat
  BY FlushAssumption DEF RingsAreAccounted, Appeared
<1>3. PICK o \in SetToSeqs(S) :
        flushChan' = flushChan \o [i \in DOMAIN o |-> Entry("Appear", o[i])]
  BY DEF Dispatch
<1> DEFINE L == [i \in DOMAIN o |-> Entry("Appear", o[i])]
<1> HIDE DEF S
<1>4. /\ L \in Seq(EntriesFor(Agents))
      /\ \A a \in Agents :
           /\ CountIn(L, Entry("Appear", a)) = IF a \in S THEN 1 ELSE 0
           /\ CountIn(L, Entry("Idle", a)) = 0
  BY <1>2, AppearEntries
<1>5. flushChan' = flushChan \o L
  BY <1>3
<1> HIDE DEF L
<1>6. flushChan \in Seq(EntriesFor(Agents))
  BY <1>2 DEF TypeOK
<1>7. TypeOK'
  <2>1. flushChan' \in Seq(EntriesFor(Agents))
    BY <1>4, <1>5, <1>6, ConcatProperties
  <2>2. snap \in Epochs /\ Quiet \in [pc : {"idle", "list", "dispatch"}, snap : Epochs]
    BY <1>2 DEF TypeOK, Quiet, Epochs
  <2>3. host' \in [HostThreads -> [pc : {"idle", "list", "dispatch"}, snap : Epochs]]
    BY <1>1, <1>2, <2>2 DEF TypeOK
  <2> HIDE DEF snap
  <2> QED
    BY <1>1, <1>2, <2>1, <2>2, <2>3 DEF TypeOK
<1>8. ASSUME NEW k, NEW a \in Agents
      PROVE  OnTheWay(Entry(k, a))' = OnTheWay(Entry(k, a)) + CountIn(L, Entry(k, a))
  <2> DEFINE m == Entry(k, a)
  <2>1. /\ OnTheWay(m) = CountIn(flushChan, m) + CountIn(laneChan, m) + CountIn(lanes[a], m)
        /\ CountIn(flushChan, m) \in Nat /\ CountIn(laneChan, m) \in Nat
        /\ CountIn(lanes[a], m) \in Nat
    BY <1>2, OnTheWayIs
  <2>2. OnTheWay(m)' = CountIn(flushChan', m) + CountIn(laneChan, m) + CountIn(lanes[a], m)
    BY <1>1, EntryParts DEF OnTheWay
  <2> HIDE DEF m
  <2>3. CountIn(flushChan \o L, m) = CountIn(flushChan, m) + CountIn(L, m)
    BY <1>4, <1>6, CountConcat
  <2>4. CountIn(L, m) \in Nat
    BY <1>4, CountType
  <2>5. OnTheWay(m)' = OnTheWay(m) + CountIn(L, m)
    BY <1>5, <2>1, <2>2, <2>3, <2>4
  <2> QED
    BY <2>5 DEF m
<1>9. ClaimHasEntry'
  <2>1. ASSUME NEW a \in Agents PROVE OnTheWay(Entry("Idle", a))' = OnTheWay(Entry("Idle", a))
    <3>1. OnTheWay(Entry("Idle", a)) \in Nat
      BY <1>2, OnTheWayIs
    <3>2. OnTheWay(Entry("Idle", a))' = OnTheWay(Entry("Idle", a)) + 0
      BY <1>4, <1>8
    <3> QED
      BY <3>1, <3>2
  <2> QED
    BY <1>1, <2>1 DEF RingsAreAccounted, ClaimHasEntry
<1>10. LaneHasOneDelivery' /\ NoLostWakeup'
  BY <1>1 DEF RingsAreAccounted, LaneHasOneDelivery, NoLostWakeup
<1>11. BellStep
  <2>1. ASSUME NEW a \in Agents
        PROVE  OnWay(a)' = IF a \in S THEN OnWay(a) + 1 ELSE OnWay(a)
    <3>1. OnTheWay(Entry("Appear", a)) \in Nat
      BY <1>2, OnTheWayIs
    <3>2. OnTheWay(Entry("Appear", a))'
            = OnTheWay(Entry("Appear", a)) + CountIn(L, Entry("Appear", a))
      BY <1>8
    <3>3. OnWay(a)' = OnWay(a) + IF a \in S THEN 1 ELSE 0
      BY <1>4, <3>2 DEF OnWay
    <3>4. OnWay(a) \in Nat
      BY <3>1 DEF OnWay
    <3> QED
      BY <3>3, <3>4
  <2>2. \A a \in Agents : Busy(a)' = Busy(a)
    BY <1>1 DEF Busy
  <2> QED
    BY <1>1, <1>2, <2>1, <2>2, BellsAnnounce
<1> QED
  BY <1>7, <1>9, <1>10, <1>11 DEF Kept, RingsAreAccounted

-----------------------------------------------------------------------------
(* The accounts and the doorbells *)

(* Nothing is on the way at first, and the doorbells are silent. *)
LEMMA InitKept == Init => RingsAreAccounted /\ Bells!Init
<1> SUFFICES ASSUME Init PROVE RingsAreAccounted /\ Bells!Init
  OBVIOUS
<1>1. MaxEpoch \in Nat /\ None \notin Agents
  BY FlushAssumption DEF None
<1>2. /\ pending = {} /\ caller = [c \in Callers |-> None]
      /\ flushChan = <<>> /\ laneChan = <<>> /\ doneChan = <<>>
      /\ lanes = [a \in Agents |-> <<>>] /\ occupied = {}
      /\ started = [a \in Agents |-> 0] /\ flushed = [a \in Agents |-> 0]
      /\ due = {}
  BY DEF Init
<1>3. TypeOK
  <2>1. {prev, roster, lastEpoch} \subseteq Epochs
    BY <1>1 DEF Init, Epochs
  <2>2. host \in [HostThreads -> [pc : {"idle", "list", "dispatch"}, snap : Epochs]]
    BY <1>1 DEF Init, Quiet, Epochs
  <2> QED
    BY <1>2, <2>1, <2>2 DEF TypeOK
<1>4. \A k : \A a \in Agents : OnTheWay(Entry(k, a)) = 0
  BY <1>2, EntryParts, CountEmpty DEF OnTheWay
<1>5. \A a \in Agents : Cardinality(Claimants(a)) = 0
  <2>1. \A a \in Agents : Claimants(a) = {}
    BY <1>1, <1>2 DEF Claimants
  <2> QED
    BY <2>1, FS_EmptySet
<1>6. ClaimHasEntry
  BY <1>2, <1>4, <1>5 DEF ClaimHasEntry, Claimants
<1>7. LaneHasOneDelivery /\ NoLostWakeup
  BY <1>2, CountEmpty DEF LaneHasOneDelivery, NoLostWakeup
<1>8. Bells!Init
  <2>1. [a \in Agents |-> OnTheWay(Entry("Appear", a))] = [a \in Agents |-> 0]
    BY <1>4
  <2>2. {a \in Agents : started[a] + flushed[a] > 0} = {}
    BY <1>2
  <2> QED
    BY <1>2, <2>1, <2>2 DEF Bells!Init
<1> QED
  BY <1>3, <1>6, <1>7, <1>8 DEF RingsAreAccounted

(* Every step keeps the accounts and is a step of the doorbells or none. *)
LEMMA StepKeeps == RingsAreAccounted /\ [Next]_vars => Kept
<1> SUFFICES ASSUME RingsAreAccounted, [Next]_vars PROVE Kept
  OBVIOUS
<1>1. ASSUME NEW c \in Callers, SendIdle(c) \/ \E a \in Agents : Claim(c, a) PROVE Kept
  BY <1>1, SendIdleKeeps, ClaimKeeps
<1>2. ASSUME Forward \/ Receive \/ Advance PROVE Kept
  BY <1>2, ForwardKeeps, ReceiveKeeps, AdvanceKeeps
<1>3. ASSUME NEW a \in Agents, Flush(a) \/ TaskEnds(a) PROVE Kept
  BY <1>3, FlushKeeps, TaskEndsKeeps
<1>4. ASSUME NEW h \in HostThreads,
             \/ \E a \in Agents : SessionChanges(h, a)
             \/ ListAgents(h) \/ Dispatch(h)
      PROVE  Kept
  BY <1>4, SessionKeeps, DispatchKeeps
<1>5. CASE UNCHANGED vars
  <2>1. UNCHANGED <<pending, caller, flushChan, laneChan, doneChan, lanes, occupied, started,
                    flushed, prev, roster, lastEpoch, host, due>>
    BY <1>5 DEF vars, channels, tasks, session
  <2>2. TypeOK'
    BY <2>1 DEF RingsAreAccounted, TypeOK
  <2>3. \A m : OnTheWay(m)' = OnTheWay(m)
    BY <2>1 DEF OnTheWay
  <2> QED
    BY <2>1, <2>2, <2>3, MovesKeep
<1> QED
  BY <1>1, <1>2, <1>3, <1>4, <1>5 DEF Next

(* messaging_host.rs, the coalescer and the lanes: for any agents, callers *)
(* and host threads, a claim stands for exactly one entry on its way, a    *)
(* lane is occupied exactly while one delivery for it runs or reports, and *)
(* no ring is lost.                                                        *)
THEOREM EveryRingIsAccounted == Spec => []RingsAreAccounted
<1>1. RingsAreAccounted /\ [Next]_vars => RingsAreAccounted'
  BY StepKeeps DEF Kept
<1> QED
  BY <1>1, InitKept, PTL DEF Spec

(* The channels and tasks of messaging_host.rs are doorbells: every        *)
(* behaviour of theirs, with the claims read as bells and the Appear       *)
(* entries as appearances, is one the messaging kernel is written for.     *)
THEOREM LanesAreDoorbells == Spec => ImplementsDoorbells
<1>1. RingsAreAccounted /\ [Next]_vars => RingsAreAccounted'
  BY StepKeeps DEF Kept
<1>2. RingsAreAccounted /\ [Next]_vars => [Bells!Next]_Bells!vars
  BY StepKeeps DEF Kept, BellStep
<1> QED
  BY <1>1, <1>2, InitKept, PTL DEF Spec, ImplementsDoorbells, Bells!Spec

-----------------------------------------------------------------------------
(* Appearances *)

(* What is behind IncarnationsAppear: the incarnation the diff last saw    *)
(* has had its Appear, and of a live incarnation that has not, some thread *)
(* is about to take a list, or holds one that shows it.                    *)
AppearanceIsDue ==
  /\ \A a \in Agents : prev[a] # 0 => <<a, prev[a]>> \in announced
  /\ \A a \in Agents : roster[a] # 0 =>
       \/ <<a, roster[a]>> \in announced
       \/ \E h \in HostThreads :
            \/ host[h].pc = "list"
            \/ host[h].pc = "dispatch" /\ host[h].snap[a] = roster[a]

(* A step that leaves the sessions alone leaves that alone. *)
LEMMA SessionsStill ==
  ASSUME AppearanceIsDue, UNCHANGED <<prev, roster, host, announced>>
  PROVE  AppearanceIsDue'
BY DEF AppearanceIsDue

(* A session that changes is behind a thread about to take a list. *)
LEMMA SessionChangeAppears ==
  ASSUME TypeOK, AppearanceIsDue, NEW h \in HostThreads, NEW a \in Agents,
         SessionChanges(h, a)
  PROVE  AppearanceIsDue'
<1>1. prev' = prev /\ announced' = announced /\ host' = [host EXCEPT ![h].pc = "list"]
  BY DEF SessionChanges
<1>2. host'[h].pc = "list"
  BY <1>1 DEF TypeOK
<1> QED
  BY <1>1, <1>2 DEF AppearanceIsDue

(* A list that is taken shows every live incarnation. *)
LEMMA ListAppears ==
  ASSUME TypeOK, AppearanceIsDue, NEW h \in HostThreads, ListAgents(h)
  PROVE  AppearanceIsDue'
<1>1. /\ prev' = prev /\ announced' = announced /\ roster' = roster
      /\ host' = [host EXCEPT ![h] = [pc |-> "dispatch", snap |-> roster]]
  BY DEF ListAgents
<1>2. host'[h].pc = "dispatch" /\ host'[h].snap = roster
  BY <1>1 DEF TypeOK
<1> QED
  BY <1>1, <1>2 DEF AppearanceIsDue

(* A dispatch announces what its list shows, whichever list came before. *)
LEMMA DispatchAppears ==
  ASSUME TypeOK, AppearanceIsDue, NEW h \in HostThreads, Dispatch(h)
  PROVE  AppearanceIsDue'
<1> DEFINE snap == host[h].snap
<1>1. /\ prev' = snap /\ roster' = roster /\ host' = [host EXCEPT ![h] = Quiet]
      /\ announced' = announced \cup {<<a, snap[a]>> : a \in Appeared(snap)}
      /\ host[h].pc = "dispatch"
  BY DEF Dispatch
<1>2. ASSUME NEW a \in Agents, snap[a] # 0 PROVE <<a, snap[a]>> \in announced'
  <2>1. CASE snap[a] = prev[a]
    BY <1>1, <1>2, <2>1 DEF AppearanceIsDue
  <2>2. CASE snap[a] # prev[a]
    <3>1. a \in Appeared(snap)
      BY <1>2, <2>2 DEF Appeared
    <3> QED
      BY <1>1, <3>1
  <2> QED
    BY <2>1, <2>2
<1>3. \A g \in HostThreads \ {h} : host'[g] = host[g]
  BY <1>1 DEF TypeOK
<1>4. ASSUME NEW a \in Agents, roster[a] # 0
      PROVE  \/ <<a, roster[a]>> \in announced'
             \/ \E g \in HostThreads :
                  \/ host'[g].pc = "list"
                  \/ host'[g].pc = "dispatch" /\ host'[g].snap[a] = roster[a]
  <2>1. CASE <<a, roster[a]>> \in announced
    BY <1>1, <2>1
  <2>2. CASE snap[a] = roster[a]
    BY <1>2, <1>4, <2>2
  <2>3. CASE <<a, roster[a]>> \notin announced /\ snap[a] # roster[a]
    <3>1. PICK g \in HostThreads :
            \/ host[g].pc = "list"
            \/ host[g].pc = "dispatch" /\ host[g].snap[a] = roster[a]
      BY <1>4, <2>3 DEF AppearanceIsDue
    <3>2. g # h
      BY <1>1, <2>3, <3>1
    <3> QED
      BY <1>3, <3>1, <3>2
  <2> QED
    BY <2>1, <2>2, <2>3
<1> QED
  BY <1>1, <1>2, <1>4 DEF AppearanceIsDue

(* RosterDiff: whatever order the lists of several threads are dispatched  *)
(* in, once no list update is under way every live incarnation has had its *)
(* Appear.                                                                 *)
THEOREM EveryIncarnationAppears == Spec => []IncarnationsAppear
<1>1. Init => AppearanceIsDue
  BY DEF Init, AppearanceIsDue
<1>2. RingsAreAccounted /\ AppearanceIsDue /\ [Next]_vars => AppearanceIsDue'
  <2> SUFFICES ASSUME RingsAreAccounted, AppearanceIsDue, [Next]_vars PROVE AppearanceIsDue'
    OBVIOUS
  <2>1. TypeOK
    BY DEF RingsAreAccounted
  <2>2. CASE UNCHANGED <<prev, roster, host, announced>>
    BY <2>2, SessionsStill
  <2>3. ASSUME NEW h \in HostThreads,
               \/ \E a \in Agents : SessionChanges(h, a)
               \/ ListAgents(h) \/ Dispatch(h)
        PROVE  AppearanceIsDue'
    BY <2>1, <2>3, SessionChangeAppears, ListAppears, DispatchAppears
  <2>4. ASSUME \/ \E c \in Callers : SendIdle(c) \/ \E a \in Agents : Claim(c, a)
               \/ Forward \/ Receive \/ Advance
               \/ \E a \in Agents : Flush(a) \/ TaskEnds(a)
               \/ UNCHANGED vars
        PROVE  UNCHANGED <<prev, roster, host, announced>>
    BY <2>4 DEF SendIdle, Claim, Forward, Receive, Advance, Flush, TaskEnds, vars, session
  <2> QED
    BY <2>2, <2>3, <2>4 DEF Next
<1>3. AppearanceIsDue => IncarnationsAppear
  BY DEF AppearanceIsDue, IncarnationsAppear
<1>4. RingsAreAccounted /\ [Next]_vars => RingsAreAccounted'
  BY StepKeeps DEF Kept
<1> QED
  BY <1>1, <1>2, <1>3, <1>4, InitKept, PTL DEF Spec

=============================================================================
