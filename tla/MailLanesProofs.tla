-------------------------- MODULE MailLanesProofs --------------------------
(***************************************************************************)
(* For every set of agents, every cap and every number of letters: the     *)
(* message lane is bounded and no letter overtakes an older one.           *)
(***************************************************************************)
EXTENDS MailLanes, FiniteSetTheorems, TLAPS

(* A lane is finite and its size a natural number in every ordered state. *)
LEMMA LaneFinite ==
  ASSUME NEW r \in Agents, NEW k \in Kinds, IsFiniteSet(Outstanding(r))
  PROVE  IsFiniteSet(Lane(r, k)) /\ LaneLen(r, k) \in Nat
<1>1. Lane(r, k) \in SUBSET Outstanding(r)
  BY DEF Lane
<1>2. IsFiniteSet(Lane(r, k))
  BY <1>1, FS_Subset
<1>3. QED
  BY <1>2, FS_CardinalityType DEF LaneLen

(* Shrinking the outstanding letters of a recipient cannot break the bound. *)
LEMMA LaneShrinks ==
  ASSUME NEW S, NEW T \in SUBSET S, IsFiniteSet(S), NEW k
  PROVE  LET s == {l \in S : l.kind = k}
             t == {l \in T : l.kind = k}
         IN  /\ IsFiniteSet(T)
             /\ Cardinality(t) \in Nat
             /\ Cardinality(s) \in Nat
             /\ Cardinality(t) <= Cardinality(s)
<1> DEFINE s == {l \in S : l.kind = k}
           t == {l \in T : l.kind = k}
<1>1. IsFiniteSet(T) /\ s \in SUBSET S /\ t \in SUBSET s
  BY FS_Subset
<1>2. IsFiniteSet(s)
  BY <1>1, FS_Subset
<1>3. IsFiniteSet(t) /\ Cardinality(t) <= Cardinality(s)
  BY <1>1, <1>2, FS_Subset
<1>4. QED
  BY <1>1, <1>2, <1>3, FS_CardinalityType

(* The initial state satisfies the inductive invariant: every lane is empty. *)
LEMMA InitIInv == Init => IInv
<1> SUFFICES ASSUME Init PROVE IInv
  OBVIOUS
<1> USE DEF Init
<1>1. TypeOK
  BY DEF TypeOK
<1>2. ASSUME NEW r \in Agents
      PROVE  Outstanding(r) = {} /\ Ordered(r) /\ lastOut[r] < nextSeq
             /\ LaneLen(r, "Message") = 0
  <2>1. Outstanding(r) = {} /\ flying[r] = {} /\ queued[r] = {}
    BY DEF Outstanding
  <2>2. Lane(r, "Message") = {}
    BY <2>1 DEF Lane
  <2>3. QED
    BY <2>1, <2>2, FS_EmptySet DEF Ordered, LaneLen
<1>3. MessageLaneBound
  BY <1>2, CapsAssumption DEF MessageLaneBound
<1>4. QED
  BY <1>1, <1>2, <1>3 DEF IInv

(* The part of the invariant that is about one recipient. *)
Good(r) == Ordered(r) /\ lastOut[r] < nextSeq /\ LaneLen(r, "Message") <= MAILBOX_CAP

(* A step touches some recipients and has to re-establish their part only: *)
(* the others keep their letters and the next admission number may only    *)
(* have grown.                                                             *)
LEMMA PerRecipient ==
  ASSUME IInv, TypeOK', nextSeq <= nextSeq',
         \A s \in Agents : \/ Good(s)'
                          \/ /\ queued'[s] = queued[s]
                             /\ flying'[s] = flying[s]
                             /\ lastOut'[s] = lastOut[s]
  PROVE  IInv'
<1>1. ASSUME NEW s \in Agents, ~Good(s)'
      PROVE  Good(s)'
  <2>1. /\ queued'[s] = queued[s]
        /\ flying'[s] = flying[s]
        /\ lastOut'[s] = lastOut[s]
    BY <1>1
  <2>2. Outstanding(s)' = Outstanding(s)
    BY <2>1 DEF Outstanding
  <2>3. LaneLen(s, "Message")' = LaneLen(s, "Message")
    BY <2>2 DEF LaneLen, Lane
  <2>4. LaneLen(s, "Message") <= MAILBOX_CAP
    BY DEF IInv, MessageLaneBound
  <2>5. Ordered(s) /\ lastOut[s] < nextSeq
    BY DEF IInv
  <2>6. Outstanding(s) \subseteq Letters /\ lastOut[s] \in Nat
        /\ nextSeq \in Nat /\ nextSeq' \in Nat
    BY DEF IInv, TypeOK, Outstanding
  <2>7. \A l \in Outstanding(s) : l.seq \in Nat
    BY <2>6 DEF Letters
  <2>8. lastOut'[s] < nextSeq'
    BY <2>1, <2>5, <2>6
  <2>9. Ordered(s)'
    <3>1. IsFiniteSet(Outstanding(s)')
      BY <2>2, <2>5 DEF Ordered
    <3>2. \A l \in Outstanding(s)' : lastOut'[s] < l.seq /\ l.seq < nextSeq'
      BY <2>1, <2>2, <2>5, <2>6, <2>7 DEF Ordered
    <3>3. \A l, m \in Outstanding(s)' : l.seq = m.seq => l = m
      BY <2>2, <2>5 DEF Ordered
    <3>4. \A f \in flying'[s], q \in queued'[s] : f.seq < q.seq
      BY <2>1, <2>5 DEF Ordered
    <3>5. QED
      BY <3>1, <3>2, <3>3, <3>4 DEF Ordered
  <2>10. QED
    BY <2>3, <2>4, <2>8, <2>9 DEF Good
<1>2. \A s \in Agents : Good(s)'
  BY <1>1
<1>3. QED
  BY <1>2 DEF IInv, Good, MessageLaneBound

(* What the invariant says of the letters of one recipient. *)
LEMMA LettersOf ==
  ASSUME IInv, NEW r \in Agents
  PROVE  /\ queued[r] \subseteq Letters /\ flying[r] \subseteq Letters
         /\ \A l \in Outstanding(r) : l.seq \in Nat /\ l.kind \in Kinds
         /\ lastOut[r] \in Nat /\ nextSeq \in Nat
         /\ Ordered(r) /\ lastOut[r] < nextSeq
         /\ IsFiniteSet(Outstanding(r))
         /\ LaneLen(r, "Message") \in Nat
         /\ LaneLen(r, "Message") <= MAILBOX_CAP
<1>1. queued[r] \subseteq Letters /\ flying[r] \subseteq Letters
      /\ lastOut[r] \in Nat /\ nextSeq \in Nat
  BY DEF IInv, TypeOK
<1>2. Ordered(r) /\ lastOut[r] < nextSeq /\ LaneLen(r, "Message") <= MAILBOX_CAP
  BY DEF IInv, MessageLaneBound
<1>3. IsFiniteSet(Outstanding(r))
  BY <1>2 DEF Ordered
<1>4. LaneLen(r, "Message") \in Nat
  BY <1>3, LaneFinite DEF Kinds
<1>5. \A l \in Outstanding(r) : l.seq \in Nat /\ l.kind \in Kinds
  BY <1>1 DEF Outstanding, Letters
<1>6. QED
  BY <1>1, <1>2, <1>3, <1>4, <1>5

(* A step after which r's outstanding letters are a subset of what they    *)
(* were, with the numbers left alone, keeps the lane bound.                *)
LEMMA BoundShrinks ==
  ASSUME IInv, NEW r \in Agents, Outstanding(r)' \subseteq Outstanding(r)
  PROVE  LaneLen(r, "Message")' <= MAILBOX_CAP /\ IsFiniteSet(Outstanding(r)')
<1>1. IsFiniteSet(Outstanding(r)) /\ LaneLen(r, "Message") <= MAILBOX_CAP
      /\ LaneLen(r, "Message") \in Nat
  BY LettersOf
<1>2. Outstanding(r)' \in SUBSET Outstanding(r)
  OBVIOUS
<1>3. /\ IsFiniteSet(Outstanding(r)')
      /\ LaneLen(r, "Message")' \in Nat
      /\ LaneLen(r, "Message")' <= LaneLen(r, "Message")
  BY <1>1, <1>2, LaneShrinks DEF LaneLen, Lane
<1>4. QED
  BY <1>1, <1>3, CapsAssumption

(* One letter with a fresh number, appended behind what is kept. *)
LEMMA AppendOrdered ==
  ASSUME IInv, NEW r \in Agents, NEW new \in Letters,
         nextSeq <= new.seq, new.seq < nextSeq', nextSeq' \in Nat,
         new \in queued'[r], queued'[r] \subseteq queued[r] \cup {new},
         flying'[r] = flying[r], lastOut'[r] = lastOut[r]
  PROVE  Ordered(r)' /\ lastOut'[r] < nextSeq' /\ new \notin Outstanding(r)
<1> USE LettersOf
<1>1. new.seq \in Nat
  BY DEF Letters
<1>2. Outstanding(r)' \subseteq Outstanding(r) \cup {new}
  BY DEF Outstanding
<1>3. \A l \in Outstanding(r) :
         l.seq \in Nat /\ l.seq < new.seq /\ lastOut[r] < l.seq /\ l.seq < nextSeq'
  BY <1>1 DEF Ordered
<1>4. new \notin Outstanding(r)
  BY <1>1, <1>3
<1>5. lastOut'[r] < nextSeq' /\ lastOut'[r] < new.seq
  BY <1>1
<1>6. Ordered(r)'
  <2>1. IsFiniteSet(Outstanding(r)')
    <3>1. IsFiniteSet(Outstanding(r) \cup {new})
      BY FS_AddElement
    <3>2. QED
      BY <1>2, <3>1, FS_Subset
  <2>2. \A l \in Outstanding(r)' : lastOut'[r] < l.seq /\ l.seq < nextSeq'
    BY <1>2, <1>3, <1>5
  <2>3. \A l, m \in Outstanding(r)' : l.seq = m.seq => l = m
    <3>1. \A l, m \in Outstanding(r) : l.seq = m.seq => l = m
      BY DEF Ordered
    <3>2. \A l \in Outstanding(r) : l.seq # new.seq
      BY <1>1, <1>3
    <3>3. QED
      BY <3>1, <3>2, <1>2
  <2>4. \A f \in flying'[r], q \in queued'[r] : f.seq < q.seq
    <3>1. \A f \in flying[r], q \in queued[r] : f.seq < q.seq
      BY DEF Ordered
    <3>2. \A f \in flying[r] : f.seq < new.seq
      BY <1>3 DEF Outstanding
    <3>3. QED
      BY <3>1, <3>2
  <2>5. QED
    BY <2>1, <2>2, <2>3, <2>4 DEF Ordered
<1>7. QED
  BY <1>4, <1>5, <1>6

(* A message is admitted only below the cap, so the lane of each of the    *)
(* send's recipients grows to the cap at most.                             *)
LEMMA AdmitMessagesKeeps ==
  ASSUME IInv, NEW to \in SUBSET Agents, AdmitMessages(to)
  PROVE  IInv'
<1>1. TypeOK /\ nextSeq \in Nat \ {0}
  BY DEF IInv, TypeOK
<1>2. Cardinality(to) \in Nat /\ nextSeq' = nextSeq + Cardinality(to)
      /\ flying' = flying /\ lastOut' = lastOut
  <2>1. IsFiniteSet(to)
    BY CapsAssumption, FS_Subset
  <2>2. QED
    BY <2>1, FS_CardinalityType DEF AdmitMessages
<1>3. nextSeq' \in Nat \ {0} /\ nextSeq <= nextSeq'
  BY <1>1, <1>2
<1>4. PICK num \in [to -> nextSeq..(nextSeq' - 1)] :
        queued' = [r \in Agents |->
                     IF r \in to
                     THEN queued[r] \cup {[seq |-> num[r], kind |-> "Message"]}
                     ELSE queued[r]]
  BY DEF AdmitMessages
<1>5. \A r \in to : num[r] \in Nat /\ nextSeq <= num[r] /\ num[r] < nextSeq'
  BY <1>1, <1>3
<1>6. TypeOK'
  <2>1. ASSUME NEW r \in Agents PROVE queued'[r] \subseteq Letters
    BY <1>1, <1>4, <1>5 DEF TypeOK, Letters, Kinds
  <2>2. QED
    BY <2>1, <1>1, <1>2, <1>3, <1>4 DEF TypeOK
<1>7. ASSUME NEW r \in to PROVE Good(r)'
  <2> DEFINE new == [seq |-> num[r], kind |-> "Message"]
  <2>1. r \in Agents /\ queued[r] \in SUBSET queued[r] /\ "Message" \in Kinds
    BY DEF Kinds
  <2>2. queued'[r] = queued[r] \cup {new} /\ flying'[r] = flying[r]
        /\ lastOut'[r] = lastOut[r]
    BY <2>1, <1>2, <1>4
  <2>3. Ordered(r)' /\ lastOut'[r] < nextSeq' /\ new \notin Outstanding(r)
    <3>1. new \in Letters /\ nextSeq <= new.seq /\ new.seq < nextSeq'
      BY <2>1, <1>5 DEF Letters
    <3> HIDE DEF new
    <3>2. QED
      BY <2>1, <2>2, <3>1, <1>3, AppendOrdered
  <2>4. Lane(r, "Message")' = Lane(r, "Message") \cup {new}
        /\ new \notin Lane(r, "Message")
    BY <2>2, <2>3 DEF Lane, Outstanding
  <2>5. IsFiniteSet(Lane(r, "Message"))
    BY <2>1, LettersOf, LaneFinite
  <2>6. LaneLen(r, "Message")' = LaneLen(r, "Message") + 1
    BY <2>4, <2>5, FS_AddElement DEF LaneLen
  <2>7. LaneLen(r, "Message") < MAILBOX_CAP
    BY DEF AdmitMessages
  <2>8. LaneLen(r, "Message")' <= MAILBOX_CAP
    BY <2>1, <2>6, <2>7, LettersOf, CapsAssumption
  <2>9. QED
    BY <2>3, <2>8 DEF Good
<1>8. \A s \in Agents \ to : /\ queued'[s] = queued[s]
                             /\ flying'[s] = flying[s]
                             /\ lastOut'[s] = lastOut[s]
  BY <1>2, <1>4
<1>9. QED
  BY <1>3, <1>6, <1>7, <1>8, PerRecipient

(* A notice retires notices only: the message lane is what it was. *)
LEMMA AdmitNoticeKeeps ==
  ASSUME IInv, NEW r \in Agents, AdmitNotice(r)
  PROVE  IInv'
<1> DEFINE new == [seq |-> nextSeq, kind |-> "Notice"]
           lane == LaneLen(r, "Notice")
           want == IF lane + 1 > NOTICE_CAP THEN (lane + 1) - NOTICE_CAP ELSE 0
           gone == Oldest(QueuedNotices(r), want)
           kept == queued[r] \ gone
<1>1. Enqueue(r, kept)
  BY DEF AdmitNotice
<1>2. kept \in SUBSET queued[r] /\ "Notice" \in Kinds
  BY DEF Kinds
<1>3. \A l \in gone : l.kind = "Notice"
  BY DEF Oldest, QueuedNotices
<1> HIDE DEF gone
<1>4. TypeOK /\ nextSeq \in Nat \ {0}
  BY DEF IInv, TypeOK
<1>5. /\ queued' = [queued EXCEPT ![r] = kept \cup {new}]
      /\ nextSeq' = nextSeq + 1 /\ flying' = flying /\ lastOut' = lastOut
  BY <1>1 DEF Enqueue
<1>6. queued'[r] = kept \cup {new} /\ flying'[r] = flying[r] /\ lastOut'[r] = lastOut[r]
  BY <1>4, <1>5 DEF TypeOK
<1>7. TypeOK'
  <2>1. kept \cup {new} \subseteq Letters
    BY <1>4, LettersOf DEF Letters, Kinds
  <2>2. QED
    BY <2>1, <1>4, <1>5 DEF TypeOK
<1>8. Ordered(r)' /\ lastOut'[r] < nextSeq'
  <2>1. /\ new \in Letters /\ nextSeq <= new.seq /\ new.seq < nextSeq'
        /\ nextSeq' \in Nat
    BY <1>2, <1>4, <1>5 DEF Letters
  <2>2. new \in queued'[r] /\ queued'[r] \subseteq queued[r] \cup {new}
    BY <1>6
  <2> HIDE DEF new
  <2>3. QED
    BY <2>1, <2>2, <1>6, AppendOrdered
<1>9. Lane(r, "Message")' = Lane(r, "Message")
  <2>1. new.kind # "Message"
    OBVIOUS
  <2>2. \A l : l \in kept \cup flying[r] /\ l.kind = "Message"
               <=> l \in queued[r] \cup flying[r] /\ l.kind = "Message"
    BY <1>3
  <2>3. QED
    BY <1>6, <2>1, <2>2 DEF Lane, Outstanding
<1>10. Good(r)'
  BY <1>8, <1>9, LettersOf DEF Good, LaneLen
<1>11. \A s \in Agents \ {r} : /\ queued'[s] = queued[s]
                               /\ flying'[s] = flying[s]
                               /\ lastOut'[s] = lastOut[s]
  BY <1>4, <1>5 DEF TypeOK
<1>12. nextSeq <= nextSeq'
  BY <1>4, <1>5
<1>13. QED
  BY <1>7, <1>10, <1>11, <1>12, PerRecipient

(* The numbers are untouched and what is outstanding can only shrink: the  *)
(* shape shared by every step that is not an admission.                    *)
LEMMA ShrinkGood ==
  ASSUME IInv, NEW r \in Agents,
         Outstanding(r)' \subseteq Outstanding(r),
         nextSeq' = nextSeq,
         lastOut'[r] < nextSeq,
         \A l \in Outstanding(r)' : lastOut'[r] < l.seq,
         \A f \in flying'[r], q \in queued'[r] : f.seq < q.seq
  PROVE  Good(r)'
<1>1. LaneLen(r, "Message")' <= MAILBOX_CAP /\ IsFiniteSet(Outstanding(r)')
  BY BoundShrinks
<1>2. Ordered(r)'
  <2>1. \A l \in Outstanding(r)' : lastOut'[r] < l.seq /\ l.seq < nextSeq'
    BY LettersOf DEF Ordered
  <2>2. \A l, m \in Outstanding(r)' : l.seq = m.seq => l = m
    BY LettersOf DEF Ordered
  <2>3. QED
    BY <1>1, <2>1, <2>2 DEF Ordered
<1>3. QED
  BY <1>1, <1>2 DEF Good

(* The same for a step that touches r only. *)
LEMMA ShrinkKeeps ==
  ASSUME IInv, TypeOK', NEW r \in Agents,
         Outstanding(r)' \subseteq Outstanding(r),
         \A s \in Agents \ {r} : /\ queued'[s] = queued[s]
                                 /\ flying'[s] = flying[s]
                                 /\ lastOut'[s] = lastOut[s],
         nextSeq' = nextSeq,
         lastOut'[r] < nextSeq,
         \A l \in Outstanding(r)' : lastOut'[r] < l.seq,
         \A f \in flying'[r], q \in queued'[r] : f.seq < q.seq
  PROVE  IInv'
<1>1. Good(r)'
  BY ShrinkGood
<1>2. nextSeq <= nextSeq'
  BY LettersOf
<1>3. QED
  BY <1>1, <1>2, PerRecipient

(* A batch is taken only when nothing flies, so flying stays the older part. *)
LEMMA TakeBatchKeeps ==
  ASSUME IInv, NEW r \in Agents, TakeBatch(r)
  PROVE  IInv'
<1>1. TypeOK
  BY DEF IInv
<1>2. PICK batch \in SUBSET queued[r] : flying' = [flying EXCEPT ![r] = batch]
  BY DEF TakeBatch
<1>3. /\ queued' = [queued EXCEPT ![r] = {}]
      /\ nextSeq' = nextSeq /\ lastOut' = lastOut
  BY DEF TakeBatch
<1>4. batch \subseteq Letters
  BY LettersOf
<1>5. TypeOK'
  BY <1>1, <1>2, <1>3, <1>4 DEF TypeOK
<1>6. queued'[r] = {} /\ flying'[r] = batch
  BY <1>1, <1>2, <1>3 DEF TypeOK
<1>7. Outstanding(r)' \subseteq Outstanding(r)
  BY <1>6 DEF Outstanding
<1>8. \A s \in Agents \ {r} : /\ queued'[s] = queued[s]
                              /\ flying'[s] = flying[s]
                              /\ lastOut'[s] = lastOut[s]
  BY <1>1, <1>2, <1>3 DEF TypeOK
<1>9. \A l \in Outstanding(r)' : lastOut'[r] < l.seq
  BY <1>3, <1>7, LettersOf DEF Ordered
<1>10. QED
  BY <1>3, <1>5, <1>6, <1>7, <1>8, <1>9, LettersOf, ShrinkKeeps

(* The delivered letter is the oldest of the batch and the batch is older  *)
(* than the queue, so what stays outstanding is younger than it.           *)
LEMMA DeliverFacts ==
  ASSUME IInv, NEW r \in Agents, NEW l \in flying[r],
         \A m \in flying[r] : l.seq <= m.seq,
         lastOut' = [lastOut EXCEPT ![r] = l.seq]
  PROVE  /\ l \in Outstanding(r)
         /\ lastOut'[r] = l.seq
         /\ \A m \in Outstanding(r) : l.seq <= m.seq
         /\ \A m \in Outstanding(r) : m # l => l.seq < m.seq
<1>1. l \in Outstanding(r)
  BY DEF Outstanding
<1>2. lastOut'[r] = l.seq
  BY DEF IInv, TypeOK
<1>3. \A m \in queued[r] : l.seq < m.seq
  BY LettersOf DEF Ordered
<1>4. \A m \in Outstanding(r) : l.seq <= m.seq
  <2>1. l.seq \in Nat /\ \A m \in Outstanding(r) : m.seq \in Nat
    BY <1>1, LettersOf DEF Letters
  <2>2. \A m \in queued[r] : m \in Outstanding(r)
    BY DEF Outstanding
  <2>3. \A m \in queued[r] : l.seq <= m.seq
    BY <1>3, <2>1, <2>2
  <2>4. QED
    BY <2>3 DEF Outstanding
<1>5. \A m \in Outstanding(r) : l.seq = m.seq => l = m
  BY <1>1, LettersOf DEF Ordered
<1>6. QED
  BY <1>1, <1>2, <1>4, <1>5, LettersOf

(* A delivery takes a letter from what flies and keeps the invariant. *)
LEMMA DeliverKeeps ==
  ASSUME IInv, NEW r \in Agents, Deliver(r)
  PROVE  IInv'
<1>1. TypeOK
  BY DEF IInv
<1>2. PICK l \in flying[r] :
        /\ \A m \in flying[r] : l.seq <= m.seq
        /\ flying' = [flying EXCEPT ![r] = @ \ {l}]
        /\ lastOut' = [lastOut EXCEPT ![r] = l.seq]
        /\ queued' = queued /\ nextSeq' = nextSeq
  BY DEF Deliver
<1>3. /\ l \in Outstanding(r) /\ lastOut'[r] = l.seq
      /\ \A m \in Outstanding(r) : m # l => l.seq < m.seq
  BY <1>2, DeliverFacts
<1>4. l.seq \in Nat /\ l.seq < nextSeq
  BY <1>3, LettersOf DEF Ordered
<1>5. TypeOK'
  BY <1>1, <1>2, <1>4 DEF TypeOK
<1>6. flying'[r] = flying[r] \ {l} /\ queued'[r] = queued[r]
  BY <1>1, <1>2 DEF TypeOK
<1>7. l \notin queued[r]
  BY <1>4, LettersOf DEF Ordered
<1>8. Outstanding(r)' = Outstanding(r) \ {l}
  BY <1>6, <1>7 DEF Outstanding
<1>9. \A m \in Outstanding(r)' : lastOut'[r] < m.seq
  BY <1>3, <1>8
<1>10. \A f \in flying'[r], q \in queued'[r] : f.seq < q.seq
  BY <1>6, LettersOf DEF Ordered
<1>11. \A s \in Agents \ {r} : /\ queued'[s] = queued[s]
                               /\ flying'[s] = flying[s]
                               /\ lastOut'[s] = lastOut[s]
  BY <1>1, <1>2 DEF TypeOK
<1>12. QED
  BY <1>2, <1>3, <1>4, <1>5, <1>8, <1>9, <1>10, <1>11, ShrinkKeeps

(* A refused batch moves from flying to queued: the sum does not change. *)
LEMMA ReturnKeeps ==
  ASSUME IInv, NEW r \in Agents, Return(r)
  PROVE  IInv'
<1>1. TypeOK
  BY DEF IInv
<1>2. /\ queued' = [queued EXCEPT ![r] = @ \cup flying[r]]
      /\ flying' = [flying EXCEPT ![r] = {}]
      /\ nextSeq' = nextSeq /\ lastOut' = lastOut
  BY DEF Return
<1>3. TypeOK'
  BY <1>1, <1>2 DEF TypeOK
<1>4. queued'[r] = queued[r] \cup flying[r] /\ flying'[r] = {}
  BY <1>1, <1>2 DEF TypeOK
<1>5. Outstanding(r)' = Outstanding(r)
  BY <1>4 DEF Outstanding
<1>6. \A l \in Outstanding(r)' : lastOut'[r] < l.seq
  BY <1>2, <1>5, LettersOf DEF Ordered
<1>7. \A s \in Agents \ {r} : /\ queued'[s] = queued[s]
                              /\ flying'[s] = flying[s]
                              /\ lastOut'[s] = lastOut[s]
  BY <1>1, <1>2 DEF TypeOK
<1>8. QED
  BY <1>2, <1>3, <1>4, <1>5, <1>6, <1>7, LettersOf, ShrinkKeeps

(* Expiry and purge only remove queued letters, of any recipients. *)
LEMMA DiscardKeeps ==
  ASSUME IInv, Discard
  PROVE  IInv'
<1>1. TypeOK
  BY DEF IInv
<1>2. PICK gone : queued' = [r \in Agents |-> queued[r] \ gone]
  BY DEF Discard
<1>3. flying' = flying /\ nextSeq' = nextSeq /\ lastOut' = lastOut
  BY DEF Discard
<1>4. TypeOK'
  BY <1>1, <1>2, <1>3 DEF TypeOK
<1>5. ASSUME NEW r \in Agents PROVE Good(r)'
  <2>1. queued'[r] \subseteq queued[r] /\ flying'[r] = flying[r]
    BY <1>2, <1>3
  <2>2. Outstanding(r)' \subseteq Outstanding(r)
    BY <2>1 DEF Outstanding
  <2>3. \A l \in Outstanding(r)' : lastOut'[r] < l.seq
    BY <1>3, <2>2, LettersOf DEF Ordered
  <2>4. \A f \in flying'[r], q \in queued'[r] : f.seq < q.seq
    BY <2>1, LettersOf DEF Ordered
  <2>5. lastOut'[r] < nextSeq
    BY <1>3, LettersOf
  <2>6. QED
    BY <1>3, <2>2, <2>3, <2>4, <2>5, ShrinkGood
<1>6. nextSeq <= nextSeq'
  BY <1>1, <1>3 DEF TypeOK
<1>7. QED
  BY <1>4, <1>5, <1>6, PerRecipient

(* A step that changes nothing keeps the invariant. *)
LEMMA StutterKeeps == IInv /\ UNCHANGED vars => IInv'
  BY DEF IInv, vars, TypeOK, MessageLaneBound, Ordered, LaneLen, Lane, Outstanding

(* The invariant is inductive. *)
LEMMA NextIInv == IInv /\ [Next]_vars => IInv'
<1> SUFFICES ASSUME IInv, [Next]_vars PROVE IInv'
  OBVIOUS
<1>1. CASE UNCHANGED vars
  BY <1>1, StutterKeeps
<1>2. CASE Next
  <2>1. CASE \E to \in SUBSET Agents : AdmitMessages(to)
    BY <2>1, AdmitMessagesKeeps
  <2>2. CASE Discard
    BY <2>2, DiscardKeeps
  <2>3. CASE \E r \in Agents : \/ AdmitNotice(r) \/ TakeBatch(r)
                               \/ Deliver(r) \/ Return(r)
    BY <2>3, AdmitNoticeKeeps, TakeBatchKeeps, DeliverKeeps, ReturnKeeps
  <2>4. QED
    BY <1>2, <2>1, <2>2, <2>3 DEF Next
<1>3. QED
  BY <1>1, <1>2

(* The inductive invariant holds in every reachable state of the store. *)
THEOREM Invariance == Spec => []IInv
  BY InitIInv, NextIInv, PTL DEF Spec

(* Type correctness of the parking store, for every cap and set of agents. *)
THEOREM TypeCorrect == Spec => []TypeOK
<1>1. IInv => TypeOK
  BY DEF IInv
<1>2. QED
  BY <1>1, Invariance, PTL

(* mailbox.rs MAILBOX_CAP: queued plus in-flight messages of a recipient   *)
(* never exceed the cap, whatever sends, drains and refusals interleave.   *)
THEOREM LaneBounded == Spec => []MessageLaneBound
<1>1. IInv => MessageLaneBound
  BY DEF IInv
<1>2. QED
  BY <1>1, Invariance, PTL

(* ADR-0125: a letter reaches its recipient only when no older letter of   *)
(* that recipient is outstanding, and never twice.                         *)
THEOREM DeliveryOrder == Spec => NeverOvertaken
<1> DEFINE InOrder == \A r \in Agents : lastOut'[r] # lastOut[r] =>
                        /\ lastOut'[r] > lastOut[r]
                        /\ \A l \in Outstanding(r) : l.seq >= lastOut'[r]
<1>1. IInv /\ [Next]_vars => [InOrder]_vars
  <2> SUFFICES ASSUME IInv, Next, NEW r \in Agents, lastOut'[r] # lastOut[r]
               PROVE  /\ lastOut'[r] > lastOut[r]
                      /\ \A l \in Outstanding(r) : l.seq >= lastOut'[r]
    OBVIOUS
  <2>1. lastOut' # lastOut
    OBVIOUS
  <2>2. ~Discard /\ \A to \in SUBSET Agents : ~AdmitMessages(to)
    BY <2>1 DEF Discard, AdmitMessages
  <2>3. PICK s \in Agents : Deliver(s)
    BY <2>1, <2>2 DEF Next, AdmitNotice, Enqueue, TakeBatch, Return
  <2>4. PICK l \in flying[s] :
          /\ \A m \in flying[s] : l.seq <= m.seq
          /\ lastOut' = [lastOut EXCEPT ![s] = l.seq]
    BY <2>3 DEF Deliver
  <2>5. s = r
    BY <2>4 DEF IInv, TypeOK
  <2>6. /\ l \in Outstanding(r) /\ lastOut'[r] = l.seq
        /\ \A m \in Outstanding(r) : l.seq <= m.seq
    BY <2>4, <2>5, DeliverFacts
  <2>7. lastOut[r] < l.seq
    BY <2>6, LettersOf DEF Ordered
  <2>8. QED
    BY <2>6, <2>7, LettersOf
<1>2. QED
  BY <1>1, Invariance, PTL DEF Spec, NeverOvertaken
=============================================================================
