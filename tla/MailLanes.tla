------------------------------ MODULE MailLanes ------------------------------
(***************************************************************************)
(* What the parking store of the messaging kernel promises, seen from     *)
(* outside the state lock.  A letter addressed to an agent is either       *)
(* queued (in the agent's VecDeque) or flying (carried out of the lock by  *)
(* a drain that is injecting it and has not settled it yet).  The store's  *)
(* order axis is the admission number, so the queue is a set here: the     *)
(* module MailKernel keeps the sequence and is checked to implement this   *)
(* specification.                                                          *)
(*                                                                         *)
(* Source: crates/engram-dashboard-messaging/src/mailbox.rs.               *)
(***************************************************************************)
EXTENDS Naturals, FiniteSets

CONSTANTS
  Agents,        \* recipient agent ids, finitely many
  MAILBOX_CAP,   \* message lane limit per recipient (100 in the code)
  NOTICE_CAP,    \* notice lane limit per recipient (64 in the code)
  MaxLetters     \* bound: letters admitted in one behaviour

ASSUME CapsAssumption == /\ IsFiniteSet(Agents)
                         /\ MAILBOX_CAP \in Nat \ {0}
                         /\ NOTICE_CAP \in Nat \ {0}
                         /\ MaxLetters \in Nat

Kinds == {"Message", "Notice"}

Letters == [seq : Nat, kind : Kinds]

VARIABLES
  queued,   \* queued[r]: letters in r's queue
  flying,   \* flying[r]: letters a drain holds outside the lock, unsettled
  nextSeq,  \* the next admission number (the code starts at 0, here at 1)
  lastOut   \* lastOut[r]: admission number of the last letter r received, or 0

vars == <<queued, flying, nextSeq, lastOut>>

Outstanding(r) == queued[r] \cup flying[r]

(* The denominator of a lane: queued and flying letters of that kind. *)
Lane(r, k) == {l \in Outstanding(r) : l.kind = k}

(* Mutant of LaneLen: the batch outside the lock leaves the denominator. *)
LaneLenQueueOnly(r, k) == Cardinality({l \in queued[r] : l.kind = k})

LaneLen(r, k) == Cardinality(Lane(r, k))

-----------------------------------------------------------------------------

Init ==
  /\ queued = [r \in Agents |-> {}]
  /\ flying = [r \in Agents |-> {}]
  /\ nextSeq = 1
  /\ lastOut = [r \in Agents |-> 0]

QueuedNotices(r) == {l \in queued[r] : l.kind = "Notice"}

Oldest(S, n) == {l \in S : Cardinality({m \in S : m.seq < l.seq}) < n}

(* The acceptance of a send: one message for each of its recipients, all   *)
(* in one section.  A recipient whose queued + flying messages have        *)
(* reached the cap is bounced and not among `to`; each share draws one of  *)
(* the next admission numbers.                                             *)
AdmitMessages(to) ==
  /\ to # {}
  /\ nextSeq' = nextSeq + Cardinality(to) /\ nextSeq' <= MaxLetters + 1
  /\ \A r \in to : LaneLen(r, "Message") < MAILBOX_CAP
  /\ \E num \in [to -> nextSeq..(nextSeq' - 1)] :
       /\ \A r, s \in to : num[r] = num[s] => r = s
       /\ queued' = [r \in Agents |->
                       IF r \in to
                       THEN queued[r] \cup {[seq |-> num[r], kind |-> "Message"]}
                       ELSE queued[r]]
  /\ UNCHANGED <<flying, lastOut>>

Enqueue(r, kept) ==
  /\ nextSeq <= MaxLetters
  /\ queued' = [queued EXCEPT ![r] = kept \cup {[seq |-> nextSeq, kind |-> "Notice"]}]
  /\ nextSeq' = nextSeq + 1
  /\ UNCHANGED <<flying, lastOut>>

(* park, notice lane: never bounced.  What exceeds the cap is retired from *)
(* the oldest queued notices, as many as there are.                        *)
AdmitNotice(r) ==
  LET lane == LaneLen(r, "Notice")
      want == IF lane + 1 > NOTICE_CAP THEN (lane + 1) - NOTICE_CAP ELSE 0
  IN  Enqueue(r, queued[r] \ Oldest(QueuedNotices(r), want))

(* Mutant of TakeBatch: a drain that does not back off while another flies. *)
TakeBatchOverlapping(r) ==
  /\ \E batch \in SUBSET queued[r] :
       /\ batch # {}
       /\ flying' = [flying EXCEPT ![r] = batch]
  /\ queued' = [queued EXCEPT ![r] = flying[r]]
  /\ UNCHANGED <<nextSeq, lastOut>>

(* drain + take_in_flight: the whole queue leaves, minus what expired, and *)
(* only when no earlier batch for r is still flying.                       *)
TakeBatch(r) ==
  /\ flying[r] = {}
  /\ \E batch \in SUBSET queued[r] :
       /\ batch # {}
       /\ flying' = [flying EXCEPT ![r] = batch]
  /\ queued' = [queued EXCEPT ![r] = {}]
  /\ UNCHANGED <<nextSeq, lastOut>>

(* One injection that succeeded, settled: the oldest of the batch. *)
Deliver(r) ==
  \E l \in flying[r] :
    /\ \A m \in flying[r] : l.seq <= m.seq
    /\ flying' = [flying EXCEPT ![r] = @ \ {l}]
    /\ lastOut' = [lastOut EXCEPT ![r] = l.seq]
    /\ UNCHANGED <<queued, nextSeq>>

(* restore_ordered + settle_in_flight after a refused injection. *)
Return(r) ==
  /\ flying[r] # {}
  /\ queued' = [queued EXCEPT ![r] = @ \cup flying[r]]
  /\ flying' = [flying EXCEPT ![r] = {}]
  /\ UNCHANGED <<nextSeq, lastOut>>

(* sweep_expired, purge_recipient and the expired part of a drain that     *)
(* delivers nothing: queued letters leave without being injected, those of *)
(* several recipients at once in a sweep.                                  *)
Discard ==
  /\ UNCHANGED <<nextSeq, lastOut, flying>>
  /\ \E gone \in SUBSET UNION {queued[r] : r \in Agents} :
       /\ gone # {}
       /\ queued' = [r \in Agents |-> queued[r] \ gone]

Next ==
  \/ \E to \in SUBSET Agents : AdmitMessages(to)
  \/ Discard
  \/ \E r \in Agents : \/ AdmitNotice(r)
                       \/ TakeBatch(r)
                       \/ Deliver(r)
                       \/ Return(r)

Spec == Init /\ [][Next]_vars

-----------------------------------------------------------------------------

(* Every variable has the shape the store gives it. *)
TypeOK ==
  /\ queued \in [Agents -> SUBSET Letters]
  /\ flying \in [Agents -> SUBSET Letters]
  /\ nextSeq \in Nat \ {0}
  /\ lastOut \in [Agents -> Nat]

(* mailbox.rs MAILBOX_CAP, "exact equality, zero slack": however sends,    *)
(* drains and refused injections interleave, queued plus flying messages   *)
(* of one recipient never exceed the cap, although a refused batch is put  *)
(* back without looking at the cap.                                        *)
MessageLaneBound == \A r \in Agents : LaneLen(r, "Message") <= MAILBOX_CAP

(* ADR-0125, delivery order = enqueue order: a letter reaches its          *)
(* recipient only when no older letter of that recipient is outstanding,   *)
(* in the queue or in any drain's hand.                                    *)
NeverOvertaken ==
  [][\A r \in Agents : lastOut'[r] # lastOut[r] =>
       /\ lastOut'[r] > lastOut[r]
       /\ \A l \in Outstanding(r) : l.seq >= lastOut'[r]]_vars

(* The strengthening that makes both inductive: admission numbers are      *)
(* fresh and unique per recipient, what flies is older than what is        *)
(* queued, and nothing outstanding is as old as what already went out.     *)
Ordered(r) ==
  /\ IsFiniteSet(Outstanding(r))
  /\ \A l \in Outstanding(r) : lastOut[r] < l.seq /\ l.seq < nextSeq
  /\ \A l, m \in Outstanding(r) : l.seq = m.seq => l = m
  /\ \A f \in flying[r], q \in queued[r] : f.seq < q.seq

IInv ==
  /\ TypeOK
  /\ \A r \in Agents : Ordered(r) /\ lastOut[r] < nextSeq
  /\ MessageLaneBound
=============================================================================
