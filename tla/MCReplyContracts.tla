-------------------------- MODULE MCReplyContracts --------------------------
(* Instances of ReplyContracts for TLC.  One run covers two: the first     *)
(* state picks one, and its bounds hold from then on.                      *)
EXTENDS ReplyContracts

CONSTANTS boss, w1, w2, s1, s2

Three == {boss, w1, w2}
TwoThreads == {s1, s2}

Ask(to, deadline) == [from |-> boss, to |-> to, asks |-> TRUE,
                      deadline |-> deadline, replies |-> FALSE]
Answer(from) == [from |-> from, to |-> <<boss>>, asks |-> FALSE,
                 deadline |-> FALSE, replies |-> TRUE]

FanOuts == {Ask(<<w1, w2>>, TRUE), Ask(<<w1>>, FALSE), Answer(w1), Answer(w2)}
Racing  == {Ask(<<w1>>, TRUE), Answer(w1)}

AllSends == FanOuts \cup Racing

(* One thread with fan-out requests at the slot limit, and two threads     *)
(* that race over one recipient's contracts.                               *)
Instances == {[threads |-> {s1}, sends |-> FanOuts, time |-> 1,
               deletes |-> {boss, w1}],
              [threads |-> {s1, s2}, sends |-> Racing, time |-> 2,
               deletes |-> {boss, w1}]}

VARIABLE instance

Within(b) ==
  /\ \A t \in Senders : thread[t] # Rest =>
       t \in b.threads /\ thread[t].send \in b.sends
  /\ clock <= b.time
  /\ deleted \subseteq b.deletes

MCInit == Init /\ instance \in Instances

Bounded(A) == A /\ UNCHANGED instance /\ Within(instance)'

(* Next, action by action, within the bounds of the instance. *)
MCNext ==
  \/ \E t \in Senders :
       \/ Bounded(Begin(t)) \/ Bounded(JudgeGone(t)) \/ Bounded(JudgeCapacity(t))
       \/ Bounded(JudgeRoom(t)) \/ Bounded(JudgeMailboxFull(t)) \/ Bounded(Park(t))
       \/ Bounded(Unlock(t)) \/ Bounded(FailReply(t))
  \/ Bounded(SweepCollect) \/ Bounded(NoticeCheck) \/ Bounded(NoticePost)
  \/ \E a \in Agents : Bounded(DeleteProfile(a)) \/ Bounded(Cleanup(a))
  \/ Bounded(Tick)

(* A send that began runs on (the lock is held for a bounded number of     *)
(* steps), the sweep task turns, the clock moves.                          *)
MCFairness ==
  /\ \A t \in Senders : WF_<<vars, instance>>(Bounded(Send(t)))
  /\ WF_<<vars, instance>>(Bounded(SweepTask))
  /\ WF_<<vars, instance>>(Bounded(Tick))

MCSpec == MCInit /\ [][MCNext]_<<vars, instance>> /\ MCFairness

(* ledger.rs due_timeouts: a deadline is never forgotten: every contract   *)
(* promised one is answered, failed or notified in the end, if the clock   *)
(* gets past it.                                                           *)
DeadlineIsMet ==
  <>[](\A k \in promised :
         \/ k \in answered \cup failed \cup ToSet(notices)
         \/ /\ k \in DOMAIN requests
            /\ requests[k].created + ReplyBy >= instance.time)
=============================================================================
