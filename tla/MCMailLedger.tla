---------------------------- MODULE MCMailLedger ----------------------------
(* Instances of MailKernel with the ageing of letters and the sweep.  One   *)
(* run covers two: the first state picks one, and its bounds hold from     *)
(* then on.                                                                *)
EXTENDS MailKernel

CONSTANTS a1, s1

OneAgent  == {a1}
OneSender == {s1}
Single    == {<<a1>>}

(* Letters that age around one incarnation and its deletion, and a second  *)
(* incarnation whose letters do not age.                                   *)
Instances == {[clock |-> TRUE, deletes |-> TRUE, epochs |-> 1],
              [clock |-> FALSE, deletes |-> FALSE, epochs |-> 2]}

VARIABLE instance

Within(b) ==
  /\ \A a \in Agents : /\ lastEpoch[a] <= b.epochs
                       /\ a \notin profiles => b.deletes
                       /\ \A l \in Outstanding(a) : l.age > 0 => b.clock

MCInit == Init /\ instance \in Instances

Bounded(A) == A /\ UNCHANGED instance /\ Within(instance)'

(* Next, action by action, within the bounds of the instance. *)
MCNext ==
  \/ \E t \in Senders : Bounded(SendSnapshot(t)) \/ Bounded(Accept(t))
  \/ \E t \in Workers :
       \/ Bounded(BackOff(t)) \/ Bounded(DrainNothing(t)) \/ Bounded(DrainTargetHeld(t))
       \/ Bounded(DrainGated(t)) \/ Bounded(DrainTake(t)) \/ Bounded(InjectLands(t))
       \/ Bounded(InjectRefused(t)) \/ Bounded(Settle(t)) \/ Bounded(Restore(t))
       \/ Bounded(Release(t)) \/ Bounded(Echo(t)) \/ Bounded(Ring(t))
  \/ \E a \in Agents :
       \/ Bounded(TakeIdle(a)) \/ Bounded(TakeAppear(a)) \/ Bounded(HasParked(a))
       \/ Bounded(LaneSnapshot(a)) \/ Bounded(Spawn(a)) \/ Bounded(SessionEnds(a))
       \/ Bounded(GateCloses(a)) \/ Bounded(GateRings(a)) \/ Bounded(DeleteProfile(a))
       \/ Bounded(PurgeDeleted(a))
  \/ \E a \in Requesters : Bounded(ParkNotice(a))
  \/ Bounded(Sweep) \/ Bounded(Tick)

(* Threads that hold a batch run on, the lanes are served, the clock moves *)
(* and the sweep loop turns.                                               *)
MCFairness ==
  /\ \A t \in Workers : WF_<<vars, instance>>(Bounded(Work(t)))
  /\ \A a \in Agents : WF_<<vars, instance>>(Bounded(LaneWork(a)))
  /\ WF_<<vars, instance>>(Bounded(Tick))
  /\ WF_<<vars, instance>>(Bounded(Sweep))

MCSpec == MCInit /\ [][MCNext]_<<vars, instance>> /\ MCFairness

PendingRow(s) ==
  \E i \in DOMAIN history : history[i].seq = s /\ history[i].status = "Pending"

(* ledger.rs rows: where letters age, no row stays Pending for ever: it is  *)
(* delivered, expired, skipped or failed, or pushed out of the history.     *)
EveryLetterSettles ==
  \A s \in 1..MaxLetters : []<>(instance.clock => ~PendingRow(s))
=============================================================================
