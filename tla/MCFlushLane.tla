---------------------------- MODULE MCFlushLane ----------------------------
(* Instances of FlushLane for TLC.  One run covers several: the first      *)
(* state picks one, and its bounds hold from then on.                      *)
EXTENDS FlushLane

CONSTANTS a1, a2, c1, c2, h1, h2

TwoAgents  == {a1, a2}
TwoCallers == {c1, c2}
TwoHosts   == {h1, h2}

Instance(rung, spawned, callers, hosts, epochs) ==
  [rung |-> rung, spawned |-> spawned, callers |-> callers, hosts |-> hosts,
   epochs |-> epochs]

(* Two callers ring two agents, one of which comes and goes; two agents    *)
(* appear at once; the reports of two host threads over three incarnations *)
(* overtake one another.                                                   *)
Instances == {Instance({a1, a2}, {a1}, {c1, c2}, {h1}, 1),
              Instance({a1}, {a1, a2}, {c1}, {h1}, 1),
              Instance({a1}, {a1}, {c1}, {h1, h2}, 3)}

VARIABLE instance

Within(b) ==
  /\ \A a \in Agents \ b.rung : a \notin due
  /\ \A a \in Agents : lastEpoch[a] <= IF a \in b.spawned THEN b.epochs ELSE 0
  /\ \A c \in Callers \ b.callers : caller[c] = None
  /\ \A h \in HostThreads \ b.hosts : host[h] = Quiet

MCInit == Init /\ instance \in Instances

Bounded(A) == A /\ UNCHANGED instance /\ Within(instance)'

(* Next, action by action, within the bounds of the instance. *)
MCNext ==
  \/ \E c \in Callers : Bounded(SendIdle(c)) \/ \E a \in Agents : Bounded(Claim(c, a))
  \/ Bounded(Forward) \/ Bounded(Receive) \/ Bounded(Advance)
  \/ \E a \in Agents : Bounded(Flush(a)) \/ Bounded(TaskEnds(a))
  \/ \E h \in HostThreads : \/ \E a \in Agents : Bounded(SessionChanges(h, a))
                            \/ Bounded(ListAgents(h)) \/ Bounded(Dispatch(h))

(* Threads and tasks that have work do it; the two arms of the lane task's *)
(* select are each taken in the end (tokio picks a ready arm at random).   *)
MCFairness ==
  /\ \A c \in Callers : WF_<<vars, instance>>(Bounded(SendIdle(c)))
  /\ WF_<<vars, instance>>(Bounded(Forward))
  /\ SF_<<vars, instance>>(Bounded(Receive))
  /\ SF_<<vars, instance>>(Bounded(Advance))
  /\ \A a \in Agents : /\ WF_<<vars, instance>>(Bounded(Flush(a)))
                       /\ WF_<<vars, instance>>(Bounded(TaskEnds(a)))

MCSpec == MCInit /\ [][MCNext]_<<vars, instance>> /\ MCFairness
=============================================================================
