----------------------------- MODULE FlushLane -----------------------------
(***************************************************************************)
(* The wake-up path from a doorbell to a delivery, in the daemon: the idle *)
(* coalescer, the flush channel, the main lane that forwards it, the lane  *)
(* task with its per-recipient queues, the blocking delivery tasks and     *)
(* their completion channel; and the roster diff that turns agent list     *)
(* updates, which may be dispatched out of order, into appearances.        *)
(*                                                                         *)
(* The messaging slot is filled (spawn_delivery's early return before that *)
(* drops entries when there is no kernel yet to hold mail).  An epoch is a *)
(* random marker in the code, a fresh number here.                         *)
(*                                                                         *)
(* Source: crates/engram-dashboard-daemon/src/messaging_host.rs.           *)
(***************************************************************************)
EXTENDS Integers, SequencesExt

CONSTANTS
  Agents,
  Callers,      \* threads that ring: kernel threads, turn and input callbacks
  HostThreads,  \* threads that change the session table and report it
  MaxEpoch      \* bound: incarnations of one agent

ASSUME FlushAssumption ==
  /\ MaxEpoch \in Nat /\ Callers \cap HostThreads = {}
  /\ IsFiniteSet(Agents) /\ IsFiniteSet(Callers)
  /\ "none" \notin Agents

VARIABLES
  pending,    \* IdleCoalescer.pending
  caller,     \* caller[c]: the agent c has claimed and not yet sent, or None
  flushChan,  \* FlushMsg entries [kind, id] on their way to the main lane
  laneChan,   \* and on from there to the lane task
  lanes,      \* DeliveryLanes: waiting entries per recipient
  occupied,   \* the keys of DeliveryLanes
  started,    \* started[a]: delivery tasks that have not looked at the mail yet
  flushed,    \* flushed[a]: delivery tasks that have, and are not dropped yet
  doneChan,   \* completions
  prev,       \* RosterDiff.prev: epoch last seen per agent, 0 for none
  roster,     \* the session table
  lastEpoch,
  host,       \* host[h]: [pc, snap] of an agent list update under way
  due,        \* history variable: agents rung and not looked at since
  announced   \* history variable: incarnations an Appear was sent for

channels == <<flushChan, laneChan, doneChan>>
tasks    == <<lanes, occupied, started, flushed>>
session  == <<prev, roster, lastEpoch, host, announced>>
vars     == <<pending, caller, channels, tasks, session, due>>

None == "none"

Entry(k, a) == [kind |-> k, id |-> a]
Quiet == [pc |-> "idle", snap |-> [a \in Agents |-> 0]]

Init ==
  /\ pending = {} /\ caller = [c \in Callers |-> None]
  /\ flushChan = <<>> /\ laneChan = <<>> /\ doneChan = <<>>
  /\ lanes = [a \in Agents |-> <<>>] /\ occupied = {}
  /\ started = [a \in Agents |-> 0] /\ flushed = [a \in Agents |-> 0]
  /\ prev = [a \in Agents |-> 0]
  /\ roster = [a \in Agents |-> 0] /\ lastEpoch = [a \in Agents |-> 0]
  /\ host = [h \in HostThreads |-> Quiet]
  /\ due = {} /\ announced = {}

-----------------------------------------------------------------------------
(* ChannelIdleNotifier::enqueue *)

(* Mutant of Claim: a running delivery absorbs the ring too. *)
ClaimAbsorbedByLane(c, a) ==
  /\ caller[c] = None
  /\ due' = due \cup {a}
  /\ pending' = IF a \in occupied THEN pending ELSE pending \cup {a}
  /\ caller' = [caller EXCEPT ![c] = IF a \in pending \cup occupied THEN None ELSE a]
  /\ UNCHANGED <<channels, tasks, session>>

(* Claim the agent; a claim already there absorbs this ring. *)
Claim(c, a) ==
  /\ caller[c] = None
  /\ due' = due \cup {a}
  /\ pending' = pending \cup {a}
  /\ caller' = [caller EXCEPT ![c] = IF a \in pending THEN None ELSE a]
  /\ UNCHANGED <<channels, tasks, session>>

(* The winner of the claim sends the entry. *)
SendIdle(c) ==
  /\ caller[c] # None
  /\ flushChan' = Append(flushChan, Entry("Idle", caller[c]))
  /\ caller' = [caller EXCEPT ![c] = None]
  /\ UNCHANGED <<pending, laneChan, doneChan, tasks, session, due>>

-----------------------------------------------------------------------------
(* The two lanes *)

(* run_flush_worker *)
Forward ==
  /\ flushChan # <<>>
  /\ laneChan' = Append(laneChan, Head(flushChan))
  /\ flushChan' = Tail(flushChan)
  /\ UNCHANGED <<pending, caller, doneChan, tasks, session, due>>

(* spawn_delivery clears the claim of an Idle entry before the task runs. *)
Taken(m) == IF m.kind = "Idle" THEN pending \ {m.id} ELSE pending

(* Mutant of Receive: no entry waits for a running delivery. *)
ReceiveAtOnce ==
  LET m == Head(laneChan)
  IN  /\ laneChan # <<>>
      /\ laneChan' = Tail(laneChan)
      /\ occupied' = occupied \cup {m.id}
      /\ started' = [started EXCEPT ![m.id] = @ + 1]
      /\ pending' = Taken(m)
      /\ UNCHANGED <<lanes, caller, flushChan, doneChan, flushed, session, due>>

(* run_flush_lane, an incoming entry: behind the running delivery of its   *)
(* recipient, or a delivery of its own.                                    *)
Receive ==
  LET m == Head(laneChan)
  IN  /\ laneChan # <<>>
      /\ laneChan' = Tail(laneChan)
      /\ IF m.id \in occupied
         THEN /\ lanes' = [lanes EXCEPT ![m.id] = Append(@, m)]
              /\ UNCHANGED <<pending, occupied, started>>
         ELSE /\ occupied' = occupied \cup {m.id}
              /\ started' = [started EXCEPT ![m.id] = @ + 1]
              /\ pending' = Taken(m)
              /\ UNCHANGED lanes
      /\ UNCHANGED <<caller, flushChan, doneChan, flushed, session, due>>

(* advance_lane on a completion: the next waiting entry, or free the lane. *)
Advance ==
  LET a == Head(doneChan)
  IN  /\ doneChan # <<>>
      /\ doneChan' = Tail(doneChan)
      /\ IF lanes[a] = <<>>
         THEN /\ occupied' = occupied \ {a}
              /\ UNCHANGED <<lanes, started, pending>>
         ELSE /\ lanes' = [lanes EXCEPT ![a] = Tail(@)]
              /\ started' = [started EXCEPT ![a] = @ + 1]
              /\ pending' = Taken(Head(lanes[a]))
              /\ UNCHANGED occupied
      /\ UNCHANGED <<caller, flushChan, laneChan, flushed, session, due>>

(* The blocking task: it looks at the mail (flush_for, flush_for_agent)... *)
Flush(a) ==
  /\ started[a] > 0
  /\ started' = [started EXCEPT ![a] = @ - 1]
  /\ flushed' = [flushed EXCEPT ![a] = @ + 1]
  /\ due' = due \ {a}
  /\ UNCHANGED <<pending, caller, channels, lanes, occupied, session>>

(* Mutant of TaskEnds: a delivery that unwinds does not report. *)
TaskEndsSilently(a) ==
  /\ flushed[a] > 0
  /\ flushed' = [flushed EXCEPT ![a] = @ - 1]
  /\ UNCHANGED <<pending, caller, channels, lanes, occupied, started, session, due>>

(* ... and its DeliveryDone guard reports completion, panic or not. *)
TaskEnds(a) ==
  /\ flushed[a] > 0
  /\ flushed' = [flushed EXCEPT ![a] = @ - 1]
  /\ doneChan' = Append(doneChan, a)
  /\ UNCHANGED <<pending, caller, flushChan, laneChan, lanes, occupied, started,
                 session, due>>

-----------------------------------------------------------------------------
(* Sessions and the roster diff *)

(* A session starts or ends; the thread that did it will report the list.  *)
SessionChanges(h, a) ==
  /\ host[h].pc = "idle"
  /\ \/ /\ roster[a] = 0 /\ lastEpoch[a] < MaxEpoch
        /\ lastEpoch' = [lastEpoch EXCEPT ![a] = @ + 1]
        /\ roster' = [roster EXCEPT ![a] = lastEpoch'[a]]
     \/ /\ roster[a] # 0
        /\ roster' = [roster EXCEPT ![a] = 0]
        /\ UNCHANGED lastEpoch
  /\ host' = [host EXCEPT ![h].pc = "list"]
  /\ UNCHANGED <<pending, caller, channels, tasks, prev, announced, due>>

(* list_agents, outside the diff's lock. *)
ListAgents(h) ==
  /\ host[h].pc = "list"
  /\ host' = [host EXCEPT ![h] = [pc |-> "dispatch", snap |-> roster]]
  /\ UNCHANGED <<pending, caller, channels, tasks, prev, roster, lastEpoch,
                 announced, due>>

(* Mutant of Appeared: only agents that were absent appear. *)
AppearedFromAbsence(snap) == {a \in Agents : snap[a] # 0 /\ prev[a] = 0}

(* Absent before, or another incarnation: a mismatch, not an order.        *)
Appeared(snap) == {a \in Agents : snap[a] # 0 /\ snap[a] # prev[a]}

(* RosterDiff::dispatch: the Appear entries leave under the diff's lock.   *)
Dispatch(h) ==
  LET snap == host[h].snap
  IN  /\ host[h].pc = "dispatch"
      /\ \E order \in SetToSeqs(Appeared(snap)) :
           flushChan' = flushChan \o [i \in DOMAIN order |-> Entry("Appear", order[i])]
      /\ prev' = snap
      /\ announced' = announced \cup {<<a, snap[a]>> : a \in Appeared(snap)}
      /\ host' = [host EXCEPT ![h] = Quiet]
      /\ UNCHANGED <<pending, caller, laneChan, doneChan, tasks, roster, lastEpoch,
                     due>>

-----------------------------------------------------------------------------

Next ==
  \/ \E c \in Callers : SendIdle(c) \/ \E a \in Agents : Claim(c, a)
  \/ Forward
  \/ Receive
  \/ Advance
  \/ \E a \in Agents : Flush(a) \/ TaskEnds(a)
  \/ \E h \in HostThreads : \/ \E a \in Agents : SessionChanges(h, a)
                            \/ ListAgents(h)
                            \/ Dispatch(h)

Spec == Init /\ [][Next]_vars

(* Threads and tasks that have work do it; the two arms of the lane task's *)
(* select are each taken in the end (tokio picks a ready arm at random).   *)
Fairness ==
  /\ \A c \in Callers : WF_vars(SendIdle(c))
  /\ WF_vars(Forward)
  /\ SF_vars(Receive)
  /\ SF_vars(Advance)
  /\ \A a \in Agents : WF_vars(Flush(a)) /\ WF_vars(TaskEnds(a))

FairSpec == Spec /\ Fairness

-----------------------------------------------------------------------------

EntriesFor(A) == [kind : {"Idle", "Appear"}, id : A]
Epochs        == [Agents -> 0..MaxEpoch]

(* Every variable has the shape of the state it models. *)
TypeOK ==
  /\ pending \subseteq Agents /\ occupied \subseteq Agents /\ due \subseteq Agents
  /\ caller \in [Callers -> Agents \cup {None}]
  /\ flushChan \in Seq(EntriesFor(Agents)) /\ laneChan \in Seq(EntriesFor(Agents))
  /\ DOMAIN lanes = Agents /\ \A a \in Agents : lanes[a] \in Seq(EntriesFor({a}))
  /\ doneChan \in Seq(Agents)
  /\ started \in [Agents -> Nat] /\ flushed \in [Agents -> Nat]
  /\ {prev, roster, lastEpoch} \subseteq Epochs
  /\ host \in [HostThreads -> [pc : {"idle", "list", "dispatch"}, snap : Epochs]]

CountIn(q, m) == Cardinality({i \in DOMAIN q : q[i] = m})

OnTheWay(m) == CountIn(flushChan, m) + CountIn(laneChan, m) + CountIn(lanes[m.id], m)

(* IdleCoalescer: a claim stands for exactly one Idle entry, somewhere     *)
(* between the caller that won it and the start of its delivery.  One too  *)
(* few mutes the agent for ever, one too many and the channel may grow     *)
(* without bound.                                                          *)
ClaimHasEntry ==
  \A a \in Agents :
    OnTheWay(Entry("Idle", a)) + Cardinality({c \in Callers : caller[c] = a})
      = IF a \in pending THEN 1 ELSE 0

(* A recipient's lane is occupied exactly while one delivery task for it   *)
(* runs or its completion is on the way: deliveries to one recipient never *)
(* overlap and a lane is never left occupied with nobody to free it.       *)
LaneHasOneDelivery ==
  \A a \in Agents :
    /\ started[a] + flushed[a] + CountIn(doneChan, a) = IF a \in occupied THEN 1 ELSE 0
    /\ a \notin occupied => lanes[a] = <<>>

(* No lost wake-up: after a ring, until some delivery looks at the mail, a *)
(* claim or a delivery that has not looked yet is there to answer it, even *)
(* if the ring was absorbed by an older claim.                             *)
NoLostWakeup == \A a \in due : a \in pending \/ started[a] > 0

(* The three together, on states of the right types: claims, lanes and     *)
(* deliveries of messaging_host.rs account for every ring.                 *)
RingsAreAccounted == TypeOK /\ ClaimHasEntry /\ LaneHasOneDelivery /\ NoLostWakeup

(* Every incarnation appears: once no list update is under way, the live   *)
(* incarnation of every agent has had its Appear, in whatever order the    *)
(* snapshots were dispatched.                                              *)
IncarnationsAppear ==
  (\A h \in HostThreads : host[h].pc = "idle") =>
     \A a \in Agents : roster[a] # 0 => <<a, roster[a]>> \in announced

(* A ring is answered: some delivery looks at the mail after it. *)
RingsAreAnswered == \A a \in Agents : a \in due ~> a \notin due

-----------------------------------------------------------------------------

(* FlushLane implements the doorbells MailKernel is written against. *)
Bells == INSTANCE Doorbells WITH
  bells   <- pending,
  appear  <- [a \in Agents |-> OnTheWay(Entry("Appear", a))],
  serving <- {a \in Agents : started[a] + flushed[a] > 0}

ImplementsDoorbells == Bells!Spec
=============================================================================
