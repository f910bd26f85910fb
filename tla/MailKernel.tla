----------------------------- MODULE MailKernel -----------------------------
(***************************************************************************)
(* Delivery in the messaging kernel: sends, drains, notices, sweeps and    *)
(* profile deletion over one parking store and one ledger.                 *)
(*                                                                         *)
(* Every action below is one section of the state lock of MessagingService *)
(* (service.rs) or one call the kernel makes with that lock released: an   *)
(* injection, a roster snapshot, a doorbell.  Two kinds of worker run      *)
(* drain_queue: a sender thread inside handle_send, and the delivery lane  *)
(* of a recipient (one per agent, module FlushLane), named by the agent.   *)
(* A letter carries its age in ticks instead of the instant it was parked; *)
(* the age stops at PARK_TTL, where is_expired becomes true for good.      *)
(***************************************************************************)
EXTENDS Integers, SequencesExt

CONSTANTS
  Agents,            \* agent ids, which are profile ids too
  Senders,           \* threads that may be inside handle_send
  Structured,        \* agents whose turns the daemon observes (turn_signal)
  Addressings,       \* recipient lists a send may resolve to, no duplicates
  MAILBOX_CAP,       \* message lane limit (mailbox.rs, 100)
  NOTICE_CAP,        \* notice lane limit (mailbox.rs, 64)
  HISTORY_CAPACITY,  \* ledger rows kept (ledger.rs)
  PARK_TTL,          \* lifetime of a parked letter, in ticks (24 h)
  MaxLetters,        \* bound: letters admitted in one behaviour
  MaxEpoch,          \* bound: incarnations of one agent
  Requesters,        \* bound: agents that hold reply contracts and get notices
  Deletable,         \* bound: agents whose profile may be deleted
  ClockRuns          \* bound: whether letters age in this instance

ASSUME KernelAssumption ==
  /\ MAILBOX_CAP \in Nat \ {0} /\ NOTICE_CAP \in Nat \ {0}
  /\ HISTORY_CAPACITY \in Nat \ {0} /\ PARK_TTL \in Nat \ {0}
  /\ MaxLetters \in Nat /\ MaxEpoch \in Nat
  /\ Structured \subseteq Agents /\ Deletable \subseteq Agents
  /\ Requesters \subseteq Agents
  /\ Agents \cap Senders = {} /\ ClockRuns \in BOOLEAN
  /\ \A to \in Addressings : /\ to \in Seq(Agents) /\ to # <<>>
                             /\ IsInjective(to)

Kinds   == {"Message", "Notice"}
Workers == Senders \cup Agents

VARIABLES
  queues,            \* Mailbox.queues: letters [seq, kind, age], oldest first
  inFlight,          \* Mailbox.in_flight: letters per lane held by a drain
  nextSeq,           \* Mailbox.next_seq (from 1 here)
  history,           \* Ledger.history: rows [seq, to, status]; seq 0: never parked
  targets,           \* MessagingState.in_flight_targets
  deferredFlush,     \* MessagingState.deferred_flush: recipients with a waiter
  deferredByTarget,  \* MessagingState.deferred_by_target, likewise
  roster,            \* the manager's live sessions: epoch, or 0 when asleep
  lastEpoch,         \* the last epoch handed to each agent
  profiles,          \* agents whose profile exists
  busy,              \* agents whose current incarnation the busy gate holds back
  purging,           \* deleted profiles found dead, cleanup not yet run
  bells,             \* Idle entries on the way to a lane, coalesced per agent
  appear,            \* Appear entries on the way to a lane, counted per agent
  work,              \* what each worker is doing
  arrived,           \* history variable: admission numbers each agent received
  stranded           \* history variable: <<agent, why>> for the two paths after
                     \* which nothing is set to look at the agent's queue

store   == <<queues, inFlight, nextSeq, history, targets, deferredFlush,
             deferredByTarget>>
host    == <<roster, lastEpoch, profiles, busy, purging>>
calls   == <<bells, appear>>
vars    == <<store, host, calls, work, arrived, stranded>>

Pcs == {"idle", "accept", "check", "snapshot", "drain", "inject", "settle",
        "restore", "release", "echo", "ring"}

(* An errand: drain `to`, with what the roster snapshot said of it.        *)
(* own is the sender's letter for that recipient, 0 for a delivery lane.   *)
Plans == {"live", "dormant", "gone"}

(* A worker: its errands (the first is under way), the batch it holds      *)
(* outside the lock, whether it owns the target axis, and whether it will  *)
(* press the recipient's doorbell when it is done.                         *)
Idle == [pc |-> "idle", errands |-> <<>>, batch |-> <<>>,
         held |-> FALSE, ring |-> FALSE]

Init ==
  /\ queues = [r \in Agents |-> <<>>]
  /\ inFlight = [r \in Agents |-> [k \in Kinds |-> 0]]
  /\ nextSeq = 1
  /\ history = <<>>
  /\ targets = {} /\ deferredFlush = {} /\ deferredByTarget = {}
  /\ roster = [a \in Agents |-> 0]
  /\ lastEpoch = [a \in Agents |-> 0]
  /\ profiles = Agents
  /\ busy = {} /\ purging = {} /\ bells = {}
  /\ appear = [a \in Agents |-> 0]
  /\ work = [t \in Workers |-> Idle]
  /\ arrived = [a \in Agents |-> <<>>]
  /\ stranded = {}

-----------------------------------------------------------------------------
(* Mailbox *)

IsExpired(l) == l.age >= PARK_TTL

Unexpired(q) == SelectSeq(q, LAMBDA l : ~IsExpired(l))

CountOf(q, k) == Len(SelectSeq(q, LAMBDA l : l.kind = k))

(* Mutant of LaneLen: only the queue is counted. *)
LaneLenQueueOnly(r, k) == CountOf(queues[r], k)

LaneLen(r, k) == CountOf(queues[r], k) + inFlight[r][k]

InFlightLen(r) == inFlight[r]["Message"] + inFlight[r]["Notice"]

(* Mutant of RestoreOrdered: the batch is appended like a new letter. *)
RestoreAppending(q, batch) == q \o batch

(* restore_ordered: a merge of two ordered sequences by admission number,  *)
(* without a look at the caps.                                             *)
RestoreOrdered(q, batch) == SortSeq(q \o batch, LAMBDA l, m : l.seq < m.seq)

(* settle_in_flight: the counters saturate at zero. *)
Settled(r, batch) ==
  [k \in Kinds |-> LET n == inFlight[r][k] - CountOf(batch, k)
                   IN  IF n < 0 THEN 0 ELSE n]

TakenInFlight(r, batch) == [k \in Kinds |-> inFlight[r][k] + CountOf(batch, k)]

(* retire_oldest: the first n notices of a queue, as many as there are. *)
OldestNotices(q, n) ==
  {l \in ToSet(q) : /\ l.kind = "Notice"
                    /\ Cardinality({m \in ToSet(q) :
                           m.kind = "Notice" /\ m.seq < l.seq}) < n}

-----------------------------------------------------------------------------
(* Ledger *)

Row(s, r, st) == [seq |-> s, to |-> r, status |-> st]

(* record_with_expected: append, then pop the front down to the capacity. *)
Record(h, rows) ==
  LET all == h \o rows
  IN  IF Len(all) > HISTORY_CAPACITY
      THEN SubSeq(all, Len(all) - HISTORY_CAPACITY + 1, Len(all))
      ELSE all

(* can_transition_to, and the one extra move of can_fail_by_cleanup. *)
CanTransition(from, to) ==
  \/ from = "Pending" /\ to \in {"Delivered", "Expired", "Skipped"}
  \/ from = "Delivered" /\ to \in {"Skipped", "Replied"}

CanFailByCleanup(from) == from = "Pending"

(* transition (or fail_pending, when st is Failed) for letters of one      *)
(* recipient: rows already evicted are skipped, illegal moves refused.     *)
Transition(h, r, letters, st) ==
  [i \in DOMAIN h |->
     IF /\ h[i].to = r /\ \E l \in letters : l.seq = h[i].seq
        /\ IF st = "Failed" THEN CanFailByCleanup(h[i].status)
                            ELSE CanTransition(h[i].status, st)
     THEN [h[i] EXCEPT !.status = st]
     ELSE h[i]]

-----------------------------------------------------------------------------
(* handle_send up to the end of the acceptance section *)

(* resolve_addressing over one addressing_sources snapshot. *)
Resolve(a) ==
  [to |-> a, epoch |-> roster[a], own |-> 0,
   plan |-> IF roster[a] # 0 THEN "live"
            ELSE IF a \in profiles THEN "dormant" ELSE "gone"]

SendSnapshot(t) ==
  /\ work[t].pc = "idle"
  /\ \E to \in Addressings :
       work' = [work EXCEPT ![t] =
                  [Idle EXCEPT !.pc = "accept",
                               !.errands = [i \in DOMAIN to |-> Resolve(to[i])]]]
  /\ UNCHANGED <<store, host, calls, arrived, stranded>>

(* admission and can_admit: a name that resolves to nobody, or a full      *)
(* message lane, fails that recipient only.                                *)
CanAdmit(e) == e.plan # "gone" /\ LaneLen(e.to, "Message") < MAILBOX_CAP

(* A share parked for a recipient the snapshot saw asleep is left alone;   *)
(* the others are drained by this thread, in order.                        *)
LiveShares(shares) == SelectSeq(shares, LAMBDA e : e.plan = "live")

(* The acceptance section: verdicts for all recipients, Failed rows, then  *)
(* one parked letter and one Pending row per accepted recipient.           *)
Accept(t) ==
  LET refused == SelectSeq(work[t].errands, LAMBDA e : ~CanAdmit(e))
      shares  == LET ok == SelectSeq(work[t].errands, CanAdmit)
                 IN  [i \in DOMAIN ok |-> [ok[i] EXCEPT !.own = nextSeq + i - 1]]
      letters(r) == LET mine == SelectSeq(shares, LAMBDA e : e.to = r)
                    IN  [i \in DOMAIN mine |-> [seq  |-> mine[i].own,
                                                kind |-> "Message", age |-> 0]]
      live == LiveShares(shares)
  IN  /\ work[t].pc = "accept"
      /\ nextSeq + Len(work[t].errands) - 1 <= MaxLetters
      /\ queues' = [r \in Agents |-> queues[r] \o letters(r)]
      /\ nextSeq' = nextSeq + Len(shares)
      /\ history' = Record(history,
            [i \in DOMAIN refused |-> Row(0, refused[i].to, "Failed")] \o
            [i \in DOMAIN shares |-> Row(shares[i].own, shares[i].to, "Pending")])
      /\ work' = [work EXCEPT ![t] =
                    IF live = <<>> THEN Idle
                    ELSE [@ EXCEPT !.pc = "drain", !.errands = live]]
      /\ stranded' = stranded \cup
            {<<r, "woke">> : r \in {e.to : e \in {x \in ToSet(shares) :
                                  x.plan = "dormant" /\ roster[x.to] # 0}}}
      /\ UNCHANGED <<inFlight, targets, deferredFlush, deferredByTarget, host,
                     calls, arrived>>

-----------------------------------------------------------------------------
(* The delivery lane of agent a: Idle entries go through flush_for_agent,  *)
(* Appear entries through flush_for.                                       *)

LaneErrand(a) == [to |-> a, epoch |-> 0, own |-> 0, plan |-> "live"]

(* spawn_delivery clears the coalescing claim before the flush looks at    *)
(* the queue, so a bell rung from now on is a new entry.                   *)
TakeIdle(a) ==
  /\ work[a].pc = "idle" /\ a \in bells
  /\ bells' = bells \ {a}
  /\ work' = [work EXCEPT ![a] = [Idle EXCEPT !.pc = "check",
                                              !.errands = <<LaneErrand(a)>>]]
  /\ UNCHANGED <<store, host, appear, arrived, stranded>>

TakeAppear(a) ==
  /\ work[a].pc = "idle" /\ appear[a] > 0
  /\ appear' = [appear EXCEPT ![a] = @ - 1]
  /\ work' = [work EXCEPT ![a] = [Idle EXCEPT !.pc = "snapshot",
                                              !.errands = <<LaneErrand(a)>>]]
  /\ UNCHANGED <<store, host, bells, arrived, stranded>>

(* flush_for_agent: nothing parked, nothing to do. *)
HasParked(a) ==
  /\ work[a].pc = "check"
  /\ work' = [work EXCEPT ![a] = IF queues[a] = <<>> THEN Idle
                                 ELSE [@ EXCEPT !.pc = "snapshot"]]
  /\ UNCHANGED <<store, host, calls, arrived, stranded>>

(* drain_queue without a snapshot of its own asks live_agents. *)
LaneSnapshot(a) ==
  /\ work[a].pc = "snapshot"
  /\ work' = [work EXCEPT ![a].pc = "drain", ![a].errands[1].epoch = roster[a]]
  /\ UNCHANGED <<store, host, calls, arrived, stranded>>

-----------------------------------------------------------------------------
(* drain_queue *)

Errand(t) == Head(work[t].errands)

(* On to the next live recipient of a send, or done. *)
Finished(wk) ==
  IF Len(wk.errands) = 1 THEN Idle
  ELSE [Idle EXCEPT !.pc = "drain", !.errands = Tail(wk.errands)]

(* gate_busy_reason: the observation is looked up under the epoch of the   *)
(* snapshot, so a stale epoch finds none and the gate stays open.          *)
Gated(e) == e.to \in Structured \cap busy /\ e.epoch = roster[e.to]

(* Step 0: another batch for this recipient is flying.  Retreat, leaving a *)
(* waiter that the winner will answer.                                     *)
BackOff(t) ==
  LET r == Errand(t).to
  IN  /\ work[t].pc = "drain" /\ InFlightLen(r) > 0
      /\ deferredFlush' = deferredFlush \cup {r}
      /\ work' = [work EXCEPT ![t] = Finished(@)]
      /\ UNCHANGED <<queues, inFlight, nextSeq, history, targets,
                     deferredByTarget, host, calls, arrived, stranded>>

(* The common part of the other outcomes: expired letters leave the queue  *)
(* with their rows.                                                        *)
DrainExpired(r) ==
  /\ InFlightLen(r) = 0
  /\ history' = Transition(history, r, {l \in ToSet(queues[r]) : IsExpired(l)},
                           "Expired")
  /\ stranded' = {s \in stranded : s[1] # r}

(* Put back what was drained and go to the echo.  A sender rings for its   *)
(* own letter later unless it retreated.                                   *)
KeepParked(t, ringOwn) ==
  LET r == Errand(t).to
  IN  /\ queues' = [queues EXCEPT ![r] = Unexpired(@)]
      /\ work' = [work EXCEPT ![t].pc = "echo",
                              ![t].ring = ringOwn /\ t \in Senders]
      /\ UNCHANGED <<inFlight, nextSeq, targets, deferredFlush, host, calls,
                     arrived>>

(* Nothing deliverable, or the recipient is not in the snapshot. *)
DrainNothing(t) ==
  LET e == Errand(t)
  IN  /\ work[t].pc = "drain"
      /\ DrainExpired(e.to)
      /\ Unexpired(queues[e.to]) = <<>> \/ e.epoch = 0
      /\ KeepParked(t, TRUE)
      /\ UNCHANGED deferredByTarget

(* The previous batch has settled but not yet let go of the session. *)
DrainTargetHeld(t) ==
  LET e == Errand(t)
  IN  /\ work[t].pc = "drain"
      /\ DrainExpired(e.to)
      /\ Unexpired(queues[e.to]) # <<>> /\ e.epoch # 0
      /\ e.to \in targets
      /\ deferredByTarget' = deferredByTarget \cup {e.to}
      /\ KeepParked(t, FALSE)

(* The recipient is in a turn: the batch is not started. *)
DrainGated(t) ==
  LET e == Errand(t)
  IN  /\ work[t].pc = "drain"
      /\ DrainExpired(e.to)
      /\ Unexpired(queues[e.to]) # <<>> /\ e.epoch # 0
      /\ e.to \notin targets
      /\ Gated(e)
      /\ KeepParked(t, TRUE)
      /\ UNCHANGED deferredByTarget

(* Take the whole queue in flight and the session with it. *)
DrainTake(t) ==
  LET e == Errand(t)
      r == e.to
      batch == Unexpired(queues[r])
  IN  /\ work[t].pc = "drain"
      /\ DrainExpired(r)
      /\ batch # <<>> /\ e.epoch # 0
      /\ r \notin targets
      /\ ~Gated(e)
      /\ queues' = [queues EXCEPT ![r] = <<>>]
      /\ inFlight' = [inFlight EXCEPT ![r] = TakenInFlight(r, batch)]
      /\ targets' = targets \cup {r}
      /\ work' = [work EXCEPT ![t].pc = "inject", ![t].batch = batch,
                              ![t].held = TRUE,
                              ![t].ring = /\ t \in Senders
                                          /\ \A l \in ToSet(batch) : l.seq # e.own]
      /\ UNCHANGED <<nextSeq, deferredFlush, deferredByTarget, host, calls,
                     arrived>>

-----------------------------------------------------------------------------
(* The injection loop, the settlement and the echo *)

(* DeliveryPort::inject answers for whatever incarnation is live now.  It  *)
(* may be refused at any time, and is when the session is gone.            *)
InjectLands(t) ==
  LET r == Errand(t).to
  IN  /\ work[t].pc = "inject"
      /\ roster[r] # 0
      /\ arrived' = [arrived EXCEPT ![r] = Append(@, Head(work[t].batch).seq)]
      /\ work' = [work EXCEPT ![t].pc = "settle"]
      /\ UNCHANGED <<store, host, calls, stranded>>

InjectRefused(t) ==
  LET r == Errand(t).to
  IN  /\ work[t].pc = "inject"
      /\ work' = [work EXCEPT ![t].pc = "restore", ![t].ring = FALSE]
      /\ stranded' = stranded \cup (IF roster[r] # 0 THEN {<<r, "refused">>} ELSE {})
      /\ UNCHANGED <<store, host, calls, arrived>>

(* Mutant of Settle: the ticket of the delivered letter is not returned. *)
SettleKeepingTicket(t) ==
  LET r == Errand(t).to
      rest == Tail(work[t].batch)
  IN  /\ work[t].pc = "settle"
      /\ history' = Transition(history, r, {Head(work[t].batch)}, "Delivered")
      /\ work' = [work EXCEPT ![t].pc = IF rest = <<>> THEN "release" ELSE "inject",
                              ![t].batch = rest]
      /\ UNCHANGED <<queues, inFlight, nextSeq, targets, deferredFlush,
                     deferredByTarget, host, calls, arrived, stranded>>

(* Row and ticket of a landed letter, in one section. *)
Settle(t) ==
  LET r == Errand(t).to
      l == Head(work[t].batch)
      rest == Tail(work[t].batch)
  IN  /\ work[t].pc = "settle"
      /\ history' = Transition(history, r, {l}, "Delivered")
      /\ inFlight' = [inFlight EXCEPT ![r] = Settled(r, <<l>>)]
      /\ work' = [work EXCEPT ![t].pc = IF rest = <<>> THEN "release" ELSE "inject",
                              ![t].batch = rest]
      /\ UNCHANGED <<queues, nextSeq, targets, deferredFlush, deferredByTarget,
                     host, calls, arrived, stranded>>

(* Mutant of Restore: the rest of the batch is dropped with its ticket. *)
RestoreDropping(t) ==
  LET r == Errand(t).to
  IN  /\ work[t].pc = "restore"
      /\ inFlight' = [inFlight EXCEPT ![r] = Settled(r, work[t].batch)]
      /\ work' = [work EXCEPT ![t].pc = "release", ![t].batch = <<>>]
      /\ UNCHANGED <<queues, nextSeq, history, targets, deferredFlush,
                     deferredByTarget, host, calls, arrived, stranded>>

(* A refused injection cuts the batch: everything not delivered goes back  *)
(* to its place in the queue and its ticket is returned, in one section.   *)
Restore(t) ==
  LET r == Errand(t).to
  IN  /\ work[t].pc = "restore"
      /\ queues' = [queues EXCEPT ![r] = RestoreOrdered(@, work[t].batch)]
      /\ inFlight' = [inFlight EXCEPT ![r] = Settled(r, work[t].batch)]
      /\ work' = [work EXCEPT ![t].pc = "release", ![t].batch = <<>>]
      /\ UNCHANGED <<nextSeq, history, targets, deferredFlush, deferredByTarget,
                     host, calls, arrived, stranded>>

(* FlightSettle::release_targets, before the echo. *)
Release(t) ==
  /\ work[t].pc = "release"
  /\ targets' = targets \ {Errand(t).to}
  /\ work' = [work EXCEPT ![t].pc = "echo"]
  /\ UNCHANGED <<queues, inFlight, nextSeq, history, deferredFlush,
                 deferredByTarget, host, calls, arrived, stranded>>

(* Mutant of Echo: the target axis is not woken. *)
EchoFlushOnly(t) ==
  LET r == Errand(t).to
      ring == work[t].ring \/ r \in deferredFlush
  IN  /\ work[t].pc = "echo"
      /\ deferredFlush' = deferredFlush \ {r}
      /\ work' = [work EXCEPT ![t] = IF ring
                                     THEN [@ EXCEPT !.pc = "ring", !.ring = TRUE]
                                     ELSE Finished(@)]
      /\ UNCHANGED <<queues, inFlight, nextSeq, history, targets,
                     deferredByTarget, host, calls, arrived, stranded>>

(* Take the waiters of both axes out of the lock.  The target axis is only *)
(* looked up for a target this drain released.                             *)
Echo(t) ==
  LET r == Errand(t).to
      byTarget == work[t].held /\ r \in deferredByTarget
      ring == work[t].ring \/ r \in deferredFlush \/ byTarget
  IN  /\ work[t].pc = "echo"
      /\ deferredFlush' = deferredFlush \ {r}
      /\ deferredByTarget' = IF byTarget THEN deferredByTarget \ {r}
                             ELSE deferredByTarget
      /\ work' = [work EXCEPT ![t] = IF ring
                                     THEN [@ EXCEPT !.pc = "ring", !.ring = TRUE]
                                     ELSE Finished(@)]
      /\ UNCHANGED <<queues, inFlight, nextSeq, history, targets, host, calls,
                     arrived, stranded>>

(* request_flush / ring_or_defer: the coalescer keeps one entry per agent. *)
(* A sender that echoes and then rings for its own letter rings once here. *)
Ring(t) ==
  /\ work[t].pc = "ring"
  /\ bells' = bells \cup {Errand(t).to}
  /\ work' = [work EXCEPT ![t] = Finished(@)]
  /\ UNCHANGED <<store, host, appear, arrived, stranded>>

-----------------------------------------------------------------------------
(* Notices, the sweep and profile deletion *)

(* park, notice lane: what exceeds the cap, out of what is queued. *)
NoticesToRetire(r) ==
  OldestNotices(queues[r], LaneLen(r, "Notice") + 1 - NOTICE_CAP)

(* park_notice and the doorbell deliver_notice presses after it. *)
ParkNotice(r) ==
  LET retired == NoticesToRetire(r)
      stale == {l \in retired : IsExpired(l)}
  IN  /\ nextSeq <= MaxLetters
      /\ queues' = [queues EXCEPT ![r] =
                      Append(SelectSeq(@, LAMBDA l : l \notin retired),
                             [seq |-> nextSeq, kind |-> "Notice", age |-> 0])]
      /\ nextSeq' = nextSeq + 1
      /\ history' = Record(Transition(Transition(history, r, stale, "Expired"),
                                      r, retired \ stale, "Skipped"),
                           <<Row(nextSeq, r, "Pending")>>)
      /\ bells' = bells \cup {r}
      /\ UNCHANGED <<inFlight, targets, deferredFlush, deferredByTarget, host,
                     appear, work, arrived, stranded>>

(* Mutant of Sweep: only the queues of live recipients are swept. *)
SweepLiveOnly ==
  LET dead(r) == IF roster[r] # 0 THEN {l \in ToSet(queues[r]) : IsExpired(l)} ELSE {}
  IN  /\ \E r \in Agents : dead(r) # {}
      /\ queues' = [r \in Agents |->
                      SelectSeq(queues[r], LAMBDA l : l \notin dead(r))]
      /\ history' = FoldSet(LAMBDA r, h : Transition(h, r, dead(r), "Expired"),
                            history, Agents)
      /\ UNCHANGED <<inFlight, nextSeq, targets, deferredFlush, deferredByTarget,
                     host, calls, work, arrived, stranded>>

(* sweep: expired letters of every queue, with their rows, in one section. *)
Sweep ==
  /\ \E r \in Agents : Unexpired(queues[r]) # queues[r]
  /\ queues' = [r \in Agents |-> Unexpired(queues[r])]
  /\ history' = FoldSet(LAMBDA r, h : Transition(h, r,
                          {l \in ToSet(queues[r]) : IsExpired(l)}, "Expired"),
                        history, Agents)
  /\ UNCHANGED <<inFlight, nextSeq, targets, deferredFlush, deferredByTarget,
                 host, calls, work, arrived, stranded>>

(* The profile is removed, then handle_profile_deleted asks whether the    *)
(* session is alive: a live one keeps its mail.                            *)
DeleteProfile(a) ==
  /\ a \in profiles \cap Deletable
  /\ profiles' = profiles \ {a}
  /\ purging' = IF roster[a] = 0 THEN purging \cup {a} ELSE purging
  /\ UNCHANGED <<store, roster, lastEpoch, busy, calls, work, arrived, stranded>>

(* Mutant of PurgeDeleted: the rows of the purged letters stay as they are. *)
PurgeQueueOnly(a) ==
  /\ a \in purging
  /\ queues' = [queues EXCEPT ![a] = <<>>]
  /\ purging' = purging \ {a}
  /\ UNCHANGED <<inFlight, nextSeq, history, targets, deferredFlush,
                 deferredByTarget, roster, lastEpoch, profiles, busy, calls, work,
                 arrived, stranded>>

(* The cleanup section: queued letters fail, letters in flight are left.   *)
PurgeDeleted(a) ==
  /\ a \in purging
  /\ queues' = [queues EXCEPT ![a] = <<>>]
  /\ history' = Transition(history, a, ToSet(queues[a]), "Failed")
  /\ purging' = purging \ {a}
  /\ UNCHANGED <<inFlight, nextSeq, targets, deferredFlush, deferredByTarget,
                 roster, lastEpoch, profiles, busy, calls, work, arrived, stranded>>

-----------------------------------------------------------------------------
(* The host: sessions and turns *)

(* The session is registered; the roster diff announces the incarnation.   *)
Spawn(a) ==
  /\ a \in profiles /\ roster[a] = 0 /\ lastEpoch[a] < MaxEpoch
  /\ lastEpoch' = [lastEpoch EXCEPT ![a] = @ + 1]
  /\ roster' = [roster EXCEPT ![a] = lastEpoch'[a]]
  /\ appear' = [appear EXCEPT ![a] = @ + 1]
  /\ UNCHANGED <<store, profiles, busy, purging, bells, work, arrived, stranded>>

(* The session ends and its turn observation is forgotten. *)
SessionEnds(a) ==
  /\ roster[a] # 0
  /\ roster' = [roster EXCEPT ![a] = 0]
  /\ busy' = busy \ {a}
  /\ UNCHANGED <<store, lastEpoch, profiles, purging, calls, work, arrived, stranded>>

(* The gate closes: a turn begins, or user input is queued. *)
GateCloses(a) ==
  /\ roster[a] # 0 /\ a \in Structured \ busy
  /\ busy' = busy \cup {a}
  /\ UNCHANGED <<store, roster, lastEpoch, profiles, purging, calls, work, arrived,
                 stranded>>

(* turn_ended, inputs_drained and sweep_stale_busy all ring; the gate may  *)
(* stay closed (the turn ended in an error, or input is still pending).    *)
GateRings(a) ==
  /\ a \in busy
  /\ busy' \in {busy, busy \ {a}}
  /\ bells' = bells \cup {a}
  /\ UNCHANGED <<store, roster, lastEpoch, profiles, purging, appear, work, arrived,
                 stranded>>

(* Time: every parked letter ages, in the queue or in a batch. *)
Older(q) == [i \in DOMAIN q |-> [q[i] EXCEPT !.age = IF @ < PARK_TTL THEN @ + 1
                                                     ELSE @]]

Tick ==
  /\ ClockRuns
  /\ queues' = [r \in Agents |-> Older(queues[r])]
  /\ work' = [t \in Workers |-> [work[t] EXCEPT !.batch = Older(@)]]
  /\ <<queues, work>>' # <<queues, work>>
  /\ UNCHANGED <<inFlight, nextSeq, history, targets, deferredFlush,
                 deferredByTarget, host, calls, arrived, stranded>>

-----------------------------------------------------------------------------

(* The steps a worker that has started must finish. *)
Work(t) ==
  \/ BackOff(t) \/ DrainNothing(t) \/ DrainTargetHeld(t) \/ DrainGated(t)
  \/ DrainTake(t) \/ InjectLands(t) \/ InjectRefused(t) \/ Settle(t)
  \/ Restore(t) \/ Release(t) \/ Echo(t) \/ Ring(t)

LaneWork(a) ==
  \/ TakeIdle(a) \/ TakeAppear(a) \/ HasParked(a) \/ LaneSnapshot(a)

Host(a) ==
  \/ Spawn(a) \/ SessionEnds(a) \/ GateCloses(a) \/ GateRings(a)
  \/ DeleteProfile(a)

Next ==
  \/ \E t \in Senders : SendSnapshot(t) \/ Accept(t)
  \/ \E t \in Workers : Work(t)
  \/ \E a \in Agents : LaneWork(a) \/ Host(a) \/ PurgeDeleted(a)
  \/ \E a \in Requesters : ParkNotice(a)
  \/ Sweep
  \/ Tick

Spec == Init /\ [][Next]_vars

(* Threads that hold a batch run on, the lanes are served, the clock moves *)
(* and the sweep loop turns.                                               *)
Fairness ==
  /\ \A t \in Workers : WF_vars(Work(t))
  /\ \A a \in Agents : WF_vars(LaneWork(a))
  /\ WF_vars(Tick)
  /\ WF_vars(Sweep)

FairSpec == Spec /\ Fairness

-----------------------------------------------------------------------------

Letter == [seq : 1..MaxLetters, kind : Kinds, age : 0..PARK_TTL]

Statuses == {"Pending", "Delivered", "Expired", "Skipped", "Failed"}

(* Every variable has the shape of the state it models. *)
TypeOK ==
  /\ \A r \in Agents : ToSet(queues[r]) \subseteq Letter
  /\ inFlight \in [Agents -> [Kinds -> Nat]]
  /\ nextSeq \in 1..(MaxLetters + 1)
  /\ \A i \in DOMAIN history : /\ history[i].seq \in 0..MaxLetters
                               /\ history[i].to \in Agents
                               /\ history[i].status \in Statuses
  /\ Len(history) <= HISTORY_CAPACITY
  /\ targets \subseteq Agents /\ deferredFlush \subseteq Agents
  /\ deferredByTarget \subseteq Agents
  /\ roster \in [Agents -> 0..MaxEpoch]
  /\ profiles \subseteq Agents /\ busy \subseteq Structured
  /\ purging \subseteq Agents /\ bells \subseteq Agents
  /\ appear \in [Agents -> 0..MaxEpoch]
  /\ \A t \in Workers : /\ work[t].pc \in Pcs
                        /\ ToSet(work[t].batch) \subseteq Letter

(* Workers that carry a batch of r outside the lock. *)
Carriers(r) == {t \in Workers : /\ work[t].pc \in {"inject", "settle", "restore"}
                                /\ Errand(t).to = r}

Carried(r) == UNION {ToSet(work[t].batch) : t \in Carriers(r)}

Outstanding(r) == ToSet(queues[r]) \cup Carried(r)

(* mailbox.rs take_in_flight / settle_in_flight: the counters that the     *)
(* admission verdict and the back-off test read are exactly the letters    *)
(* some drain holds, through partial settlement and refusal, and at most   *)
(* one drain holds letters of a recipient.  (And the types hold.)          *)
TicketsMatchBatches ==
  TypeOK /\ \A r \in Agents :
    /\ Cardinality(Carriers(r)) <= 1
    /\ \A k \in Kinds :
         inFlight[r][k] = Cardinality({l \in Carried(r) : l.kind = k})

(* ADR-0125: letters reach a recipient in admission order and at most      *)
(* once, whatever drains, refusals and restarts happen in between.         *)
ArrivalOrder ==
  \A r \in Agents : \A i, j \in DOMAIN arrived[r] :
    i < j => arrived[r][i] < arrived[r][j]

(* ledger.rs rows against the truth: a Pending row has its letter in the   *)
(* queue or in a batch (no ghost pending), an outstanding letter's row is  *)
(* Pending unless evicted, a Delivered row's letter did arrive, and a row  *)
(* closed any other way belongs to a letter that never will.               *)
LedgerTellsTruth ==
  \A i \in DOMAIN history :
    LET row == history[i]
        out == \E l \in Outstanding(row.to) : l.seq = row.seq
        got == row.seq \in ToSet(arrived[row.to])
    IN  CASE row.status = "Pending"   -> out
          [] row.status = "Delivered" -> got /\ ~out
          [] OTHER                    -> ~got /\ ~out

(* A drain of r that is under way and will look for waiters at its end. *)
Winners(r) == {t \in Workers : /\ work[t].pc \in {"inject", "settle", "restore",
                                                  "release", "echo"}
                               /\ Errand(t).to = r}

(* Something that will look at r's queue: a doorbell or an appearance, a   *)
(* waiter with a winner to answer it, a lane or a sender about to drain    *)
(* it, or a ring still to come.                                            *)
HasOccasion(r) ==
  \/ r \in bells \/ appear[r] > 0
  \/ r \in deferredFlush /\ Winners(r) # {}
  \/ r \in deferredByTarget /\ \E t \in Winners(r) : work[t].held
  \/ work[r].pc \in {"check", "snapshot"}
  \/ \E t \in Workers : \E i \in DOMAIN work[t].errands :
       /\ work[t].errands[i].to = r
       /\ i > 1 \/ work[t].pc = "drain" \/ work[t].ring

Waiting(r) == \E l \in ToSet(queues[r]) : ~IsExpired(l)

Reachable(r) == roster[r] # 0 /\ r \notin busy

(* messaging-v1-spec.md section 5: "a trigger that opens the share that    *)
(* could not go out necessarily exists".  A letter parked for a live       *)
(* recipient that is not in a turn has an occasion to go out, unless that  *)
(* recipient refused an injection (no bell is pressed for that, by rule).  *)
NoIsolation ==
  \A r \in Agents :
    Waiting(r) /\ Reachable(r) => HasOccasion(r) \/ <<r, "refused">> \in stranded

(* The same, but for one more path: a share parked as dormant for a        *)
(* recipient that woke up after the sender's snapshot.  No other           *)
(* interleaving of sends, lanes, turns, restarts and deletions isolates a  *)
(* letter; and a waiter that a drain left when it backed off is never an   *)
(* orphan (deferred_flush, deferred_by_target).                            *)
IsolationIsKnown ==
  \A r \in Agents :
    /\ r \in deferredFlush => Winners(r) # {}
    /\ r \in deferredByTarget => \E t \in Winners(r) : work[t].held
    /\ Waiting(r) /\ Reachable(r) => HasOccasion(r) \/ \E s \in stranded : s[1] = r

(* mailbox.rs NOTICE_CAP: "temporary +1 overshoot", which "returns by      *)
(* itself": the notice lane never exceeds the cap by more than one.        *)
NoticeOvershootIsOne == \A r \in Agents : LaneLen(r, "Notice") <= NOTICE_CAP + 1

(* "Never silently discard live mail": a message leaves the outstanding    *)
(* letters of a recipient only by having arrived, by reaching its TTL, or  *)
(* because the recipient was deleted; and its row, unless evicted, is      *)
(* closed in that very step.                                               *)
NeverSilentlyDropped ==
  [][\A r \in Agents : \A l \in Outstanding(r) :
       (\A m \in Outstanding(r)' : m.seq # l.seq) =>
         /\ \/ l.seq \in ToSet(arrived[r])
            \/ IsExpired(l)
            \/ r \notin profiles
            \/ l.kind = "Notice"
         /\ \A i \in DOMAIN history' :
              history'[i].to = r /\ history'[i].seq = l.seq =>
                history'[i].status # "Pending"]_vars

-----------------------------------------------------------------------------
(* Refinement: what the store promises (module MailLanes). *)

Bare(S) == {[seq |-> l.seq, kind |-> l.kind] : l \in S}

SettledArrivals(r) ==
  IF \E t \in Carriers(r) : work[t].pc = "settle"
  THEN Front(arrived[r]) ELSE arrived[r]

Lanes == INSTANCE MailLanes WITH
  queued  <- [r \in Agents |-> Bare(ToSet(queues[r]))],
  flying  <- [r \in Agents |-> Bare(Carried(r))],
  lastOut <- [r \in Agents |-> IF SettledArrivals(r) = <<>> THEN 0
                               ELSE Last(SettledArrivals(r))]

(* MailKernel implements MailLanes: its lock sections are the steps of the *)
(* parking store, the rest is invisible there.                             *)
ImplementsLanes == Lanes!Spec
=============================================================================
