------------------------------ MODULE PeerLink ------------------------------
(***************************************************************************)
(* One peer of the transport crate: the supervisor task that dials, shakes *)
(* hands, runs and loses links (machine.rs, peer.rs), the requests that    *)
(* wait for a reply (pending.rs), and the handles that callers on other    *)
(* threads use without a lock on any of it.                                *)
(*                                                                         *)
(* A connection generation is minted afresh for every link and is compared *)
(* for equality only, so a command carries "now" or "old": every mark ages *)
(* when a link goes live.  Clocks are choices: a deadline may pass at any  *)
(* time, a lost link may or may not have lived for live_dwell.  Streams    *)
(* are in PeerStream.                                                      *)
(*                                                                         *)
(* Source: crates/engram-dashboard-transport/src/{machine,pending,peer}.rs *)
(***************************************************************************)
EXTENDS Integers, FiniteSets, SequencesExt

CONSTANTS
  Requests,
  Tags,
  TagOf,        \* Wire::request_tag; two requests may carry one tag
  MaxAttempts,  \* ReconnectPolicy.max_attempts
  QueueCap,     \* Policy.outbound_queue
  RetiredCap    \* tags the retired ring remembers

NoSlot == "none"

ASSUME LinkAssumption ==
  /\ NoSlot \notin Requests
  /\ TagOf \in [Requests -> Tags] /\ IsFiniteSet(Requests)
  /\ {MaxAttempts, QueueCap, RetiredCap} \subseteq Nat \ {0}

VARIABLES
  mode,     \* "dial", or "accepted": a link the peer opened, not redialled
  state,    \* Machine.state, as published to the handles
  ending,   \* the input run_live returned with, while its read-ahead is
            \* salvaged; "none" otherwise
  retries, flaps,
  queue,    \* the data queue: [op, req, gen]
  ctl,      \* control signals not taken yet
  goodbye,  \* close_after_flush was called
  caller,   \* per request: where it is, and the generation it is bound to
  waiting,  \* Pending.waiting: tags with a slot, and the slot's request
  retired,  \* Pending.retired, oldest first
  replies,  \* replies on this link: [tag, from]
  written,  \* history variable: requests whose frame may have gone out
  dials     \* history variable: dials since the budget was last renewed

machine == <<state, ending, retries, flaps, dials>>
handle  == <<queue, ctl, goodbye>>
pending == <<waiting, retired>>
vars    == <<mode, machine, handle, caller, pending, replies, written>>

Answers == {"reply", "wrongReply", "timedOut", "notSent", "maybeSent",
            "queueFull", "tagRetired", "superseded"}

Command(op, r) == [op |-> op, req |-> r, gen |-> "now"]

Init ==
  /\ mode \in {"dial", "accepted"}
  /\ state = (IF mode = "dial" THEN "dialing" ELSE "handshaking")
  /\ ending = "none" /\ retries = 0 /\ flaps = 0 /\ dials = 1
  /\ queue = <<>> /\ ctl = {} /\ goodbye = FALSE
  /\ caller = [r \in Requests |-> [pc |-> "idle", gen |-> "now"]]
  /\ waiting = [t \in Tags |-> NoSlot] /\ retired = <<>>
  /\ replies = {} /\ written = {}

-----------------------------------------------------------------------------
(* The handles. *)

Settled(c, R, answer) ==
  [r \in Requests |-> IF r \in R THEN [c[r] EXCEPT !.pc = answer] ELSE c[r]]

(* request_in: refuse, or remember the generation and go on to try_send. *)
Bind(r) ==
  /\ caller[r].pc = "idle"
  /\ caller' = [caller EXCEPT ![r] =
       [pc |-> IF goodbye \/ state # "live" THEN "notSent" ELSE "bound",
        gen |-> "now"]]
  /\ UNCHANGED <<mode, machine, handle, pending, replies, written>>

(* try_send: the link the caller looked at may be gone by now.  A full     *)
(* queue is counted (count_overflow) and, under QueueFullPolicy::          *)
(* Disconnect, costs the link the command was bound to.                    *)
Push(r) ==
  /\ caller[r].pc = "bound"
  /\ IF state = "closed" THEN
       caller' = Settled(caller, {r}, "notSent") /\ UNCHANGED <<queue, ctl>>
     ELSE IF Len(queue) >= QueueCap THEN
       /\ caller' = Settled(caller, {r}, "queueFull")
       /\ ctl' = IF caller[r].gen = "now" THEN ctl \cup {"overflow"} ELSE ctl
       /\ UNCHANGED queue
     ELSE
       /\ caller' = Settled(caller, {r}, "queued")
       /\ queue' = Append(queue, [Command("request", r) EXCEPT !.gen = caller[r].gen])
       /\ UNCHANGED ctl
  /\ UNCHANGED <<mode, machine, goodbye, pending, replies, written>>

(* reconnect_now, close (or the consumer dropping its inbox). *)
Signal(s) ==
  /\ state # "closed" /\ s \notin ctl
  /\ s = "reconnect" => ~goodbye /\ mode = "dial"
  /\ ctl' = ctl \cup {s}
  /\ UNCHANGED <<mode, machine, queue, goodbye, caller, pending, replies, written>>

(* close_after_flush: the marker goes behind what is queued. *)
CloseAfterFlush ==
  /\ ~goodbye /\ state # "closed"
  /\ goodbye' = TRUE
  /\ IF Len(queue) < QueueCap
     THEN queue' = Append(queue, Command("close", NoSlot)) /\ UNCHANGED ctl
     ELSE ctl' = ctl \cup {"close"} /\ UNCHANGED queue
  /\ UNCHANGED <<mode, machine, caller, pending, replies, written>>

-----------------------------------------------------------------------------
(* The machine's moves.  fail_pending answers every waiter as possibly     *)
(* sent and every queued command as not sent.                              *)

Waiters(q) == {q[i].req : i \in {j \in DOMAIN q : q[j].op = "request"}}
Slots(w)   == {w[t] : t \in Tags} \ {NoSlot}

(* Mutant of FailPending: queued commands are dropped without an answer. *)
FailPendingWaitersOnly ==
  /\ caller' = Settled(caller, Slots(waiting), "maybeSent")
  /\ waiting' = [t \in Tags |-> NoSlot]
  /\ queue' = <<>>
  /\ replies' = {}

FailPending ==
  /\ caller' = Settled(Settled(caller, Slots(waiting), "maybeSent"),
                       Waiters(queue), "notSent")
  /\ waiting' = [t \in Tags |-> NoSlot]
  /\ queue' = <<>>
  /\ replies' = {}

Closing ==
  /\ FailPending
  /\ state' = "closed" /\ ctl' = {}
  /\ UNCHANGED <<mode, retries, flaps, dials, goodbye, retired, written>>

Redial ==
  /\ state' = "dialing" /\ retries' = 0 /\ flaps' = 0 /\ dials' = 1
  /\ FailPending
  /\ UNCHANGED <<mode, goodbye, retired, written>>

(* schedule_retry, and the run loop folding Backoff and GaveUp into a      *)
(* close for an accepted peer or once flushing.                            *)
ScheduleRetry(f) ==
  IF mode = "accepted" \/ goodbye THEN state' = "closed" /\ retries' = retries
  ELSE IF retries >= MaxAttempts \/ f >= MaxAttempts
       THEN state' = "gaveUp" /\ retries' = retries
       ELSE state' = "backoff" /\ retries' = retries + 1

Down == state \in {"dialing", "handshaking", "backoff", "gaveUp"}

(* Outside run_live, goodbye and the control signals end what is awaited;  *)
(* what is awaited may win the race.                                       *)
DownClose ==
  /\ Down /\ (goodbye \/ "close" \in ctl)
  /\ Closing /\ UNCHANGED ending

DownReconnect ==
  /\ Down /\ "reconnect" \in ctl /\ ~goodbye
  /\ ctl' = ctl \ {"reconnect"}
  /\ Redial /\ UNCHANGED ending

Dialed ==
  /\ state = "dialing"
  /\ state' = "handshaking"
  /\ UNCHANGED <<mode, ending, retries, flaps, dials, handle, caller, pending,
                 replies, written>>

(* Connected: the new generation ages every mark made before it. *)
Connected ==
  /\ state = "handshaking"
  /\ state' = "live" /\ retries' = 0
  /\ queue' = [i \in DOMAIN queue |-> [queue[i] EXCEPT !.gen = "old"]]
  /\ caller' = [r \in Requests |-> [caller[r] EXCEPT !.gen = "old"]]
  /\ ctl' = ctl \ {"overflow"}
  /\ UNCHANGED <<mode, ending, flaps, dials, goodbye, pending, replies, written>>

(* on_connect_failed: refused for good, or try again.  What is queued      *)
(* waits for the next state that drains the queue.                         *)
Rejected ==
  /\ state \in {"dialing", "handshaking"}
  /\ IF mode = "accepted" \/ goodbye
     THEN state' = "closed" ELSE state' = "gaveUp"
  /\ FailPending
  /\ UNCHANGED <<mode, ending, retries, flaps, dials, ctl, goodbye, retired, written>>

ConnectFailed ==
  /\ state \in {"dialing", "handshaking"}
  /\ ScheduleRetry(flaps)
  /\ IF mode = "accepted" \/ goodbye THEN FailPending
     ELSE UNCHANGED <<caller, waiting, queue, replies>>
  /\ UNCHANGED <<mode, ending, flaps, dials, ctl, goodbye, retired, written>>

BackoffElapsed ==
  /\ state = "backoff"
  /\ state' = "dialing" /\ dials' = dials + 1
  /\ UNCHANGED <<mode, ending, retries, flaps, handle, caller, pending, replies,
                 written>>

(* wait and park reject what a late caller still queues. *)
RejectCommand ==
  /\ state \in {"backoff", "gaveUp"} /\ queue # <<>>
  /\ caller' = Settled(caller, Waiters(<<Head(queue)>>), "notSent")
  /\ queue' = Tail(queue)
  /\ UNCHANGED <<mode, machine, ctl, goodbye, pending, replies, written>>

-----------------------------------------------------------------------------
(* run_live. *)

Running == state = "live" /\ ending = "none"

(* run_live returns: frames not read yet are lost, the rest is salvaged. *)
Leave(input, frames) ==
  /\ ending' = input
  /\ replies' \in SUBSET frames

(* drain_ctl, or the select on the control channel. *)
LiveSignal ==
  /\ Running
  /\ \/ "close" \in ctl /\ Leave("close", replies)
     \/ "reconnect" \in ctl /\ ~goodbye /\ Leave("reconnect", replies)
     \/ "overflow" \in ctl /\ Leave("lost", replies)
  /\ ctl' = ctl \ (IF ending' = "lost" THEN {"overflow"} ELSE {ending'})
  /\ UNCHANGED <<mode, state, retries, flaps, dials, queue, goodbye, caller,
                 pending, written>>

(* A read or write failure, an idle link, the peer closing; or the flush   *)
(* deadline.                                                               *)
LinkLost ==
  /\ Running
  /\ Leave("lost", replies) \/ (goodbye /\ Leave("close", replies))
  /\ UNCHANGED <<mode, state, retries, flaps, dials, handle, caller, pending,
                 written>>

TakeFront == queue' = Tail(queue)

RejectStale ==
  /\ Running /\ queue # <<>>
  /\ Head(queue).op # "close" /\ Head(queue).gen = "old"
  /\ caller' = Settled(caller, Waiters(<<Head(queue)>>), "notSent")
  /\ TakeFront
  /\ UNCHANGED <<mode, machine, ctl, goodbye, pending, replies, written>>

TakeMarker ==
  /\ Running /\ queue # <<>> /\ Head(queue).op = "close"
  /\ Leave("close", replies) /\ TakeFront
  /\ UNCHANGED <<mode, state, retries, flaps, dials, ctl, goodbye, caller,
                 pending, written>>

(* RetiredRing::insert *)
Retire(s, t) ==
  LET all == IF t \in ToSet(s) THEN s ELSE Append(s, t)
  IN  IF Len(all) > RetiredCap THEN Tail(all) ELSE all

Fresh(r) ==
  /\ Running /\ queue # <<>>
  /\ Head(queue) = Command("request", r)
  /\ TakeFront

(* Pending::insert, Insert::Retired *)
RefuseTag(r) ==
  /\ Fresh(r) /\ TagOf[r] \in ToSet(retired)
  /\ caller' = Settled(caller, {r}, "tagRetired")
  /\ UNCHANGED <<mode, machine, ctl, goodbye, pending, replies, written>>

(* Insert::Collided: both fail, and the tag is retired. *)
Collide(r) ==
  /\ Fresh(r) /\ TagOf[r] \notin ToSet(retired) /\ waiting[TagOf[r]] # NoSlot
  /\ caller' = Settled(Settled(caller, {waiting[TagOf[r]]}, "superseded"),
                       {r}, "tagRetired")
  /\ waiting' = [waiting EXCEPT ![TagOf[r]] = NoSlot]
  /\ retired' = Retire(retired, TagOf[r])
  /\ UNCHANGED <<mode, machine, ctl, goodbye, replies, written>>

(* Insert::Placed, then the write: it succeeds, fails, or is given up for  *)
(* a control signal; only a failure before the first byte leaves nothing   *)
(* written, and the supervisor cannot tell.                                *)
WriteRequest(r) ==
  /\ Fresh(r) /\ TagOf[r] \notin ToSet(retired) /\ waiting[TagOf[r]] = NoSlot
  /\ waiting' = [waiting EXCEPT ![TagOf[r]] = r]
  /\ caller' = Settled(caller, {r}, "waiting")
  /\ \/ written' = written \cup {r} /\ UNCHANGED <<ending, replies, ctl>>
     \/ /\ written' \in {written, written \cup {r}}
        /\ \/ Leave("lost", replies) /\ UNCHANGED ctl
           \/ /\ \E s \in ctl \ {"overflow"} :
                   /\ s = "reconnect" => ~goodbye
                   /\ Leave(s, replies) /\ ctl' = ctl \ {s}
  /\ UNCHANGED <<mode, state, retries, flaps, dials, goodbye, retired>>

(* The peer (external) answers a request it received on this link. *)
PeerAnswers(r) ==
  /\ Running /\ r \in written /\ caller[r].gen = "now"
  /\ caller[r].pc \in {"waiting", "timedOut", "superseded"}
  /\ replies' = replies \cup {[tag |-> TagOf[r], from |-> r]}
  /\ UNCHANGED <<mode, machine, handle, caller, pending, written>>

(* route: a reply goes to the slot of its tag, or nowhere; in run_live and *)
(* while the read-ahead is salvaged.                                       *)
RouteReply(p) ==
  /\ state = "live" /\ p \in replies
  /\ replies' = replies \ {p}
  /\ IF waiting[p.tag] = NoSlot THEN UNCHANGED <<caller, waiting>>
     ELSE /\ caller' = Settled(caller, {waiting[p.tag]},
                IF waiting[p.tag] = p.from THEN "reply" ELSE "wrongReply")
          /\ waiting' = [waiting EXCEPT ![p.tag] = NoSlot]
  /\ UNCHANGED <<mode, machine, handle, retired, written>>

(* Mutant of TimeOut: the tag is free at once. *)
TimeOutForgetting(t) ==
  /\ Running /\ waiting[t] # NoSlot
  /\ caller' = Settled(caller, {waiting[t]}, "timedOut")
  /\ waiting' = [waiting EXCEPT ![t] = NoSlot]
  /\ UNCHANGED <<mode, machine, handle, retired, replies, written>>

(* on_timer, Pending::expire *)
TimeOut(t) ==
  /\ Running /\ waiting[t] # NoSlot
  /\ caller' = Settled(caller, {waiting[t]}, "timedOut")
  /\ waiting' = [waiting EXCEPT ![t] = NoSlot]
  /\ retired' = Retire(retired, t)
  /\ UNCHANGED <<mode, machine, handle, replies, written>>

(* The machine takes the input run_live ended with. *)
LiveClosed ==
  /\ state = "live" /\ ending = "close" /\ replies = {}
  /\ ending' = "none" /\ Closing

LiveReconnect ==
  /\ state = "live" /\ ending = "reconnect" /\ replies = {}
  /\ ending' = "none" /\ Redial /\ UNCHANGED ctl

(* Mutant of LiveLost: a link that did not last renews the budget too. *)
LiveLostForgiving ==
  /\ state = "live" /\ ending = "lost" /\ replies = {}
  /\ ending' = "none"
  /\ \E dwelled \in BOOLEAN :
       /\ flaps' = 0
       /\ ScheduleRetry(flaps')
       /\ dials' = IF dwelled THEN 0 ELSE dials
  /\ FailPending
  /\ UNCHANGED <<mode, ctl, goodbye, retired, written>>

LiveLost ==
  /\ state = "live" /\ ending = "lost" /\ replies = {}
  /\ ending' = "none"
  /\ \E dwelled \in BOOLEAN :
       /\ flaps' = IF dwelled THEN 0 ELSE flaps + 1
       /\ ScheduleRetry(flaps')
       /\ dials' = IF dwelled THEN 0 ELSE dials
  /\ FailPending
  /\ UNCHANGED <<mode, ctl, goodbye, retired, written>>

-----------------------------------------------------------------------------
Supervisor ==
  \/ DownClose \/ DownReconnect \/ Dialed \/ Connected \/ Rejected
  \/ ConnectFailed \/ BackoffElapsed \/ RejectCommand
  \/ LiveSignal \/ LinkLost \/ RejectStale \/ TakeMarker
  \/ \E r \in Requests : RefuseTag(r) \/ Collide(r) \/ WriteRequest(r)
  \/ \E t \in Tags : TimeOut(t)
  \/ \E p \in replies : RouteReply(p)
  \/ LiveClosed \/ LiveReconnect \/ LiveLost

Next ==
  \/ Supervisor \/ CloseAfterFlush
  \/ \E r \in Requests : Bind(r) \/ Push(r) \/ PeerAnswers(r)
  \/ \E s \in {"reconnect", "close"} : Signal(s)

Spec == Init /\ [][Next]_vars

(* A caller inside request_in goes on; dials, handshakes, backoffs and     *)
(* request timeouts have deadlines; the loop looks at its queue between    *)
(* frames (next_turn); a salvage ends.  Links need not last and the peer   *)
(* need not answer.                                                        *)
Attempt == DownClose \/ DownReconnect \/ Dialed \/ Connected \/ Rejected
             \/ ConnectFailed \/ BackoffElapsed
TakeCommand ==
  \/ RejectStale \/ TakeMarker \/ RejectCommand
  \/ \E r \in Requests : RefuseTag(r) \/ Collide(r) \/ WriteRequest(r)
Ended == LiveClosed \/ LiveReconnect \/ LiveLost
           \/ (ending # "none" /\ \E p \in replies : RouteReply(p))

Fairness ==
  /\ \A r \in Requests : WF_vars(Push(r))
  /\ WF_vars(Attempt) /\ WF_vars(TakeCommand) /\ WF_vars(Ended)
  /\ \A t \in Tags : WF_vars(TimeOut(t))

FairSpec == Spec /\ Fairness

-----------------------------------------------------------------------------
(* Every variable has the shape of the state it models. *)
TypeOK ==
  /\ mode \in {"dial", "accepted"}
  /\ state \in {"dialing", "handshaking", "live", "backoff", "gaveUp", "closed"}
  /\ ending \in {"none", "lost", "reconnect", "close"}
  /\ retries \in Nat /\ flaps \in Nat /\ dials \in Nat
  /\ queue \in Seq([op : {"request", "close"}, req : Requests \cup {NoSlot},
                    gen : {"now", "old"}])
  /\ Len(queue) <= QueueCap
  /\ ctl \subseteq {"reconnect", "close", "overflow"} /\ goodbye \in BOOLEAN
  /\ caller \in [Requests -> [pc : {"idle", "bound", "queued", "waiting"} \cup Answers,
                              gen : {"now", "old"}]]
  /\ waiting \in [Tags -> Requests \cup {NoSlot}]
  /\ retired \in Seq(Tags)
  /\ replies \subseteq [tag : Tags, from : Requests]
  /\ written \subseteq Requests

(* RequestError::Disconnected { sent: false } (and QueueFull, TagRetired)  *)
(* invites the caller to send again: it is said only of a request of which *)
(* no byte can have left, whatever the link did between the caller's check *)
(* and the write.                                                          *)
NotSentIsTrue ==
  \A r \in Requests :
    caller[r].pc \in {"idle", "bound", "queued", "notSent", "queueFull",
                      "tagRetired"} => r \notin written

(* pending.rs "rather than misdeliver, it fails both": a reply reaches the *)
(* request it answers or nobody, even when a tag is used twice and the     *)
(* first answer is late.                                                   *)
RepliesMatch == \A r \in Requests : caller[r].pc # "wrongReply"

(* What a caller is told is true. *)
AnswersAreTrue == NotSentIsTrue /\ RepliesMatch

(* machine.rs, the two axes of the reconnect budget: a link that cannot be *)
(* had and one that is had and does not last, mixed in any order, cost at  *)
(* most 1 + of * of dials before the peer gives up.  (On states of the     *)
(* right types.)                                                           *)
DialsAreBounded == TypeOK /\ dials <= 1 + MaxAttempts * MaxAttempts

(* Every request that was let in gets an answer, however the link flaps    *)
(* and whether or not the peer ever replies.                               *)
EveryRequestSettles ==
  \A r \in Requests : caller[r].pc = "bound" ~> caller[r].pc \in Answers
=============================================================================
