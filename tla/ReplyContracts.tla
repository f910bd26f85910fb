--------------------------- MODULE ReplyContracts ---------------------------
(***************************************************************************)
(* Reply contracts of the messaging ledger: a send that asks for a reply   *)
(* opens one contract per recipient, a reply closes it, a deadline sends   *)
(* the requester one notice, and the number of open contracts is bounded   *)
(* by retiring settled ones.                                               *)
(*                                                                         *)
(* handle_send holds the state lock over all its recipients.  The steps it *)
(* takes there are actions of their own, so that what the marks and        *)
(* reservations look like half-way is visible to the invariants; `lock`    *)
(* names the thread inside.  The mailbox is abstracted to its verdict (is  *)
(* there room), a delivery is left to MailKernel, an id is never drawn     *)
(* twice, and a recipient's history row is its message id.  The list of    *)
(* contracts is a map from its key: what only the list's order decides     *)
(* (which of two equally old contracts makes room, which notice goes out   *)
(* first) is left open.                                                    *)
(*                                                                         *)
(* Source: crates/engram-dashboard-messaging/src/{ledger,service}.rs.      *)
(***************************************************************************)
EXTENDS Integers, FiniteSets, SequencesExt

CONSTANTS
  Agents,
  Senders,            \* threads that may be inside handle_send
  Sends,              \* what a send may be: [from, to, asks, deadline, replies]
  MAX_OPEN_REQUESTS,  \* open contract limit (512 in the code)
  HISTORY_CAPACITY,   \* history rows (4096 in the code)
  ReplyBy,            \* the deadline of a contract that has one, in ticks
  MaxIds,             \* bound: messages sent in one behaviour
  MaxTime             \* bound: clock

Free == "free"

ASSUME ContractsAssumption ==
  /\ MAX_OPEN_REQUESTS \in Nat \ {0} /\ HISTORY_CAPACITY \in Nat \ {0}
  /\ ReplyBy \in Nat /\ MaxIds \in Nat /\ MaxTime \in Nat
  /\ Free \notin Senders /\ IsFiniteSet(Agents)
  /\ \A s \in Sends :
       /\ s \in [from : Agents, to : Seq(Agents), asks : BOOLEAN,
                 deadline : BOOLEAN, replies : BOOLEAN]
       /\ s.to # <<>> /\ IsInjective(s.to)
       /\ s.replies => Len(s.to) = 1 /\ ~s.asks

VARIABLES
  lock,      \* the thread inside handle_send's critical section, or Free
  requests,  \* Ledger.requests, by <<message id, recipient>>
  history,   \* Ledger.history: message ids, oldest first
  thread,    \* what each sender is doing
  sweeper,   \* the sweep task: [pc, due, at]
  deleted,   \* profiles deleted (and dead)
  cleanups,  \* deletions whose cleanup section has not run yet
  clock,
  nextId,
  promised,  \* history variable: contracts committed with a deadline
  answered,  \* history variable: contracts closed by an accepted reply
  failed,    \* history variable: contracts closed as reply_failed
  notices    \* history variable: keys of the notices posted, in order

ghosts == <<promised, answered, failed, notices>>
vars   == <<lock, requests, history, thread, sweeper, deleted, cleanups, clock,
            nextId, ghosts>>

None == <<>>

Keys == (1..MaxIds) \X Agents

Rest == [pc |-> "idle", id |-> 0, now |-> 0, send |-> None, todo |-> <<>>,
         parks |-> <<>>, re |-> 0, done |-> FALSE, sawGone |-> FALSE]

SweepRest == [pc |-> "idle", due |-> {}, at |-> None]

Init ==
  /\ lock = Free
  /\ requests = <<>> /\ history = <<>>
  /\ thread = [t \in Senders |-> Rest]
  /\ sweeper = SweepRest
  /\ deleted = {} /\ cleanups = {}
  /\ clock = 0 /\ nextId = 1
  /\ promised = {} /\ answered = {} /\ failed = {} /\ notices = <<>>

-----------------------------------------------------------------------------
(* Ledger *)

OccupiesSlot(e) == (~e.closed \/ e.provisional) /\ ~e.retiring

Occupied(rs) == {k \in DOMAIN rs : OccupiesSlot(rs[k])}

OccupiedSlots(rs) == Cardinality(Occupied(rs))

(* Mutant of Purge: live contracts go with their history too. *)
PurgeLiveToo(rs, h) ==
  Restrict(rs, {k \in DOMAIN rs : rs[k].provisional \/ k[1] \in ToSet(h)})

(* purge_finished_without_history: a finished contract is dropped once no  *)
(* history row bears its id; a live or provisional one stays.              *)
Purge(rs, h) ==
  Restrict(rs, {k \in DOMAIN rs : \/ ~rs[k].closed \/ rs[k].provisional
                                  \/ k[1] \in ToSet(h)})

(* record_with_expected: push a row; when one is evicted, purge. *)
Pushed(h, id) ==
  IF Len(h) < HISTORY_CAPACITY THEN Append(h, id) ELSE Append(Tail(h), id)

AfterRecord(rs, h, id) ==
  IF Len(h) < HISTORY_CAPACITY THEN rs ELSE Purge(rs, Pushed(h, id))

(* Mutant of Retirable: any settled-in contract may make room. *)
RetirableAny(e) == OccupiesSlot(e) /\ ~e.provisional

(* Who may make room: a contract whose notice went out, or that has none.  *)
Retirable(e) == OccupiesSlot(e) /\ ~e.provisional /\ (e.notified \/ ~e.deadline)

(* open_request's victim: one of the earliest created. *)
Victims(rs) ==
  LET can == {k \in DOMAIN rs : Retirable(rs[k])}
  IN  {k \in can : \A j \in can : rs[k].created <= rs[j].created}

(* Whom a new contract displaces: nobody while a slot is free.             *)
VictimsFor(rs) == IF OccupiedSlots(rs) < MAX_OPEN_REQUESTS THEN {None} ELSE Victims(rs)

IsFull(rs) == VictimsFor(rs) = {}

(* The retirement mark of contract k, set. *)
WithMark(rs, k, mark) ==
  [j \in DOMAIN rs |-> IF j = k THEN [rs[j] EXCEPT !.retiring = mark] ELSE rs[j]]

Without(rs, k) == Restrict(rs, DOMAIN rs \ {k})

Provisional(th, victim) ==
  [from |-> th.send.from, created |-> th.now, deadline |-> th.send.deadline,
   closed |-> FALSE, replyFailed |-> FALSE, notified |-> FALSE,
   retiring |-> FALSE, provisional |-> TRUE, victim |-> victim]

(* open_request: the victim is marked, and a provisional entry remembers   *)
(* it.                                                                     *)
Opened(rs, th, to, victim) ==
  [k \in DOMAIN rs \cup {<<th.id, to>>} |->
     IF k = <<th.id, to>> THEN Provisional(th, victim)
     ELSE WithMark(rs, victim, TRUE)[k]]

(* Mutant of RolledBack: the victim keeps its mark. *)
RolledBackKeepingMark(rs, k, victim) == Without(rs, k)

(* rollback_open: the victim is unmarked, the provisional entry dropped.   *)
RolledBack(rs, k, victim) == Without(WithMark(rs, victim, FALSE), k)

(* commit_open: confirmed, and the marked victim removed.                  *)
Confirmed(rs, k) ==
  [j \in DOMAIN rs |->
     IF j = k THEN [rs[j] EXCEPT !.provisional = FALSE, !.victim = None] ELSE rs[j]]

Retired(rs, victim) ==
  Restrict(rs, {j \in DOMAIN rs : ~(j = victim /\ rs[j].retiring)})

Committed(rs, h, k, victim) ==
  IF victim = None THEN Confirmed(rs, k)
  ELSE Purge(Retired(Confirmed(rs, k), victim), h)

(* The tail of close_on_reply, fail_on_undeliverable_reply and             *)
(* fail_open_requests_from.                                                *)
Marked(rs, keys, asFailed) ==
  [k \in DOMAIN rs |->
     IF k \in keys THEN [rs[k] EXCEPT !.closed = TRUE, !.replyFailed = asFailed]
     ELSE rs[k]]

Closed(rs, h, keys, asFailed) ==
  IF keys = {} THEN rs ELSE Purge(Marked(rs, keys, asFailed), h)

(* close_on_reply: the contract of that id whose recipient is the replier, *)
(* if it is open.                                                          *)
OpenFor(rs, id, replier) ==
  {k \in DOMAIN rs : k = <<id, replier>> /\ ~rs[k].closed}

(* Mutant of Failable: a contract already answered is failed as well. *)
FailableAny(rs, keys) == DOMAIN rs \cap keys

(* Failure closes skip finished contracts and those a reservation owns.    *)
Failable(rs, keys) ==
  {k \in DOMAIN rs \cap keys : ~rs[k].closed /\ ~rs[k].provisional /\ ~rs[k].retiring}

-----------------------------------------------------------------------------
(* handle_send *)

(* The clock and the roster are read before the lock is taken. *)
Begin(t) ==
  /\ thread[t].pc = "idle" /\ nextId <= MaxIds
  /\ \E s \in Sends : \E re \in (IF s.replies THEN 1..(nextId - 1) ELSE {0}) :
       thread' = [thread EXCEPT ![t] =
         [Rest EXCEPT !.pc = "reserve", !.id = nextId, !.now = clock, !.send = s,
                      !.re = re,
                      !.todo = [i \in DOMAIN s.to |->
                                  [to |-> s.to[i], gone |-> s.to[i] \in deleted]]]]
  /\ nextId' = nextId + 1
  /\ UNCHANGED <<lock, requests, history, sweeper, deleted, cleanups, clock, ghosts>>

(* On to the next recipient, or to the parking loop. *)
NextToDo(th) == IF Len(th.todo) = 1 THEN [th EXCEPT !.pc = "park", !.todo = <<>>]
                ELSE [th EXCEPT !.todo = Tail(@)]

(* Common to the verdicts of the first loop. *)
Judging(t) == thread[t].pc = "reserve" /\ lock \in {Free, t}

FailedRow(t, rs) ==
  /\ history' = Pushed(history, thread[t].id)
  /\ requests' = AfterRecord(rs, history, thread[t].id)
  /\ lock' = t
  /\ UNCHANGED <<sweeper, deleted, cleanups, clock, nextId, ghosts>>

(* The name resolves to nobody. *)
JudgeGone(t) ==
  /\ Judging(t) /\ Head(thread[t].todo).gone
  /\ thread' = [thread EXCEPT ![t] = [NextToDo(@) EXCEPT !.sawGone = TRUE]]
  /\ FailedRow(t, requests)

(* REQUEST_CAPACITY: no slot and nobody to retire. *)
JudgeCapacity(t) ==
  /\ Judging(t) /\ ~Head(thread[t].todo).gone
  /\ thread[t].send.asks /\ IsFull(requests)
  /\ thread' = [thread EXCEPT ![t] = NextToDo(@)]
  /\ FailedRow(t, requests)

(* Whom this recipient's contract, if one is asked for, displaces. *)
Displaced(t) == IF thread[t].send.asks THEN VictimsFor(requests) ELSE {None}

Reserved(th, share) == [th EXCEPT !.parks = Append(@, share)]

(* There is room: reserve, and park in the second loop. *)
JudgeRoom(t) ==
  LET to == Head(thread[t].todo).to
  IN  /\ Judging(t) /\ ~Head(thread[t].todo).gone
      /\ \E victim \in Displaced(t) :
           /\ requests' = IF thread[t].send.asks
                          THEN Opened(requests, thread[t], to, victim) ELSE requests
           /\ thread' = [thread EXCEPT ![t] =
                           Reserved(NextToDo(@), [to |-> to, victim |-> victim])]
      /\ lock' = t
      /\ UNCHANGED <<history, sweeper, deleted, cleanups, clock, nextId, ghosts>>

(* MAILBOX_FULL: the reservation is opened and rolled back. *)
JudgeMailboxFull(t) ==
  LET to == Head(thread[t].todo).to
  IN  /\ Judging(t) /\ ~Head(thread[t].todo).gone
      /\ thread' = [thread EXCEPT ![t] = NextToDo(@)]
      /\ \E victim \in Displaced(t) :
           FailedRow(t, IF thread[t].send.asks
                        THEN RolledBack(Opened(requests, thread[t], to, victim),
                                        <<thread[t].id, to>>, victim)
                        ELSE requests)

(* The second loop: park and record a Pending row, commit the reservation, *)
(* and, with the first share parked, close the contract replied to.        *)
Park(t) ==
  LET th == thread[t]
      share == Head(th.parks)
      k == <<th.id, share.to>>
      h == Pushed(history, th.id)
      recorded == AfterRecord(requests, history, th.id)
      committed == IF th.send.asks THEN Committed(recorded, h, k, share.victim)
                   ELSE recorded
      closing == IF th.re # 0 /\ ~th.done
                 THEN OpenFor(committed, th.re, th.send.from) ELSE {}
  IN  /\ th.pc = "park" /\ lock = t /\ th.parks # <<>>
      /\ history' = h
      /\ requests' = Closed(committed, h, closing, FALSE)
      /\ promised' = IF th.send.asks /\ th.send.deadline
                     THEN promised \cup {k} ELSE promised
      /\ answered' = answered \cup closing
      /\ thread' = [thread EXCEPT ![t].parks = Tail(@), ![t].done = TRUE]
      /\ UNCHANGED <<lock, sweeper, deleted, cleanups, clock, nextId, failed,
                     notices>>

(* The lock is dropped.  Only a reply none of whose shares was accepted,   *)
(* to a requester nobody knows, goes on to fail the contract.              *)
Unlock(t) ==
  LET th == thread[t]
  IN  /\ th.pc = "park" /\ lock = t /\ th.parks = <<>>
      /\ lock' = Free
      /\ thread' = [thread EXCEPT ![t] =
                      IF th.re # 0 /\ ~th.done /\ th.sawGone
                      THEN [Rest EXCEPT !.pc = "failReply", !.re = th.re,
                                        !.send = th.send]
                      ELSE Rest]
      /\ UNCHANGED <<requests, history, sweeper, deleted, cleanups, clock, nextId,
                     ghosts>>

(* fail_reply_contract, in a section of its own. *)
FailReply(t) ==
  LET keys == Failable(requests, {<<thread[t].re, thread[t].send.from>>})
  IN  /\ thread[t].pc = "failReply" /\ lock = Free
      /\ requests' = Closed(requests, history, keys, TRUE)
      /\ failed' = failed \cup keys
      /\ thread' = [thread EXCEPT ![t] = Rest]
      /\ UNCHANGED <<lock, history, sweeper, deleted, cleanups, clock, nextId,
                     promised, answered, notices>>

-----------------------------------------------------------------------------
(* The sweep task *)

IsDue(e) ==
  /\ ~e.closed /\ ~e.notified /\ ~e.provisional
  /\ e.deadline /\ clock > e.created + ReplyBy

Due == {k \in DOMAIN requests : IsDue(requests[k])}

Notified(rs, keys) ==
  [k \in DOMAIN rs |-> IF k \in keys THEN [rs[k] EXCEPT !.notified = TRUE] ELSE rs[k]]

(* due_timeouts: flag the contracts past their deadline and carry them out *)
(* of the lock.                                                            *)
SweepCollect ==
  /\ sweeper.pc = "idle" /\ lock = Free /\ Due # {}
  /\ requests' = Purge(Notified(requests, Due), history)
  /\ sweeper' = [pc |-> "check", due |-> Due, at |-> None]
  /\ UNCHANGED <<lock, history, thread, deleted, cleanups, clock, nextId, ghosts>>

(* The notice of k is dealt with; on to the next one. *)
DoneWith(k) == IF sweeper.due = {k} THEN SweepRest
               ELSE [pc |-> "check", due |-> sweeper.due \ {k}, at |-> None]

(* Mutant of IsRequestClosed: a contract that failed does not count. *)
IsRequestAnswered(k) ==
  k \in DOMAIN requests /\ requests[k].closed /\ ~requests[k].replyFailed

(* is_request_closed *)
IsRequestClosed(k) == k \in DOMAIN requests /\ requests[k].closed

(* deliver_notice looks again before it parks. *)
NoticeCheck ==
  /\ sweeper.pc = "check" /\ lock = Free
  /\ \E k \in sweeper.due :
       sweeper' = IF IsRequestClosed(k) THEN DoneWith(k)
                  ELSE [sweeper EXCEPT !.pc = "post", !.at = k]
  /\ UNCHANGED <<lock, requests, history, thread, deleted, cleanups, clock, nextId,
                 ghosts>>

(* park_notice: a row of its own for the notice (id 0), in another section. *)
NoticePost ==
  /\ sweeper.pc = "post" /\ lock = Free
  /\ history' = Pushed(history, 0)
  /\ requests' = AfterRecord(requests, history, 0)
  /\ notices' = Append(notices, sweeper.at)
  /\ sweeper' = DoneWith(sweeper.at)
  /\ UNCHANGED <<lock, thread, deleted, cleanups, clock, nextId, promised,
                 answered, failed>>

-----------------------------------------------------------------------------
(* The rest of the system *)

(* A dead profile is deleted; its cleanup section comes later. *)
DeleteProfile(a) ==
  /\ a \notin deleted
  /\ deleted' = deleted \cup {a} /\ cleanups' = cleanups \cup {a}
  /\ UNCHANGED <<lock, requests, history, thread, sweeper, clock, nextId, ghosts>>

(* fail_open_requests_from, inside handle_profile_deleted. *)
Cleanup(a) ==
  LET keys == Failable(requests, {k \in DOMAIN requests : requests[k].from = a})
  IN  /\ a \in cleanups /\ lock = Free
      /\ requests' = Closed(requests, history, keys, TRUE)
      /\ failed' = failed \cup keys
      /\ cleanups' = cleanups \ {a}
      /\ UNCHANGED <<lock, history, thread, sweeper, deleted, clock, nextId,
                     promised, answered, notices>>

Tick ==
  /\ clock < MaxTime
  /\ clock' = clock + 1
  /\ UNCHANGED <<lock, requests, history, thread, sweeper, deleted, cleanups,
                 nextId, ghosts>>

Send(t) ==
  \/ JudgeGone(t) \/ JudgeCapacity(t) \/ JudgeRoom(t) \/ JudgeMailboxFull(t)
  \/ Park(t) \/ Unlock(t) \/ FailReply(t)

SweepTask == SweepCollect \/ NoticeCheck \/ NoticePost

Next ==
  \/ \E t \in Senders : Begin(t) \/ Send(t)
  \/ SweepTask
  \/ \E a \in Agents : DeleteProfile(a) \/ Cleanup(a)
  \/ Tick

Spec == Init /\ [][Next]_vars

(* A send that began runs on (the lock is held for a bounded number of     *)
(* steps), the sweep task turns, the clock moves.                          *)
Fairness ==
  /\ \A t \in Senders : WF_vars(Send(t))
  /\ WF_vars(SweepTask)
  /\ WF_vars(Tick)

FairSpec == Spec /\ Fairness

-----------------------------------------------------------------------------

Entries == [from : Agents, created : 0..MaxTime, deadline : BOOLEAN,
            closed : BOOLEAN, replyFailed : BOOLEAN, notified : BOOLEAN,
            retiring : BOOLEAN, provisional : BOOLEAN, victim : Keys \cup {None}]

Threads == [pc : {"idle", "reserve", "park", "failReply"}, id : 0..MaxIds,
            now : 0..MaxTime, send : Sends \cup {None},
            todo : Seq([to : Agents, gone : BOOLEAN]),
            parks : Seq([to : Agents, victim : Keys \cup {None}]),
            re : 0..MaxIds, done : BOOLEAN, sawGone : BOOLEAN]

(* Every variable has the shape of the state it models. *)
TypeOK ==
  /\ lock \in Senders \cup {Free}
  /\ DOMAIN requests \subseteq Keys /\ requests \in [DOMAIN requests -> Entries]
  /\ history \in Seq(0..MaxIds) /\ Len(history) <= HISTORY_CAPACITY
  /\ thread \in [Senders -> Threads]
  /\ sweeper \in [pc : {"idle", "check", "post"}, due : SUBSET Keys,
                  at : Keys \cup {None}]
  /\ deleted \subseteq Agents /\ cleanups \subseteq deleted
  /\ clock \in 0..MaxTime /\ nextId \in 1..(MaxIds + 1)
  /\ {promised, answered, failed} \subseteq SUBSET Keys /\ notices \in Seq(Keys)

(* ledger.rs MAX_OPEN_REQUESTS: at no point, the middle of a fan-out       *)
(* included, do more contracts than the limit occupy a slot: not while     *)
(* several victims are marked, nor after a rollback gave one its slot back *)
(* with the newer reservations of the same send in place.                  *)
SlotBound == OccupiedSlots(requests) <= MAX_OPEN_REQUESTS

(* The reservation guard: whoever takes the lock finds no provisional      *)
(* entry, no retirement mark and no remembered victim left behind by a     *)
(* send, whichever of its recipients failed.                               *)
ReservationsSettled ==
  lock = Free => \A k \in DOMAIN requests : /\ ~requests[k].provisional
                                            /\ ~requests[k].retiring
                                            /\ requests[k].victim = None

(* Both, on states of the right types: the slots of the ledger settle. *)
SlotsSettle == TypeOK /\ SlotBound /\ ReservationsSettled

(* The promise of a deadline: a contract opened with one is still open and *)
(* tracked, or was answered, or failed, or its notice is posted or in the  *)
(* sweep's hand.  Neither the slot limit nor the history's eviction makes  *)
(* it vanish.                                                              *)
PromiseKept ==
  \A k \in promised :
    \/ k \in DOMAIN requests /\ ~requests[k].closed
    \/ k \in answered \cup failed
    \/ k \in ToSet(notices) \cup sweeper.due

(* A contract's deadline is notified once, although the flag is set in one *)
(* section, the notice posted in a later one, and the contract may be      *)
(* retired in between.                                                     *)
NoticeOnce == IsInjective(notices)

(* An accepted reply and a failure close (requester gone, profile deleted) *)
(* exclude each other, whichever comes first.                              *)
AnsweredOrFailed == answered \cap failed = {}

(* The verdict on a contract falls once: one notice, and not both answered *)
(* and failed.                                                             *)
OneVerdict == NoticeOnce /\ AnsweredOrFailed

(* No zombies: with the lock free, a finished contract is tracked only     *)
(* while a history row bears its id, so tracking is bounded.               *)
NoZombies ==
  lock = Free => \A k \in DOMAIN requests :
                   requests[k].closed => k[1] \in ToSet(history)

(* Both: a contract is tracked as long as it is needed and no longer. *)
TrackedWhileNeeded == PromiseKept /\ NoZombies

(* deliver_notice: the notice of a contract closed before the second look  *)
(* is dropped, unless its history has been evicted (the residual the       *)
(* comment of is_request_closed owns to).                                  *)
ReplyCancelsNotice ==
  [][sweeper.pc = "check" /\ sweeper'.pc = "post" =>
       LET k == sweeper'.at
       IN  k \in answered \cup failed => k[1] \notin ToSet(history)]_vars
=============================================================================
