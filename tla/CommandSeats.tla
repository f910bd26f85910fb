---------------------------- MODULE CommandSeats ----------------------------
(***************************************************************************)
(* Command delivery of the daemon: the table of seats (request id -> round *)
(* trip), the delivery task of each query, the daemon's own commands on    *)
(* the blocking pool, the owner's outcomes, the sweeper, disconnects and   *)
(* shutdown.  Source: daemon/src/command_delivery.rs, connection_core.rs   *)
(* (CommandOutcome) and agent_conn.rs (on_disconnect).                     *)
(*                                                                         *)
(* Time is a choice: `expire` settles any set of seats, so a deadline may  *)
(* pass at any moment, and which retained ids are the oldest is left open  *)
(* (each stamp is read before the lock is taken).  A query is one          *)
(* envelope; its connection, request id and command are fixed by `ask`.  A *)
(* seat's token is the query that opened it, since a query opens at most   *)
(* one.                                                                    *)
(***************************************************************************)
EXTENDS Naturals, FiniteSets

CONSTANTS
  Queries,       \* envelopes received
  Conns,         \* calling connections
  Ids,           \* request ids
  Names,         \* commands, arguments included
  Writes,        \* the daemon's own commands that change state
  Reads,         \* the daemon's own commands that do not
  Asks,          \* the query tables to start from
  MaxLocal,      \* MAX_LOCAL_IN_FLIGHT
  MaxRetained    \* MAX_RETAINED_LOCAL

ASSUME LimitsAssumption == MaxLocal \in Nat /\ MaxRetained \in Nat
ASSUME QueriesAssumption ==
  IsFiniteSet(Queries) /\ IsFiniteSet(Ids) /\ "nobody" \notin Queries
ASSUME NamesAssumption == Writes \subseteq Names /\ Reads \subseteq Names
ASSUME AsksAssumption == Asks \subseteq [Queries -> [conn : Conns, id : Ids, name : Names]]

VARIABLES
  ask,       \* what each query asks, never changed
  seats,     \* Seats::open
  running,   \* Seats::local_running
  closed,    \* Seats::closed
  task,      \* one delivery task per query
  conn,      \* the roster's view of a connection, and its cleanup
  owner,     \* envelopes the owner has and has not answered
  sent,      \* history: reply frames handed out for a query
  applied    \* history: runs of a write under an id since it was last let go

vars == <<ask, seats, running, closed, task, conn, owner, sent, applied>>

Nobody == "nobody"
Local == Writes \cup Reads
NoSeat == [state |-> "none", q |-> Nobody]
Idle == [pc |-> "new", rx |-> "open", of |-> Nobody, job |-> "none", host |-> Nobody]

Init ==
  /\ ask \in Asks
  /\ seats = [i \in Ids |-> NoSeat]
  /\ running = 0 /\ closed = FALSE
  /\ task = [q \in Queries |-> Idle]
  /\ conn = [c \in Conns |-> "attached"]
  /\ owner = {}
  /\ sent = [q \in Queries |-> 0]
  /\ applied = [i \in Ids |-> 0]

Id(q) == ask[q].id
Origin(q) == ask[q].conn
IsLocal(q) == ask[q].name \in Local
Attached(q) == conn[Origin(q)] = "attached"
At(q, pc) == task[q].pc = pc

Go(q, pc) == task' = [task EXCEPT ![q].pc = pc]

\* send_reply: at most one frame, to the connection that asked.
SendReply(q) == sent' = [sent EXCEPT ![q] = @ + 1]

Holds(q) == seats[Id(q)].q = q

Retained(s) == {i \in Ids : s[i].state = "retained"}

\* History: these ids are let go.
Forget(S) == applied' = [i \in Ids |-> IF i \in S THEN 0 ELSE applied[i]]

LetGo(s, S) == [i \in Ids |-> IF i \in S THEN NoSeat ELSE s[i]]

-----------------------------------------------------------------------------
(* The table of seats.                                                     *)

\* Mutant of Occupancy: an expired seat is free, whoever held it.
OccupancyExpired(q) ==
  LET held == seats[Id(q)] IN
  CASE closed                                              -> "Closed"
    [] ~closed /\ held.state \in {"none", "void"}          -> "Free"
    [] ~closed /\ held.state = "retained"                  -> "LocalAlreadyRan"
    [] ~closed /\ held.state \in {"awaiting", "fulfilled"} ->
         IF ask[held.q].name # ask[q].name THEN "Conflict"
         ELSE IF Origin(held.q) = Origin(q) THEN "Coalesced" ELSE "Taken"

\* Mutant of Occupancy: an expired seat is still merged with.
OccupancyMerging(q) ==
  LET held == seats[Id(q)] IN
  CASE closed                             -> "Closed"
    [] ~closed /\ held.state = "none"     -> "Free"
    [] ~closed /\ held.state = "retained" -> "LocalAlreadyRan"
    [] ~closed /\ held.state \in {"awaiting", "fulfilled", "void"} ->
         IF ask[held.q].name # ask[q].name THEN "Conflict"
         ELSE IF Origin(held.q) = Origin(q) THEN "Coalesced" ELSE "Taken"

\* CommandDeliveries::open, the occupancy of the number.
Occupancy(q) ==
  LET held == seats[Id(q)] IN
  CASE closed                                              -> "Closed"
    [] ~closed /\ held.state = "none"                      -> "Free"
    [] ~closed /\ held.state = "retained"                  -> "LocalAlreadyRan"
    [] ~closed /\ held.state = "void" /\ IsLocal(held.q)   -> "LocalStillRunning"
    [] ~closed /\ held.state = "void" /\ ~IsLocal(held.q)  -> "Free"
    [] ~closed /\ held.state \in {"awaiting", "fulfilled"} ->
         IF ask[held.q].name # ask[q].name THEN "Conflict"
         ELSE IF Origin(held.q) = Origin(q) THEN "Coalesced" ELSE "Taken"

\* deliver, up to the seat.  `open` calls expire first: Sweep below.
Open(q) ==
  /\ At(q, "new") /\ Occupancy(q) = "Free"
  /\ seats' = [seats EXCEPT ![Id(q)] = [state |-> "awaiting", q |-> q]]
  /\ Go(q, IF IsLocal(q) THEN "admit" ELSE "handover")
  /\ UNCHANGED <<ask, running, closed, conn, owner, sent, applied>>

Coalesce(q) ==
  /\ At(q, "new") /\ Occupancy(q) = "Coalesced"
  /\ task' = [task EXCEPT ![q].pc = "merged", ![q].host = seats[Id(q)].q]
  /\ UNCHANGED <<ask, seats, running, closed, conn, owner, sent, applied>>

\* Conflict, Taken, LocalStillRunning, LocalAlreadyRan and Closed are each
\* answered with a refusal of their own, without a seat.
Refuse(q) ==
  /\ At(q, "new") /\ Occupancy(q) \notin {"Free", "Coalesced"}
  /\ SendReply(q) /\ Go(q, "done")
  /\ UNCHANGED <<ask, seats, running, closed, conn, owner, applied>>

\* release: only the seat this query opened.
Release(q) ==
  /\ At(q, "release")
  /\ seats' = IF Holds(q) THEN LetGo(seats, {Id(q)}) ELSE seats
  /\ Go(q, "done")
  /\ UNCHANGED <<ask, running, closed, conn, owner, sent, applied>>

\* Seats settled without their own answer hand the waiting task a reply.
Settled(S, rx) ==
  [q \in Queries |->
     IF \E i \in S : seats[i].state = "awaiting" /\ seats[i].q = q
       THEN [task[q] EXCEPT !.rx = rx] ELSE task[q]]

\* Mutant of Sweep: the waiting task is not told.
SweepSilently(S) ==
  /\ S # {} /\ \A i \in S : seats[i].state \in {"awaiting", "retained"}
  /\ seats' = [i \in Ids |->
       IF i \notin S THEN seats[i]
       ELSE IF seats[i].state = "retained" THEN NoSeat
       ELSE [seats[i] EXCEPT !.state = "void"]]
  /\ Forget(S \cap Retained(seats))
  /\ UNCHANGED <<ask, running, closed, task, conn, owner, sent>>

\* expire, called by the sweeper's tick and by every open: the awaiting seats
\* of S passed their deadline, the retained ones their window.
Sweep(S) ==
  /\ S # {} /\ \A i \in S : seats[i].state \in {"awaiting", "retained"}
  /\ seats' = [i \in Ids |->
       IF i \notin S THEN seats[i]
       ELSE IF seats[i].state = "retained" THEN NoSeat
       ELSE [seats[i] EXCEPT !.state = "void"]]
  /\ Forget(S \cap Retained(seats))
  /\ task' = Settled(S, "timeout")
  /\ UNCHANGED <<ask, running, closed, conn, owner, sent>>

\* drain: the sweeper's last act.
Drain ==
  /\ ~closed /\ closed' = TRUE
  /\ seats' = LetGo(seats, Ids)
  /\ task' = Settled(Ids, "drained")
  /\ UNCHANGED <<ask, running, conn, owner, sent, applied>>

-----------------------------------------------------------------------------
(* A command of the daemon's own.                                          *)

\* The caller must still be attached and a slot free; else a refusal.
RefuseLocal(q) ==
  /\ At(q, "admit") /\ (~Attached(q) \/ running >= MaxLocal)
  /\ SendReply(q) /\ Go(q, "release")
  /\ UNCHANGED <<ask, seats, running, closed, conn, owner, applied>>

AdmitLocal(q) ==
  /\ At(q, "admit") /\ Attached(q) /\ running < MaxLocal
  /\ running' = running + 1
  /\ task' = [task EXCEPT ![q].pc = "running", ![q].job = "queued"]
  /\ UNCHANGED <<ask, seats, closed, conn, owner, sent, applied>>

\* spawn_local on the blocking pool: looks at the caller once more, then runs.
\* "ok" and "died" may have changed state; "refused" has not.
RunJob(q, outcome) ==
  /\ task[q].job = "queued"
  /\ outcome \in IF Attached(q) THEN {"ok", "died", "refused"} ELSE {"gone"}
  /\ task' = [task EXCEPT ![q].job = outcome]
  /\ applied' = IF ask[q].name \in Writes /\ outcome \in {"ok", "died"}
                  THEN [applied EXCEPT ![Id(q)] = @ + 1] ELSE applied
  /\ UNCHANGED <<ask, seats, running, closed, conn, owner, sent>>

Joined(q) == task[q].job \notin {"none", "queued"}

\* retains_the_id.
Retains(q) == ask[q].name \in Writes /\ task[q].job \in {"ok", "died"}

\* The select prefers the job; its reply goes out before the seat is settled.
AnswerLocal(q) ==
  /\ At(q, "running") /\ Joined(q)
  /\ SendReply(q) /\ Go(q, "settle")
  /\ UNCHANGED <<ask, seats, running, closed, conn, owner, applied>>

\* Mutant of AnswerEarly: the job's own answer still follows.
AnswerEarlyOnly(q) ==
  /\ At(q, "running") /\ ~Joined(q) /\ task[q].rx # "open"
  /\ SendReply(q)
  /\ task' = [task EXCEPT ![q].rx = "open"]
  /\ UNCHANGED <<ask, seats, running, closed, conn, owner, applied>>

\* The deadline or the shutdown answers first; the job is waited for.
AnswerEarly(q) ==
  /\ At(q, "running") /\ ~Joined(q) /\ task[q].rx # "open"
  /\ SendReply(q) /\ Go(q, "settle")
  /\ UNCHANGED <<ask, seats, running, closed, conn, owner, applied>>

\* evict_oldest_retained: as many go as are over the limit.
Evicts(s, out) ==
  /\ out \subseteq Retained(s)
  /\ IF Cardinality(Retained(s)) <= MaxRetained THEN out = {}
     ELSE Cardinality(out) = Cardinality(Retained(s)) - MaxRetained

\* settle_local: the slot goes back; the seat is retained or let go.
SettleLocal(q) ==
  LET retained == [seats EXCEPT ![Id(q)].state = "retained"] IN
  /\ At(q, "settle") /\ Joined(q)
  /\ running' = running - 1
  /\ \/ /\ Holds(q) /\ Retains(q)
        /\ \E out \in SUBSET Ids :
             Evicts(retained, out) /\ seats' = LetGo(retained, out) /\ Forget(out)
     \/ /\ Holds(q) /\ ~Retains(q)
        /\ seats' = LetGo(seats, {Id(q)}) /\ UNCHANGED applied
     \/ /\ ~Holds(q)
        /\ UNCHANGED <<seats, applied>>
  /\ Go(q, "done")
  /\ UNCHANGED <<ask, closed, conn, owner, sent>>

-----------------------------------------------------------------------------
(* A command of someone else: route and OwnerLink::send.                   *)

\* The owner is unknown, gone or full, or the caller has left: no envelope.
HandoverFails(q) ==
  /\ At(q, "handover")
  /\ SendReply(q) /\ Go(q, "release")
  /\ UNCHANGED <<ask, seats, running, closed, conn, owner, applied>>

Handover(q) ==
  /\ At(q, "handover") /\ Attached(q)
  /\ owner' = owner \cup {q}
  /\ Go(q, "waiting")
  /\ UNCHANGED <<ask, seats, running, closed, conn, sent, applied>>

\* complete: the outcome names the request id alone.  A seat of the daemon's
\* own command, a settled seat and no seat take none.
Complete(e) ==
  /\ e \in owner /\ owner' = owner \ {e}
  /\ LET held == seats[Id(e)] IN
       IF held.state = "awaiting" /\ ~IsLocal(held.q)
         THEN /\ seats' = [seats EXCEPT ![Id(e)].state = "fulfilled"]
              /\ task' = [task EXCEPT ![held.q].rx = "outcome", ![held.q].of = e]
         ELSE UNCHANGED <<seats, task>>
  /\ UNCHANGED <<ask, running, closed, conn, sent, applied>>

AnswerRemote(q) ==
  /\ At(q, "waiting") /\ task[q].rx # "open"
  /\ SendReply(q) /\ Go(q, "release")
  /\ UNCHANGED <<ask, seats, running, closed, conn, owner, applied>>

-----------------------------------------------------------------------------
(* A caller's connection ends: the roster first, then its round trips.     *)

Detach(c) ==
  /\ conn[c] = "attached" /\ conn' = [conn EXCEPT ![c] = "detached"]
  /\ UNCHANGED <<ask, seats, running, closed, task, owner, sent, applied>>

\* drop_origin: seats of the daemon's own commands stay.
DropOrigin(c) ==
  /\ conn[c] = "detached" /\ conn' = [conn EXCEPT ![c] = "gone"]
  /\ LET mine == {i \in Ids : /\ seats[i].state # "none"
                              /\ Origin(seats[i].q) = c /\ ~IsLocal(seats[i].q)} IN
       /\ seats' = LetGo(seats, mine)
       /\ task' = Settled(mine, "dropped")
  /\ UNCHANGED <<ask, running, closed, owner, sent, applied>>

-----------------------------------------------------------------------------
\* What a delivery task does by itself.
Deliver(q) ==
  \/ Open(q) \/ Coalesce(q) \/ Refuse(q) \/ Release(q)
  \/ RefuseLocal(q) \/ AdmitLocal(q) \/ AnswerLocal(q) \/ AnswerEarly(q) \/ SettleLocal(q)
  \/ HandoverFails(q) \/ Handover(q) \/ AnswerRemote(q)

Next ==
  \/ \E q \in Queries : Deliver(q)
  \/ \E q \in Queries, o \in {"ok", "died", "refused", "gone"} : RunJob(q, o)
  \/ \E q \in Queries : Complete(q)
  \/ \E S \in SUBSET Ids : Sweep(S)
  \/ \E c \in Conns : Detach(c) \/ DropOrigin(c)
  \/ Drain

\* Tasks are polled and the sweeper ticks until it drains.  Neither the owner
\* nor the blocking pool is assumed to finish.
Fairness ==
  /\ \A q \in Queries : WF_vars(Deliver(q))
  /\ \A i \in Ids : WF_vars(\E S \in SUBSET Ids : i \in S /\ Sweep(S))

Spec == Init /\ [][Next]_vars /\ Fairness

-----------------------------------------------------------------------------
\* Types; the slots taken are those of the tasks that hold one, never more
\* than MaxLocal; the retained seats are at most MaxRetained.
TypeOK ==
  /\ ask \in Asks
  /\ seats \in [Ids -> [state : {"none", "awaiting", "fulfilled", "void", "retained"},
                        q : Queries \cup {Nobody}]]
  /\ Cardinality(Retained(seats)) <= MaxRetained
  /\ task \in [Queries ->
       [pc : {"new", "merged", "admit", "running", "settle", "handover", "waiting",
              "release", "done"},
        rx : {"open", "timeout", "drained", "dropped", "outcome"},
        of : Queries \cup {Nobody}, host : Queries \cup {Nobody},
        job : {"none", "queued", "ok", "died", "refused", "gone"}]]
  /\ running = Cardinality({q \in Queries : task[q].pc \in {"running", "settle"}})
  /\ running <= MaxLocal
  /\ closed \in BOOLEAN
  /\ conn \in [Conns -> {"attached", "detached", "gone"}]
  /\ owner \subseteq Queries
  /\ sent \in [Queries -> Nat] /\ applied \in [Ids -> Nat]

\* A write of the daemon's own is not run a second time under its request id
\* while the id is remembered, whatever timeouts, disconnects and repeated
\* queries come between.
AppliedOnce == \A i \in Ids : applied[i] <= 1

\* No query gets two replies, and one that is over has had its one.  An
\* outcome answers one query: the one it is for, unless a query under the
\* same request id was given up (deadline, disconnect) before its outcome.
\* (On states of the right types.)
OneReplyEach ==
  TypeOK /\ \A q \in Queries :
    /\ sent[q] <= 1
    /\ At(q, "done") \/ At(q, "release") => sent[q] = 1
    /\ At(q, "merged") => sent[q] = 0 /\ ~At(task[q].host, "merged")
    /\ task[q].of \notin {Nobody, q} =>
         /\ Id(task[q].of) = Id(q)
         /\ \E p \in Queries : Id(p) = Id(q) /\ task[p].rx \in {"timeout", "dropped"}
    /\ \A p \in Queries \ {q} : task[p].of = task[q].of => task[q].of = Nobody

\* The frame is out, and only the seat is left to retain or to let go.
Leaving(q) == At(q, "release") \/ (At(q, "settle") /\ Joined(q))

\* Every query is answered, though the owner never answers and the daemon's
\* own command never ends: by its own task, or by the round trip it was
\* merged with, whose one frame then follows the merge.  The exception is the
\* one the comment on LocalGuard::settle declares: a query merged when that
\* frame is already out gets none.  That may happen only in the one step
\* between the frame and the seat, never while a command still runs.
EveryQueryAnswered ==
  /\ \A q \in Queries :
       /\ <>(sent[q] = 1 \/ At(q, "merged"))
       /\ (At(q, "merged") /\ sent[task[q].host] = 0)
          ~> (At(q, "merged") /\ sent[task[q].host] = 1)
  /\ [][\A q \in Queries :
          ~At(q, "merged") /\ At(q, "merged")' =>
            sent[task'[q].host] = 0 \/ Leaving(task'[q].host)]_vars
=============================================================================
