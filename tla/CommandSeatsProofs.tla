------------------------- MODULE CommandSeatsProofs -------------------------
(***************************************************************************)
(* For every set of queries, connections and request ids and all limits:   *)
(* the daemon runs a write of its own at most once under a request id it   *)
(* remembers; and no query is answered twice, an outcome answers one       *)
(* query, and the limits on slots and retained ids hold.                   *)
(***************************************************************************)
EXTENDS CommandSeats, FiniteSetTheorems, TLAPS

States == {"none", "awaiting", "fulfilled", "void", "retained"}
Seat == [state : States, q : Queries \cup {Nobody}]
Tasks == [pc : {"new", "merged", "admit", "running", "settle", "handover", "waiting",
                "release", "done"},
          rx : {"open", "timeout", "drained", "dropped", "outcome"},
          of : Queries \cup {Nobody}, host : Queries \cup {Nobody},
          job : {"none", "queued", "ok", "died", "refused", "gone"}]

\* The types of the variables the argument is about.
Types ==
  /\ ask \in [Queries -> [conn : Conns, id : Ids, name : Names]]
  /\ seats \in [Ids -> Seat]
  /\ task \in [Queries -> Tasks]
  /\ closed \in BOOLEAN
  /\ applied \in [Ids -> Nat]

\* The query's command is the daemon's own and is about to run, runs or ran,
\* and its seat is not settled yet.
Underway(q) == task[q].pc \in {"admit", "running", "settle"}

\* A command under way has the seat of its id; timeouts do not take it.
Held ==
  ~closed => \A q \in Queries : Underway(q) =>
    seats[Id(q)].q = q /\ seats[Id(q)].state \in {"awaiting", "void"}

\* No two commands are under way under one id.
Alone == \A p, q \in Queries : Underway(p) /\ Underway(q) /\ Id(p) = Id(q) => p = q

\* Where a job can be in its query's life.
Jobs ==
  \A q \in Queries :
    /\ Underway(q) => IsLocal(q)
    /\ task[q].pc \in {"new", "admit"} => task[q].job = "none"
    /\ task[q].job = "queued" => task[q].pc \in {"running", "settle"}

\* Who a retained seat is kept for.
RetainedIsOver ==
  \A i \in Ids : seats[i].state = "retained" =>
    /\ seats[i].q \in Queries
    /\ Id(seats[i].q) = i /\ IsLocal(seats[i].q) /\ task[seats[i].q].pc = "done"

\* A write that ran is remembered: by the seat, or by its own command while
\* that is under way, and nothing else under the id can still run.
Remembered ==
  \A i \in Ids :
    /\ applied[i] <= 1
    /\ applied[i] = 1 /\ ~closed =>
         \/ seats[i].state = "retained"
         \/ \E q \in Queries : Underway(q) /\ Id(q) = i /\ Retains(q)
    /\ applied[i] = 1 => \A q \in Queries : Underway(q) /\ Id(q) = i => Joined(q)

IInv == Types /\ Held /\ Alone /\ Jobs /\ RetainedIsOver /\ Remembered

-----------------------------------------------------------------------------
(* At the start no seat is taken and nothing ran. *)
LEMMA InitIInv == Init => IInv
<1> SUFFICES ASSUME Init PROVE IInv
  OBVIOUS
<1> USE DEF Init
<1>1. Types
  BY AsksAssumption DEF Types, Seat, States, Tasks, NoSeat, Idle, Nobody
<1>2. \A q \in Queries : ~Underway(q) /\ task[q].job = "none"
  BY DEF Underway, Idle
<1>3. \A i \in Ids : seats[i].state = "none" /\ applied[i] = 0
  BY DEF NoSeat
<1>4. QED
  BY <1>1, <1>2, <1>3 DEF IInv, Held, Alone, Jobs, RetainedIsOver, Remembered

(* The seat of an id nobody uses. *)
LEMMA EmptySeat == NoSeat \in Seat /\ NoSeat.state = "none" /\ NoSeat.q = Nobody
BY DEF NoSeat, Seat, States

(* When `open` finds an id free, nothing is remembered or under way under   *)
(* it.                                                                     *)
LEMMA FreeSeat ==
  ASSUME IInv, NEW q \in Queries, Occupancy(q) = "Free"
  PROVE  /\ ~closed /\ seats[Id(q)].state # "retained"
         /\ \A p \in Queries : Underway(p) => Id(p) # Id(q)
         /\ applied[Id(q)] = 0
<1>1. Id(q) \in Ids /\ seats[Id(q)].state \in States
  BY DEF IInv, Types, Id, Seat
<1>2. /\ ~closed
      /\ \/ seats[Id(q)].state = "none"
         \/ seats[Id(q)].state = "void" /\ ~IsLocal(seats[Id(q)].q)
  BY <1>1 DEF Occupancy, States, IInv, Types
<1>3. ASSUME NEW p \in Queries, Underway(p) PROVE Id(p) # Id(q)
  BY <1>2, <1>3 DEF IInv, Held, Jobs
<1>4. applied[Id(q)] = 0
  BY <1>1, <1>2, <1>3 DEF IInv, Remembered, Types
<1>5. QED
  BY <1>2, <1>3, <1>4

(* A step that leaves the seats, the remembered ids and the daemon's own    *)
(* commands as they are, except that a command under way may move on.      *)
LEMMA QuietStep ==
  ASSUME IInv, Types', UNCHANGED <<ask, seats, closed, applied>>,
         \A p \in Queries :
           /\ task'[p].job = task[p].job
           /\ Underway(p)' <=> Underway(p)
           /\ task'[p].pc = "new" => task[p].pc = "new"
           /\ task'[p].pc = "admit" <=> task[p].pc = "admit"
           /\ task[p].pc = "done" => task'[p].pc = "done"
  PROVE  IInv'
<1>1. \A p \in Queries :
        /\ Id(p)' = Id(p) /\ IsLocal(p)' = IsLocal(p)
        /\ Retains(p)' = Retains(p) /\ Joined(p)' = Joined(p)
  BY DEF Id, IsLocal, Retains, Joined
<1>2. Held' /\ Alone'
  BY <1>1 DEF IInv, Held, Alone
<1>3. Jobs'
  BY <1>1 DEF IInv, Jobs, Underway
<1>4. RetainedIsOver'
  BY <1>1 DEF IInv, RetainedIsOver
<1>5. Remembered'
  BY <1>1 DEF IInv, Remembered
<1>6. QED
  BY <1>2, <1>3, <1>4, <1>5 DEF IInv

(* Facts about a step's effect on the query tables that every case needs. *)
LEMMA AskFixed ==
  ASSUME UNCHANGED ask, NEW q
  PROVE  Id(q)' = Id(q) /\ IsLocal(q)' = IsLocal(q) /\ Origin(q)' = Origin(q)
BY DEF Id, IsLocal, Origin

(* A query takes a seat: the id was free, so nothing is remembered there.  *)
LEMMA OpenStep ==
  ASSUME IInv, NEW q \in Queries, Open(q)
  PROVE  IInv'
<1> DEFINE pc == IF IsLocal(q) THEN "admit" ELSE "handover"
<1>1. /\ ~closed /\ seats[Id(q)].state # "retained"
      /\ \A p \in Queries : Underway(p) => Id(p) # Id(q)
      /\ applied[Id(q)] = 0
  BY FreeSeat DEF Open
<1>2. Id(q) \in Ids /\ task[q] \in Tasks
  BY DEF IInv, Types, Id
<1>3. /\ \A p \in Queries \ {q} : task'[p] = task[p]
      /\ task'[q] = [task[q] EXCEPT !.pc = pc]
      /\ \A i \in Ids \ {Id(q)} : seats'[i] = seats[i]
      /\ seats'[Id(q)] = [state |-> "awaiting", q |-> q]
      /\ UNCHANGED <<ask, closed, applied>>
  BY <1>2 DEF Open, Go, IInv, Types
<1>4. Types'
  BY <1>2 DEF Open, Go, IInv, Types, Tasks, Seat, States
<1>5. /\ task'[q].pc = pc /\ task'[q].job = task[q].job /\ task[q].pc = "new"
  BY <1>2, <1>3 DEF Tasks, Open, At
<1>6. \A p \in Queries \ {q} :
        /\ Underway(p)' = Underway(p) /\ Joined(p)' = Joined(p)
        /\ Retains(p)' = Retains(p)
  BY <1>3 DEF Underway, Joined, Retains
<1>7. /\ Underway(q)' <=> IsLocal(q)
      /\ ~Underway(q)
  BY <1>5 DEF Underway
<1>8. Held'
  <2> SUFFICES ASSUME NEW p \in Queries, Underway(p)'
               PROVE  seats'[Id(p)].q = p /\ seats'[Id(p)].state \in {"awaiting", "void"}
    BY <1>3, AskFixed DEF Held
  <2>1. CASE p = q
    BY <2>1, <1>3
  <2>2. CASE p # q
    <3>1. Underway(p) /\ Id(p) # Id(q) /\ Id(p) \in Ids
      BY <2>2, <1>1, <1>6 DEF IInv, Types, Id
    <3>2. QED
      BY <3>1, <1>1, <1>3 DEF IInv, Held
  <2>3. QED
    BY <2>1, <2>2
<1>9. Alone'
  BY <1>1, <1>3, <1>6, <1>7, AskFixed DEF IInv, Alone
<1>10. Jobs'
  BY <1>3, <1>5, <1>6, <1>7, AskFixed DEF IInv, Jobs
<1>11. RetainedIsOver'
  BY <1>3, <1>5, AskFixed DEF IInv, RetainedIsOver
<1>12. Remembered'
  BY <1>1, <1>2, <1>3, <1>6, <1>7, AskFixed DEF IInv, Remembered
<1>13. QED
  BY <1>4, <1>8, <1>9, <1>10, <1>11, <1>12 DEF IInv

(* Steps of a task that neither take nor settle a command of the daemon's. *)
LEMMA QuietSteps ==
  ASSUME IInv, NEW q \in Queries,
         Coalesce(q) \/ Refuse(q) \/ AnswerLocal(q) \/ AnswerEarly(q)
         \/ HandoverFails(q) \/ Handover(q) \/ AnswerRemote(q)
  PROVE  IInv'
<1> DEFINE pcs == {"new", "merged", "admit", "running", "settle", "handover",
                   "waiting", "release", "done"}
<1>1. task[q] \in Tasks /\ Id(q) \in Ids /\ seats[Id(q)] \in Seat
  BY DEF IInv, Types, Id
<1>2. PICK pc \in pcs, host \in Queries \cup {Nobody} :
        /\ task' = [task EXCEPT ![q].pc = pc, ![q].host = host]
        /\ UNCHANGED <<ask, seats, closed, applied>>
        /\ \/ task[q].pc \in {"new", "handover", "waiting"} /\ pc \in {"merged", "done", "release", "waiting"}
           \/ task[q].pc = "running" /\ pc = "settle"
  <2>1. \A pc : [task EXCEPT ![q].pc = pc]
                = [task EXCEPT ![q].pc = pc, ![q].host = task[q].host]
    BY <1>1 DEF IInv, Types, Tasks
  <2>2. task[q].host \in Queries \cup {Nobody} /\ seats[Id(q)].q \in Queries \cup {Nobody}
    BY <1>1 DEF Tasks, Seat
  <2>3. CASE Coalesce(q)
    BY <2>2, <2>3 DEF Coalesce, At
  <2>4. CASE Refuse(q) \/ AnswerLocal(q) \/ AnswerEarly(q) \/ HandoverFails(q)
             \/ Handover(q) \/ AnswerRemote(q)
    BY <2>1, <2>2, <2>4 DEF Refuse, AnswerLocal, AnswerEarly, HandoverFails, Handover,
       AnswerRemote, Go, At
  <2>5. QED
    BY <2>3, <2>4
<1>3. Types'
  BY <1>1, <1>2 DEF IInv, Types, Tasks
<1>4. \A p \in Queries : /\ task'[p].pc = IF p = q THEN pc ELSE task[p].pc
                         /\ task'[p].job = task[p].job
  BY <1>2 DEF IInv, Types, Tasks
<1>5. QED
  BY <1>2, <1>3, <1>4, QuietStep DEF Underway

(* A step that changes the seats and what the waiting tasks were told, but  *)
(* no task's place and no job: seats of commands under way stay, and what  *)
(* was retained is retained or forgotten.                                  *)
LEMMA SeatStep ==
  ASSUME IInv, Types', UNCHANGED ask,
         closed => closed',
         \A p \in Queries : task'[p].pc = task[p].pc /\ task'[p].job = task[p].job,
         ~closed' => \A p \in Queries : Underway(p) =>
           /\ seats'[Id(p)].q = seats[Id(p)].q
           /\ seats'[Id(p)].state \in {"awaiting", "void"},
         \A i \in Ids :
           /\ seats'[i].state = "retained" => seats'[i] = seats[i]
           /\ \/ applied'[i] = 0
              \/ /\ applied'[i] = applied[i]
                 /\ seats[i].state = "retained" => closed' \/ seats'[i].state = "retained"
  PROVE  IInv'
<1>1. \A p \in Queries :
        /\ Id(p)' = Id(p) /\ IsLocal(p)' = IsLocal(p) /\ Underway(p)' = Underway(p)
        /\ Retains(p)' = Retains(p) /\ Joined(p)' = Joined(p)
  BY AskFixed DEF Retains, Joined, Underway
<1>2. Held'
  BY <1>1 DEF IInv, Held
<1>3. Alone' /\ Jobs'
  BY <1>1 DEF IInv, Alone, Jobs
<1>4. RetainedIsOver'
  BY <1>1 DEF IInv, RetainedIsOver
<1>5. Remembered'
  <2> SUFFICES ASSUME NEW i \in Ids, applied'[i] # 0
               PROVE  /\ applied'[i] <= 1
                      /\ applied'[i] = 1 /\ ~closed' =>
                           \/ seats'[i].state = "retained"
                           \/ \E q \in Queries : Underway(q)' /\ Id(q)' = i /\ Retains(q)'
                      /\ applied'[i] = 1 =>
                           \A q \in Queries : Underway(q)' /\ Id(q)' = i => Joined(q)'
    BY DEF Remembered
  <2>1. /\ applied'[i] = applied[i]
        /\ seats[i].state = "retained" => closed' \/ seats'[i].state = "retained"
    OBVIOUS
  <2>2. QED
    BY <2>1, <1>1 DEF IInv, Remembered
<1>6. QED
  BY <1>2, <1>3, <1>4, <1>5 DEF IInv

(* What a settled seat tells its task leaves places and jobs alone. *)
LEMMA SettledOnlyTells ==
  ASSUME IInv, NEW S, NEW r \in {"timeout", "drained", "dropped"}, task' = Settled(S, r)
  PROVE  /\ task' \in [Queries -> Tasks]
         /\ \A p \in Queries : task'[p].pc = task[p].pc /\ task'[p].job = task[p].job
<1>1. ASSUME NEW p \in Queries
      PROVE  task'[p] \in Tasks /\ task'[p].pc = task[p].pc /\ task'[p].job = task[p].job
  <2>1. task[p] \in Tasks
    BY DEF IInv, Types
  <2>2. task'[p] = [task[p] EXCEPT !.rx = r] \/ task'[p] = task[p]
    BY DEF Settled
  <2>3. QED
    BY <2>1, <2>2 DEF Tasks
<1>2. task' = [p \in Queries |-> task'[p]]
  BY DEF Settled
<1>3. QED
  BY <1>1, <1>2

(* `expire` voids seats that wait and lets go ids whose window is over; the *)
(* void seat of a command under way stays in its hands.                    *)
LEMMA SweepStep ==
  ASSUME IInv, NEW S \in SUBSET Ids, Sweep(S)
  PROVE  IInv'
<1>1. /\ task' \in [Queries -> Tasks]
      /\ \A p \in Queries : task'[p].pc = task[p].pc /\ task'[p].job = task[p].job
  BY SettledOnlyTells DEF Sweep
<1>2. ASSUME NEW i \in Ids
      PROVE  /\ i \notin S => seats'[i] = seats[i] /\ applied'[i] = applied[i]
             /\ i \in S /\ seats[i].state = "retained" => seats'[i] = NoSeat /\ applied'[i] = 0
             /\ i \in S /\ seats[i].state # "retained" =>
                  /\ seats[i].state = "awaiting"
                  /\ seats'[i] = [seats[i] EXCEPT !.state = "void"]
                  /\ applied'[i] = applied[i]
  BY DEF Sweep, Forget, Retained
<1>3. ASSUME NEW i \in Ids
      PROVE  /\ seats'[i] \in Seat /\ applied'[i] \in Nat
             /\ seats[i].state # "retained" => seats'[i].q = seats[i].q
             /\ i \in S /\ seats[i].state # "retained" => seats'[i].state = "void"
  <2>1. seats[i] \in Seat /\ applied[i] \in Nat
    BY DEF IInv, Types
  <2>3. /\ [seats[i] EXCEPT !.state = "void"] \in Seat
        /\ [seats[i] EXCEPT !.state = "void"].state = "void"
        /\ [seats[i] EXCEPT !.state = "void"].q = seats[i].q
    BY <2>1 DEF Seat, States
  <2>4. CASE i \notin S
    BY <2>1, <2>4, <1>2
  <2>5. CASE i \in S /\ seats[i].state = "retained"
    <3>1. seats'[i] = NoSeat /\ applied'[i] = 0
      BY <2>5, <1>2
    <3>2. QED
      BY <2>5, <3>1, EmptySeat
  <2>6. CASE i \in S /\ seats[i].state # "retained"
    BY <2>1, <2>3, <2>6, <1>2
  <2>7. QED
    BY <2>4, <2>5, <2>6
<1>4. Types'
  <2>1. seats' = [i \in Ids |-> seats'[i]] /\ applied' = [i \in Ids |-> applied'[i]]
    BY DEF Sweep, Forget
  <2>2. QED
    BY <2>1, <1>1, <1>3 DEF IInv, Types, Sweep
<1>5. ASSUME NEW p \in Queries, Underway(p), ~closed'
      PROVE  /\ seats'[Id(p)].q = seats[Id(p)].q
             /\ seats'[Id(p)].state \in {"awaiting", "void"}
  <2>1. Id(p) \in Ids /\ seats[Id(p)].state \in {"awaiting", "void"}
    BY <1>5 DEF IInv, Held, Types, Id, Sweep
  <2>2. QED
    BY <2>1, <1>2, <1>3
<1>6. \A i \in Ids :
        /\ seats'[i].state = "retained" => seats'[i] = seats[i]
        /\ \/ applied'[i] = 0
           \/ applied'[i] = applied[i]
              /\ (seats[i].state = "retained" => seats'[i].state = "retained")
  <2> TAKE i \in Ids
  <2>1. CASE i \notin S
    BY <2>1, <1>2
  <2>2. CASE i \in S /\ seats[i].state = "retained"
    BY <2>2, <1>2, EmptySeat
  <2>3. CASE i \in S /\ seats[i].state # "retained"
    BY <2>3, <1>2, <1>3
  <2>4. QED
    BY <2>1, <2>2, <2>3
<1>7. UNCHANGED <<ask, closed>>
  BY DEF Sweep
<1>8. QED
  BY <1>1, <1>4, <1>5, <1>6, <1>7, SeatStep

(* After shutdown there are no seats and `open` gives none out. *)
LEMMA DrainStep ==
  ASSUME IInv, Drain
  PROVE  IInv'
<1>1. /\ task' \in [Queries -> Tasks]
      /\ \A p \in Queries : task'[p].pc = task[p].pc /\ task'[p].job = task[p].job
  BY SettledOnlyTells DEF Drain
<1>2. closed' /\ UNCHANGED <<ask, applied>> /\ \A i \in Ids : seats'[i] = NoSeat
  BY DEF Drain, LetGo
<1>3. Types'
  BY <1>1 DEF Drain, LetGo, IInv, Types, Seat, States, NoSeat
<1>4. QED
  BY <1>1, <1>2, <1>3, SeatStep DEF NoSeat

(* A disconnect takes seats of other commands only. *)
LEMMA DropOriginStep ==
  ASSUME IInv, NEW c \in Conns, DropOrigin(c)
  PROVE  IInv'
<1> DEFINE mine == {i \in Ids : /\ seats[i].state # "none"
                                /\ Origin(seats[i].q) = c /\ ~IsLocal(seats[i].q)}
<1>1. /\ task' \in [Queries -> Tasks]
      /\ \A p \in Queries : task'[p].pc = task[p].pc /\ task'[p].job = task[p].job
  BY SettledOnlyTells DEF DropOrigin
<1>2. /\ UNCHANGED <<ask, closed, applied>>
      /\ \A i \in Ids : seats'[i] = IF i \in mine THEN NoSeat ELSE seats[i]
  BY DEF DropOrigin, LetGo
<1>3. Types'
  BY <1>1 DEF DropOrigin, LetGo, IInv, Types, Seat, States, NoSeat
<1>4. \A i \in Ids : seats[i].state = "retained" => i \notin mine
  BY DEF IInv, RetainedIsOver
<1>5. ASSUME NEW p \in Queries, Underway(p), ~closed
      PROVE  Id(p) \in Ids \ mine
  BY <1>5 DEF IInv, Held, Jobs, Types, Id
<1>6. QED
  <2>1. \A p \in Queries : Underway(p) /\ ~closed' =>
          /\ seats'[Id(p)].q = seats[Id(p)].q
          /\ seats'[Id(p)].state \in {"awaiting", "void"}
    BY <1>2, <1>5 DEF IInv, Held
  <2>2. \A i \in Ids :
          /\ seats'[i].state = "retained" => seats'[i] = seats[i]
          /\ applied'[i] = applied[i]
          /\ (seats[i].state = "retained" => seats'[i].state = "retained")
    BY <1>2, <1>4 DEF NoSeat
  <2>3. QED
    BY <1>1, <1>2, <1>3, <2>1, <2>2, SeatStep

(* The owner's outcome reaches seats of other commands only. *)
LEMMA CompleteStep ==
  ASSUME IInv, NEW e \in Queries, Complete(e)
  PROVE  IInv'
<1> DEFINE held == seats[Id(e)]
<1>1. Id(e) \in Ids /\ held \in Seat
  BY DEF IInv, Types, Id
<1>2. CASE held.state = "awaiting" /\ ~IsLocal(held.q)
  <2>1. /\ seats' = [seats EXCEPT ![Id(e)].state = "fulfilled"]
        /\ task' = [task EXCEPT ![held.q].rx = "outcome", ![held.q].of = e]
        /\ UNCHANGED <<ask, closed, applied>>
    BY <1>2 DEF Complete
  <2>2. Types'
    <3>1. seats' \in [Ids -> Seat]
      BY <1>1, <2>1 DEF IInv, Types, Seat, States
    <3>2. task' \in [Queries -> Tasks]
      <4>1. CASE held.q \in Queries
        <5>1. task[held.q] \in Tasks
          BY <4>1 DEF IInv, Types
        <5>2. [task[held.q] EXCEPT !.rx = "outcome", !.of = e] \in Tasks
          BY <5>1 DEF Tasks
        <5>3. task' = [task EXCEPT ![held.q] = [@ EXCEPT !.rx = "outcome", !.of = e]]
          BY <2>1, <4>1 DEF IInv, Types
        <5>4. QED
          BY <4>1, <5>2, <5>3 DEF IInv, Types
      <4>2. CASE held.q \notin Queries
        BY <2>1, <4>2 DEF IInv, Types
      <4>3. QED
        BY <4>1, <4>2
    <3>3. QED
      BY <2>1, <3>1, <3>2 DEF IInv, Types
  <2>3. \A p \in Queries : task'[p].pc = task[p].pc /\ task'[p].job = task[p].job
    BY <2>1 DEF IInv, Types, Tasks
  <2>4. \A i \in Ids : seats'[i] = IF i = Id(e) THEN [held EXCEPT !.state = "fulfilled"]
                                   ELSE seats[i]
    BY <2>1 DEF IInv, Types
  <2>5. \A p \in Queries : Underway(p) /\ ~closed => Id(p) \in Ids \ {Id(e)}
    BY <1>2 DEF IInv, Held, Jobs, Types, Id
  <2>6. \A p \in Queries : Underway(p) /\ ~closed' =>
          /\ seats'[Id(p)].q = seats[Id(p)].q
          /\ seats'[Id(p)].state \in {"awaiting", "void"}
    BY <2>1, <2>4, <2>5 DEF IInv, Held
  <2>7. \A i \in Ids :
          /\ seats'[i].state = "retained" => seats'[i] = seats[i]
          /\ applied'[i] = applied[i]
          /\ (seats[i].state = "retained" => seats'[i].state = "retained")
    BY <1>1, <1>2, <2>1, <2>4 DEF Seat
  <2>8. QED
    BY <2>1, <2>2, <2>3, <2>6, <2>7, SeatStep
<1>3. CASE ~(held.state = "awaiting" /\ ~IsLocal(held.q))
  <2>1. UNCHANGED <<ask, seats, closed, task, applied>>
    BY <1>3 DEF Complete
  <2>2. QED
    BY <2>1, QuietStep DEF IInv, Types, Underway
<1>4. QED
  BY <1>2, <1>3

(* A query gives its own seat back: it is neither under way nor retained. *)
LEMMA ReleaseStep ==
  ASSUME IInv, NEW q \in Queries, Release(q)
  PROVE  IInv'
<1>1. task[q] \in Tasks /\ task[q].pc = "release" /\ Id(q) \in Ids
  BY DEF IInv, Types, Id, Release, At
<1>2. /\ \A p \in Queries \ {q} : task'[p] = task[p]
      /\ task'[q] = [task[q] EXCEPT !.pc = "done"]
      /\ UNCHANGED <<ask, closed, applied>>
      /\ \A i \in Ids : seats'[i] = IF i = Id(q) /\ Holds(q) THEN NoSeat ELSE seats[i]
  BY DEF Release, Go, LetGo, IInv, Types
<1>3. Types'
  <2>1. seats' \in [Ids -> Seat]
    BY EmptySeat DEF Release, LetGo, IInv, Types
  <2>2. QED
    BY <1>1, <2>1 DEF Release, Go, IInv, Types, Tasks
<1>4. \A p \in Queries : task'[p].job = task[p].job
  BY <1>1, <1>2 DEF Tasks
<1>5. /\ task'[q].pc = "done" /\ ~Underway(q) /\ ~Underway(q)'
      /\ \A p \in Queries : Id(p)' = Id(p) /\ IsLocal(p)' = IsLocal(p)
      /\ \A p \in Queries : /\ Underway(p)' = Underway(p) /\ Joined(p)' = Joined(p)
                            /\ Retains(p)' = Retains(p)
  BY <1>1, <1>2, <1>4, AskFixed DEF Tasks, Underway, Joined, Retains
<1>6. Held'
  BY <1>2, <1>5 DEF IInv, Held, Holds, Types, Id
<1>7. Alone' /\ Jobs'
  <2>1. Alone'
    BY <1>5 DEF IInv, Alone
  <2>2. Jobs'
    BY <1>1, <1>2, <1>4, <1>5 DEF IInv, Jobs
  <2>3. QED
    BY <2>1, <2>2
<1>8. \A i \in Ids : seats[i].state = "retained" => seats'[i] = seats[i]
  BY <1>1, <1>2 DEF IInv, RetainedIsOver, Holds
<1>9. RetainedIsOver'
  BY <1>1, <1>2, <1>5, EmptySeat DEF IInv, RetainedIsOver
<1>10. Remembered'
  BY <1>2, <1>5, <1>8 DEF IInv, Remembered
<1>11. QED
  BY <1>3, <1>6, <1>7, <1>9, <1>10 DEF IInv

(* A command that is refused has not run. *)
LEMMA RefuseLocalStep ==
  ASSUME IInv, NEW q \in Queries, RefuseLocal(q)
  PROVE  IInv'
<1>1. task[q] \in Tasks /\ task[q].pc = "admit" /\ task[q].job = "none"
  BY DEF IInv, Types, RefuseLocal, At, Jobs
<1>2. /\ \A p \in Queries \ {q} : task'[p] = task[p]
      /\ task'[q] = [task[q] EXCEPT !.pc = "release"]
      /\ UNCHANGED <<ask, seats, closed, applied>>
  BY DEF RefuseLocal, Go, IInv, Types
<1>3. Types'
  BY <1>1 DEF RefuseLocal, Go, IInv, Types, Tasks
<1>4. task'[q].pc = "release" /\ task'[q].job = "none"
  BY <1>1, <1>2 DEF Tasks
<1>5. /\ ~Underway(q)' /\ ~Retains(q)
      /\ \A p \in Queries : Id(p)' = Id(p) /\ IsLocal(p)' = IsLocal(p)
      /\ \A p \in Queries \ {q} : /\ Underway(p)' = Underway(p) /\ Joined(p)' = Joined(p)
                                  /\ Retains(p)' = Retains(p)
  BY <1>1, <1>2, <1>4, AskFixed DEF Underway, Joined, Retains
<1>6. Held' /\ Alone' /\ Jobs'
  <2>1. Held'
    BY <1>2, <1>5 DEF IInv, Held
  <2>2. Alone'
    BY <1>2, <1>5 DEF IInv, Alone
  <2>3. Jobs'
    <3>1. \A p \in Queries \ {q} :
            /\ Underway(p)' => IsLocal(p)'
            /\ task'[p].pc \in {"new", "admit"} => task'[p].job = "none"
            /\ task'[p].job = "queued" => task'[p].pc \in {"running", "settle"}
      BY <1>2, <1>5 DEF IInv, Jobs
    <3>2. QED
      BY <1>4, <1>5, <3>1 DEF Jobs
  <2>4. QED
    BY <2>1, <2>2, <2>3
<1>7. RetainedIsOver'
  BY <1>1, <1>2, <1>5 DEF IInv, RetainedIsOver
<1>8. Remembered'
  BY <1>2, <1>5 DEF IInv, Remembered
<1>9. QED
  BY <1>3, <1>6, <1>7, <1>8 DEF IInv

(* A command that is admitted has not run, so its id is not remembered. *)
LEMMA AdmitLocalStep ==
  ASSUME IInv, NEW q \in Queries, AdmitLocal(q)
  PROVE  IInv'
<1>1. /\ task[q] \in Tasks /\ task[q].pc = "admit" /\ task[q].job = "none"
      /\ Id(q) \in Ids
  BY DEF IInv, Types, AdmitLocal, At, Jobs, Id
<1>2. /\ \A p \in Queries \ {q} : task'[p] = task[p]
      /\ task'[q] = [task[q] EXCEPT !.pc = "running", !.job = "queued"]
      /\ UNCHANGED <<ask, seats, closed, applied>>
  BY DEF AdmitLocal, IInv, Types
<1>3. Types'
  BY <1>1 DEF AdmitLocal, IInv, Types, Tasks
<1>4. task'[q].pc = "running" /\ task'[q].job = "queued"
  BY <1>1, <1>2 DEF Tasks
<1>5. /\ Underway(q) /\ Underway(q)' /\ ~Retains(q) /\ ~Joined(q)
      /\ \A p \in Queries : Id(p)' = Id(p) /\ IsLocal(p)' = IsLocal(p)
      /\ \A p \in Queries \ {q} : /\ Underway(p)' = Underway(p) /\ Joined(p)' = Joined(p)
                                  /\ Retains(p)' = Retains(p)
  BY <1>1, <1>2, <1>4, AskFixed DEF Underway, Joined, Retains
<1>6. Held' /\ Alone' /\ Jobs'
  <2>1. Held'
    BY <1>2, <1>5 DEF IInv, Held
  <2>2. Alone'
    BY <1>2, <1>5 DEF IInv, Alone
  <2>3. Jobs'
    BY <1>2, <1>4, <1>5 DEF IInv, Jobs
  <2>4. QED
    BY <2>1, <2>2, <2>3
<1>7. RetainedIsOver'
  BY <1>1, <1>2, <1>5 DEF IInv, RetainedIsOver
<1>8. applied[Id(q)] # 1
  BY <1>1, <1>5 DEF IInv, Remembered
<1>9. Remembered'
  BY <1>2, <1>5, <1>8 DEF IInv, Remembered
<1>10. QED
  BY <1>3, <1>6, <1>7, <1>9 DEF IInv

(* A job runs: it is the only one under its id and nothing ran before it. *)
LEMMA RunJobStep ==
  ASSUME IInv, NEW q \in Queries, NEW o \in {"ok", "died", "refused", "gone"}, RunJob(q, o)
  PROVE  IInv'
<1>1. /\ task[q] \in Tasks /\ task[q].pc \in {"running", "settle"} /\ task[q].job = "queued"
      /\ Id(q) \in Ids
  BY DEF IInv, Types, RunJob, Jobs, Id
<1>2. /\ \A p \in Queries \ {q} : task'[p] = task[p]
      /\ task'[q] = [task[q] EXCEPT !.job = o]
      /\ UNCHANGED <<ask, seats, closed>>
      /\ \A i \in Ids \ {Id(q)} : applied'[i] = applied[i]
      /\ applied'[Id(q)] = IF ask[q].name \in Writes /\ o \in {"ok", "died"}
                             THEN applied[Id(q)] + 1 ELSE applied[Id(q)]
  BY <1>1 DEF RunJob, IInv, Types
<1>3. Types'
  <2>1. task' \in [Queries -> Tasks]
    BY <1>1 DEF RunJob, IInv, Types, Tasks
  <2>2. applied' \in [Ids -> Nat]
    BY <1>1 DEF RunJob, IInv, Types
  <2>3. QED
    BY <1>2, <2>1, <2>2 DEF IInv, Types
<1>4. task'[q].pc = task[q].pc /\ task'[q].job = o
  BY <1>1, <1>2 DEF Tasks
<1>5. /\ Underway(q) /\ Underway(q)' /\ ~Retains(q) /\ ~Joined(q) /\ Joined(q)'
      /\ \A p \in Queries : Id(p)' = Id(p) /\ IsLocal(p)' = IsLocal(p)
      /\ \A p \in Queries \ {q} : /\ Underway(p)' = Underway(p) /\ Joined(p)' = Joined(p)
                                  /\ Retains(p)' = Retains(p)
      /\ Retains(q)' <=> ask[q].name \in Writes /\ o \in {"ok", "died"}
  BY <1>1, <1>2, <1>4, AskFixed DEF Underway, Joined, Retains
<1>6. Held' /\ Alone'
  BY <1>2, <1>5 DEF IInv, Held, Alone
<1>7. Jobs'
  BY <1>1, <1>2, <1>4, <1>5 DEF IInv, Jobs
<1>8. RetainedIsOver'
  BY <1>1, <1>2, <1>5 DEF IInv, RetainedIsOver
<1>9. applied[Id(q)] = 0
  <2>1. applied[Id(q)] # 1 /\ applied[Id(q)] <= 1
    BY <1>1, <1>5 DEF IInv, Remembered
  <2>2. applied[Id(q)] \in Nat
    BY <1>1 DEF IInv, Types
  <2>3. QED
    BY <2>1, <2>2
<1>10. Remembered'
  <2>1. ASSUME NEW i \in Ids \ {Id(q)}
        PROVE  /\ applied'[i] <= 1
               /\ applied'[i] = 1 /\ ~closed' =>
                    \/ seats'[i].state = "retained"
                    \/ \E p \in Queries : Underway(p)' /\ Id(p)' = i /\ Retains(p)'
               /\ applied'[i] = 1 =>
                    \A p \in Queries : Underway(p)' /\ Id(p)' = i => Joined(p)'
    BY <1>2, <1>5 DEF IInv, Remembered
  <2>2. applied'[Id(q)] <= 1 /\ (applied'[Id(q)] = 1 => Retains(q)')
    BY <1>2, <1>5, <1>9
  <2>3. \A p \in Queries : Underway(p)' /\ Id(p)' = Id(q) => Joined(p)'
    BY <1>5 DEF IInv, Alone
  <2>4. QED
    BY <1>5, <2>1, <2>2, <2>3 DEF Remembered
<1>11. QED
  BY <1>3, <1>6, <1>7, <1>8, <1>10 DEF IInv

(* A command is over: its id is remembered from here on, or it did not run; *)
(* an id pushed out of the memory is let go.                               *)
LEMMA SettleLocalStep ==
  ASSUME IInv, NEW q \in Queries, SettleLocal(q)
  PROVE  IInv'
<1> DEFINE retained == [seats EXCEPT ![Id(q)].state = "retained"]
<1>1. /\ task[q] \in Tasks /\ task[q].pc = "settle" /\ Joined(q)
      /\ Id(q) \in Ids /\ IsLocal(q) /\ Underway(q)
  BY DEF IInv, Types, SettleLocal, At, Jobs, Id, Underway
<1>2. /\ \A p \in Queries \ {q} : task'[p] = task[p]
      /\ task'[q] = [task[q] EXCEPT !.pc = "done"]
      /\ task' \in [Queries -> Tasks]
      /\ UNCHANGED <<ask, closed>>
  BY <1>1 DEF SettleLocal, Go, IInv, Types, Tasks
<1>3. task'[q].pc = "done" /\ task'[q].job = task[q].job
  BY <1>1, <1>2 DEF Tasks
<1>4. /\ ~Underway(q)'
      /\ \A p \in Queries : Id(p)' = Id(p) /\ IsLocal(p)' = IsLocal(p)
      /\ \A p \in Queries \ {q} : /\ Underway(p)' = Underway(p) /\ Joined(p)' = Joined(p)
                                  /\ Retains(p)' = Retains(p)
      /\ \A p \in Queries : Id(p) \in Ids
  BY <1>2, <1>3, AskFixed DEF Underway, Joined, Retains, IInv, Types, Id
<1>5. \A p \in Queries \ {q} : Underway(p) => Id(p) # Id(q)
  BY <1>1 DEF IInv, Alone
\* What the three outcomes have in common, the seat of the id apart.
<1>6. /\ seats' \in [Ids -> Seat] /\ applied' \in [Ids -> Nat]
      /\ \A i \in Ids \ {Id(q)} :
           \/ seats'[i] = seats[i] /\ applied'[i] = applied[i]
           \/ seats[i].state = "retained" /\ seats'[i] = NoSeat /\ applied'[i] = 0
      /\ \/ applied'[Id(q)] = 0
         \/ applied'[Id(q)] = applied[Id(q)]
            /\ (closed \/ seats'[Id(q)].state = "retained" \/ applied[Id(q)] = 0)
      /\ \/ seats'[Id(q)] = NoSeat
         \/ seats'[Id(q)].q = q /\ seats[Id(q)].q = q
         \/ seats'[Id(q)] = seats[Id(q)]
  <2>1. CASE Holds(q) /\ Retains(q)
    <3>1. PICK out \in SUBSET Ids :
            Evicts(retained, out) /\ seats' = LetGo(retained, out) /\ Forget(out)
      BY <2>1 DEF SettleLocal
    <3>2. /\ retained \in [Ids -> Seat]
          /\ \A i \in Ids \ {Id(q)} : retained[i] = seats[i]
          /\ retained[Id(q)].state = "retained" /\ retained[Id(q)].q = seats[Id(q)].q
      BY <1>1 DEF IInv, Types, Seat, States
    <3>3. \A i \in Ids : /\ seats'[i] = IF i \in out THEN NoSeat ELSE retained[i]
                         /\ applied'[i] = IF i \in out THEN 0 ELSE applied[i]
                         /\ i \in out => retained[i].state = "retained"
      BY <3>1 DEF LetGo, Forget, Evicts, Retained
    <3>4. seats' \in [Ids -> Seat] /\ applied' \in [Ids -> Nat]
      BY <3>1, <3>2, EmptySeat DEF LetGo, Forget, IInv, Types
    <3>5. QED
      BY <1>1, <2>1, <3>2, <3>3, <3>4 DEF Holds
  <2>2. CASE Holds(q) /\ ~Retains(q)
    <3>1. seats' = LetGo(seats, {Id(q)}) /\ applied' = applied
      BY <2>2 DEF SettleLocal
    <3>2. closed \/ applied[Id(q)] = 0
      <4>1. ASSUME ~closed PROVE applied[Id(q)] # 1
        <5>1. seats[Id(q)].state # "retained"
          BY <1>1, <4>1 DEF IInv, Held
        <5>2. ~\E p \in Queries : Underway(p) /\ Id(p) = Id(q) /\ Retains(p)
          BY <1>5, <2>2
        <5>3. QED
          BY <1>1, <4>1, <5>1, <5>2 DEF IInv, Remembered
      <4>2. applied[Id(q)] \in Nat /\ applied[Id(q)] <= 1
        BY <1>1 DEF IInv, Types, Remembered
      <4>3. QED
        BY <4>1, <4>2
    <3>3. /\ \A i \in Ids : seats'[i] = IF i = Id(q) THEN NoSeat ELSE seats[i]
          /\ seats' \in [Ids -> Seat] /\ applied' \in [Ids -> Nat]
      BY <3>1, EmptySeat DEF LetGo, IInv, Types
    <3>4. QED
      BY <1>1, <3>1, <3>2, <3>3
  <2>3. CASE ~Holds(q)
    <3>1. seats' = seats /\ applied' = applied
      BY <2>3 DEF SettleLocal
    <3>2. closed
      BY <1>1, <2>3 DEF IInv, Held, Holds
    <3>3. QED
      BY <3>1, <3>2 DEF IInv, Types
  <2>4. QED
    BY <2>1, <2>2, <2>3
<1>7. Types'
  BY <1>2, <1>6 DEF IInv, Types
<1>8. Held'
  <2> SUFFICES ASSUME ~closed, NEW p \in Queries, Underway(p)'
               PROVE  seats'[Id(p)].q = p /\ seats'[Id(p)].state \in {"awaiting", "void"}
    BY <1>2, <1>4 DEF Held
  <2>1. p # q /\ Underway(p) /\ Id(p) \in Ids \ {Id(q)}
    BY <1>4, <1>5
  <2>2. seats[Id(p)].q = p /\ seats[Id(p)].state \in {"awaiting", "void"}
    BY <2>1 DEF IInv, Held
  <2>3. QED
    BY <2>1, <2>2, <1>6
<1>9. Alone'
  BY <1>4 DEF IInv, Alone
<1>10. Jobs'
  <2>1. \A p \in Queries \ {q} :
          /\ Underway(p)' => IsLocal(p)'
          /\ task'[p].pc \in {"new", "admit"} => task'[p].job = "none"
          /\ task'[p].job = "queued" => task'[p].pc \in {"running", "settle"}
    BY <1>2, <1>4 DEF IInv, Jobs
  <2>2. QED
    BY <1>1, <1>3, <1>4, <2>1 DEF Jobs, Joined
<1>11. RetainedIsOver'
  <2> SUFFICES ASSUME NEW i \in Ids, seats'[i].state = "retained"
               PROVE  /\ seats'[i].q \in Queries
                      /\ Id(seats'[i].q) = i /\ IsLocal(seats'[i].q)
                      /\ task'[seats'[i].q].pc = "done"
    BY <1>4 DEF RetainedIsOver
  <2>1. CASE seats'[i].q = q /\ i = Id(q)
    BY <2>1, <1>1, <1>3
  <2>2. CASE ~(seats'[i].q = q /\ i = Id(q))
    <3>1. seats'[i] = seats[i]
      BY <2>2, <1>6, EmptySeat
    <3>2. QED
      BY <3>1, <1>1, <1>2, <1>3 DEF IInv, RetainedIsOver
  <2>3. QED
    BY <2>1, <2>2
<1>12. Remembered'
  <2> SUFFICES ASSUME NEW i \in Ids
               PROVE  /\ applied'[i] <= 1
                      /\ applied'[i] = 1 /\ ~closed =>
                           \/ seats'[i].state = "retained"
                           \/ \E p \in Queries : Underway(p)' /\ Id(p) = i /\ Retains(p)'
                      /\ applied'[i] = 1 =>
                           \A p \in Queries : Underway(p)' /\ Id(p) = i => Joined(p)'
    BY <1>2, <1>4 DEF Remembered
  <2>1. /\ applied[i] <= 1
        /\ applied[i] = 1 /\ ~closed =>
             \/ seats[i].state = "retained"
             \/ \E p \in Queries : Underway(p) /\ Id(p) = i /\ Retains(p)
        /\ applied[i] = 1 => \A p \in Queries : Underway(p) /\ Id(p) = i => Joined(p)
    BY DEF IInv, Remembered
  <2>2. CASE i # Id(q)
    BY <2>1, <2>2, <1>4, <1>6
  <2>3. CASE i = Id(q)
    <3>1. \A p \in Queries : ~(Underway(p)' /\ Id(p) = i)
      BY <2>3, <1>4, <1>5
    <3>2. QED
      BY <2>1, <2>3, <3>1, <1>6
  <2>4. QED
    BY <2>2, <2>3
<1>13. QED
  BY <1>7, <1>8, <1>9, <1>10, <1>11, <1>12 DEF IInv

-----------------------------------------------------------------------------
(* Every step of the daemon, its callers and its owners preserves the       *)
(* invariant.                                                              *)
LEMMA NextIInv == IInv /\ [Next]_vars => IInv'
<1> SUFFICES ASSUME IInv, [Next]_vars PROVE IInv'
  OBVIOUS
<1>1. CASE \E q \in Queries : Deliver(q)
  BY <1>1, OpenStep, QuietSteps, ReleaseStep, RefuseLocalStep, AdmitLocalStep, SettleLocalStep
     DEF Deliver
<1>2. CASE \E q \in Queries, o \in {"ok", "died", "refused", "gone"} : RunJob(q, o)
  BY <1>2, RunJobStep
<1>3. CASE \E q \in Queries : Complete(q)
  BY <1>3, CompleteStep
<1>4. CASE \E S \in SUBSET Ids : Sweep(S)
  BY <1>4, SweepStep
<1>5. CASE \E c \in Conns : DropOrigin(c)
  BY <1>5, DropOriginStep
<1>6. CASE Drain
  BY <1>6, DrainStep
<1>7. CASE (\E c \in Conns : Detach(c)) \/ UNCHANGED vars
  <2>1. UNCHANGED <<ask, seats, closed, task, applied>>
    BY <1>7 DEF Detach, vars
  <2>2. QED
    BY <2>1, QuietStep DEF IInv, Types, Underway
<1>8. QED
  BY <1>1, <1>2, <1>3, <1>4, <1>5, <1>6, <1>7 DEF Next

(* For every set of queries and ids and all limits: whatever deadlines,     *)
(* disconnects, repeated queries and late jobs come between, a write of    *)
(* the daemon's own runs at most once under a request id until `expire`    *)
(* or `evict_oldest_retained` lets the id go (command_delivery.rs).        *)
THEOREM WritesRunOnce == Spec => []AppliedOnce
<1>1. IInv => AppliedOnce
  BY DEF IInv, Remembered, AppliedOnce
<1>2. QED
  BY <1>1, InitIInv, NextIInv, PTL DEF Spec

-----------------------------------------------------------------------------
(* Replies: one frame for each query, one query for each outcome.          *)

Asked == {"waiting", "release", "done"}
Answered == {"settle", "release", "done"}

\* A query under this id stopped waiting without its outcome.
GivenUp(i) == \E p \in Queries : Id(p) = i /\ task[p].rx \in {"timeout", "dropped"}

SlotHolders == {q \in Queries : task[q].pc \in {"running", "settle"}}

\* The slots and the retained ids are counted right.
Limits ==
  /\ running = Cardinality(SlotHolders) /\ running <= MaxLocal
  /\ Cardinality(Retained(seats)) <= MaxRetained

\* The types of everything.
AllTypes ==
  /\ Types /\ ask \in Asks
  /\ conn \in [Conns -> {"attached", "detached", "gone"}]
  /\ owner \subseteq Queries
  /\ sent \in [Queries -> Nat]

\* What a task's place says about it.
Places ==
  \A q \in Queries :
    /\ sent[q] = IF task[q].pc \in Answered THEN 1 ELSE 0
    /\ task[q].pc = "new" => task[q].rx = "open"
    /\ task[q].pc = "merged" =>
         task[q].host \in Queries /\ task[task[q].host].pc \notin {"new", "merged"}

\* Who holds a seat, and that a seat still waiting has told its task nothing.
SeatsOwned ==
  \A i \in Ids :
    /\ closed => seats[i] = NoSeat
    /\ seats[i].state # "none" =>
         /\ seats[i].q \in Queries /\ Id(seats[i].q) = i
         /\ task[seats[i].q].pc \notin {"new", "merged"}
    /\ seats[i].state = "awaiting" => task[seats[i].q].rx = "open"

\* The query waits in its seat, or somebody under its id was given up, or the
\* daemon is shutting down.
SeatedOrNot(e) ==
  closed \/ GivenUp(Id(e)) \/ (seats[Id(e)].state = "awaiting" /\ seats[Id(e)].q = e)

\* An envelope the owner has, or is about to get.
Owed ==
  \A e \in Queries :
    /\ e \in owner => /\ task[e].pc \in Asked
                      /\ task[e].pc # "waiting" => task[e].rx # "open"
    /\ e \in owner \/ task[e].pc = "handover" => SeatedOrNot(e)

\* Where outcomes went.
Outcomes ==
  \A q \in Queries : task[q].of # Nobody =>
    /\ task[q].of \notin owner /\ task[task[q].of].pc \in Asked
    /\ task[q].of # q => Id(task[q].of) = Id(q) /\ GivenUp(Id(q))
    /\ \A p \in Queries \ {q} : task[p].of # task[q].of

RInv == AllTypes /\ Limits /\ Places /\ SeatsOwned /\ Owed /\ Outcomes

-----------------------------------------------------------------------------
(* At the start nobody asked, holds or was told anything. *)
LEMMA InitRInv == Init => RInv
<1> SUFFICES ASSUME Init PROVE RInv
  OBVIOUS
<1>1. IInv
  BY InitIInv
<1>2. AllTypes
  BY <1>1 DEF Init, IInv, AllTypes
<1>3. \A q \in Queries : /\ task[q].pc = "new" /\ task[q].rx = "open"
                         /\ task[q].of = Nobody /\ sent[q] = 0
  BY DEF Init, Idle
<1>4. Places /\ SeatsOwned /\ Owed /\ Outcomes
  <2>1. \A i \in Ids : seats[i] = NoSeat
    BY DEF Init
  <2>2. owner = {}
    BY DEF Init
  <2>3. QED
    BY <1>3, <2>1, <2>2, EmptySeat DEF Places, SeatsOwned, Owed, Outcomes, Answered
<1>5. Limits
  <2>1. SlotHolders = {} /\ Retained(seats) = {}
    BY <1>3 DEF SlotHolders, Retained, Init, NoSeat
  <2>2. QED
    BY <2>1, FS_EmptySet, LimitsAssumption DEF Limits, Init
<1>6. QED
  BY <1>2, <1>4, <1>5 DEF RInv

(* No query has the name that stands for nobody. *)
LEMMA NobodyAsks == Nobody \notin Queries
BY QueriesAssumption DEF Nobody

(* A step of one task that moves on without touching a seat. *)
LEMMA OneTask ==
  ASSUME RInv, AllTypes', UNCHANGED <<ask, seats, closed, owner>>,
         NEW q \in Queries,
         \A p \in Queries \ {q} : task'[p] = task[p] /\ sent'[p] = sent[p],
         task'[q].rx = task[q].rx /\ task'[q].of = task[q].of,
         sent'[q] = IF task'[q].pc \in Answered THEN 1 ELSE 0,
         task'[q].pc \notin {"new", "handover"},
         task'[q].pc = "merged" =>
           /\ task[q].pc = "new" /\ task'[q].host \in Queries
           /\ task[task'[q].host].pc \notin {"new", "merged"},
         task[q].pc \in Asked => task'[q].pc \in Asked,
         task[q].pc = "waiting" => task'[q].pc = "waiting" \/ task[q].rx # "open"
  PROVE  Places' /\ SeatsOwned' /\ Owed' /\ Outcomes'
<1>1. /\ \A p \in Queries : Id(p)' = Id(p)
      /\ \A p \in Queries : task'[p].rx = task[p].rx /\ task'[p].of = task[p].of
      /\ \A p \in Queries : task[p].pc \notin {"new", "merged"} =>
                              task'[p].pc \notin {"new", "merged"}
      /\ \A p \in Queries : task[p].pc \in Asked => task'[p].pc \in Asked
  BY AskFixed
<1>2. \A i : GivenUp(i)' = GivenUp(i)
  BY <1>1 DEF GivenUp
<1>3. Places'
  BY <1>1 DEF RInv, Places
<1>4. SeatsOwned'
  BY <1>1 DEF RInv, SeatsOwned
<1>5. Owed'
  <2>1. \A e \in Queries : SeatedOrNot(e)' = SeatedOrNot(e)
    BY <1>1, <1>2 DEF SeatedOrNot
  <2>2. QED
    BY <1>1, <2>1 DEF RInv, Owed
<1>6. Outcomes'
  <2>1. \A p \in Queries : task[p].of \in Queries \cup {Nobody}
    BY DEF RInv, AllTypes, Types, Tasks
  <2>2. QED
    BY <1>1, <1>2, <2>1, AskFixed DEF RInv, Outcomes
<1>7. QED
  BY <1>3, <1>4, <1>5, <1>6

(* Slots and retained ids are the same as long as nobody changes them. *)
LEMMA SameLimits ==
  ASSUME RInv, UNCHANGED <<running, seats>>,
         \A p \in Queries : /\ task'[p].pc \in {"running", "settle"}
                                 <=> task[p].pc \in {"running", "settle"}
  PROVE  Limits'
<1>1. SlotHolders' = SlotHolders
  BY DEF SlotHolders
<1>2. Retained(seats)' = Retained(seats)
  BY DEF Retained
<1>3. QED
  BY <1>1, <1>2 DEF RInv, Limits

(* The steps of a task, its seat and its slot apart. *)
LEMMA TaskSteps ==
  ASSUME RInv, IInv, AllTypes', NEW q \in Queries,
         Coalesce(q) \/ Refuse(q) \/ RefuseLocal(q) \/ AnswerLocal(q) \/ AnswerEarly(q)
         \/ HandoverFails(q) \/ AnswerRemote(q)
  PROVE  RInv'
<1>1. task[q] \in Tasks /\ Id(q) \in Ids /\ seats[Id(q)] \in Seat
      /\ sent[q] = IF task[q].pc \in Answered THEN 1 ELSE 0
  BY DEF IInv, Types, Id, RInv, Places
<1>2. CASE Coalesce(q)
  <2>1. /\ seats[Id(q)].state # "none"
    <3>1. Occupancy(q) = "Coalesced" /\ seats[Id(q)].state \in States
      BY <1>1, <1>2 DEF Coalesce, Seat
    <3>2. QED
      BY <3>1 DEF Occupancy, States
  <2>2. seats[Id(q)].q \in Queries /\ task[seats[Id(q)].q].pc \notin {"new", "merged"}
    BY <1>1, <2>1 DEF RInv, SeatsOwned
  <2>3. /\ \A p \in Queries \ {q} : task'[p] = task[p] /\ sent'[p] = sent[p]
        /\ task'[q] = [task[q] EXCEPT !.pc = "merged", !.host = seats[Id(q)].q]
        /\ sent' = sent /\ task[q].pc = "new"
        /\ UNCHANGED <<ask, seats, closed, owner, running>>
    BY <1>2 DEF Coalesce, At, IInv, Types
  <2>4. /\ task'[q].pc = "merged" /\ task'[q].host = seats[Id(q)].q
        /\ task'[q].rx = task[q].rx /\ task'[q].of = task[q].of
    BY <1>1, <2>3 DEF Tasks
  <2>5. Limits'
    BY <2>3, <2>4, SameLimits
  <2>6. Places' /\ SeatsOwned' /\ Owed' /\ Outcomes'
    BY <1>1, <2>2, <2>3, <2>4, OneTask DEF Asked, Answered
  <2>7. QED
    BY <2>5, <2>6 DEF RInv
<1>3. CASE ~Coalesce(q)
  <2>1. PICK pc \in Answered :
          /\ task' = [task EXCEPT ![q].pc = pc]
          /\ sent' = [sent EXCEPT ![q] = @ + 1]
          /\ UNCHANGED <<ask, seats, closed, owner, running>>
          /\ \/ task[q].pc \in {"new", "admit", "handover"} /\ pc \in {"release", "done"}
             \/ task[q].pc = "running" /\ pc = "settle"
             \/ task[q].pc = "waiting" /\ pc = "release" /\ task[q].rx # "open"
    BY <1>3 DEF Refuse, RefuseLocal, AnswerLocal, AnswerEarly, HandoverFails, AnswerRemote,
       SendReply, Go, At, Answered
  <2>2. /\ \A p \in Queries \ {q} : task'[p] = task[p] /\ sent'[p] = sent[p]
        /\ task'[q] = [task[q] EXCEPT !.pc = pc]
        /\ sent'[q] = sent[q] + 1
    BY <2>1 DEF RInv, AllTypes, Types
  <2>3. /\ task'[q].pc = pc
        /\ task'[q].rx = task[q].rx /\ task'[q].of = task[q].of
    BY <1>1, <2>2 DEF Tasks
  <2>4. sent'[q] = 1
    BY <1>1, <2>1, <2>2 DEF Answered
  <2>5. Limits'
    BY <2>1, <2>2, <2>3, SameLimits
  <2>6. Places' /\ SeatsOwned' /\ Owed' /\ Outcomes'
    BY <2>1, <2>2, <2>3, <2>4, OneTask DEF Asked, Answered
  <2>7. QED
    BY <2>5, <2>6 DEF RInv
<1>4. QED
  BY <1>2, <1>3

(* Sets of queries and of ids are finite, so the counts are numbers. *)
LEMMA Counts ==
  ASSUME AllTypes
  PROVE  /\ IsFiniteSet(SlotHolders) /\ Cardinality(SlotHolders) \in Nat
         /\ IsFiniteSet(Retained(seats)) /\ Cardinality(Retained(seats)) \in Nat
<1>1. SlotHolders \in SUBSET Queries /\ Retained(seats) \in SUBSET Ids
  BY DEF SlotHolders, Retained
<1>2. IsFiniteSet(SlotHolders) /\ IsFiniteSet(Retained(seats))
  BY <1>1, FS_Subset, QueriesAssumption
<1>3. QED
  BY <1>2, FS_CardinalityType

(* An admitted command takes one more slot. *)
LEMMA AdmitTakesSlot ==
  ASSUME RInv, IInv, AllTypes', NEW q \in Queries, AdmitLocal(q)
  PROVE  RInv'
<1>1. task[q] \in Tasks /\ task[q].pc = "admit"
      /\ sent[q] = IF task[q].pc \in Answered THEN 1 ELSE 0
  BY DEF IInv, Types, RInv, Places, AdmitLocal, At
<1>2. /\ \A p \in Queries \ {q} : task'[p] = task[p] /\ sent'[p] = sent[p]
      /\ task'[q] = [task[q] EXCEPT !.pc = "running", !.job = "queued"]
      /\ sent' = sent /\ UNCHANGED <<ask, seats, closed, owner>>
  BY DEF AdmitLocal, IInv, Types
<1>3. /\ task'[q].pc = "running"
      /\ task'[q].rx = task[q].rx /\ task'[q].of = task[q].of
  BY <1>1, <1>2 DEF Tasks
<1>4. Places' /\ SeatsOwned' /\ Owed' /\ Outcomes'
  BY <1>1, <1>2, <1>3, OneTask DEF Asked, Answered
<1>5. Limits'
  <2>1. SlotHolders' = SlotHolders \cup {q} /\ q \notin SlotHolders
    BY <1>1, <1>2, <1>3 DEF SlotHolders
  <2>2. Cardinality(SlotHolders') = Cardinality(SlotHolders) + 1
    BY <2>1, FS_AddElement, Counts DEF RInv
  <2>3. Retained(seats)' = Retained(seats)
    BY <1>2 DEF Retained
  <2>4. running' = running + 1 /\ running < MaxLocal /\ running = Cardinality(SlotHolders)
        /\ Cardinality(Retained(seats)) <= MaxRetained
    BY DEF AdmitLocal, RInv, Limits
  <2>5. QED
    BY <2>2, <2>3, <2>4, Counts, LimitsAssumption DEF RInv, Limits
<1>6. QED
  BY <1>4, <1>5 DEF RInv

(* A job that ends answers nobody by itself. *)
LEMMA RunJobReplies ==
  ASSUME RInv, IInv, AllTypes', NEW q \in Queries, NEW o, RunJob(q, o)
  PROVE  RInv'
<1>1. task[q] \in Tasks /\ task[q].pc \in {"running", "settle"}
      /\ sent[q] = IF task[q].pc \in Answered THEN 1 ELSE 0
  BY DEF IInv, Types, RInv, Places, RunJob, Jobs
<1>2. /\ \A p \in Queries \ {q} : task'[p] = task[p] /\ sent'[p] = sent[p]
      /\ task'[q] = [task[q] EXCEPT !.job = o]
      /\ sent' = sent /\ UNCHANGED <<ask, seats, closed, owner, running>>
  BY DEF RunJob, IInv, Types
<1>3. /\ task'[q].pc = task[q].pc
      /\ task'[q].rx = task[q].rx /\ task'[q].of = task[q].of
  BY <1>1, <1>2 DEF Tasks
<1>4. Places' /\ SeatsOwned' /\ Owed' /\ Outcomes'
  BY <1>1, <1>2, <1>3, OneTask DEF Asked, Answered
<1>5. Limits'
  BY <1>2, <1>3, SameLimits
<1>6. QED
  BY <1>4, <1>5 DEF RInv

(* The envelope goes to the owner while its query's seat is still waiting,  *)
(* or was already taken from it.                                           *)
LEMMA HandoverReplies ==
  ASSUME RInv, IInv, AllTypes', NEW q \in Queries, Handover(q)
  PROVE  RInv'
<1>1. task[q] \in Tasks /\ task[q].pc = "handover" /\ q \notin owner
      /\ sent[q] = IF task[q].pc \in Answered THEN 1 ELSE 0
  BY DEF IInv, Types, RInv, Places, Handover, At, Owed, Asked
<1>2. /\ \A p \in Queries \ {q} : task'[p] = task[p] /\ sent'[p] = sent[p]
      /\ task'[q] = [task[q] EXCEPT !.pc = "waiting"]
      /\ sent' = sent /\ UNCHANGED <<ask, seats, closed, running>>
      /\ owner' = owner \cup {q}
  BY DEF Handover, Go, IInv, Types
<1>3. /\ task'[q].pc = "waiting"
      /\ task'[q].rx = task[q].rx /\ task'[q].of = task[q].of
  BY <1>1, <1>2 DEF Tasks
<1>4. /\ \A p \in Queries : Id(p)' = Id(p) /\ SeatedOrNot(p)' = SeatedOrNot(p)
      /\ \A p \in Queries : task'[p].rx = task[p].rx /\ task'[p].of = task[p].of
      /\ \A i : GivenUp(i)' = GivenUp(i)
  <2>1. \A p \in Queries : task'[p].rx = task[p].rx /\ task'[p].of = task[p].of
    BY <1>2, <1>3
  <2>2. \A p \in Queries : Id(p)' = Id(p)
    BY <1>2, AskFixed
  <2>3. \A i : GivenUp(i)' = GivenUp(i)
    BY <2>1, <2>2 DEF GivenUp
  <2>4. QED
    BY <1>2, <2>1, <2>2, <2>3 DEF SeatedOrNot
<1>5. Places'
  <2>1. \A p \in Queries : task[p].pc \notin {"new", "merged"} =>
                            task'[p].pc \notin {"new", "merged"}
    BY <1>2, <1>3
  <2>2. sent'[q] = IF task'[q].pc \in Answered THEN 1 ELSE 0
    BY <1>1, <1>2, <1>3 DEF Answered
  <2>3. QED
    BY <1>2, <1>3, <2>1, <2>2 DEF RInv, Places
<1>6. SeatsOwned'
  BY <1>2, <1>3, <1>4 DEF RInv, SeatsOwned
<1>7. Owed'
  BY <1>1, <1>2, <1>3, <1>4 DEF RInv, Owed, Asked
<1>8. Outcomes'
  <2>1. \A p \in Queries : task[p].of \in Queries \cup {Nobody} /\ task[p].of # q
    <3>1. \A p \in Queries : task[p].of \in Queries \cup {Nobody}
      BY DEF RInv, AllTypes, Types, Tasks
    <3>2. \A p \in Queries : task[p].of = q => task[q].pc \in Asked
      BY NobodyAsks DEF RInv, Outcomes
    <3>3. QED
      BY <1>1, <3>1, <3>2 DEF Asked
  <2>2. QED
    BY <1>2, <1>4, <2>1, AskFixed DEF RInv, Outcomes
<1>9. Limits'
  BY <1>1, <1>2, <1>3, SameLimits
<1>10. QED
  BY <1>5, <1>6, <1>7, <1>8, <1>9 DEF RInv

(* Who was given up, when no task is told anything. *)
LEMMA SameGivenUp ==
  ASSUME UNCHANGED ask, \A p \in Queries : task'[p].rx = task[p].rx
  PROVE  \A e : GivenUp(Id(e))' = GivenUp(Id(e))
<1>1. \A i : GivenUp(i)' = GivenUp(i)
  BY AskFixed DEF GivenUp
<1>2. QED
  BY <1>1, AskFixed

(* Envelopes and outcomes when tasks move on but are told nothing. *)
LEMMA NothingTold ==
  ASSUME RInv, AllTypes', UNCHANGED <<ask, closed, owner>>,
         \A p \in Queries :
           /\ task'[p].rx = task[p].rx /\ task'[p].of = task[p].of
           /\ task[p].pc \in Asked => task'[p].pc \in Asked
           /\ task[p].pc = "waiting" => task'[p].pc = "waiting" \/ task[p].rx # "open",
         \A e \in Queries : e \in owner \/ task'[e].pc = "handover" => SeatedOrNot(e)'
  PROVE  Owed' /\ Outcomes'
<1>1. /\ \A p \in Queries : Id(p)' = Id(p)
      /\ \A i : GivenUp(i)' = GivenUp(i)
  BY AskFixed DEF GivenUp
<1>2. Owed'
  BY <1>1 DEF RInv, Owed
<1>3. Outcomes'
  <2>1. \A p \in Queries : task[p].of \in Queries \cup {Nobody}
    BY DEF RInv, AllTypes, Types, Tasks
  <2>2. QED
    BY <1>1, <2>1 DEF RInv, Outcomes
<1>4. QED
  BY <1>2, <1>3

(* A query opens a seat where nobody waits. *)
LEMMA OpenReplies ==
  ASSUME RInv, IInv, AllTypes', NEW q \in Queries, Open(q)
  PROVE  RInv'
<1> DEFINE pc == IF IsLocal(q) THEN "admit" ELSE "handover"
<1>1. /\ task[q] \in Tasks /\ task[q].pc = "new" /\ task[q].rx = "open" /\ Id(q) \in Ids
      /\ sent[q] = 0 /\ q \notin owner /\ seats[Id(q)] \in Seat
  BY DEF IInv, Types, Id, RInv, Places, Open, At, Owed, Asked, Answered
<1>2. ~closed /\ seats[Id(q)].state \in {"none", "void"}
  <2>1. seats[Id(q)].state \in States /\ Occupancy(q) = "Free"
    BY <1>1 DEF Seat, Open
  <2>2. QED
    BY <2>1 DEF Occupancy, States
<1>3. /\ \A p \in Queries \ {q} : task'[p] = task[p] /\ sent'[p] = sent[p]
      /\ task'[q] = [task[q] EXCEPT !.pc = pc]
      /\ \A i \in Ids \ {Id(q)} : seats'[i] = seats[i]
      /\ seats'[Id(q)] = [state |-> "awaiting", q |-> q]
      /\ UNCHANGED <<ask, closed, owner, sent, running>>
  BY <1>1 DEF Open, Go, IInv, Types
<1>4. /\ task'[q].pc = pc
      /\ task'[q].rx = task[q].rx /\ task'[q].of = task[q].of
      /\ \A p \in Queries : Id(p)' = Id(p) /\ Id(p) \in Ids
  BY <1>1, <1>3, AskFixed DEF Tasks, IInv, Types, Id
<1>5. Places'
  <2>1. \A p \in Queries : task[p].pc \notin {"new", "merged"} =>
                            task'[p].pc \notin {"new", "merged"}
    BY <1>1, <1>3
  <2>2. sent'[q] = IF task'[q].pc \in Answered THEN 1 ELSE 0
    BY <1>1, <1>3, <1>4 DEF Answered
  <2>3. QED
    BY <1>3, <1>4, <2>1, <2>2 DEF RInv, Places
<1>6. SeatsOwned'
  <2> SUFFICES ASSUME NEW i \in Ids
               PROVE  /\ ~closed
                      /\ seats'[i].state # "none" =>
                           /\ seats'[i].q \in Queries /\ Id(seats'[i].q) = i
                           /\ task'[seats'[i].q].pc \notin {"new", "merged"}
                      /\ seats'[i].state = "awaiting" => task'[seats'[i].q].rx = "open"
    BY <1>3, <1>4 DEF SeatsOwned
  <2>1. CASE i = Id(q)
    <3>1. seats'[i].state = "awaiting" /\ seats'[i].q = q
      BY <2>1, <1>3
    <3>2. task'[q].pc \notin {"new", "merged"} /\ task'[q].rx = "open"
      BY <1>1, <1>4
    <3>3. QED
      BY <2>1, <3>1, <3>2, <1>2
  <2>2. CASE i # Id(q)
    BY <2>2, <1>1, <1>2, <1>3 DEF RInv, SeatsOwned
  <2>3. QED
    BY <2>1, <2>2
<1>7. Owed' /\ Outcomes'
  <2>1. ASSUME NEW e \in Queries, e \in owner \/ task'[e].pc = "handover"
        PROVE  SeatedOrNot(e)'
    <3>1. CASE e = q
      BY <3>1, <1>3, <1>4 DEF SeatedOrNot
    <3>2. CASE e # q
      <4>1. SeatedOrNot(e)
        BY <2>1, <3>2, <1>3 DEF RInv, Owed
      <4>2. GivenUp(Id(e)) => GivenUp(Id(e))'
        BY <1>3, <1>4, SameGivenUp
      <4>3. QED
        BY <4>1, <4>2, <1>2, <1>3, <1>4 DEF SeatedOrNot
    <3>3. QED
      BY <3>1, <3>2
  <2>2. QED
    BY <2>1, <1>1, <1>3, <1>4, NothingTold DEF Asked
<1>8. Limits'
  <2>1. SlotHolders' = SlotHolders
    BY <1>1, <1>3, <1>4 DEF SlotHolders
  <2>2. Retained(seats)' = Retained(seats)
    BY <1>1, <1>2, <1>3 DEF Retained
  <2>3. QED
    BY <1>3, <2>1, <2>2 DEF RInv, Limits
<1>9. QED
  BY <1>5, <1>6, <1>7, <1>8 DEF RInv

(* Fewer ids are retained: the bound still holds. *)
LEMMA FewerRetained ==
  ASSUME RInv, AllTypes', UNCHANGED running, SlotHolders' = SlotHolders,
         Retained(seats)' \subseteq Retained(seats)
  PROVE  Limits'
<1>1. Cardinality(Retained(seats)') <= Cardinality(Retained(seats))
  BY Counts, FS_Subset DEF RInv
<1>2. Cardinality(Retained(seats)') \in Nat
  BY Counts, FS_Subset, FS_CardinalityType DEF RInv
<1>3. QED
  BY <1>1, <1>2, Counts, LimitsAssumption DEF RInv, Limits

(* A query that gives its seat back was answered, and waits no longer. *)
LEMMA ReleaseReplies ==
  ASSUME RInv, IInv, AllTypes', NEW q \in Queries, Release(q)
  PROVE  RInv'
<1>1. /\ task[q] \in Tasks /\ task[q].pc = "release" /\ Id(q) \in Ids /\ sent[q] = 1
      /\ q \in owner => task[q].rx # "open"
  BY DEF IInv, Types, Id, RInv, Places, Release, At, Owed, Answered
<1>2. /\ \A p \in Queries \ {q} : task'[p] = task[p] /\ sent'[p] = sent[p]
      /\ task'[q] = [task[q] EXCEPT !.pc = "done"]
      /\ \A i \in Ids : seats'[i] = IF i = Id(q) /\ Holds(q) THEN NoSeat ELSE seats[i]
      /\ UNCHANGED <<ask, closed, owner, sent, running>>
  BY DEF Release, Go, LetGo, IInv, Types
<1>3. /\ task'[q].pc = "done"
      /\ task'[q].rx = task[q].rx /\ task'[q].of = task[q].of
      /\ \A p \in Queries : Id(p)' = Id(p) /\ Id(p) \in Ids
  BY <1>1, <1>2, AskFixed DEF Tasks, IInv, Types, Id
<1>4. \A p \in Queries : task[p].pc \notin {"new", "merged"} =>
                          task'[p].pc \notin {"new", "merged"}
  BY <1>1, <1>2, <1>3
<1>5. Places'
  <2> SUFFICES ASSUME NEW p \in Queries
               PROVE  /\ sent'[p] = IF task'[p].pc \in Answered THEN 1 ELSE 0
                      /\ task'[p].pc = "new" => task'[p].rx = "open"
                      /\ task'[p].pc = "merged" =>
                           /\ task'[p].host \in Queries
                           /\ task'[task'[p].host].pc \notin {"new", "merged"}
    BY DEF Places
  <2>1. CASE p = q
    BY <1>1, <1>2, <1>3, <2>1 DEF Answered
  <2>2. CASE p # q
    <3>1. /\ task'[p] = task[p] /\ sent'[p] = sent[p]
      BY <1>2, <2>2
    <3>2. /\ sent[p] = IF task[p].pc \in Answered THEN 1 ELSE 0
          /\ task[p].pc = "new" => task[p].rx = "open"
          /\ task[p].pc = "merged" =>
               /\ task[p].host \in Queries
               /\ task[task[p].host].pc \notin {"new", "merged"}
      BY DEF RInv, Places
    <3>3. QED
      BY <1>4, <3>1, <3>2
  <2>3. QED
    BY <2>1, <2>2
<1>6. SeatsOwned'
  <2> SUFFICES ASSUME NEW i \in Ids
               PROVE  /\ closed => seats'[i] = NoSeat
                      /\ seats'[i].state # "none" =>
                           /\ seats'[i].q \in Queries /\ Id(seats'[i].q) = i
                           /\ task'[seats'[i].q].pc \notin {"new", "merged"}
                      /\ seats'[i].state = "awaiting" => task'[seats'[i].q].rx = "open"
    BY <1>2, <1>3 DEF SeatsOwned
  <2>1. CASE seats'[i] = NoSeat
    BY <2>1, EmptySeat
  <2>2. CASE seats'[i] = seats[i]
    <3>1. \A p \in Queries : task'[p].rx = task[p].rx
      BY <1>2, <1>3
    <3>2. QED
      BY <2>2, <3>1, <1>4, EmptySeat DEF RInv, SeatsOwned
  <2>3. QED
    BY <2>1, <2>2, <1>2
<1>7. Owed' /\ Outcomes'
  <2>1. ASSUME NEW e \in Queries, e \in owner \/ task'[e].pc = "handover"
        PROVE  SeatedOrNot(e)'
    <3>1. SeatedOrNot(e)
      BY <2>1, <1>2, <1>3 DEF RInv, Owed
    <3>2. GivenUp(Id(e)) => GivenUp(Id(e))'
      BY <1>2, <1>3, SameGivenUp
    <3>3. CASE seats[Id(e)].state = "awaiting" /\ seats[Id(e)].q = e
      <4>1. task[e].rx = "open"
        BY <3>3, <1>3 DEF RInv, SeatsOwned
      <4>2. e # q
        BY <4>1, <2>1, <1>1, <1>3
      <4>3. seats'[Id(e)] = seats[Id(e)]
        BY <3>3, <4>2, <1>2, <1>3 DEF Holds
      <4>4. QED
        BY <3>3, <4>3, <1>2, <1>3 DEF SeatedOrNot
    <3>4. QED
      BY <3>1, <3>2, <3>3, <1>2, <1>3 DEF SeatedOrNot
  <2>2. QED
    BY <2>1, <1>1, <1>2, <1>3, NothingTold DEF Asked
<1>8. Limits'
  <2>1. SlotHolders' = SlotHolders
    BY <1>1, <1>2, <1>3 DEF SlotHolders
  <2>2. Retained(seats)' \subseteq Retained(seats)
    BY <1>2, EmptySeat DEF Retained
  <2>3. QED
    BY <1>2, <2>1, <2>2, FewerRetained
<1>9. QED
  BY <1>5, <1>6, <1>7, <1>8 DEF RInv

(* Evicting what is over the limit brings the retained ids back to it. *)
LEMMA EvictionSuffices ==
  ASSUME NEW s, NEW out, Evicts(s, out)
  PROVE  Cardinality(Retained(s) \ out) <= MaxRetained
<1> DEFINE R == Retained(s)
<1>1. R \in SUBSET Ids /\ out \in SUBSET R
  BY DEF Retained, Evicts
<1>2. IsFiniteSet(R) /\ IsFiniteSet(out) /\ IsFiniteSet(R \ out)
  BY <1>1, FS_Subset, QueriesAssumption
<1>3. Cardinality(R \ out) = Cardinality(R) - Cardinality(R \cap out)
  BY <1>2, FS_Difference
<1>4. R \cap out = out /\ (out = {} => R \ out = R)
  BY <1>1
<1>5. Cardinality(R) \in Nat /\ Cardinality(out) \in Nat
  BY <1>2, FS_CardinalityType
<1>6. IF Cardinality(R) <= MaxRetained THEN out = {}
      ELSE Cardinality(out) = Cardinality(R) - MaxRetained
  BY DEF Evicts
<1> HIDE DEF R
<1>7. CASE Cardinality(R) <= MaxRetained
  BY <1>4, <1>6, <1>7 DEF R
<1>8. CASE ~(Cardinality(R) <= MaxRetained)
  <2>1. Cardinality(R \ out) = Cardinality(R) - (Cardinality(R) - MaxRetained)
    BY <1>3, <1>4, <1>6, <1>8
  <2>2. QED
    BY <2>1, <1>5, LimitsAssumption DEF R
<1>9. QED
  BY <1>7, <1>8

(* A command that is over gives its slot back; no other query's seat is     *)
(* taken but retained ones.                                                *)
LEMMA SettleReplies ==
  ASSUME RInv, IInv, AllTypes', NEW q \in Queries, SettleLocal(q)
  PROVE  RInv'
<1> DEFINE retained == [seats EXCEPT ![Id(q)].state = "retained"]
<1>1. /\ task[q] \in Tasks /\ task[q].pc = "settle" /\ Id(q) \in Ids /\ sent[q] = 1
      /\ q \notin owner
  BY DEF IInv, Types, Id, RInv, Places, SettleLocal, At, Owed, Answered, Asked
<1>2. /\ \A p \in Queries \ {q} : task'[p] = task[p] /\ sent'[p] = sent[p]
      /\ task'[q] = [task[q] EXCEPT !.pc = "done"]
      /\ running' = running - 1
      /\ UNCHANGED <<ask, closed, owner, sent>>
  BY DEF SettleLocal, Go, IInv, Types
<1>3. /\ task'[q].pc = "done"
      /\ task'[q].rx = task[q].rx /\ task'[q].of = task[q].of
      /\ \A p \in Queries : Id(p)' = Id(p) /\ Id(p) \in Ids
  BY <1>1, <1>2, AskFixed DEF Tasks, IInv, Types, Id
<1>4. /\ \A p \in Queries : task'[p].rx = task[p].rx /\ task'[p].of = task[p].of
      /\ \A p \in Queries : task[p].pc \notin {"new", "merged"} =>
                              task'[p].pc \notin {"new", "merged"}
  BY <1>1, <1>2, <1>3
<1>5. /\ \A i \in Ids :
           \/ seats'[i] = NoSeat /\ (seats[i].state = "retained" \/ seats[i].q = q)
           \/ seats'[i] = seats[i]
           \/ i = Id(q) /\ seats'[i].state = "retained" /\ seats'[i].q = q /\ seats[i].q = q
      /\ Cardinality(Retained(seats)') <= MaxRetained
  <2>1. CASE Holds(q) /\ Retains(q)
    <3>1. PICK out \in SUBSET Ids :
            Evicts(retained, out) /\ seats' = LetGo(retained, out)
      BY <2>1 DEF SettleLocal
    <3>2. /\ \A i \in Ids \ {Id(q)} : retained[i] = seats[i]
          /\ retained[Id(q)].state = "retained" /\ retained[Id(q)].q = seats[Id(q)].q
      BY <1>1 DEF IInv, Types, Seat, States
    <3>3. \A i \in Ids : /\ seats'[i] = IF i \in out THEN NoSeat ELSE retained[i]
                         /\ i \in out => retained[i].state = "retained"
      BY <3>1 DEF LetGo, Evicts, Retained
    <3>4. Retained(seats)' = Retained(retained) \ out
      BY <3>3, EmptySeat DEF Retained
    <3>5. Cardinality(Retained(seats)') <= MaxRetained
      BY <3>1, <3>4, EvictionSuffices
    <3>6. QED
      BY <2>1, <3>2, <3>3, <3>5 DEF Holds
  <2>2. CASE Holds(q) /\ ~Retains(q)
    <3>1. \A i \in Ids : seats'[i] = IF i = Id(q) THEN NoSeat ELSE seats[i]
      BY <2>2 DEF SettleLocal, LetGo
    <3>2. Retained(seats)' \subseteq Retained(seats)
      BY <3>1, EmptySeat DEF Retained
    <3>3. Cardinality(Retained(seats)') <= Cardinality(Retained(seats))
          /\ Cardinality(Retained(seats)') \in Nat
      BY <3>2, Counts, FS_Subset, FS_CardinalityType DEF RInv
    <3>4. QED
      BY <2>2, <3>1, <3>3, Counts, LimitsAssumption DEF RInv, Limits, Holds
  <2>3. CASE ~Holds(q)
    <3>1. seats' = seats
      BY <2>3 DEF SettleLocal
    <3>2. QED
      BY <3>1 DEF RInv, Limits, Retained
  <2>4. QED
    BY <2>1, <2>2, <2>3
<1>6. Places'
  BY <1>1, <1>2, <1>3, <1>4 DEF RInv, Places, Answered
<1>7. SeatsOwned'
  <2> SUFFICES ASSUME NEW i \in Ids
               PROVE  /\ closed => seats'[i] = NoSeat
                      /\ seats'[i].state # "none" =>
                           /\ seats'[i].q \in Queries /\ Id(seats'[i].q) = i
                           /\ task'[seats'[i].q].pc \notin {"new", "merged"}
                      /\ seats'[i].state = "awaiting" => task'[seats'[i].q].rx = "open"
    BY <1>2, <1>3 DEF SeatsOwned
  <2>1. CASE seats'[i] = NoSeat
    BY <2>1, EmptySeat
  <2>2. CASE seats'[i] = seats[i]
    BY <2>2, <1>4, EmptySeat DEF RInv, SeatsOwned
  <2>3. CASE i = Id(q) /\ seats'[i].state = "retained" /\ seats'[i].q = q /\ seats[i].q = q
    <3>1. ~closed
      BY <2>3, EmptySeat, NobodyAsks DEF RInv, SeatsOwned
    <3>2. QED
      BY <2>3, <3>1, <1>3
  <2>4. QED
    BY <2>1, <2>2, <2>3, <1>5
<1>8. Owed' /\ Outcomes'
  <2>1. ASSUME NEW e \in Queries, e \in owner \/ task'[e].pc = "handover"
        PROVE  SeatedOrNot(e)'
    <3>1. SeatedOrNot(e) /\ e # q
      BY <2>1, <1>1, <1>2, <1>3 DEF RInv, Owed
    <3>2. GivenUp(Id(e)) => GivenUp(Id(e))'
      BY <1>2, <1>4, SameGivenUp
    <3>3. CASE seats[Id(e)].state = "awaiting" /\ seats[Id(e)].q = e
      <4>1. seats'[Id(e)] = seats[Id(e)]
        BY <3>1, <3>3, <1>3, <1>5
      <4>2. QED
        BY <3>3, <4>1, <1>2, <1>3 DEF SeatedOrNot
    <3>4. QED
      BY <3>1, <3>2, <3>3, <1>2, <1>3 DEF SeatedOrNot
  <2>2. QED
    BY <2>1, <1>1, <1>2, <1>3, <1>4, NothingTold DEF Asked
<1>9. Limits'
  <2>1. SlotHolders' = SlotHolders \ {q} /\ q \in SlotHolders
    BY <1>1, <1>2, <1>3 DEF SlotHolders
  <2>2. Cardinality(SlotHolders') = Cardinality(SlotHolders) - 1
    BY <2>1, FS_RemoveElement, Counts DEF RInv
  <2>3. QED
    BY <1>2, <1>5, <2>2, Counts, LimitsAssumption DEF RInv, Limits
<1>10. QED
  BY <1>6, <1>7, <1>8, <1>9 DEF RInv

(* What the task of each seat in S is told, and nobody else. *)
LEMMA SettledTells ==
  ASSUME RInv, NEW S \in SUBSET Ids, NEW r, task' = Settled(S, r), UNCHANGED ask
  PROVE  /\ \A p \in Queries : /\ task'[p].pc = task[p].pc /\ task'[p].of = task[p].of
                               /\ task'[p].host = task[p].host
                               /\ task'[p].rx \in {r, task[p].rx}
                               /\ task'[p].rx # task[p].rx => task[p].rx = "open"
         /\ \A i \in S : seats[i].state = "awaiting" => task'[seats[i].q].rx = r
         /\ \A p \in Queries : ~(Id(p) \in S /\ seats[Id(p)].state = "awaiting"
                                 /\ seats[Id(p)].q = p) => task'[p] = task[p]
<1>1. ASSUME NEW p \in Queries
      PROVE  /\ task'[p].pc = task[p].pc /\ task'[p].of = task[p].of
             /\ task'[p].host = task[p].host
             /\ (\E i \in S : seats[i].state = "awaiting" /\ seats[i].q = p) => task'[p].rx = r
             /\ (~\E i \in S : seats[i].state = "awaiting" /\ seats[i].q = p) => task'[p] = task[p]
  <2>1. task[p] \in Tasks
    BY DEF RInv, AllTypes, Types
  <2>2. task'[p] = IF \E i \in S : seats[i].state = "awaiting" /\ seats[i].q = p
                     THEN [task[p] EXCEPT !.rx = r] ELSE task[p]
    BY DEF Settled
  <2>3. QED
    BY <2>1, <2>2 DEF Tasks
<1>2. \A i \in S : seats[i].state = "awaiting" =>
        seats[i].q \in Queries /\ Id(seats[i].q) = i /\ task[seats[i].q].rx = "open"
  BY DEF RInv, SeatsOwned
<1>3. QED
  BY <1>1, <1>2

(* Seats of S stop waiting and their tasks are told so: by the deadline, by *)
(* the disconnect of the caller or by the shutdown.                        *)
LEMMA TellStep ==
  ASSUME RInv, AllTypes', UNCHANGED <<ask, owner, sent, running>>,
         NEW S \in SUBSET Ids, NEW r \in {"timeout", "drained", "dropped"},
         task' = Settled(S, r),
         closed => closed', closed' => \A i \in Ids : seats'[i] = NoSeat,
         r = "drained" => closed',
         \A i \in Ids \ S : seats'[i] = seats[i] \/ (seats'[i] = NoSeat /\ closed'),
         \A i \in S : \/ seats'[i] = NoSeat
                      \/ /\ seats[i].state = "awaiting" /\ seats'[i].state = "void"
                         /\ seats'[i].q = seats[i].q
  PROVE  RInv'
<1>1. /\ \A p \in Queries : /\ task'[p].pc = task[p].pc /\ task'[p].of = task[p].of
                            /\ task'[p].host = task[p].host
                            /\ task'[p].rx \in {r, task[p].rx}
                            /\ task'[p].rx # task[p].rx => task[p].rx = "open"
      /\ \A i \in S : seats[i].state = "awaiting" => task'[seats[i].q].rx = r
      /\ \A p \in Queries : ~(Id(p) \in S /\ seats[Id(p)].state = "awaiting"
                              /\ seats[Id(p)].q = p) => task'[p] = task[p]
  BY SettledTells
<1>2. \A p \in Queries : Id(p)' = Id(p) /\ Id(p) \in Ids
  BY AskFixed DEF RInv, AllTypes, Types, Id
<1>3. Places'
  <2>1. ASSUME NEW p \in Queries, task[p].pc = "new"
        PROVE  task'[p] = task[p]
    BY <2>1, <1>1, <1>2 DEF RInv, SeatsOwned
  <2>2. QED
    BY <1>1, <2>1 DEF RInv, Places
<1>4. SeatsOwned'
  <2> SUFFICES ASSUME NEW i \in Ids
               PROVE  /\ closed' => seats'[i] = NoSeat
                      /\ seats'[i].state # "none" =>
                           /\ seats'[i].q \in Queries /\ Id(seats'[i].q) = i
                           /\ task'[seats'[i].q].pc \notin {"new", "merged"}
                      /\ seats'[i].state = "awaiting" => task'[seats'[i].q].rx = "open"
    BY <1>2 DEF SeatsOwned
  <2>1. CASE seats'[i] = NoSeat
    BY <2>1, EmptySeat
  <2>2. CASE i \in S /\ seats'[i] # NoSeat
    <3>1. ~closed' /\ seats[i].state = "awaiting" /\ seats'[i].state = "void"
          /\ seats'[i].q = seats[i].q
      BY <2>2
    <3>2. QED
      BY <3>1, <1>1 DEF RInv, SeatsOwned
  <2>3. CASE i \notin S /\ seats'[i] # NoSeat
    <3>1. ~closed' /\ seats'[i] = seats[i]
      BY <2>3
    <3>2. seats[i].state # "none" =>
            /\ seats[i].q \in Queries /\ Id(seats[i].q) = i
            /\ task[seats[i].q].pc \notin {"new", "merged"}
      BY DEF RInv, SeatsOwned
    <3>3. seats[i].state = "awaiting" => task[seats[i].q].rx = "open"
      BY DEF RInv, SeatsOwned
    <3>4. seats[i].state # "none" => task'[seats[i].q] = task[seats[i].q]
      BY <2>3, <3>2, <1>1
    <3>5. seats[i].state = "awaiting" => seats[i].state # "none"
      OBVIOUS
    <3>6. QED
      BY <3>1, <3>2, <3>3, <3>4, <3>5
  <2>4. QED
    BY <2>1, <2>2, <2>3
<1>5. \A e \in Queries : GivenUp(Id(e)) => GivenUp(Id(e))'
  <2> SUFFICES ASSUME NEW e \in Queries, NEW p \in Queries, Id(p) = Id(e),
                      task[p].rx \in {"timeout", "dropped"}
               PROVE  task'[p].rx \in {"timeout", "dropped"}
    BY <1>2 DEF GivenUp
  <2>1. QED
    BY <1>1
<1>6. Owed'
  <2>1. ASSUME NEW e \in Queries, SeatedOrNot(e) PROVE SeatedOrNot(e)'
    <3>1. CASE closed \/ closed' \/ GivenUp(Id(e))
      BY <3>1, <1>5 DEF SeatedOrNot
    <3>2. CASE ~closed' /\ seats[Id(e)].state = "awaiting" /\ seats[Id(e)].q = e
      <4>1. CASE Id(e) \in S
        <5>1. task'[e].rx \in {"timeout", "dropped"}
          BY <3>2, <4>1, <1>1
        <5>2. GivenUp(Id(e))'
          BY <5>1, <1>2 DEF GivenUp
        <5>3. QED
          BY <5>2 DEF SeatedOrNot
      <4>2. CASE Id(e) \notin S
        BY <3>2, <4>2, <1>2 DEF SeatedOrNot
      <4>3. QED
        BY <4>1, <4>2
    <3>3. QED
      BY <2>1, <3>1, <3>2 DEF SeatedOrNot
  <2>2. QED
    BY <2>1, <1>1 DEF RInv, Owed
<1>7. Outcomes'
  <2>1. \A p \in Queries : task[p].of \in Queries \cup {Nobody}
    BY DEF RInv, AllTypes, Types, Tasks
  <2>2. ASSUME NEW q \in Queries, task[q].of # Nobody, task[q].of # q
        PROVE  Id(task[q].of) = Id(q) /\ GivenUp(Id(q))'
    BY <2>2, <1>5 DEF RInv, Outcomes
  <2>3. QED
    BY <1>1, <1>2, <2>1, <2>2 DEF RInv, Outcomes
<1>8. Limits'
  <2>1. SlotHolders' = SlotHolders
    BY <1>1 DEF SlotHolders
  <2>2. Retained(seats)' \subseteq Retained(seats)
    BY EmptySeat DEF Retained
  <2>3. QED
    BY <2>1, <2>2, FewerRetained
<1>9. QED
  BY <1>3, <1>4, <1>6, <1>7, <1>8 DEF RInv

(* The deadline settles seats that wait and lets retained ids go. *)
LEMMA SweepReplies ==
  ASSUME RInv, AllTypes', NEW S \in SUBSET Ids, Sweep(S)
  PROVE  RInv'
<1>1. /\ task' = Settled(S, "timeout")
      /\ UNCHANGED <<ask, owner, sent, running>> /\ closed' = closed
      /\ \A i \in Ids \ S : seats'[i] = seats[i]
  BY DEF Sweep
<1>2. ASSUME NEW i \in S
      PROVE  \/ seats'[i] = NoSeat
             \/ /\ seats[i].state = "awaiting" /\ seats'[i].state = "void"
                /\ seats'[i].q = seats[i].q
  <2>1. seats[i] \in Seat
    BY DEF RInv, AllTypes, Types
  <2>2. \/ seats'[i] = NoSeat
        \/ seats[i].state = "awaiting" /\ seats'[i] = [seats[i] EXCEPT !.state = "void"]
    BY DEF Sweep
  <2>3. QED
    BY <2>1, <2>2 DEF Seat
<1>3. ~closed
  BY EmptySeat DEF RInv, SeatsOwned, Sweep
<1>4. ~closed'
  BY <1>1, <1>3
<1>5. /\ closed => closed'
      /\ closed' => \A i \in Ids : seats'[i] = NoSeat
      /\ \A i \in Ids \ S : seats'[i] = seats[i] \/ (seats'[i] = NoSeat /\ closed')
      /\ \A i \in S : \/ seats'[i] = NoSeat
                      \/ /\ seats[i].state = "awaiting" /\ seats'[i].state = "void"
                         /\ seats'[i].q = seats[i].q
  BY <1>1, <1>2, <1>3, <1>4
<1>6. "timeout" # "drained"
  OBVIOUS
<1>7. QED
  BY <1>1, <1>5, <1>6, TellStep

(* The shutdown settles every seat at once. *)
LEMMA DrainReplies ==
  ASSUME RInv, AllTypes', Drain
  PROVE  RInv'
<1>1. /\ task' = Settled(Ids, "drained") /\ closed'
      /\ UNCHANGED <<ask, owner, sent, running>>
      /\ \A i \in Ids : seats'[i] = NoSeat
  BY DEF Drain, LetGo
<1>2. QED
  BY <1>1, TellStep

(* The end of a connection settles its seats, those of the daemon's own     *)
(* commands apart.                                                         *)
LEMMA DropOriginReplies ==
  ASSUME RInv, AllTypes', NEW c \in Conns, DropOrigin(c)
  PROVE  RInv'
<1> DEFINE mine == {i \in Ids : /\ seats[i].state # "none"
                                /\ Origin(seats[i].q) = c /\ ~IsLocal(seats[i].q)}
<1>1. /\ task' = Settled(mine, "dropped")
      /\ UNCHANGED <<ask, owner, sent, running>> /\ closed' = closed
      /\ \A i \in Ids : seats'[i] = IF i \in mine THEN NoSeat ELSE seats[i]
  BY DEF DropOrigin, LetGo
<1>2. (closed' <=> closed) /\ (closed => \A i \in Ids : seats'[i] = NoSeat)
  <2>1. closed' <=> closed
    BY DEF DropOrigin
  <2>2. closed => \A i \in Ids : seats'[i] = NoSeat
    BY <1>1 DEF RInv, SeatsOwned
  <2>3. QED
    BY <2>1, <2>2
<1>3. mine \in SUBSET Ids
  OBVIOUS
<1> HIDE DEF mine
<1>4. /\ \A i \in Ids \ mine : seats'[i] = seats[i] \/ (seats'[i] = NoSeat /\ closed')
      /\ \A i \in mine : seats'[i] = NoSeat
      /\ closed => closed'
      /\ closed' => \A i \in Ids : seats'[i] = NoSeat
  <2>1. /\ \A i \in Ids \ mine : seats'[i] = seats[i]
        /\ \A i \in mine : seats'[i] = NoSeat
    BY <1>1, <1>3
  <2>2. QED
    BY <2>1, <1>2
<1>5. "dropped" # "drained"
  OBVIOUS
<1>6. QED
  BY <1>1, <1>3, <1>4, <1>5, TellStep

(* An outcome goes to the query that waits under its id. *)
LEMMA CompleteReplies ==
  ASSUME RInv, AllTypes', NEW e \in Queries, Complete(e)
  PROVE  RInv'
<1> DEFINE held == seats[Id(e)]
           h == held.q
<1>1. /\ Id(e) \in Ids /\ held \in Seat /\ e \in owner /\ owner' = owner \ {e}
      /\ UNCHANGED <<ask, closed, sent, running>>
      /\ \A p \in Queries : Id(p)' = Id(p) /\ Id(p) \in Ids
  BY AskFixed DEF RInv, AllTypes, Types, Id, Complete
<1>2. task[e].pc \in Asked /\ SeatedOrNot(e)
  BY <1>1 DEF RInv, Owed
<1>3. CASE held.state = "awaiting" /\ ~IsLocal(h)
  <2>1. h \in Queries /\ Id(h) = Id(e) /\ task[h].rx = "open" /\ ~closed
        /\ task[h].pc \notin {"new", "merged"}
    BY <1>1, <1>3, EmptySeat DEF RInv, SeatsOwned
  <2>2. h = e \/ GivenUp(Id(e))
    BY <1>2, <2>1 DEF SeatedOrNot
  <2>3. /\ seats' = [seats EXCEPT ![Id(e)].state = "fulfilled"]
        /\ task' = [task EXCEPT ![h].rx = "outcome", ![h].of = e]
    BY <1>3 DEF Complete
  <2>4. /\ \A i \in Ids \ {Id(e)} : seats'[i] = seats[i]
        /\ seats'[Id(e)].state = "fulfilled" /\ seats'[Id(e)].q = h
    BY <1>1, <2>3 DEF RInv, AllTypes, Types, Seat
  <2>5. /\ \A p \in Queries \ {h} : task'[p] = task[p]
        /\ task'[h].pc = task[h].pc /\ task'[h].host = task[h].host
        /\ task'[h].rx = "outcome" /\ task'[h].of = e
    <3>1. task[h] \in Tasks
      BY <2>1 DEF RInv, AllTypes, Types
    <3>2. /\ \A p \in Queries \ {h} : task'[p] = task[p]
          /\ task'[h] = [task[h] EXCEPT !.rx = "outcome", !.of = e]
      BY <2>1, <2>3 DEF RInv, AllTypes, Types
    <3>3. QED
      BY <3>1, <3>2 DEF Tasks
  <2>6. \A x \in Queries : task'[x].pc = task[x].pc /\ task'[x].host = task[x].host
    BY <2>5
  <2>7. \A x \in Queries : GivenUp(Id(x)) => GivenUp(Id(x))'
    <3> SUFFICES ASSUME NEW p \in Queries, task[p].rx \in {"timeout", "dropped"}
                 PROVE  task'[p].rx \in {"timeout", "dropped"}
      BY <1>1 DEF GivenUp
    <3>1. p # h
      BY <2>1
    <3>2. QED
      BY <3>1, <2>5
  <2>8. Places'
    BY <1>1, <2>1, <2>5, <2>6 DEF RInv, Places
  <2>9. SeatsOwned'
    <3> SUFFICES ASSUME NEW i \in Ids
                 PROVE  /\ seats'[i].state # "none" =>
                             /\ seats'[i].q \in Queries /\ Id(seats'[i].q) = i
                             /\ task'[seats'[i].q].pc \notin {"new", "merged"}
                        /\ seats'[i].state = "awaiting" => task'[seats'[i].q].rx = "open"
      BY <1>1, <2>1 DEF SeatsOwned
    <3>1. CASE i = Id(e)
      BY <3>1, <2>1, <2>4, <2>6
    <3>2. CASE i # Id(e)
      <4>1. seats'[i] = seats[i]
        BY <3>2, <2>4
      <4>2. seats[i].state # "none" => seats[i].q \in Queries \ {h}
        BY <3>2, <2>1 DEF RInv, SeatsOwned
      <4>3. seats[i].state = "awaiting" => seats[i].state # "none"
        OBVIOUS
      <4>4. QED
        BY <4>1, <4>2, <4>3, <2>5 DEF RInv, SeatsOwned
    <3>3. QED
      BY <3>1, <3>2
  <2>10. Owed'
    <3>1. ASSUME NEW x \in Queries, x \in owner' \/ task[x].pc = "handover"
          PROVE  SeatedOrNot(x)'
      <4>1. SeatedOrNot(x) /\ x # e
        BY <3>1, <1>1, <1>2 DEF RInv, Owed, Asked
      <4>2. CASE Id(x) # Id(e)
        BY <4>1, <4>2, <1>1, <2>1, <2>4, <2>7 DEF SeatedOrNot
      <4>3. CASE Id(x) = Id(e)
        <5>1. GivenUp(Id(x))
          BY <4>1, <4>3, <2>1, <2>2 DEF SeatedOrNot
        <5>2. QED
          BY <5>1, <2>7 DEF SeatedOrNot
      <4>4. QED
        BY <4>2, <4>3
    <3>2. ASSUME NEW x \in Queries, x \in owner'
          PROVE  task'[x].pc \in Asked /\ (task'[x].pc # "waiting" => task'[x].rx # "open")
      <4>1. x \in owner
        BY <3>2, <1>1
      <4>2. task[x].pc \in Asked /\ (task[x].pc # "waiting" => task[x].rx # "open")
        BY <4>1 DEF RInv, Owed
      <4>3. task'[x].rx = task[x].rx \/ task'[x].rx = "outcome"
        BY <2>5
      <4>4. QED
        BY <4>2, <4>3, <2>6
    <3>3. QED
      BY <3>1, <3>2, <2>6 DEF Owed
  <2>11. Outcomes'
    <3>1. \A p \in Queries : /\ task[p].of \in Queries \cup {Nobody} /\ task[p].of # e
                             /\ p # h => task'[p].of = task[p].of
      <4>1. \A p \in Queries : task[p].of \in Queries \cup {Nobody}
        BY DEF RInv, AllTypes, Types, Tasks
      <4>2. \A p \in Queries : task[p].of # e
        BY <1>1, NobodyAsks DEF RInv, Outcomes
      <4>3. QED
        BY <4>1, <4>2, <2>5
    <3>2. ASSUME NEW q \in Queries, q # h, task[q].of # Nobody
          PROVE  /\ task'[q].of \notin owner' /\ task'[task'[q].of].pc \in Asked
                 /\ task'[q].of # q => Id(task'[q].of) = Id(q) /\ GivenUp(Id(q))'
                 /\ \A p \in Queries \ {q} : task'[p].of # task'[q].of
      <4>1. /\ task[q].of \notin owner /\ task[task[q].of].pc \in Asked
            /\ task[q].of # q => Id(task[q].of) = Id(q) /\ GivenUp(Id(q))
            /\ \A p \in Queries \ {q} : task[p].of # task[q].of
        BY <3>2 DEF RInv, Outcomes
      <4>2. task'[q].of = task[q].of /\ task[q].of \in Queries
        BY <3>1, <3>2
      <4>3. \A p \in Queries \ {q} : task'[p].of # task[q].of
        BY <4>1, <3>1, <2>5
      <4>4. QED
        BY <4>1, <4>2, <4>3, <1>1, <2>6, <2>7
    <3>3. /\ task'[h].of = e /\ e \notin owner' /\ task'[e].pc \in Asked
          /\ e # h => Id(e) = Id(h) /\ GivenUp(Id(e))'
          /\ \A p \in Queries \ {h} : task'[p].of # e
      <4>1. task'[h].of = e /\ e \notin owner' /\ task'[e].pc \in Asked
        BY <1>1, <1>2, <2>5, <2>6
      <4>2. e # h => Id(e) = Id(h) /\ GivenUp(Id(e))'
        BY <2>1, <2>2, <2>7
      <4>3. \A p \in Queries \ {h} : task'[p].of # e
        BY <3>1
      <4>4. QED
        BY <4>1, <4>2, <4>3
    <3>4. SUFFICES ASSUME NEW q \in Queries, task'[q].of # Nobody
                   PROVE  /\ task'[q].of \notin owner' /\ task'[task'[q].of].pc \in Asked
                          /\ task'[q].of # q => Id(task'[q].of) = Id(q) /\ GivenUp(Id(q))'
                          /\ \A p \in Queries \ {q} : task'[p].of # task'[q].of
      <4>1. \A q \in Queries : task'[q].of \in Queries \cup {Nobody}
        BY <3>1, <3>3
      <4>2. QED
        BY <4>1, <1>1 DEF Outcomes
    <3>5. CASE q = h
      <4>1. GivenUp(Id(e))' /\ Id(e) = Id(q) => GivenUp(Id(q))'
        BY <1>1 DEF GivenUp
      <4>2. QED
        BY <3>3, <3>5, <4>1
    <3>6. CASE q # h
      BY <3>1, <3>2, <3>4, <3>6
    <3>7. QED
      BY <3>5, <3>6
  <2>12. Limits'
    <3>1. SlotHolders' = SlotHolders
      BY <2>6 DEF SlotHolders
    <3>2. Retained(seats)' = Retained(seats)
      BY <1>3, <2>4 DEF Retained
    <3>3. QED
      BY <1>1, <3>1, <3>2 DEF RInv, Limits
  <2>13. QED
    BY <2>8, <2>9, <2>10, <2>11, <2>12 DEF RInv
<1>4. CASE ~(held.state = "awaiting" /\ ~IsLocal(h))
  <2>1. UNCHANGED <<seats, task>>
    BY <1>4 DEF Complete
  <2>2. /\ \A i : GivenUp(i)' = GivenUp(i)
        /\ \A x \in Queries : SeatedOrNot(x)' = SeatedOrNot(x)
    <3>1. \A i : GivenUp(i)' = GivenUp(i)
      BY <1>1, <2>1, AskFixed DEF GivenUp
    <3>2. QED
      BY <3>1, <1>1, <2>1, AskFixed DEF SeatedOrNot
  <2>3. Places' /\ SeatsOwned' /\ Limits'
    <3>1. Places'
      BY <1>1, <2>1 DEF RInv, Places
    <3>2. SeatsOwned'
      BY <1>1, <2>1 DEF RInv, SeatsOwned
    <3>3. Limits'
      BY <1>1, <2>1, SameLimits
    <3>4. QED
      BY <3>1, <3>2, <3>3
  <2>4. Owed'
    BY <1>1, <2>1, <2>2 DEF RInv, Owed
  <2>5. Outcomes'
    BY <1>1, <2>1, <2>2, AskFixed DEF RInv, Outcomes
  <2>6. QED
    BY <2>3, <2>4, <2>5 DEF RInv
<1>5. QED
  BY <1>3, <1>4

(* A step that changes nothing but the roster. *)
LEMMA StillReplies ==
  ASSUME RInv, AllTypes', UNCHANGED <<ask, seats, running, closed, task, owner, sent>>
  PROVE  RInv'
<1>1. /\ \A i : GivenUp(i)' = GivenUp(i)
      /\ \A x : Id(x)' = Id(x)
  BY AskFixed DEF GivenUp
<1>2. \A x : SeatedOrNot(x)' = SeatedOrNot(x)
  BY <1>1 DEF SeatedOrNot
<1>3. Places' /\ SeatsOwned'
  BY <1>1 DEF RInv, Places, SeatsOwned
<1>4. Owed' /\ Outcomes'
  BY <1>1, <1>2 DEF RInv, Owed, Outcomes
<1>5. Limits'
  BY SameLimits
<1>6. QED
  BY <1>3, <1>4, <1>5 DEF RInv
-----------------------------------------------------------------------------
(* Every step keeps the types of all variables. *)
LEMMA NextTypes ==
  ASSUME RInv, Types', [Next]_vars
  PROVE  AllTypes'
<1>1. UNCHANGED ask
  BY DEF Next, vars, Deliver, Open, Coalesce, Refuse, Release, RefuseLocal, AdmitLocal,
     AnswerLocal, AnswerEarly, SettleLocal, HandoverFails, Handover, AnswerRemote, RunJob,
     Complete, Sweep, Detach, DropOrigin, Drain
<1>2. conn' \in [Conns -> {"attached", "detached", "gone"}]
  <2>1. conn' = conn \/ \E c \in Conns, v \in {"detached", "gone"} :
                          conn' = [conn EXCEPT ![c] = v]
    BY DEF Next, vars, Deliver, Open, Coalesce, Refuse, Release, RefuseLocal, AdmitLocal,
       AnswerLocal, AnswerEarly, SettleLocal, HandoverFails, Handover, AnswerRemote, RunJob,
       Complete, Sweep, Detach, DropOrigin, Drain
  <2>2. QED
    BY <2>1 DEF RInv, AllTypes
<1>3. owner' \subseteq Queries
  <2>1. owner' = owner \/ \E q \in Queries : owner' \in {owner \cup {q}, owner \ {q}}
    BY DEF Next, vars, Deliver, Open, Coalesce, Refuse, Release, RefuseLocal, AdmitLocal,
       AnswerLocal, AnswerEarly, SettleLocal, HandoverFails, Handover, AnswerRemote, RunJob,
       Complete, Sweep, Detach, DropOrigin, Drain
  <2>2. QED
    BY <2>1 DEF RInv, AllTypes
<1>4. sent' \in [Queries -> Nat]
  <2>1. sent' = sent \/ \E q \in Queries : sent' = [sent EXCEPT ![q] = @ + 1]
    BY DEF Next, vars, Deliver, Open, Coalesce, Refuse, Release, RefuseLocal, AdmitLocal,
       AnswerLocal, AnswerEarly, SettleLocal, HandoverFails, Handover, AnswerRemote, RunJob,
       Complete, Sweep, Detach, DropOrigin, Drain, SendReply
  <2>2. QED
    BY <2>1 DEF RInv, AllTypes
<1>5. QED
  BY <1>1, <1>2, <1>3, <1>4 DEF RInv, AllTypes

(* Every step preserves the invariant. *)
LEMMA NextRInv == IInv /\ RInv /\ [Next]_vars => RInv'
<1> SUFFICES ASSUME IInv, RInv, [Next]_vars PROVE RInv'
  OBVIOUS
<1>1. Types'
  BY NextIInv DEF IInv
<1>2. AllTypes'
  BY <1>1, NextTypes
<1>3. CASE \E q \in Queries : Deliver(q)
  BY <1>2, <1>3, OpenReplies, TaskSteps, ReleaseReplies, AdmitTakesSlot, SettleReplies,
     HandoverReplies DEF Deliver
<1>4. CASE \E q \in Queries, o \in {"ok", "died", "refused", "gone"} : RunJob(q, o)
  BY <1>2, <1>4, RunJobReplies
<1>5. CASE \E q \in Queries : Complete(q)
  BY <1>2, <1>5, CompleteReplies
<1>6. CASE \E S \in SUBSET Ids : Sweep(S)
  BY <1>2, <1>6, SweepReplies
<1>7. CASE \E c \in Conns : DropOrigin(c)
  BY <1>2, <1>7, DropOriginReplies
<1>8. CASE Drain
  BY <1>2, <1>8, DrainReplies
<1>9. CASE (\E c \in Conns : Detach(c)) \/ UNCHANGED vars
  <2>1. UNCHANGED <<ask, seats, running, closed, task, owner, sent>>
    BY <1>9 DEF Detach, vars
  <2>2. QED
    BY <1>2, <2>1, StillReplies
<1>10. QED
  BY <1>3, <1>4, <1>5, <1>6, <1>7, <1>8, <1>9 DEF Next

(* The invariant says what is promised. *)
LEMMA RInvGivesReplies == RInv => OneReplyEach
<1> SUFFICES ASSUME RInv PROVE OneReplyEach
  OBVIOUS
<1>1. TypeOK
  BY DEF RInv, AllTypes, Types, Limits, SlotHolders, TypeOK, Seat, States, Tasks
<1>2. ASSUME NEW q \in Queries
      PROVE  /\ sent[q] <= 1
             /\ At(q, "done") \/ At(q, "release") => sent[q] = 1
             /\ At(q, "merged") => sent[q] = 0 /\ ~At(task[q].host, "merged")
    BY DEF RInv, Places, At, Answered
<1>3. ASSUME NEW q \in Queries
      PROVE  /\ task[q].of \notin {Nobody, q} =>
                  /\ Id(task[q].of) = Id(q)
                  /\ \E p \in Queries : Id(p) = Id(q) /\ task[p].rx \in {"timeout", "dropped"}
             /\ \A p \in Queries \ {q} : task[p].of = task[q].of => task[q].of = Nobody
    BY DEF RInv, Outcomes, GivenUp
<1>4. QED
  BY <1>1, <1>2, <1>3 DEF OneReplyEach

(* For every set of queries, connections and ids and all limits: a query is *)
(* replied to at most once and exactly once when its delivery is over, a   *)
(* merged query rides on one that is not itself merged, an outcome answers *)
(* the query it is for unless one under its id was given up, no two        *)
(* queries share an outcome, and MAX_LOCAL_IN_FLIGHT and                   *)
(* MAX_RETAINED_LOCAL are never exceeded (command_delivery.rs).            *)
THEOREM RepliesAreSingle == Spec => []OneReplyEach
<1>1. Init /\ [][Next]_vars => [](IInv /\ RInv)
  <2>1. Init => IInv /\ RInv
    BY InitIInv, InitRInv
  <2>2. IInv /\ RInv /\ [Next]_vars => IInv' /\ RInv'
    BY NextIInv, NextRInv
  <2>3. QED
    BY <2>1, <2>2, PTL
<1>2. QED
  BY <1>1, RInvGivesReplies, PTL DEF Spec
=============================================================================
