--------------------------- MODULE PeerLinkProofs ---------------------------
(***************************************************************************)
(* For every budget, queue length, set of requests and tags: a peer that   *)
(* cannot be reached or does not stay is dialled at most 1 + M * M times   *)
(* before the machine gives up, and a caller is told that nothing was sent *)
(* only when no byte of its request can have left.                         *)
(***************************************************************************)
EXTENDS PeerLink, SequenceTheorems, FiniteSetTheorems, TLAPS

M == MaxAttempts

Commands == [op : {"request", "close"}, req : Requests \cup {NoSlot}, gen : {"now", "old"}]
Callers == [pc : {"idle", "bound", "queued", "waiting"} \cup Answers, gen : {"now", "old"}]

\* What is left of the budget in each state of the machine.
Budget ==
  /\ retries <= M
  /\ state \in {"dialing", "handshaking"} => flaps < M /\ dials <= 1 + flaps * M + retries
  /\ state = "backoff" => flaps < M /\ dials <= flaps * M + retries
  /\ state = "live" => flaps < M /\ retries = 0 /\ dials <= 1 + (flaps + 1) * M
  /\ dials <= 1 + M * M

IInv == TypeOK /\ Budget

-----------------------------------------------------------------------------
(* The arithmetic of the budget. *)
LEMMA Products ==
  ASSUME NEW f \in Nat, f < M
  PROVE  /\ f * M \in Nat /\ (f + 1) * M \in Nat /\ M * M \in Nat
         /\ (f + 1) * M = f * M + M
         /\ (f + 1) * M <= M * M
<1>1. M \in Nat /\ f + 1 <= M /\ f + 1 \in Nat
  BY LinkAssumption DEF M
<1>2. \A x, y, z \in Nat : x <= y => x * z <= y * z
  OBVIOUS
<1>3. QED
  BY <1>1, <1>2

(* Every caller in R gets its answer. *)
LEMMA SettledType ==
  ASSUME NEW c \in [Requests -> Callers], NEW R, NEW a \in {"queued", "waiting"} \cup Answers
  PROVE  Settled(c, R, a) \in [Requests -> Callers]
BY DEF Settled, Callers

(* Marks age when a link goes live. *)
LEMMA AgedQueue ==
  ASSUME NEW q \in Seq(Commands)
  PROVE  /\ [i \in DOMAIN q |-> [q[i] EXCEPT !.gen = "old"]] \in Seq(Commands)
         /\ Len([i \in DOMAIN q |-> [q[i] EXCEPT !.gen = "old"]]) = Len(q)
<1> DEFINE s == [i \in DOMAIN q |-> [q[i] EXCEPT !.gen = "old"]]
<1>1. DOMAIN q = 1 .. Len(q) /\ Len(q) \in Nat /\ \A i \in 1 .. Len(q) : q[i] \in Commands
  OBVIOUS
<1>2. \A i \in 1 .. Len(q) : s[i] \in Commands
  BY <1>1 DEF Commands
<1>3. s \in Seq(Commands) /\ Len(s) = Len(q)
  BY <1>1, <1>2
<1>4. QED
  BY <1>3

(* What fail_pending leaves behind. *)
LEMMA FailPendingType ==
  ASSUME TypeOK, FailPending
  PROVE  /\ caller' \in [Requests -> Callers]
         /\ waiting' \in [Tags -> Requests \cup {NoSlot}]
         /\ queue' \in Seq(Commands) /\ Len(queue') <= QueueCap /\ replies' = {}
<1>1. caller \in [Requests -> Callers] /\ {"maybeSent", "notSent"} \subseteq Answers
  BY DEF TypeOK, Callers, Answers
<1>2. Settled(caller, Slots(waiting), "maybeSent") \in [Requests -> Callers]
  BY <1>1, SettledType
<1>3. caller' \in [Requests -> Callers]
  BY <1>1, <1>2, SettledType DEF FailPending
<1>4. queue' \in Seq(Commands) /\ Len(queue') <= QueueCap
  <2>1. queue' = <<>>
    BY DEF FailPending
  <2>2. QED
    BY <2>1, LinkAssumption
<1>5. QED
  BY <1>3, <1>4 DEF FailPending

(* Taking from and adding to the queue keep its type. *)
LEMMA QueueType ==
  ASSUME TypeOK
  PROVE  /\ queue \in Seq(Commands) /\ Len(queue) <= QueueCap /\ Len(queue) \in Nat
         /\ \A c \in Commands : Len(queue) < QueueCap =>
              Append(queue, c) \in Seq(Commands) /\ Len(Append(queue, c)) <= QueueCap
         /\ queue # <<>> => Tail(queue) \in Seq(Commands) /\ Len(Tail(queue)) <= QueueCap
                            /\ Head(queue) \in Commands
         /\ <<>> \in Seq(Commands) /\ Len(<<>>) <= QueueCap
<1>1. queue \in Seq(Commands) /\ Len(queue) <= QueueCap /\ QueueCap \in Nat
  BY LinkAssumption DEF TypeOK, Commands
<1> HIDE DEF Commands
<1>2. QED
  BY <1>1

(* Retiring a tag keeps a sequence of tags. *)
LEMMA RetireType ==
  ASSUME NEW s \in Seq(Tags), NEW t \in Tags
  PROVE  Retire(s, t) \in Seq(Tags)
<1> DEFINE all == IF t \in ToSet(s) THEN s ELSE Append(s, t)
<1>1. all \in Seq(Tags)
  OBVIOUS
<1>2. Len(all) > RetiredCap => all # <<>>
  BY <1>1, LinkAssumption
<1>3. Retire(s, t) = IF Len(all) > RetiredCap THEN Tail(all) ELSE all
  BY DEF Retire
<1> HIDE DEF all
<1>4. QED
  BY <1>1, <1>2, <1>3

(* A new peer has dialled once and has its whole budget. *)
LEMMA InitIInv == Init => IInv
<1> SUFFICES ASSUME Init PROVE IInv
  OBVIOUS
<1>1. TypeOK
  <2>1. /\ queue \in Seq(Commands) /\ Len(queue) <= QueueCap
        /\ retired \in Seq(Tags)
    BY LinkAssumption DEF Init
  <2>2. caller \in [Requests -> Callers]
    BY DEF Init, Callers
  <2>3. waiting \in [Tags -> Requests \cup {NoSlot}]
    BY DEF Init
  <2>4. state \in {"dialing", "handshaking"} /\ mode \in {"dial", "accepted"}
    BY DEF Init
  <2>5. QED
    BY <2>1, <2>2, <2>3, <2>4 DEF Init, TypeOK, Callers, Commands
<1>2. Budget
  <2>1. M \in Nat /\ 0 < M
    BY LinkAssumption DEF M
  <2>2. 0 * M = 0 /\ M * M \in Nat
    BY <2>1
  <2>3. QED
    BY <2>1, <2>2 DEF Init, Budget
<1>3. QED
  BY <1>1, <1>2 DEF IInv

(* A step that changes neither the machine's state nor its budget. *)
LEMMA SameBudget ==
  ASSUME Budget, UNCHANGED <<state, retries, flaps, dials>>
  PROVE  Budget'
BY DEF Budget

-----------------------------------------------------------------------------
(* The handles' steps. *)
LEMMA HandleSteps ==
  ASSUME TypeOK, \/ CloseAfterFlush
                 \/ \E r \in Requests : Bind(r) \/ Push(r) \/ PeerAnswers(r)
                 \/ \E s \in {"reconnect", "close"} : Signal(s)
  PROVE  TypeOK' /\ UNCHANGED <<state, retries, flaps, dials>>
<1> USE DEF machine, handle, pending
<1>1. CASE CloseAfterFlush
  <2>1. Command("close", NoSlot) \in Commands
    BY DEF Command, Commands
  <2>2. queue' \in Seq(Commands) /\ Len(queue') <= QueueCap
    BY <1>1, <2>1, QueueType, LinkAssumption DEF CloseAfterFlush
  <2>3. QED
    BY <1>1, <2>2 DEF CloseAfterFlush, TypeOK, Commands
<1>2. ASSUME NEW r \in Requests, Bind(r)
      PROVE  TypeOK' /\ UNCHANGED <<state, retries, flaps, dials>>
  <2>1. caller' \in [Requests -> Callers]
    BY <1>2 DEF Bind, TypeOK, Callers, Answers
  <2>2. QED
    BY <1>2, <2>1 DEF Bind, TypeOK, Callers
<1>3. ASSUME NEW r \in Requests, Push(r)
      PROVE  TypeOK' /\ UNCHANGED <<state, retries, flaps, dials>>
  <2>1. caller \in [Requests -> Callers] /\ {"notSent", "queueFull"} \subseteq Answers
    BY DEF TypeOK, Callers, Answers
  <2>2. caller' \in [Requests -> Callers]
    BY <1>3, <2>1, SettledType DEF Push
  <2>3. [Command("request", r) EXCEPT !.gen = caller[r].gen] \in Commands
    BY <2>1 DEF Command, Commands, Callers
  <2>4. queue' \in Seq(Commands) /\ Len(queue') <= QueueCap
    BY <1>3, <2>3, QueueType, LinkAssumption DEF Push
  <2>5. ctl' \subseteq {"reconnect", "close", "overflow"}
    BY <1>3 DEF Push, TypeOK
  <2>6. QED
    BY <1>3, <2>2, <2>4, <2>5 DEF Push, TypeOK, Callers, Commands
<1>4. ASSUME NEW r \in Requests, PeerAnswers(r)
      PROVE  TypeOK' /\ UNCHANGED <<state, retries, flaps, dials>>
  BY <1>4, LinkAssumption DEF PeerAnswers, TypeOK
<1>5. ASSUME NEW s \in {"reconnect", "close"}, Signal(s)
      PROVE  TypeOK' /\ UNCHANGED <<state, retries, flaps, dials>>
  BY <1>5 DEF Signal, TypeOK
<1>6. QED
  BY <1>1, <1>2, <1>3, <1>4, <1>5

(* The steps of run_live that keep the machine's state. *)
LEMMA LiveSteps ==
  ASSUME TypeOK, \/ RejectCommand \/ LiveSignal \/ LinkLost \/ RejectStale \/ TakeMarker
                 \/ \E r \in Requests : RefuseTag(r) \/ Collide(r) \/ WriteRequest(r)
                 \/ \E t \in Tags : TimeOut(t)
                 \/ \E p \in replies : RouteReply(p)
  PROVE  TypeOK' /\ UNCHANGED <<state, retries, flaps, dials>>
<1> USE DEF machine, handle, pending
<1>1. /\ caller \in [Requests -> Callers]
      /\ {"notSent", "tagRetired", "superseded", "timedOut", "reply", "wrongReply"}
           \subseteq Answers
  BY DEF TypeOK, Callers, Answers
<1>2. CASE RejectCommand \/ RejectStale
  <2>1. caller' \in [Requests -> Callers]
    BY <1>1, <1>2, SettledType DEF RejectCommand, RejectStale
  <2>2. queue' \in Seq(Commands) /\ Len(queue') <= QueueCap
    BY <1>2, QueueType DEF RejectCommand, RejectStale, TakeFront
  <2>3. QED
    BY <1>2, <2>1, <2>2 DEF RejectCommand, RejectStale, TypeOK, Callers, Commands
<1>3. CASE LiveSignal \/ LinkLost
  BY <1>3 DEF LiveSignal, LinkLost, Leave, TypeOK
<1>4. CASE TakeMarker
  <2>1. queue' \in Seq(Commands) /\ Len(queue') <= QueueCap
    BY <1>4, QueueType DEF TakeMarker, TakeFront
  <2>2. QED
    BY <1>4, <2>1 DEF TakeMarker, Leave, TypeOK, Commands
<1>5. ASSUME NEW r \in Requests, RefuseTag(r)
      PROVE  TypeOK' /\ UNCHANGED <<state, retries, flaps, dials>>
  <2>1. caller' \in [Requests -> Callers]
    BY <1>1, <1>5, SettledType DEF RefuseTag
  <2>2. queue' \in Seq(Commands) /\ Len(queue') <= QueueCap
    BY <1>5, QueueType DEF RefuseTag, Fresh, TakeFront
  <2>3. QED
    BY <1>5, <2>1, <2>2 DEF RefuseTag, TypeOK, Callers, Commands
<1>6. ASSUME NEW r \in Requests, Collide(r)
      PROVE  TypeOK' /\ UNCHANGED <<state, retries, flaps, dials>>
  <2>1. Settled(caller, {waiting[TagOf[r]]}, "superseded") \in [Requests -> Callers]
    BY <1>1, SettledType
  <2>2. caller' \in [Requests -> Callers]
    BY <1>1, <1>6, <2>1, SettledType DEF Collide
  <2>3. queue' \in Seq(Commands) /\ Len(queue') <= QueueCap
    BY <1>6, QueueType DEF Collide, Fresh, TakeFront
  <2>4. retired' \in Seq(Tags)
    BY <1>6, RetireType, LinkAssumption DEF Collide, TypeOK
  <2>5. waiting' \in [Tags -> Requests \cup {NoSlot}]
    BY <1>6 DEF Collide, TypeOK
  <2>6. QED
    BY <1>6, <2>2, <2>3, <2>4, <2>5 DEF Collide, TypeOK, Callers, Commands
<1>7. ASSUME NEW r \in Requests, WriteRequest(r)
      PROVE  TypeOK' /\ UNCHANGED <<state, retries, flaps, dials>>
  <2>1. caller' \in [Requests -> Callers]
    BY <1>1, <1>7, SettledType DEF WriteRequest
  <2>2. queue' \in Seq(Commands) /\ Len(queue') <= QueueCap
    BY <1>7, QueueType DEF WriteRequest, Fresh, TakeFront
  <2>3. waiting' \in [Tags -> Requests \cup {NoSlot}]
    BY <1>7 DEF WriteRequest, TypeOK
  <2>4. /\ ending' \in {"none", "lost", "reconnect", "close"}
        /\ replies' \subseteq [tag : Tags, from : Requests]
        /\ ctl' \subseteq {"reconnect", "close", "overflow"}
        /\ written' \subseteq Requests
    BY <1>7 DEF WriteRequest, Leave, TypeOK
  <2>5. QED
    BY <1>7, <2>1, <2>2, <2>3, <2>4 DEF WriteRequest, TypeOK, Callers, Commands
<1>8. ASSUME NEW t \in Tags, TimeOut(t)
      PROVE  TypeOK' /\ UNCHANGED <<state, retries, flaps, dials>>
  <2>1. caller' \in [Requests -> Callers]
    BY <1>1, <1>8, SettledType DEF TimeOut
  <2>2. retired' \in Seq(Tags)
    BY <1>8, RetireType DEF TimeOut, TypeOK
  <2>3. QED
    BY <1>8, <2>1, <2>2 DEF TimeOut, TypeOK, Callers
<1>9. ASSUME NEW p \in replies, RouteReply(p)
      PROVE  TypeOK' /\ UNCHANGED <<state, retries, flaps, dials>>
  <2>1. caller' \in [Requests -> Callers]
    <3>1. CASE waiting[p.tag] = NoSlot
      BY <1>1, <1>9, <3>1 DEF RouteReply
    <3>2. CASE waiting[p.tag] # NoSlot
      <4>1. PICK a \in {"reply", "wrongReply"} :
              caller' = Settled(caller, {waiting[p.tag]}, a)
        BY <1>9, <3>2 DEF RouteReply
      <4>2. QED
        BY <1>1, <4>1, SettledType
    <3>3. QED
      BY <3>1, <3>2
  <2>2. waiting' \in [Tags -> Requests \cup {NoSlot}]
    BY <1>9 DEF RouteReply, TypeOK
  <2>3. QED
    BY <1>9, <2>1, <2>2 DEF RouteReply, TypeOK, Callers
<1>10. QED
  BY <1>2, <1>3, <1>4, <1>5, <1>6, <1>7, <1>8, <1>9

(* schedule_retry keeps within the budget. *)
LEMMA ScheduleRetryBudget ==
  ASSUME TypeOK, Budget, NEW f \in Nat, f <= M, ScheduleRetry(f),
         flaps' = f, dials' \in Nat, dials' <= 1 + f * M + retries, dials' <= 1 + M * M
  PROVE  /\ Budget' /\ retries' \in Nat
         /\ state' \in {"closed", "gaveUp", "backoff"}
<1>1. M \in Nat /\ retries \in Nat /\ retries <= M
  BY LinkAssumption DEF M, TypeOK, Budget
<1>2. CASE state' = "backoff" /\ retries' = retries + 1 /\ retries < M /\ f < M
  <2>1. f * M \in Nat /\ M * M \in Nat
    BY <1>2, Products
  <2>2. QED
    BY <1>1, <1>2, <2>1 DEF Budget
<1>3. CASE state' \in {"closed", "gaveUp"} /\ retries' = retries
  BY <1>1, <1>3 DEF Budget
<1>4. QED
  BY <1>1, <1>2, <1>3 DEF ScheduleRetry, M

(* Closing, redialling and the machine's other moves. *)
LEMMA MachineSteps ==
  ASSUME IInv, \/ DownClose \/ DownReconnect \/ Dialed \/ Connected \/ Rejected
               \/ ConnectFailed \/ BackoffElapsed
               \/ LiveClosed \/ LiveReconnect \/ LiveLost
  PROVE  IInv'
<1> USE DEF machine, handle, pending
<1>1. TypeOK /\ Budget /\ M \in Nat /\ 0 < M /\ M * M \in Nat
  BY LinkAssumption DEF IInv, M
<1>3. CASE DownClose \/ LiveClosed
  <2>1. Closing /\ ending' \in {"none", ending}
    BY <1>3 DEF DownClose, LiveClosed
  <2>2. TypeOK'
    <3>1. /\ caller' \in [Requests -> Callers]
          /\ waiting' \in [Tags -> Requests \cup {NoSlot}]
          /\ queue' \in Seq(Commands) /\ Len(queue') <= QueueCap /\ replies' = {}
      BY <1>1, <2>1, FailPendingType DEF Closing
    <3>2. QED
      BY <1>1, <2>1, <3>1 DEF Closing, TypeOK, Callers, Commands
  <2>3. Budget'
    BY <1>1, <2>1 DEF Closing, Budget
  <2>4. QED
    BY <2>2, <2>3 DEF IInv
<1>4. CASE DownReconnect \/ LiveReconnect
  <2>1. Redial /\ ending' \in {"none", ending} /\ ctl' \subseteq ctl
    BY <1>4 DEF DownReconnect, LiveReconnect
  <2>2. TypeOK'
    <3>1. /\ caller' \in [Requests -> Callers]
          /\ waiting' \in [Tags -> Requests \cup {NoSlot}]
          /\ queue' \in Seq(Commands) /\ Len(queue') <= QueueCap /\ replies' = {}
      BY <1>1, <2>1, FailPendingType DEF Redial
    <3>2. QED
      BY <1>1, <2>1, <3>1 DEF Redial, TypeOK, Callers, Commands
  <2>3. Budget'
    <3>1. 0 * M = 0
      BY <1>1
    <3>2. QED
      BY <1>1, <2>1, <3>1 DEF Redial, Budget
  <2>4. QED
    BY <2>2, <2>3 DEF IInv
<1>5. CASE Dialed
  BY <1>1, <1>5 DEF Dialed, TypeOK, Budget, IInv
<1>6. CASE Connected
  <2>1. TypeOK'
    <3>1. queue' \in Seq(Commands) /\ Len(queue') <= QueueCap
      BY <1>1, <1>6, AgedQueue, QueueType DEF Connected
    <3>2. caller' \in [Requests -> Callers]
      BY <1>1, <1>6 DEF Connected, TypeOK, Callers
    <3>3. QED
      BY <1>1, <1>6, <3>1, <3>2 DEF Connected, TypeOK, Callers, Commands
  <2>2. Budget'
    <3>1. flaps \in Nat /\ flaps < M /\ retries <= M /\ retries \in Nat /\ dials \in Nat
          /\ dials <= 1 + flaps * M + retries
      BY <1>1, <1>6 DEF Connected, TypeOK, Budget
    <3>2. flaps * M \in Nat /\ (flaps + 1) * M = flaps * M + M
      BY <3>1, Products
    <3>3. dials <= 1 + (flaps + 1) * M
      BY <1>1, <3>1, <3>2
    <3>4. QED
      BY <1>1, <1>6, <3>1, <3>3 DEF Connected, Budget
  <2>3. QED
    BY <2>1, <2>2 DEF IInv
<1>7. CASE Rejected
  <2>1. TypeOK'
    <3>1. /\ caller' \in [Requests -> Callers]
          /\ waiting' \in [Tags -> Requests \cup {NoSlot}]
          /\ queue' \in Seq(Commands) /\ Len(queue') <= QueueCap /\ replies' = {}
      BY <1>1, <1>7, FailPendingType DEF Rejected
    <3>2. QED
      BY <1>1, <1>7, <3>1 DEF Rejected, TypeOK, Callers, Commands
  <2>2. Budget'
    BY <1>1, <1>7 DEF Rejected, Budget
  <2>3. QED
    BY <2>1, <2>2 DEF IInv
<1>8. CASE ConnectFailed
  <2>1. flaps \in Nat /\ flaps < M /\ dials \in Nat /\ dials <= 1 + flaps * M + retries
        /\ dials <= 1 + M * M
    BY <1>1, <1>8 DEF ConnectFailed, TypeOK, Budget
  <2>2. Budget' /\ retries' \in Nat /\ state' \in {"closed", "gaveUp", "backoff"}
    BY <1>1, <1>8, <2>1, ScheduleRetryBudget DEF ConnectFailed
  <2>3. TypeOK'
    <3>1. CASE FailPending
      <4>1. /\ caller' \in [Requests -> Callers]
            /\ waiting' \in [Tags -> Requests \cup {NoSlot}]
            /\ queue' \in Seq(Commands) /\ Len(queue') <= QueueCap /\ replies' = {}
        BY <1>1, <3>1, FailPendingType
      <4>2. QED
        BY <1>1, <1>8, <2>2, <4>1 DEF ConnectFailed, TypeOK, Callers, Commands
    <3>2. CASE UNCHANGED <<caller, waiting, queue, replies>>
      BY <1>1, <1>8, <2>2, <3>2 DEF ConnectFailed, TypeOK
    <3>3. QED
      BY <1>8, <3>1, <3>2 DEF ConnectFailed
  <2>4. QED
    BY <2>2, <2>3 DEF IInv
<1>9. CASE BackoffElapsed
  <2>1. TypeOK'
    BY <1>1, <1>9 DEF BackoffElapsed, TypeOK
  <2>2. flaps \in Nat /\ flaps < M /\ dials \in Nat /\ dials <= flaps * M + retries
        /\ retries \in Nat /\ retries <= M
    BY <1>1, <1>9 DEF BackoffElapsed, TypeOK, Budget
  <2>3. flaps * M \in Nat /\ (flaps + 1) * M = flaps * M + M /\ (flaps + 1) * M <= M * M
    BY <2>2, Products
  <2>4. dials + 1 <= 1 + flaps * M + retries /\ dials + 1 <= 1 + M * M
    BY <1>1, <2>2, <2>3
  <2>5. Budget'
    BY <1>1, <1>9, <2>2, <2>4 DEF BackoffElapsed, Budget
  <2>6. QED
    BY <2>1, <2>5 DEF IInv
<1>10. CASE LiveLost
  <2>1. PICK dwelled \in BOOLEAN :
          /\ flaps' = IF dwelled THEN 0 ELSE flaps + 1
          /\ ScheduleRetry(flaps')
          /\ dials' = IF dwelled THEN 0 ELSE dials
    BY <1>10 DEF LiveLost
  <2>2. flaps \in Nat /\ flaps < M /\ dials \in Nat /\ dials <= 1 + (flaps + 1) * M
        /\ retries = 0 /\ dials <= 1 + M * M
    BY <1>1, <1>10 DEF LiveLost, TypeOK, Budget
  <2>3. flaps' \in Nat /\ flaps' <= M /\ dials' \in Nat /\ dials' <= 1 + M * M
    BY <1>1, <2>1, <2>2
  <2>4. dials' <= 1 + flaps' * M + retries
    <3>1. CASE dwelled
      BY <1>1, <2>1, <2>2, <3>1
    <3>2. CASE ~dwelled
      <4>1. (flaps + 1) * M \in Nat
        BY <2>2, Products
      <4>2. QED
        BY <2>1, <2>2, <3>2, <4>1
    <3>3. QED
      BY <3>1, <3>2
  <2>5. Budget' /\ retries' \in Nat /\ state' \in {"closed", "gaveUp", "backoff"}
    <3>1. PICK f \in Nat : f = flaps'
      BY <2>3
    <3>2. QED
      BY <1>1, <2>1, <2>3, <2>4, <3>1, ScheduleRetryBudget
  <2>6. TypeOK'
    <3>1. /\ caller' \in [Requests -> Callers]
          /\ waiting' \in [Tags -> Requests \cup {NoSlot}]
          /\ queue' \in Seq(Commands) /\ Len(queue') <= QueueCap /\ replies' = {}
      BY <1>1, <1>10, FailPendingType DEF LiveLost
    <3>2. QED
      BY <1>1, <1>10, <2>3, <2>5, <3>1 DEF LiveLost, TypeOK, Callers, Commands
  <2>7. QED
    BY <2>5, <2>6 DEF IInv
<1>11. QED
  BY <1>3, <1>4, <1>5, <1>6, <1>7, <1>8, <1>9, <1>10

(* Every step of the peer keeps the types and the budget. *)
LEMMA NextIInv == IInv /\ [Next]_vars => IInv'
<1> SUFFICES ASSUME IInv, [Next]_vars PROVE IInv'
  OBVIOUS
<1>1. CASE \/ CloseAfterFlush
           \/ \E r \in Requests : Bind(r) \/ Push(r) \/ PeerAnswers(r)
           \/ \E s \in {"reconnect", "close"} : Signal(s)
  BY <1>1, HandleSteps, SameBudget DEF IInv
<1>2. CASE \/ RejectCommand \/ LiveSignal \/ LinkLost \/ RejectStale \/ TakeMarker
           \/ \E r \in Requests : RefuseTag(r) \/ Collide(r) \/ WriteRequest(r)
           \/ \E t \in Tags : TimeOut(t)
           \/ \E p \in replies : RouteReply(p)
  BY <1>2, LiveSteps, SameBudget DEF IInv
<1>3. CASE \/ DownClose \/ DownReconnect \/ Dialed \/ Connected \/ Rejected
           \/ ConnectFailed \/ BackoffElapsed
           \/ LiveClosed \/ LiveReconnect \/ LiveLost
  BY <1>3, MachineSteps
<1>4. CASE UNCHANGED vars
  BY <1>4 DEF vars, machine, handle, pending, IInv, TypeOK, Budget
<1>5. QED
  BY <1>1, <1>2, <1>3, <1>4 DEF Next, Supervisor

(* For every max_attempts: however failed dials, failed handshakes and      *)
(* links that do not last are mixed, the machine of machine.rs dials at    *)
(* most 1 + max_attempts * max_attempts times before it gives up, unless   *)
(* a link lived for live_dwell or somebody asked for a reconnect.          *)
THEOREM BudgetHolds == Spec => []DialsAreBounded
<1>1. IInv => DialsAreBounded
  BY DEF IInv, Budget, DialsAreBounded, M
<1>2. QED
  BY <1>1, InitIInv, NextIInv, PTL DEF Spec

-----------------------------------------------------------------------------
\* What callers are told.

IsRequest(i) == queue[i].op = "request"

\* A queued request is still its caller's, and is queued once.
QueueIsFresh ==
  /\ \A i \in 1 .. Len(queue) : IsRequest(i) =>
       queue[i].req \in Requests /\ caller[queue[i].req].pc = "queued"
  /\ \A i, j \in 1 .. Len(queue) :
       IsRequest(i) /\ IsRequest(j) /\ queue[i].req = queue[j].req => i = j

\* A slot is its request's, and that request waits.
SlotsWait ==
  \A t \in Tags : waiting[t] # NoSlot =>
    TagOf[waiting[t]] = t /\ caller[waiting[t]].pc = "waiting"

AInv == NotSentIsTrue /\ QueueIsFresh /\ SlotsWait

-----------------------------------------------------------------------------
(* Where Settled leaves each caller. *)
LEMMA SettledAt ==
  ASSUME NEW c \in [Requests -> Callers], NEW R, NEW a, NEW r \in Requests
  PROVE  Settled(c, R, a)[r].pc = IF r \in R THEN a ELSE c[r].pc
BY DEF Settled, Callers

(* At the start nothing is queued, written or waited for. *)
LEMMA InitAInv == Init => AInv
BY DEF Init, AInv, NotSentIsTrue, QueueIsFresh, SlotsWait

(* Nothing is taken from or put on the queue. *)
LEMMA SameQueue ==
  ASSUME TypeOK, QueueIsFresh,
         Len(queue') = Len(queue),
         \A i \in 1 .. Len(queue) : queue'[i].op = queue[i].op /\ queue'[i].req = queue[i].req,
         \A r \in Requests : caller[r].pc = "queued" => caller'[r].pc = "queued"
  PROVE  QueueIsFresh'
BY DEF QueueIsFresh, IsRequest

(* The front is taken: its request is on no other place of the queue. *)
LEMMA FrontTaken ==
  ASSUME TypeOK, QueueIsFresh, queue # <<>>, queue' = Tail(queue),
         \A r \in Requests :
           caller[r].pc = "queued" =>
             \/ caller'[r].pc = "queued"
             \/ Head(queue).op = "request" /\ Head(queue).req = r
  PROVE  QueueIsFresh'
<1>1. queue \in Seq(Commands) /\ Len(queue) \in Nat /\ Len(queue) > 0
  BY QueueType
<1>2. /\ Len(queue') = Len(queue) - 1
      /\ \A i \in 1 .. Len(queue') : queue'[i] = queue[i + 1] /\ i + 1 \in 1 .. Len(queue)
      /\ Head(queue) = queue[1] /\ 1 \in 1 .. Len(queue)
  BY <1>1
<1>3. \A i, j \in 1 .. Len(queue') :
        IsRequest(i)' /\ IsRequest(j)' /\ queue'[i].req = queue'[j].req => i = j
  <2> TAKE i, j \in 1 .. Len(queue')
  <2>1. i + 1 = j + 1 => i = j
    BY <1>1, <1>2
  <2>2. QED
    BY <1>2, <2>1 DEF QueueIsFresh, IsRequest
<1>4. ASSUME NEW i \in 1 .. Len(queue'), IsRequest(i)'
      PROVE  queue'[i].req \in Requests /\ caller'[queue'[i].req].pc = "queued"
  <2>1. /\ queue'[i] = queue[i + 1] /\ i + 1 \in 1 .. Len(queue) /\ IsRequest(i + 1)
        /\ i + 1 # 1
    BY <1>1, <1>2, <1>4 DEF IsRequest
  <2>2. /\ queue[i + 1].req \in Requests /\ caller[queue[i + 1].req].pc = "queued"
        /\ ~(IsRequest(1) /\ queue[1].req = queue[i + 1].req)
    BY <1>2, <2>1 DEF QueueIsFresh
  <2>3. QED
    BY <1>2, <2>1, <2>2 DEF IsRequest
<1>5. QED
  BY <1>3, <1>4 DEF QueueIsFresh

(* fail_pending: what waits may have been sent, what is queued was not. *)
LEMMA FailPendingAnswers ==
  ASSUME TypeOK, AInv, FailPending, UNCHANGED written
  PROVE  AInv'
<1>1. caller \in [Requests -> Callers] /\ {"maybeSent", "notSent"} \subseteq Answers
  BY DEF TypeOK, Callers, Answers
<1>2. Settled(caller, Slots(waiting), "maybeSent") \in [Requests -> Callers]
  BY <1>1, SettledType
<1>3. \A r \in Requests : caller'[r].pc = IF r \in Waiters(queue) THEN "notSent"
                                          ELSE IF r \in Slots(waiting) THEN "maybeSent"
                                          ELSE caller[r].pc
  BY <1>1, <1>2, SettledAt DEF FailPending
<1>4. \A r \in Requests : r \in Waiters(queue) => r \notin written
  <2> SUFFICES ASSUME NEW r \in Requests, r \in Waiters(queue) PROVE r \notin written
    OBVIOUS
  <2>1. PICK i \in DOMAIN queue : queue[i].op = "request" /\ queue[i].req = r
    BY DEF Waiters
  <2>2. DOMAIN queue = 1 .. Len(queue)
    BY QueueType
  <2>3. caller[r].pc = "queued"
    BY <2>1, <2>2 DEF AInv, QueueIsFresh, IsRequest
  <2>4. QED
    BY <2>3 DEF AInv, NotSentIsTrue
<1>5. NotSentIsTrue'
  BY <1>3, <1>4 DEF AInv, NotSentIsTrue
<1>6. QueueIsFresh' /\ SlotsWait'
  <2>1. queue' = <<>> /\ \A t \in Tags : waiting'[t] = NoSlot
    BY DEF FailPending
  <2>2. QED
    BY <2>1 DEF QueueIsFresh, SlotsWait
<1>7. QED
  BY <1>5, <1>6 DEF AInv

(* The request at the front: who is answered when it is refused. *)
LEMMA FrontWaiters ==
  ASSUME TypeOK, AInv, queue # <<>>
  PROVE  \A r \in Requests :
           r \in Waiters(<<Head(queue)>>) <=>
             /\ Head(queue).op = "request" /\ Head(queue).req = r
             /\ caller[r].pc = "queued"
<1>1. Head(queue) = queue[1] /\ 1 \in 1 .. Len(queue)
  BY QueueType
<1>2. \A r : r \in Waiters(<<Head(queue)>>) <=>
               Head(queue).op = "request" /\ Head(queue).req = r
  BY DEF Waiters
<1>3. QED
  BY <1>1, <1>2 DEF AInv, QueueIsFresh, IsRequest

(* A stale or late command is rejected: it was never written. *)
LEMMA RejectAnswers ==
  ASSUME TypeOK, AInv, queue # <<>>,
         caller' = Settled(caller, Waiters(<<Head(queue)>>), "notSent"),
         queue' = Tail(queue), UNCHANGED <<waiting, written>>
  PROVE  AInv'
<1>1. caller \in [Requests -> Callers]
  BY DEF TypeOK, Callers
<1>2. \A r \in Requests : caller'[r].pc = IF r \in Waiters(<<Head(queue)>>) THEN "notSent"
                                          ELSE caller[r].pc
  BY <1>1, SettledAt
<1>3. NotSentIsTrue'
  BY <1>2, FrontWaiters DEF AInv, NotSentIsTrue
<1>4. QueueIsFresh'
  BY <1>2, FrontWaiters, FrontTaken DEF AInv
<1>5. SlotsWait'
  <2>1. \A t \in Tags : waiting[t] # NoSlot => waiting[t] \in Requests
    BY DEF TypeOK
  <2>2. QED
    BY <1>2, <2>1, FrontWaiters DEF AInv, SlotsWait
<1>6. QED
  BY <1>3, <1>4, <1>5 DEF AInv

(* Nothing a caller can see changes. *)
LEMMA NothingSeen ==
  ASSUME TypeOK, AInv, UNCHANGED <<queue, caller, waiting, written>>
  PROVE  AInv'
BY DEF AInv, NotSentIsTrue, QueueIsFresh, IsRequest, SlotsWait

(* A command goes to the end of the queue. *)
LEMMA Appended ==
  ASSUME TypeOK, QueueIsFresh, NEW c \in Commands, queue' = Append(queue, c),
         c.op = "request" =>
           c.req \in Requests /\ caller[c.req].pc # "queued" /\ caller'[c.req].pc = "queued",
         \A r \in Requests : caller[r].pc = "queued" => caller'[r].pc = "queued"
  PROVE  QueueIsFresh'
<1>1. queue \in Seq(Commands) /\ Len(queue) \in Nat
  BY QueueType
<1>2. /\ Len(queue') = Len(queue) + 1
      /\ \A i \in 1 .. Len(queue) : queue'[i] = queue[i]
      /\ queue'[Len(queue) + 1] = c
      /\ \A i \in 1 .. Len(queue') : i \in 1 .. Len(queue) \/ i = Len(queue) + 1
  BY <1>1
<1>3. ASSUME NEW i \in 1 .. Len(queue'), IsRequest(i)'
      PROVE  queue'[i].req \in Requests /\ caller'[queue'[i].req].pc = "queued"
  BY <1>2, <1>3 DEF QueueIsFresh, IsRequest
<1>4. ASSUME NEW i \in 1 .. Len(queue'), NEW j \in 1 .. Len(queue'),
             IsRequest(i)', IsRequest(j)', queue'[i].req = queue'[j].req
      PROVE  i = j
  <2>1. ASSUME NEW k \in 1 .. Len(queue), IsRequest(k), c.op = "request"
        PROVE  queue[k].req # c.req
    BY <2>1 DEF QueueIsFresh
  <2>2. QED
    BY <1>2, <1>4, <2>1 DEF QueueIsFresh, IsRequest
<1>5. QED
  BY <1>3, <1>4 DEF QueueIsFresh

(* The handles. *)
LEMMA HandleAnswers ==
  ASSUME TypeOK, AInv, \/ CloseAfterFlush
                       \/ \E r \in Requests : Bind(r) \/ Push(r) \/ PeerAnswers(r)
                       \/ \E s \in {"reconnect", "close"} : Signal(s)
  PROVE  AInv'
<1> USE DEF machine, handle, pending
<1>1. caller \in [Requests -> Callers] /\ \A t \in Tags : waiting[t] \in Requests \cup {NoSlot}
  BY DEF TypeOK, Callers
<1>2. CASE CloseAfterFlush
  <2>1. UNCHANGED <<caller, waiting, written>>
    BY <1>2 DEF CloseAfterFlush
  <2>2. QueueIsFresh'
    <3>1. CASE queue' = queue
      BY <2>1, <3>1 DEF AInv, QueueIsFresh, IsRequest
    <3>2. CASE queue' = Append(queue, Command("close", NoSlot))
      <4>1. Command("close", NoSlot) \in Commands /\ Command("close", NoSlot).op # "request"
        BY DEF Command, Commands
      <4>2. QED
        BY <2>1, <3>2, <4>1, Appended DEF AInv
    <3>3. QED
      BY <1>2, <3>1, <3>2 DEF CloseAfterFlush
  <2>3. QED
    BY <2>1, <2>2 DEF AInv, NotSentIsTrue, SlotsWait
<1>3. ASSUME NEW r \in Requests, Bind(r) PROVE AInv'
  <2>1. /\ caller[r].pc = "idle" /\ caller'[r].pc \in {"notSent", "bound"}
        /\ \A s \in Requests \ {r} : caller'[s] = caller[s]
        /\ UNCHANGED <<queue, waiting, written>>
    BY <1>1, <1>3 DEF Bind
  <2>2. NotSentIsTrue' /\ SlotsWait'
    BY <1>1, <2>1 DEF AInv, NotSentIsTrue, SlotsWait
  <2>3. QueueIsFresh'
    BY <2>1, SameQueue DEF AInv
  <2>4. QED
    BY <2>2, <2>3 DEF AInv
<1>4. ASSUME NEW r \in Requests, Push(r) PROVE AInv'
  <2>1. PICK a \in {"notSent", "queueFull", "queued"} :
          /\ caller' = Settled(caller, {r}, a)
          /\ \/ a # "queued" /\ queue' = queue
             \/ /\ a = "queued"
                /\ queue' = Append(queue, [Command("request", r) EXCEPT !.gen = caller[r].gen])
    BY <1>4 DEF Push
  <2>2. /\ caller[r].pc = "bound" /\ caller'[r].pc = a
        /\ \A s \in Requests \ {r} : caller'[s].pc = caller[s].pc
        /\ UNCHANGED <<waiting, written>>
    BY <1>1, <1>4, <2>1, SettledAt DEF Push
  <2>3. NotSentIsTrue' /\ SlotsWait'
    BY <1>1, <2>2 DEF AInv, NotSentIsTrue, SlotsWait
  <2>4. QueueIsFresh'
    <3>1. CASE queue' = queue
      BY <2>2, <3>1, SameQueue DEF AInv
    <3>2. CASE a = "queued" /\ queue' = Append(queue, [Command("request", r) EXCEPT !.gen = caller[r].gen])
      <4> DEFINE c == [Command("request", r) EXCEPT !.gen = caller[r].gen]
      <4>1. c \in Commands /\ c.op = "request" /\ c.req = r
        BY <1>1 DEF Command, Commands, Callers
      <4> HIDE DEF c
      <4>2. queue' = Append(queue, c)
        BY <3>2 DEF c
      <4>3. QED
        BY <2>2, <3>2, <4>1, <4>2, Appended DEF AInv
    <3>3. QED
      BY <2>1, <3>1, <3>2
  <2>5. QED
    BY <2>3, <2>4 DEF AInv
<1>5. CASE (\E r \in Requests : PeerAnswers(r)) \/ \E s \in {"reconnect", "close"} : Signal(s)
  BY <1>5, NothingSeen DEF PeerAnswers, Signal
<1>6. QED
  BY <1>2, <1>3, <1>4, <1>5

(* The supervisor while the link lives. *)
LEMMA LiveAnswers ==
  ASSUME TypeOK, AInv,
         \/ RejectCommand \/ LiveSignal \/ LinkLost \/ RejectStale \/ TakeMarker
         \/ \E r \in Requests : RefuseTag(r) \/ Collide(r) \/ WriteRequest(r)
         \/ \E t \in Tags : TimeOut(t)
         \/ \E p \in replies : RouteReply(p)
  PROVE  AInv'
<1> USE DEF machine, handle, pending
<1>1. /\ caller \in [Requests -> Callers]
      /\ \A t \in Tags : waiting[t] \in Requests \cup {NoSlot}
      /\ TagOf \in [Requests -> Tags]
  BY LinkAssumption DEF TypeOK, Callers
<1>2. CASE RejectCommand \/ RejectStale
  BY <1>2, RejectAnswers DEF RejectCommand, RejectStale, TakeFront
<1>3. CASE LiveSignal \/ LinkLost
  BY <1>3, NothingSeen DEF LiveSignal, LinkLost
<1>4. CASE TakeMarker
  <2>1. QueueIsFresh'
    BY <1>4, FrontTaken DEF TakeMarker, TakeFront, AInv
  <2>2. QED
    BY <1>4, <2>1 DEF TakeMarker, AInv, NotSentIsTrue, SlotsWait
\* The front is a request of this link; it is taken whatever becomes of it.
<1>5. ASSUME NEW r \in Requests, Fresh(r)
      PROVE  /\ queue # <<>> /\ queue' = Tail(queue)
             /\ Head(queue).op = "request" /\ Head(queue).req = r
             /\ caller[r].pc = "queued" /\ r \notin written
  <2>1. /\ queue # <<>> /\ queue' = Tail(queue)
        /\ Head(queue).op = "request" /\ Head(queue).req = r
    BY <1>5 DEF Fresh, TakeFront, Command
  <2>2. Head(queue) = queue[1] /\ 1 \in 1 .. Len(queue)
    BY <2>1, QueueType
  <2>3. caller[r].pc = "queued"
    BY <2>1, <2>2 DEF AInv, QueueIsFresh, IsRequest
  <2>4. QED
    BY <2>1, <2>3 DEF AInv, NotSentIsTrue
<1>6. ASSUME NEW r \in Requests, RefuseTag(r) PROVE AInv'
  <2>1. /\ \A s \in Requests : caller'[s].pc = IF s = r THEN "tagRetired" ELSE caller[s].pc
        /\ UNCHANGED <<waiting, written>> /\ Fresh(r)
    BY <1>1, <1>6, SettledAt DEF RefuseTag
  <2>2. QueueIsFresh'
    BY <1>5, <2>1, FrontTaken DEF AInv
  <2>3. NotSentIsTrue' /\ SlotsWait'
    BY <1>1, <1>5, <2>1 DEF AInv, NotSentIsTrue, SlotsWait
  <2>4. QED
    BY <2>2, <2>3 DEF AInv
<1>7. ASSUME NEW r \in Requests, Collide(r) PROVE AInv'
  <2> DEFINE w == waiting[TagOf[r]]
  <2>1. w \in Requests /\ caller[w].pc = "waiting" /\ w # r /\ TagOf[r] \in Tags
    <3>1. Fresh(r) /\ w # NoSlot /\ TagOf[r] \in Tags
      BY <1>1, <1>7 DEF Collide
    <3>2. QED
      BY <1>1, <1>5, <3>1 DEF AInv, SlotsWait
  <2>2. Settled(caller, {w}, "superseded") \in [Requests -> Callers]
    BY <1>1, SettledType DEF Answers
  <2>3. /\ \A s \in Requests : caller'[s].pc = IF s = r THEN "tagRetired"
                                               ELSE IF s = w THEN "superseded" ELSE caller[s].pc
        /\ waiting' = [waiting EXCEPT ![TagOf[r]] = NoSlot]
        /\ UNCHANGED written /\ Fresh(r)
    <3>1. /\ caller' = Settled(Settled(caller, {w}, "superseded"), {r}, "tagRetired")
          /\ waiting' = [waiting EXCEPT ![TagOf[r]] = NoSlot]
          /\ UNCHANGED written /\ Fresh(r)
      BY <1>7 DEF Collide
    <3>2. \A s \in Requests :
            caller'[s].pc = IF s \in {r} THEN "tagRetired"
                            ELSE Settled(caller, {w}, "superseded")[s].pc
      BY <2>2, <3>1, SettledAt
    <3>3. \A s \in Requests : Settled(caller, {w}, "superseded")[s].pc
                              = IF s \in {w} THEN "superseded" ELSE caller[s].pc
      BY <1>1, SettledAt
    <3>4. QED
      BY <3>1, <3>2, <3>3
  <2>4. QueueIsFresh'
    BY <1>5, <2>1, <2>3, FrontTaken DEF AInv
  <2>5. NotSentIsTrue'
    BY <1>5, <2>1, <2>3 DEF AInv, NotSentIsTrue
  <2>6. SlotsWait'
    <3> SUFFICES ASSUME NEW t \in Tags, waiting'[t] # NoSlot
                 PROVE  TagOf[waiting'[t]] = t /\ caller'[waiting'[t]].pc = "waiting"
      BY DEF SlotsWait
    <3>1. t # TagOf[r] /\ waiting'[t] = waiting[t]
      BY <2>1, <2>3 DEF TypeOK
    <3>2. waiting[t] \in Requests /\ TagOf[waiting[t]] = t /\ caller[waiting[t]].pc = "waiting"
      BY <1>1, <3>1 DEF AInv, SlotsWait
    <3>3. waiting[t] # w /\ waiting[t] # r
      BY <1>5, <2>1, <2>3, <3>1, <3>2 DEF AInv, SlotsWait
    <3>4. QED
      BY <2>3, <3>1, <3>2, <3>3
  <2>7. QED
    BY <2>4, <2>5, <2>6 DEF AInv
<1>8. ASSUME NEW r \in Requests, WriteRequest(r) PROVE AInv'
  <2>1. /\ \A s \in Requests : caller'[s].pc = IF s = r THEN "waiting" ELSE caller[s].pc
        /\ waiting' = [waiting EXCEPT ![TagOf[r]] = r]
        /\ written' \subseteq written \cup {r} /\ Fresh(r)
    BY <1>1, <1>8, SettledAt DEF WriteRequest
  <2>2. QueueIsFresh'
    BY <1>5, <2>1, FrontTaken DEF AInv
  <2>3. NotSentIsTrue'
    BY <2>1 DEF AInv, NotSentIsTrue
  <2>4. SlotsWait'
    <3> SUFFICES ASSUME NEW t \in Tags, waiting'[t] # NoSlot
                 PROVE  TagOf[waiting'[t]] = t /\ caller'[waiting'[t]].pc = "waiting"
      BY DEF SlotsWait
    <3>1. CASE t = TagOf[r]
      BY <1>1, <2>1, <3>1 DEF TypeOK
    <3>2. CASE t # TagOf[r]
      <4>1. waiting'[t] = waiting[t]
        BY <2>1, <3>2 DEF TypeOK
      <4>2. QED
        BY <1>1, <2>1, <4>1 DEF AInv, SlotsWait
    <3>3. QED
      BY <3>1, <3>2
  <2>5. QED
    BY <2>2, <2>3, <2>4 DEF AInv
\* A slot is answered: its request waited, so it is on no queue.
<1>9. ASSUME NEW t \in Tags, NEW a \in {"timedOut", "reply", "wrongReply"},
             waiting[t] # NoSlot,
             caller' = Settled(caller, {waiting[t]}, a),
             waiting' = [waiting EXCEPT ![t] = NoSlot],
             UNCHANGED <<queue, written>>
      PROVE  AInv'
  <2>1. waiting[t] \in Requests /\ caller[waiting[t]].pc = "waiting"
    BY <1>1, <1>9 DEF AInv, SlotsWait
  <2>2. \A s \in Requests : caller'[s].pc = IF s = waiting[t] THEN a ELSE caller[s].pc
    BY <1>1, <1>9, SettledAt
  <2>3. QueueIsFresh'
    BY <1>9, <2>1, <2>2, SameQueue DEF AInv
  <2>4. NotSentIsTrue'
    BY <1>9, <2>2 DEF AInv, NotSentIsTrue
  <2>5. SlotsWait'
    <3> SUFFICES ASSUME NEW u \in Tags, waiting'[u] # NoSlot
                 PROVE  TagOf[waiting'[u]] = u /\ caller'[waiting'[u]].pc = "waiting"
      BY DEF SlotsWait
    <3>1. u # t /\ waiting'[u] = waiting[u]
      BY <1>9 DEF TypeOK
    <3>2. waiting[u] \in Requests /\ TagOf[waiting[u]] = u /\ caller[waiting[u]].pc = "waiting"
      BY <1>1, <3>1 DEF AInv, SlotsWait
    <3>3. waiting[u] # waiting[t]
      BY <1>9, <3>1, <3>2 DEF AInv, SlotsWait
    <3>4. QED
      BY <2>2, <3>1, <3>2, <3>3
  <2>6. QED
    BY <2>3, <2>4, <2>5 DEF AInv
<1>10. ASSUME NEW t \in Tags, TimeOut(t) PROVE AInv'
  BY <1>9, <1>10 DEF TimeOut
<1>11. ASSUME NEW p \in replies, RouteReply(p) PROVE AInv'
  <2>1. CASE waiting[p.tag] = NoSlot
    BY <1>11, <2>1, NothingSeen DEF RouteReply
  <2>2. CASE waiting[p.tag] # NoSlot
    <3>1. p.tag \in Tags
      BY DEF TypeOK
    <3>2. PICK a \in {"reply", "wrongReply"} :
            caller' = Settled(caller, {waiting[p.tag]}, a)
      BY <1>11, <2>2 DEF RouteReply
    <3>3. waiting' = [waiting EXCEPT ![p.tag] = NoSlot] /\ UNCHANGED <<queue, written>>
      BY <1>11, <2>2 DEF RouteReply
    <3>4. QED
      BY <1>9, <2>2, <3>1, <3>2, <3>3
  <2>3. QED
    BY <2>1, <2>2
<1>12. QED
  BY <1>2, <1>3, <1>4, <1>6, <1>7, <1>8, <1>10, <1>11

(* The machine's moves. *)
LEMMA MachineAnswers ==
  ASSUME TypeOK, AInv, \/ DownClose \/ DownReconnect \/ Dialed \/ Connected \/ Rejected
                       \/ ConnectFailed \/ BackoffElapsed
                       \/ LiveClosed \/ LiveReconnect \/ LiveLost
  PROVE  AInv'
<1> USE DEF machine, handle, pending
<1>1. CASE DownClose \/ DownReconnect \/ Rejected \/ LiveClosed \/ LiveReconnect \/ LiveLost
  BY <1>1, FailPendingAnswers
     DEF DownClose, DownReconnect, Rejected, LiveClosed, LiveReconnect, LiveLost, Closing, Redial
<1>2. CASE Dialed \/ BackoffElapsed
  BY <1>2, NothingSeen DEF Dialed, BackoffElapsed
<1>3. CASE ConnectFailed
  BY <1>3, FailPendingAnswers, NothingSeen DEF ConnectFailed
<1>4. CASE Connected
  <2>1. queue \in Seq(Commands) /\ caller \in [Requests -> Callers]
    BY QueueType DEF TypeOK, Callers
  <2>2. /\ Len(queue') = Len(queue)
        /\ \A i \in 1 .. Len(queue) : queue'[i].op = queue[i].op /\ queue'[i].req = queue[i].req
    <3>1. Len(queue') = Len(queue)
      BY <1>4, <2>1, AgedQueue DEF Connected
    <3>2. \A i \in 1 .. Len(queue) : queue'[i] = [queue[i] EXCEPT !.gen = "old"]
                                     /\ queue[i] \in Commands
      <4>1. DOMAIN queue = 1 .. Len(queue)
        BY <2>1
      <4>2. \A i \in 1 .. Len(queue) : queue[i] \in Commands
        BY <2>1
      <4>3. QED
        BY <1>4, <4>1, <4>2 DEF Connected
    <3>3. QED
      BY <3>1, <3>2 DEF Commands
  <2>3. /\ \A r \in Requests : caller'[r].pc = caller[r].pc
        /\ UNCHANGED <<waiting, written>>
    BY <1>4, <2>1 DEF Connected, Callers
  <2>4. QueueIsFresh'
    BY <2>2, <2>3, SameQueue DEF AInv
  <2>5. NotSentIsTrue' /\ SlotsWait'
    BY <2>3 DEF AInv, NotSentIsTrue, SlotsWait, TypeOK
  <2>6. QED
    BY <2>4, <2>5 DEF AInv
<1>5. QED
  BY <1>1, <1>2, <1>3, <1>4

(* The callers' invariant. *)
LEMMA AnswersInvariant == Spec => []AInv
<1>1. IInv /\ AInv /\ [Next]_vars => AInv'
  <2> SUFFICES ASSUME IInv, AInv, [Next]_vars PROVE AInv'
    OBVIOUS
  <2>1. TypeOK
    BY DEF IInv
  <2>2. CASE UNCHANGED vars
    BY <2>1, <2>2, NothingSeen DEF vars, handle, pending
  <2>3. CASE Next
    BY <2>1, <2>3, HandleAnswers, LiveAnswers, MachineAnswers DEF Next, Supervisor
  <2>4. QED
    BY <2>2, <2>3
<1>2. QED
  BY <1>1, InitIInv, NextIInv, InitAInv, PTL DEF Spec

(* For every set of requests and tags: `sent: false`, QueueFull and         *)
(* TagRetired are answered only to a caller no byte of whose request can   *)
(* have gone out, whatever the link did between the caller's check, its    *)
(* push and the write (peer.rs, pending.rs).                               *)
THEOREM NotSentHolds == Spec => []NotSentIsTrue
<1>1. AInv => NotSentIsTrue
  BY DEF AInv
<1>2. QED
  BY <1>1, AnswersInvariant, PTL

-----------------------------------------------------------------------------
(* Replies: a tag that is given up stays given up as long as the ring of   *)
(* retired tags is long enough.                                            *)

UsedTags == {TagOf[r] : r \in Requests}

\* The premise pending.rs cannot guarantee: the ring forgets no tag.
RingSuffices == Cardinality(UsedTags) <= RetiredCap

\* Who may still be answered by a frame on the link.
Expecting == {"waiting", "timedOut", "superseded"}

\* The ring holds used tags, each once.
RingIsSet ==
  /\ ToSet(retired) \subseteq UsedTags
  /\ Cardinality(ToSet(retired)) = Len(retired)

\* Who waits has the slot of its tag; who gave up has retired it.
TagsAreKept ==
  /\ \A r \in Requests : caller[r].pc = "waiting" => waiting[TagOf[r]] = r
  /\ \A r \in Requests : caller[r].pc \in {"timedOut", "superseded"} =>
       TagOf[r] \in ToSet(retired)
  /\ \A t \in Tags : t \in ToSet(retired) => waiting[t] = NoSlot

\* A reply on the link is to one of those.
RepliesExpected ==
  \A p \in replies : p.tag = TagOf[p.from] /\ caller[p.from].pc \in Expecting

MInv == RingIsSet /\ TagsAreKept /\ RepliesExpected /\ RepliesMatch

(* The ring takes a tag and forgets none. *)
LEMMA RetireKeeps ==
  ASSUME RingSuffices, TypeOK, RingIsSet, NEW t \in UsedTags
  PROVE  /\ ToSet(Retire(retired, t)) = ToSet(retired) \cup {t}
         /\ Cardinality(ToSet(Retire(retired, t))) = Len(Retire(retired, t))
<1>1. IsFiniteSet(UsedTags)
  <2>1. TagOf \in Surjection(Requests, UsedTags)
    BY LinkAssumption DEF UsedTags, Surjection
  <2>2. QED
    BY <2>1, LinkAssumption, FS_Surjection
<1>2. retired \in Seq(Tags) /\ Len(retired) \in Nat /\ RetiredCap \in Nat
  BY LinkAssumption DEF TypeOK
<1>3. IsFiniteSet(ToSet(retired)) /\ Cardinality(UsedTags) \in Nat
  BY <1>1, FS_Subset, FS_CardinalityType DEF RingIsSet
<1>4. CASE t \in ToSet(retired)
  <2>1. Len(retired) <= Cardinality(UsedTags)
    BY <1>1, FS_Subset DEF RingIsSet
  <2>2. Retire(retired, t) = retired
    BY <1>2, <1>3, <1>4, <2>1 DEF Retire, RingSuffices
  <2>3. QED
    BY <1>4, <2>2 DEF RingIsSet
<1>5. CASE t \notin ToSet(retired)
  <2> DEFINE s == Append(retired, t)
  <2>1. t \in Tags
    BY LinkAssumption DEF UsedTags
  <2>2. /\ Len(s) = Len(retired) + 1 /\ DOMAIN s = 1 .. (Len(retired) + 1)
        /\ DOMAIN retired = 1 .. Len(retired)
        /\ \A i \in 1 .. Len(retired) : s[i] = retired[i]
        /\ s[Len(retired) + 1] = t
    BY <1>2, <2>1
  <2>3. \A i \in 1 .. (Len(retired) + 1) : i \in 1 .. Len(retired) \/ i = Len(retired) + 1
    BY <1>2
  <2>4. ToSet(s) = ToSet(retired) \cup {t}
    <3> HIDE DEF s
    <3>1. \A x : x \in ToSet(s) <=> x \in ToSet(retired) \cup {t}
      BY <1>2, <2>2, <2>3 DEF ToSet
    <3>2. QED
      BY <3>1
  <2>5. Cardinality(ToSet(s)) = Len(s)
    <3> HIDE DEF s
    <3>1. Cardinality(ToSet(retired) \cup {t}) = Cardinality(ToSet(retired)) + 1
      BY <1>3, <1>5, FS_AddElement
    <3>2. QED
      BY <2>2, <2>4, <3>1 DEF RingIsSet
  <2>6. Len(s) <= Cardinality(UsedTags)
    <3>1. ToSet(s) \subseteq UsedTags
      BY <2>4 DEF RingIsSet
    <3>2. QED
      BY <1>1, <2>5, <3>1, FS_Subset
  <2>7. Retire(retired, t) = s
    <3>1. Len(retired) < RetiredCap
      <4> HIDE DEF s
      <4>1. QED
        BY <1>2, <1>3, <2>2, <2>6 DEF RingSuffices
    <3>2. QED
      BY <1>2, <1>5, <3>1 DEF Retire
  <2>8. QED
    BY <2>4, <2>5, <2>7
<1>6. QED
  BY <1>4, <1>5

(* Nobody starts or stops expecting a reply. *)
LEMMA SameExpecting ==
  ASSUME TypeOK, MInv, UNCHANGED <<waiting, retired>>, replies' \subseteq replies,
         \A r \in Requests :
           \/ caller'[r].pc = caller[r].pc
           \/ /\ caller[r].pc \notin Expecting
              /\ caller'[r].pc \notin Expecting \cup {"wrongReply"}
  PROVE  MInv'
<1>1. \A p \in replies : p.from \in Requests
  BY DEF TypeOK
<1>2. QED
  BY <1>1 DEF MInv, RingIsSet, TagsAreKept, RepliesExpected, RepliesMatch, Expecting

(* fail_pending: whoever waits is answered, and the link's frames are gone. *)
LEMMA FailPendingMatch ==
  ASSUME TypeOK, MInv, FailPending, UNCHANGED retired
  PROVE  MInv'
<1>1. caller \in [Requests -> Callers] /\ {"maybeSent", "notSent"} \subseteq Answers
  BY DEF TypeOK, Callers, Answers
<1>2. Settled(caller, Slots(waiting), "maybeSent") \in [Requests -> Callers]
  BY <1>1, SettledType
<1>3. \A r \in Requests : caller'[r].pc = IF r \in Waiters(queue) THEN "notSent"
                                          ELSE IF r \in Slots(waiting) THEN "maybeSent"
                                          ELSE caller[r].pc
  BY <1>1, <1>2, SettledAt DEF FailPending
<1>4. \A r \in Requests : caller[r].pc = "waiting" => r \in Slots(waiting)
  BY LinkAssumption DEF MInv, TagsAreKept, Slots
<1>5. replies' = {} /\ \A t \in Tags : waiting'[t] = NoSlot
  BY DEF FailPending
<1>6. QED
  BY <1>3, <1>4, <1>5 DEF MInv, RingIsSet, TagsAreKept, RepliesExpected, RepliesMatch, Expecting

(* The handles and the peer. *)
LEMMA HandleMatch ==
  ASSUME TypeOK, AInv, MInv,
         \/ CloseAfterFlush
         \/ \E r \in Requests : Bind(r) \/ Push(r) \/ PeerAnswers(r)
         \/ \E s \in {"reconnect", "close"} : Signal(s)
  PROVE  MInv'
<1> USE DEF machine, handle, pending
<1>1. caller \in [Requests -> Callers]
  BY DEF TypeOK, Callers
<1>2. CASE CloseAfterFlush \/ \E s \in {"reconnect", "close"} : Signal(s)
  BY <1>2, SameExpecting DEF CloseAfterFlush, Signal
<1>3. ASSUME NEW r \in Requests, Bind(r) PROVE MInv'
  <2>1. /\ caller[r].pc = "idle" /\ caller'[r].pc \in {"notSent", "bound"}
        /\ \A s \in Requests \ {r} : caller'[s] = caller[s]
        /\ UNCHANGED <<waiting, retired, replies>>
    BY <1>1, <1>3 DEF Bind
  <2>2. QED
    BY <2>1, SameExpecting DEF Expecting
<1>4. ASSUME NEW r \in Requests, Push(r) PROVE MInv'
  <2>1. PICK a \in {"notSent", "queueFull", "queued"} : caller' = Settled(caller, {r}, a)
    BY <1>4 DEF Push
  <2>2. /\ caller[r].pc = "bound" /\ caller'[r].pc = a
        /\ \A s \in Requests \ {r} : caller'[s].pc = caller[s].pc
        /\ UNCHANGED <<waiting, retired, replies>>
    BY <1>1, <1>4, <2>1, SettledAt DEF Push
  <2>3. QED
    BY <2>2, SameExpecting DEF Expecting
<1>5. ASSUME NEW r \in Requests, PeerAnswers(r) PROVE MInv'
  <2>1. /\ replies' = replies \cup {[tag |-> TagOf[r], from |-> r]}
        /\ caller[r].pc \in Expecting /\ UNCHANGED <<caller, waiting, retired>>
    BY <1>5 DEF PeerAnswers, Expecting
  <2>2. RepliesExpected'
    BY <2>1 DEF MInv, RepliesExpected
  <2>3. QED
    BY <2>1, <2>2 DEF MInv, RingIsSet, TagsAreKept, RepliesMatch
<1>6. QED
  BY <1>2, <1>3, <1>4, <1>5

(* The supervisor while the link lives. *)
LEMMA LiveMatch ==
  ASSUME RingSuffices, TypeOK, AInv, MInv,
         \/ RejectCommand \/ LiveSignal \/ LinkLost \/ RejectStale \/ TakeMarker
         \/ \E r \in Requests : RefuseTag(r) \/ Collide(r) \/ WriteRequest(r)
         \/ \E t \in Tags : TimeOut(t)
         \/ \E p \in replies : RouteReply(p)
  PROVE  MInv'
<1> USE DEF machine, handle, pending
<1>1. /\ caller \in [Requests -> Callers]
      /\ \A t \in Tags : waiting[t] \in Requests \cup {NoSlot}
      /\ TagOf \in [Requests -> Tags] /\ NoSlot \notin Requests
      /\ waiting \in [Tags -> Requests \cup {NoSlot}]
  BY LinkAssumption DEF TypeOK, Callers
<1>2. CASE RejectCommand \/ RejectStale
  <2>1. /\ queue # <<>> /\ caller' = Settled(caller, Waiters(<<Head(queue)>>), "notSent")
        /\ UNCHANGED <<waiting, retired, replies>>
    BY <1>2 DEF RejectCommand, RejectStale
  <2>2. \A r \in Requests : caller'[r].pc = IF r \in Waiters(<<Head(queue)>>) THEN "notSent"
                                            ELSE caller[r].pc
    BY <1>1, <2>1, SettledAt
  <2>3. QED
    BY <2>1, <2>2, FrontWaiters, SameExpecting DEF Expecting
<1>3. CASE LiveSignal \/ LinkLost \/ TakeMarker
  <2>1. UNCHANGED <<caller, waiting, retired>> /\ replies' \subseteq replies
    BY <1>3 DEF LiveSignal, LinkLost, TakeMarker, Leave
  <2>2. QED
    BY <2>1, SameExpecting
\* The front of the queue is a request that is not answered yet.
<1>4. ASSUME NEW r \in Requests, Fresh(r) PROVE caller[r].pc = "queued"
  <2>1. queue # <<>> /\ Head(queue).op = "request" /\ Head(queue).req = r
    BY <1>4 DEF Fresh, TakeFront, Command
  <2>2. Head(queue) = queue[1] /\ 1 \in 1 .. Len(queue)
    BY <2>1, QueueType
  <2>3. QED
    BY <2>1, <2>2 DEF AInv, QueueIsFresh, IsRequest
<1>5. ASSUME NEW r \in Requests, RefuseTag(r) PROVE MInv'
  <2>1. /\ \A s \in Requests : caller'[s].pc = IF s = r THEN "tagRetired" ELSE caller[s].pc
        /\ UNCHANGED <<waiting, retired, replies>> /\ Fresh(r)
    BY <1>1, <1>5, SettledAt DEF RefuseTag
  <2>2. QED
    BY <1>4, <2>1, SameExpecting DEF Expecting
<1>6. ASSUME NEW r \in Requests, Collide(r) PROVE MInv'
  <2> DEFINE w == waiting[TagOf[r]]
  <2>1. /\ Fresh(r) /\ caller[r].pc = "queued" /\ TagOf[r] \in Tags
        /\ w \in Requests /\ TagOf[w] = TagOf[r] /\ caller[w].pc = "waiting"
        /\ caller' = Settled(Settled(caller, {w}, "superseded"), {r}, "tagRetired")
        /\ waiting' = [waiting EXCEPT ![TagOf[r]] = NoSlot]
        /\ retired' = Retire(retired, TagOf[r]) /\ UNCHANGED replies
    BY <1>1, <1>4, <1>6 DEF Collide, AInv, SlotsWait
  <2>2. \A s \in Requests : caller'[s].pc = IF s = r THEN "tagRetired"
                                            ELSE IF s = w THEN "superseded" ELSE caller[s].pc
    <3>1. Settled(caller, {w}, "superseded") \in [Requests -> Callers]
      BY <1>1, SettledType DEF Answers
    <3>2. \A s \in Requests :
            caller'[s].pc = IF s \in {r} THEN "tagRetired"
                            ELSE Settled(caller, {w}, "superseded")[s].pc
      BY <2>1, <3>1, SettledAt
    <3>3. \A s \in Requests : Settled(caller, {w}, "superseded")[s].pc
                              = IF s \in {w} THEN "superseded" ELSE caller[s].pc
      BY <1>1, SettledAt
    <3>4. QED
      BY <3>2, <3>3
  <2>3. /\ ToSet(retired') = ToSet(retired) \cup {TagOf[r]}
        /\ Cardinality(ToSet(retired')) = Len(retired') /\ TagOf[r] \in UsedTags
    BY <2>1, RetireKeeps DEF MInv, UsedTags
  <2>4. \A t \in Tags : waiting'[t] = IF t = TagOf[r] THEN NoSlot ELSE waiting[t]
    BY <1>1, <2>1
  <2> HIDE DEF w
  <2>5. RingIsSet'
    BY <2>3 DEF MInv, RingIsSet
  <2>6. TagsAreKept'
    <3>1. ASSUME NEW s \in Requests, caller'[s].pc = "waiting"
          PROVE  waiting'[TagOf[s]] = s
      <4>1. s # w /\ waiting[TagOf[s]] = s /\ TagOf[s] \in Tags
        BY <1>1, <2>2, <3>1 DEF MInv, TagsAreKept
      <4>2. TagOf[s] # TagOf[r]
        BY <4>1 DEF w
      <4>3. QED
        BY <2>4, <4>1, <4>2
    <3>2. QED
      BY <2>1, <2>2, <2>3, <2>4, <3>1 DEF MInv, TagsAreKept
  <2>7. RepliesExpected' /\ RepliesMatch'
    <3>1. \A p \in replies : p.from \in Requests
      BY DEF TypeOK
    <3>2. QED
      BY <2>1, <2>2, <3>1 DEF MInv, RepliesExpected, RepliesMatch, Expecting
  <2>8. QED
    BY <2>5, <2>6, <2>7 DEF MInv
<1>7. ASSUME NEW r \in Requests, WriteRequest(r) PROVE MInv'
  <2>1. /\ \A s \in Requests : caller'[s].pc = IF s = r THEN "waiting" ELSE caller[s].pc
        /\ waiting' = [waiting EXCEPT ![TagOf[r]] = r] /\ waiting[TagOf[r]] = NoSlot
        /\ TagOf[r] \notin ToSet(retired) /\ caller[r].pc = "queued"
        /\ UNCHANGED retired /\ replies' \subseteq replies
    BY <1>1, <1>4, <1>7, SettledAt DEF WriteRequest, Leave
  <2>2. \A t \in Tags : waiting'[t] = IF t = TagOf[r] THEN r ELSE waiting[t]
    BY <1>1, <2>1
  <2>3. TagsAreKept'
    <3>1. ASSUME NEW s \in Requests, caller'[s].pc = "waiting"
          PROVE  waiting'[TagOf[s]] = s
      BY <1>1, <2>1, <2>2, <3>1 DEF MInv, TagsAreKept
    <3>2. QED
      BY <2>1, <2>2, <3>1 DEF MInv, TagsAreKept
  <2>4. RepliesExpected' /\ RepliesMatch' /\ RingIsSet'
    <3>1. \A p \in replies : p.from \in Requests
      BY DEF TypeOK
    <3>2. QED
      BY <2>1, <3>1 DEF MInv, RepliesExpected, RepliesMatch, RingIsSet, Expecting
  <2>5. QED
    BY <2>3, <2>4 DEF MInv
<1>8. ASSUME NEW t \in Tags, TimeOut(t) PROVE MInv'
  <2> DEFINE w == waiting[t]
  <2>1. /\ w \in Requests /\ TagOf[w] = t /\ caller[w].pc = "waiting"
        /\ \A s \in Requests : caller'[s].pc = IF s = w THEN "timedOut" ELSE caller[s].pc
        /\ waiting' = [waiting EXCEPT ![t] = NoSlot]
        /\ retired' = Retire(retired, t) /\ UNCHANGED replies
    BY <1>1, <1>8, SettledAt DEF TimeOut, AInv, SlotsWait
  <2>2. /\ ToSet(retired') = ToSet(retired) \cup {t}
        /\ Cardinality(ToSet(retired')) = Len(retired') /\ t \in UsedTags
    BY <2>1, RetireKeeps DEF MInv, UsedTags
  <2>3. \A u \in Tags : waiting'[u] = IF u = t THEN NoSlot ELSE waiting[u]
    BY <1>1, <2>1
  <2> HIDE DEF w
  <2>4. TagsAreKept'
    <3>1. ASSUME NEW s \in Requests, caller'[s].pc = "waiting"
          PROVE  waiting'[TagOf[s]] = s
      <4>1. s # w /\ waiting[TagOf[s]] = s /\ TagOf[s] \in Tags
        BY <1>1, <2>1, <3>1 DEF MInv, TagsAreKept
      <4>2. TagOf[s] # t
        BY <4>1 DEF w
      <4>3. QED
        BY <2>3, <4>1, <4>2
    <3>2. QED
      BY <2>1, <2>2, <2>3, <3>1 DEF MInv, TagsAreKept
  <2>5. RepliesExpected' /\ RepliesMatch' /\ RingIsSet'
    <3>1. \A p \in replies : p.from \in Requests
      BY DEF TypeOK
    <3>2. QED
      BY <2>1, <2>2, <3>1 DEF MInv, RepliesExpected, RepliesMatch, RingIsSet, Expecting
  <2>6. QED
    BY <2>4, <2>5 DEF MInv
<1>9. ASSUME NEW p \in replies, RouteReply(p) PROVE MInv'
  <2>1. p.tag \in Tags /\ p.from \in Requests /\ p.tag = TagOf[p.from]
        /\ caller[p.from].pc \in Expecting /\ replies' = replies \ {p} /\ UNCHANGED retired
    BY <1>9 DEF TypeOK, MInv, RepliesExpected, RouteReply
  <2>2. CASE waiting[p.tag] = NoSlot
    BY <1>9, <2>1, <2>2, SameExpecting DEF RouteReply
  <2>3. CASE waiting[p.tag] # NoSlot
    <3>1. waiting[p.tag] = p.from /\ caller[p.from].pc = "waiting"
      BY <2>1, <2>3 DEF MInv, TagsAreKept, Expecting
    <3>2. /\ \A s \in Requests : caller'[s].pc = IF s = p.from THEN "reply" ELSE caller[s].pc
          /\ waiting' = [waiting EXCEPT ![p.tag] = NoSlot]
      BY <1>1, <1>9, <2>3, <3>1, SettledAt DEF RouteReply
    <3>3. \A u \in Tags : waiting'[u] = IF u = p.tag THEN NoSlot ELSE waiting[u]
      BY <1>1, <3>2
    <3>4. TagsAreKept'
      <4>1. ASSUME NEW s \in Requests, caller'[s].pc = "waiting"
            PROVE  waiting'[TagOf[s]] = s
        <5>1. s # p.from /\ waiting[TagOf[s]] = s /\ TagOf[s] \in Tags
          BY <1>1, <3>2, <4>1 DEF MInv, TagsAreKept
        <5>2. TagOf[s] # p.tag
          BY <3>1, <5>1
        <5>3. QED
          BY <3>3, <5>1, <5>2
      <4>2. QED
        BY <2>1, <3>2, <3>3, <4>1 DEF MInv, TagsAreKept
    <3>5. RepliesExpected'
      <4> SUFFICES ASSUME NEW q \in replies, q # p
                   PROVE  q.tag = TagOf[q.from] /\ caller'[q.from].pc \in Expecting
        BY <2>1 DEF RepliesExpected
      <4>1. q \in [tag : Tags, from : Requests] /\ p \in [tag : Tags, from : Requests]
        BY DEF TypeOK
      <4>2. q.tag = TagOf[q.from] /\ caller[q.from].pc \in Expecting
        BY DEF MInv, RepliesExpected
      <4>3. q.from # p.from
        BY <2>1, <4>1, <4>2
      <4>4. QED
        BY <3>2, <4>1, <4>2, <4>3
    <3>6. QED
      BY <2>1, <3>2, <3>4, <3>5 DEF MInv, RingIsSet, RepliesMatch
  <2>4. QED
    BY <2>2, <2>3
<1>10. QED
  BY <1>2, <1>3, <1>5, <1>6, <1>7, <1>8, <1>9

(* The machine's moves. *)
LEMMA MachineMatch ==
  ASSUME TypeOK, MInv, \/ DownClose \/ DownReconnect \/ Dialed \/ Connected \/ Rejected
                       \/ ConnectFailed \/ BackoffElapsed
                       \/ LiveClosed \/ LiveReconnect \/ LiveLost
  PROVE  MInv'
<1> USE DEF machine, handle, pending
<1>1. CASE DownClose \/ DownReconnect \/ Rejected \/ LiveClosed \/ LiveReconnect \/ LiveLost
  BY <1>1, FailPendingMatch
     DEF DownClose, DownReconnect, Rejected, LiveClosed, LiveReconnect, LiveLost, Closing, Redial
<1>2. CASE Dialed \/ BackoffElapsed
  BY <1>2, SameExpecting DEF Dialed, BackoffElapsed
<1>3. CASE ConnectFailed
  BY <1>3, FailPendingMatch, SameExpecting DEF ConnectFailed
<1>4. CASE Connected
  <2>1. /\ \A r \in Requests : caller'[r].pc = caller[r].pc
        /\ UNCHANGED <<waiting, retired, replies>>
    BY <1>4 DEF Connected, TypeOK
  <2>2. QED
    BY <2>1, SameExpecting
<1>5. QED
  BY <1>1, <1>2, <1>3, <1>4

(* For every set of requests and tags, as long as no more tags are in use  *)
(* than the ring of retired ones remembers: what a caller is told is true, *)
(* and a reply reaches the request it answers or nobody, however late it   *)
(* is and however often its tag was used since (pending.rs insert, expire, *)
(* route).                                                                 *)
THEOREM AnswersHold ==
  ASSUME RingSuffices
  PROVE  Spec => []AnswersAreTrue
<1>1. Init => MInv
  <2> SUFFICES ASSUME Init PROVE MInv
    OBVIOUS
  <2>1. ToSet(retired) = {} /\ Len(retired) = 0
    BY DEF Init, ToSet
  <2>2. QED
    BY <2>1, FS_EmptySet
       DEF Init, MInv, RingIsSet, TagsAreKept, RepliesExpected, RepliesMatch
<1>2. TypeOK /\ AInv /\ MInv /\ [Next]_vars => MInv'
  <2> SUFFICES ASSUME TypeOK, AInv, MInv, [Next]_vars PROVE MInv'
    OBVIOUS
  <2>1. CASE UNCHANGED vars
    BY <2>1, SameExpecting DEF vars, pending
  <2>2. CASE Next
    BY <2>2, HandleMatch, LiveMatch, MachineMatch DEF Next, Supervisor
  <2>3. QED
    BY <2>1, <2>2
<1>3. Spec => []TypeOK
  <2>1. IInv => TypeOK
    BY DEF IInv
  <2>2. QED
    BY <2>1, InitIInv, NextIInv, PTL DEF Spec
<1>4. Spec => []AInv
  BY AnswersInvariant
<1>5. MInv /\ AInv => AnswersAreTrue
  BY DEF MInv, AInv, AnswersAreTrue
<1>6. QED
  BY <1>1, <1>2, <1>3, <1>4, <1>5, PTL DEF Spec
=============================================================================
