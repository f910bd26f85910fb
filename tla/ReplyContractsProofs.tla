------------------------ MODULE ReplyContractsProofs ------------------------
(***************************************************************************)
(* Proofs about ReplyContracts: the slots of the ledger settle, a contract *)
(* is tracked as long as it is needed and no longer, and the verdict on it *)
(* falls once, for any agents, threads, sends, limits and clock.           *)
(***************************************************************************)
EXTENDS ReplyContracts, SequenceTheorems, FiniteSetTheorems, TLAPS

\* A thread between Begin and Unlock: its id is still being used.
Active(t) == thread[t].pc \in {"reserve", "park"}

\* A thread inside handle_send's critical section that asks for replies.
Asking == lock # Free /\ thread[lock].send.asks

\* The notices the sweep posted or has in hand.
Noticed == ToSet(notices) \cup sweeper.due

\* Keys the ledger has, or ever had, to do with.
Seen == DOMAIN requests \cup promised \cup answered \cup failed \cup Noticed

\* Who is inside, what it still has to do, and that ids are its own.
ThreadsInOrder ==
  /\ lock # Free => Active(lock)
  /\ \A t \in Senders :
       /\ thread[t].pc = "park" => lock = t
       /\ thread[t].pc = "reserve" => thread[t].todo # <<>>
       /\ lock # t => thread[t].parks = <<>>
       /\ thread[t].pc # "idle" => thread[t].send \in Sends
       /\ thread[t].re # 0 => thread[t].send.replies
       /\ Active(t) => thread[t].id \in 1..(nextId - 1) /\ thread[t].re < thread[t].id
       /\ \A u \in Senders : Active(t) /\ Active(u) /\ t # u => thread[t].id # thread[u].id

\* The recipients a thread has not judged are new to the ledger.
TodoIsNew ==
  \A t \in Senders : thread[t].pc = "reserve" =>
    /\ \A i, j \in DOMAIN thread[t].todo :
         thread[t].todo[i].to = thread[t].todo[j].to => i = j
    /\ \A i \in DOMAIN thread[t].todo : <<thread[t].id, thread[t].todo[i].to>> \notin Seen

\* What the ledger has seen bears an id drawn before, by a thread that is
\* done or is the one inside.
SeenIsOld ==
  \A k \in Seen : /\ k[1] < nextId
                  /\ \A t \in Senders : Active(t) /\ thread[t].id = k[1] => lock = t

\* The shares of the thread inside are the provisional entries.
SharesReserved ==
  Asking =>
    LET th == thread[lock]
    IN  /\ \A i, j \in DOMAIN th.parks : th.parks[i].to = th.parks[j].to => i = j
        /\ \A i \in DOMAIN th.parks :
             LET k == <<th.id, th.parks[i].to>>
             IN  /\ k \in DOMAIN requests /\ requests[k].provisional
                 /\ requests[k].deadline = th.send.deadline

\* A provisional entry, and a mark, belong to a share of the thread inside.
ReservationsOwned ==
  \A k \in DOMAIN requests :
    /\ requests[k].victim # None => requests[k].provisional
    /\ requests[k].provisional =>
         /\ Asking /\ ~requests[k].closed /\ ~requests[k].notified
         /\ k \notin promised
         /\ \E i \in DOMAIN thread[lock].parks : k = <<thread[lock].id, thread[lock].parks[i].to>>
    /\ requests[k].retiring =>
         /\ Asking /\ ~requests[k].closed /\ ~requests[k].provisional
         /\ requests[k].notified \/ ~requests[k].deadline
         /\ \E i \in DOMAIN thread[lock].parks : k = thread[lock].parks[i].victim

\* The entries agree with the verdicts.
VerdictsAgree ==
  /\ answered \cap failed = {}
  /\ \A k \in DOMAIN requests :
       /\ requests[k].closed <=> k \in answered \cup failed
       /\ requests[k].closed => k[1] \in ToSet(history)
  /\ \A k \in answered \cup failed :
       /\ k \in DOMAIN requests \/ k[1] \notin ToSet(history)
       /\ \A t \in Senders : Active(t) => thread[t].id # k[1]

\* The entries agree with the notices.
NoticesAgree ==
  /\ IsInjective(notices) /\ sweeper.due \cap ToSet(notices) = {}
  /\ sweeper.pc = "post" => sweeper.at \in sweeper.due
  /\ sweeper.pc = "idle" => sweeper.due = {}
  /\ \A k \in DOMAIN requests :
       /\ requests[k].notified => k \in Noticed \cup answered \cup failed
       /\ k \in Noticed => requests[k].notified
       /\ k \in promised => requests[k].deadline

\* A slot is counted for every occupant.
IInv ==
  /\ TypeOK /\ ThreadsInOrder /\ TodoIsNew /\ SeenIsOld
  /\ SharesReserved /\ ReservationsOwned /\ VerdictsAgree /\ NoticesAgree
  /\ PromiseKept /\ SlotBound

-----------------------------------------------------------------------------
(* What the ledger's operators do *)

(* Fields of an entry, typed. *)
LEMMA EntryTypes ==
  ASSUME NEW e \in Entries
  PROVE  /\ e.from \in Agents /\ e.created \in 0..MaxTime /\ e.deadline \in BOOLEAN
         /\ e.closed \in BOOLEAN /\ e.replyFailed \in BOOLEAN
         /\ e.notified \in BOOLEAN /\ e.retiring \in BOOLEAN
         /\ e.provisional \in BOOLEAN /\ e.victim \in Keys \cup {None}
BY DEF Entries

(* A key is a message id and a recipient, and never the absent one. *)
LEMMA KeyParts ==
  /\ None \notin Keys
  /\ \A k \in Keys : k[1] \in 1..MaxIds /\ k[2] \in Agents /\ k = <<k[1], k[2]>>
  /\ \A i \in 1..MaxIds, a \in Agents : <<i, a>> \in Keys /\ <<i, a>>[1] = i /\ <<i, a>>[2] = a
  /\ \A i \in 1..MaxIds, a, b \in Agents : <<i, a>> = <<i, b>> => a = b
BY ContractsAssumption DEF Keys, None

(* There are finitely many keys. *)
LEMMA KeysFinite == IsFiniteSet(Keys)
<1>1. IsFiniteSet(1..MaxIds)
  BY ContractsAssumption, FS_Interval
<1>2. QED
  BY <1>1, ContractsAssumption, FS_Product DEF Keys

(* Purging keeps the live, the provisional and those history remembers. *)
LEMMA PurgeEffect ==
  ASSUME NEW rs, NEW h
  PROVE  /\ \A k : k \in DOMAIN Purge(rs, h) <=>
                   /\ k \in DOMAIN rs
                   /\ ~rs[k].closed \/ rs[k].provisional \/ k[1] \in ToSet(h)
         /\ \A k \in DOMAIN Purge(rs, h) : Purge(rs, h)[k] = rs[k]
         /\ Purge(rs, h) = [k \in DOMAIN Purge(rs, h) |-> Purge(rs, h)[k]]
BY DEF Purge, Restrict

(* The elements of a history with one row more. *)
LEMMA PushedRows ==
  ASSUME NEW S, NEW h \in Seq(S), NEW x \in S
  PROVE  /\ Pushed(h, x) \in Seq(S)
         /\ Len(h) <= HISTORY_CAPACITY => Len(Pushed(h, x)) <= HISTORY_CAPACITY
         /\ ToSet(Pushed(h, x)) \subseteq ToSet(h) \cup {x}
         /\ Len(h) < HISTORY_CAPACITY => ToSet(h) \subseteq ToSet(Pushed(h, x))
<1> HISTORY_CAPACITY \in Nat \ {0}
  BY ContractsAssumption
<1>1. CASE Len(h) < HISTORY_CAPACITY
  <2>1. Pushed(h, x) = Append(h, x)
    BY <1>1 DEF Pushed
  <2> DEFINE s == Append(h, x)
  <2>2. /\ s \in Seq(S) /\ Len(s) = Len(h) + 1 /\ DOMAIN s = 1..Len(s)
        /\ DOMAIN h = 1..Len(h)
        /\ \A i \in 1..Len(h) : s[i] = h[i] /\ h[i] \in S
        /\ s[Len(h) + 1] = x
    OBVIOUS
  <2> HIDE DEF s
  <2>3. ToSet(s) \subseteq ToSet(h) \cup {x}
    BY <2>2 DEF ToSet
  <2>4. ToSet(h) \subseteq ToSet(s)
    BY <2>2 DEF ToSet
  <2>5. QED
    BY <1>1, <2>1, <2>2, <2>3, <2>4 DEF s
<1>2. CASE ~(Len(h) < HISTORY_CAPACITY)
  <2>1. Pushed(h, x) = Append(Tail(h), x)
    BY <1>2 DEF Pushed
  <2>2. h # <<>> /\ Len(h) \in Nat \ {0}
    BY <1>2
  <2> DEFINE u == Tail(h)
             s == Append(u, x)
  <2>3. u \in Seq(S) /\ Len(u) = Len(h) - 1 /\ \A i \in 1..Len(u) : u[i] = h[i + 1]
    BY <2>2
  <2> HIDE DEF u
  <2>4. /\ s \in Seq(S) /\ Len(s) = Len(u) + 1 /\ DOMAIN s = 1..Len(s)
        /\ DOMAIN h = 1..Len(h)
        /\ \A i \in 1..Len(u) : s[i] = u[i]
        /\ s[Len(u) + 1] = x
    BY <2>3
  <2> HIDE DEF s
  <2>5. ToSet(s) \subseteq ToSet(h) \cup {x}
    <3> SUFFICES ASSUME NEW i \in DOMAIN s
                 PROVE  s[i] \in ToSet(h) \cup {x}
      BY DEF ToSet
    <3>1. CASE i = Len(u) + 1
      BY <2>4, <3>1
    <3>2. CASE i # Len(u) + 1
      <4>1. i \in 1..Len(u) /\ i + 1 \in 1..Len(h)
        BY <2>2, <2>3, <2>4, <3>2
      <4>2. s[i] = h[i + 1] /\ i + 1 \in DOMAIN h
        BY <2>3, <2>4, <4>1
      <4>3. QED
        BY <4>2 DEF ToSet
    <3>3. QED
      BY <3>1, <3>2
  <2>6. QED
    BY <1>2, <2>1, <2>2, <2>3, <2>4, <2>5 DEF s, u
<1>3. QED
  BY <1>1, <1>2

\* Some finished contracts are gone with their history, the others as before.
Trimmed(rs) ==
  /\ rs = [k \in DOMAIN rs |-> rs[k]]
  /\ DOMAIN rs \subseteq DOMAIN requests
  /\ \A k \in DOMAIN rs : rs[k] = requests[k]
  /\ \A k \in DOMAIN rs : requests[k].closed => k[1] \in ToSet(history')
  /\ \A k \in DOMAIN requests \ DOMAIN rs :
       /\ requests[k].closed /\ ~requests[k].provisional
       /\ k[1] \notin ToSet(history')

(* record_with_expected only trims the contracts. *)
LEMMA RecordTrims ==
  ASSUME IInv, NEW x \in 0..MaxIds, history' = Pushed(history, x)
  PROVE  /\ Trimmed(AfterRecord(requests, history, x))
         /\ ToSet(history') \subseteq ToSet(history) \cup {x}
         /\ history' \in Seq(0..MaxIds) /\ Len(history') <= HISTORY_CAPACITY
<1>1. /\ history' \in Seq(0..MaxIds) /\ Len(history') <= HISTORY_CAPACITY
      /\ ToSet(history') \subseteq ToSet(history) \cup {x}
      /\ Len(history) < HISTORY_CAPACITY => ToSet(history) \subseteq ToSet(history')
  BY PushedRows DEF IInv, TypeOK
<1>2. \A k \in DOMAIN requests : /\ requests[k] \in Entries
                                 /\ requests[k].closed => k[1] \in ToSet(history)
                                 /\ requests[k].provisional => ~requests[k].closed
  BY DEF IInv, TypeOK, VerdictsAgree, ReservationsOwned
<1>3. CASE Len(history) < HISTORY_CAPACITY
  <2>1. AfterRecord(requests, history, x) = requests
    BY <1>3 DEF AfterRecord
  <2>2. Trimmed(requests)
    BY <1>1, <1>2, <1>3 DEF Trimmed, IInv, TypeOK
  <2>3. QED
    BY <1>1, <2>1, <2>2
<1>4. CASE ~(Len(history) < HISTORY_CAPACITY)
  <2>1. AfterRecord(requests, history, x) = Purge(requests, history')
    BY <1>4 DEF AfterRecord
  <2> DEFINE rs == Purge(requests, history')
  <2>2. /\ \A k : k \in DOMAIN rs <=>
                   /\ k \in DOMAIN requests
                   /\ \/ ~requests[k].closed \/ requests[k].provisional
                      \/ k[1] \in ToSet(history')
        /\ \A k \in DOMAIN rs : rs[k] = requests[k]
        /\ rs = [k \in DOMAIN rs |-> rs[k]]
    BY PurgeEffect
  <2> HIDE DEF rs
  <2>3. Trimmed(rs)
    BY <1>2, <2>2, EntryTypes DEF Trimmed
  <2>4. QED
    BY <1>1, <2>1, <2>3 DEF rs
<1>5. QED
  BY <1>3, <1>4

(* A reservation opened and rolled back leaves the ledger as it was. *)
LEMMA RollbackRestores ==
  ASSUME IInv, NEW th, NEW to, <<th.id, to>> \notin DOMAIN requests,
         NEW v \in VictimsFor(requests)
  PROVE  RolledBack(Opened(requests, th, to, v), <<th.id, to>>, v) = requests
<1> DEFINE k == <<th.id, to>>
           op == Opened(requests, th, to, v)
           wm == WithMark(op, v, FALSE)
           wo == Without(wm, k)
<1>1. v \in DOMAIN requests => requests[v].retiring = FALSE
  <2>1. CASE v = None
    BY <2>1, KeyParts DEF IInv, TypeOK
  <2>2. CASE v # None
    BY <2>2, EntryTypes DEF VictimsFor, Victims, Retirable, OccupiesSlot, IInv, TypeOK
  <2>3. QED
    BY <2>1, <2>2
<1>2. /\ DOMAIN op = DOMAIN requests \cup {k}
      /\ \A j \in DOMAIN requests : j # k =>
           op[j] = IF j = v THEN [requests[j] EXCEPT !.retiring = TRUE] ELSE requests[j]
  BY DEF Opened, WithMark
<1> HIDE DEF op
<1>3. /\ DOMAIN wm = DOMAIN op
      /\ \A j \in DOMAIN op :
           wm[j] = IF j = v THEN [op[j] EXCEPT !.retiring = FALSE] ELSE op[j]
  BY DEF WithMark
<1> HIDE DEF wm
<1>4. /\ DOMAIN wo = DOMAIN wm \ {k} /\ wo = [j \in DOMAIN wm \ {k} |-> wm[j]]
      /\ \A j \in DOMAIN wo : wo[j] = wm[j]
  BY DEF Without, Restrict
<1> HIDE DEF wo
<1>5. \A j \in DOMAIN requests : wo[j] = requests[j]
  <2> SUFFICES ASSUME NEW j \in DOMAIN requests
               PROVE  wo[j] = requests[j]
    OBVIOUS
  <2>0. j # k /\ requests[j] \in Entries
    BY DEF IInv, TypeOK
  <2>1. CASE j = v
    <3>1. wo[j] = [[requests[j] EXCEPT !.retiring = TRUE] EXCEPT !.retiring = FALSE]
      BY <1>2, <1>3, <1>4, <2>0, <2>1
    <3>2. requests[j].retiring = FALSE
      BY <1>1, <2>1
    <3>3. QED
      BY <2>0, <3>1, <3>2 DEF Entries
  <2>2. CASE j # v
    BY <1>2, <1>3, <1>4, <2>0, <2>2
  <2>3. QED
    BY <2>1, <2>2
<1>6. DOMAIN wo = DOMAIN requests
  BY <1>2, <1>3, <1>4
<1>7. wo = requests
  BY <1>4, <1>5, <1>6 DEF IInv, TypeOK
<1>8. QED
  BY <1>7 DEF RolledBack, op, wm, wo

-----------------------------------------------------------------------------
(* Types *)

\* What is left of a thread's recipients once the first is judged.
Advanced(x, th) ==
  /\ x \in Threads
  /\ x.id = th.id /\ x.now = th.now /\ x.send = th.send /\ x.re = th.re
  /\ x.pc \in {"reserve", "park"}
  /\ x.pc = "reserve" => x.todo # <<>>
  /\ \A i \in DOMAIN x.todo : i + 1 \in DOMAIN th.todo /\ x.todo[i] = th.todo[i + 1]

(* The first element of a sequence, and the others. *)
LEMMA HeadAndTail ==
  ASSUME NEW S, NEW s \in Seq(S), s # <<>>
  PROVE  /\ 1 \in DOMAIN s /\ Head(s) = s[1] /\ s[1] \in S
         /\ Tail(s) \in Seq(S) /\ (Len(s) # 1 => Tail(s) # <<>>)
         /\ \A i \in DOMAIN Tail(s) : i + 1 \in DOMAIN s /\ Tail(s)[i] = s[i + 1]
         /\ \A i \in DOMAIN s : i = 1 \/ (i - 1 \in DOMAIN Tail(s) /\ Tail(s)[i - 1] = s[i])
<1>1. /\ Len(s) \in Nat \ {0} /\ DOMAIN s = 1..Len(s) /\ Head(s) = s[1]
      /\ \A i \in 1..Len(s) : s[i] \in S
  OBVIOUS
<1> DEFINE u == Tail(s)
<1>2. /\ u \in Seq(S) /\ Len(u) = Len(s) - 1 /\ DOMAIN u = 1..Len(u)
      /\ \A i \in 1..Len(u) : u[i] = s[i + 1]
  OBVIOUS
<1> HIDE DEF u
<1>3. Len(s) # 1 => u # <<>>
  <2>1. Len(<<>>) = 0
    OBVIOUS
  <2>2. QED
    BY <1>1, <1>2, <2>1
<1>4. \A i \in DOMAIN u : i + 1 \in DOMAIN s /\ u[i] = s[i + 1]
  BY <1>1, <1>2
<1>5. \A i \in DOMAIN s : i = 1 \/ (i - 1 \in DOMAIN u /\ u[i - 1] = s[i])
  <2> SUFFICES ASSUME NEW i \in DOMAIN s, i # 1
               PROVE  i - 1 \in DOMAIN u /\ u[i - 1] = s[i]
    OBVIOUS
  <2>1. i - 1 \in 1..Len(u) /\ (i - 1) + 1 = i
    BY <1>1, <1>2
  <2>2. QED
    BY <1>2, <2>1
<1>6. QED
  BY <1>1, <1>2, <1>3, <1>4, <1>5 DEF u

(* NextToDo drops the first recipient and nothing else. *)
LEMMA NextToDoIs ==
  ASSUME NEW th \in Threads, th.todo # <<>>, th.pc = "reserve"
  PROVE  /\ Advanced(NextToDo(th), th)
         /\ NextToDo(th).parks = th.parks /\ NextToDo(th).done = th.done
         /\ 1 \in DOMAIN th.todo /\ Head(th.todo) = th.todo[1]
         /\ th.todo[1].to \in Agents
<1>0. th.todo \in Seq([to : Agents, gone : BOOLEAN])
  BY DEF Threads
<1>1. 1 \in DOMAIN th.todo /\ Head(th.todo) = th.todo[1] /\ th.todo[1].to \in Agents
  <2>1. 1 \in DOMAIN th.todo /\ Head(th.todo) = th.todo[1]
        /\ th.todo[1] \in [to : Agents, gone : BOOLEAN]
    BY <1>0, HeadAndTail
  <2>2. QED
    BY <2>1
<1>2. CASE Len(th.todo) = 1
  <2>1. NextToDo(th) = [th EXCEPT !.pc = "park", !.todo = <<>>]
    BY <1>2 DEF NextToDo
  <2>2. NextToDo(th) \in Threads
    <3> DEFINE e == <<>>
    <3>1. e \in Seq([to : Agents, gone : BOOLEAN])
      OBVIOUS
    <3> HIDE DEF e
    <3>2. [th EXCEPT !.pc = "park", !.todo = e] \in Threads
      BY <3>1 DEF Threads
    <3>3. QED
      BY <2>1, <3>2 DEF e
  <2>3. /\ NextToDo(th).id = th.id /\ NextToDo(th).now = th.now
        /\ NextToDo(th).send = th.send /\ NextToDo(th).re = th.re
        /\ NextToDo(th).parks = th.parks /\ NextToDo(th).done = th.done
        /\ NextToDo(th).pc = "park" /\ NextToDo(th).todo = <<>>
    BY <2>1 DEF Threads
  <2>4. QED
    BY <1>1, <2>2, <2>3 DEF Advanced
<1>3. CASE Len(th.todo) # 1
  <2>1. NextToDo(th) = [th EXCEPT !.todo = Tail(@)]
    BY <1>3 DEF NextToDo
  <2> DEFINE s == Tail(th.todo)
  <2>2. /\ s \in Seq([to : Agents, gone : BOOLEAN]) /\ s # <<>>
        /\ \A i \in DOMAIN s : i + 1 \in DOMAIN th.todo /\ s[i] = th.todo[i + 1]
    BY <1>0, <1>3, HeadAndTail
  <2> HIDE DEF s
  <2>3. NextToDo(th) = [th EXCEPT !.todo = s]
    BY <2>1 DEF s
  <2>4. NextToDo(th) \in Threads
    BY <2>2, <2>3 DEF Threads
  <2>5. /\ NextToDo(th).id = th.id /\ NextToDo(th).now = th.now
        /\ NextToDo(th).send = th.send /\ NextToDo(th).re = th.re
        /\ NextToDo(th).parks = th.parks /\ NextToDo(th).done = th.done
        /\ NextToDo(th).pc = "reserve" /\ NextToDo(th).todo = s
    BY <2>3 DEF Threads
  <2>6. QED
    BY <1>1, <2>2, <2>4, <2>5 DEF Advanced
<1>4. QED
  BY <1>2, <1>3

(* The sweep gets done with a notice. *)
LEMMA DoneWithTypes ==
  ASSUME TypeOK, NEW k
  PROVE  /\ DoneWith(k) \in [pc : {"idle", "check", "post"}, due : SUBSET Keys,
                             at : Keys \cup {None}]
         /\ DoneWith(k).due = sweeper.due \ {k}
         /\ DoneWith(k).pc # "post"
         /\ DoneWith(k).pc = "idle" => DoneWith(k).due = {}
BY DEF DoneWith, SweepRest, TypeOK

(* Marks on entries leave them entries. *)
LEMMA MarksTyped ==
  ASSUME NEW e \in Entries, NEW b \in BOOLEAN
  PROVE  /\ [e EXCEPT !.retiring = b] \in Entries
         /\ [e EXCEPT !.notified = TRUE] \in Entries
         /\ [e EXCEPT !.closed = TRUE, !.replyFailed = b] \in Entries
         /\ [e EXCEPT !.provisional = FALSE, !.victim = None] \in Entries
BY DEF Entries


-----------------------------------------------------------------------------
(* Steps that judge a recipient *)

(* Fewer occupants keep the limit. *)
LEMMA SlotsShrink ==
  ASSUME IInv, Occupied(requests)' \subseteq Occupied(requests)
  PROVE  SlotBound'
<1>1. Occupied(requests) \subseteq Keys
  BY DEF IInv, TypeOK, Occupied
<1>2. IsFiniteSet(Occupied(requests))
  BY <1>1, KeysFinite, FS_Subset
<1>3. /\ Cardinality(Occupied(requests)') <= Cardinality(Occupied(requests))
      /\ Cardinality(Occupied(requests)') \in Nat
      /\ Cardinality(Occupied(requests)) \in Nat
  BY <1>2, FS_Subset, FS_CardinalityType
<1>4. Cardinality(Occupied(requests)) <= MAX_OPEN_REQUESTS
  BY DEF IInv, SlotBound, OccupiedSlots
<1>5. QED
  BY <1>3, <1>4, ContractsAssumption DEF SlotBound, OccupiedSlots

(* Contracts that finished and lost their history may go. *)
LEMMA TrimKeeps ==
  ASSUME IInv, Trimmed(requests'), UNCHANGED <<promised, answered, failed>>,
         Noticed' = Noticed,
         NEW x, ToSet(history)' \subseteq ToSet(history) \cup {x},
         \A k \in answered \cup failed : k[1] # x,
         \A u \in Senders : Active(u)' => Active(u) /\ thread'[u].id = thread[u].id
  PROVE  /\ VerdictsAgree' /\ PromiseKept' /\ SlotBound' /\ Seen' \subseteq Seen
         /\ \A k \in DOMAIN requests' :
              /\ requests'[k].notified => k \in (Noticed \cup answered \cup failed)'
              /\ k \in Noticed' => requests'[k].notified
              /\ k \in promised' => requests'[k].deadline
<1>1. /\ DOMAIN requests' \subseteq DOMAIN requests
      /\ \A k \in DOMAIN requests' : requests'[k] = requests[k]
      /\ \A k \in DOMAIN requests' : requests[k].closed => k[1] \in ToSet(history')
      /\ \A k \in DOMAIN requests \ DOMAIN requests' :
           requests[k].closed /\ k[1] \notin ToSet(history')
  BY DEF Trimmed
<1>2. VerdictsAgree'
  <2>1. (answered \cap failed = {})'
    BY DEF IInv, VerdictsAgree
  <2>2. \A k \in DOMAIN requests' :
          /\ requests'[k].closed <=> k \in (answered \cup failed)'
          /\ requests'[k].closed => k[1] \in ToSet(history)'
    BY <1>1 DEF IInv, VerdictsAgree
  <2>3. ASSUME NEW k \in (answered \cup failed)'
        PROVE  /\ k \in DOMAIN requests' \/ k[1] \notin ToSet(history)'
               /\ \A u \in Senders : Active(u)' => thread'[u].id # k[1]
    <3>1. /\ k \in DOMAIN requests \/ k[1] \notin ToSet(history)
          /\ \A u \in Senders : Active(u) => thread[u].id # k[1]
      BY DEF IInv, VerdictsAgree
    <3>2. k[1] # x
      OBVIOUS
    <3>3. QED
      BY <1>1, <3>1, <3>2
  <2>4. QED
    BY <2>1, <2>2, <2>3 DEF VerdictsAgree
<1>3. PromiseKept'
  <2> SUFFICES ASSUME NEW k \in promised
               PROVE  \/ k \in DOMAIN requests' /\ ~requests'[k].closed
                      \/ k \in answered \cup failed \cup Noticed
    BY DEF PromiseKept, Noticed
  <2>1. \/ k \in DOMAIN requests /\ ~requests[k].closed
        \/ k \in answered \cup failed \cup Noticed
    BY DEF IInv, PromiseKept, Noticed
  <2>2. QED
    BY <1>1, <2>1
<1>4. SlotBound'
  <2>1. Occupied(requests)' \subseteq Occupied(requests)
    BY <1>1 DEF Occupied, OccupiesSlot
  <2>2. QED
    BY <2>1, SlotsShrink
<1>5. Seen' \subseteq Seen
  BY <1>1 DEF Seen
<1>6. \A k \in DOMAIN requests' :
        /\ requests'[k].notified => k \in (Noticed \cup answered \cup failed)'
        /\ k \in Noticed' => requests'[k].notified
        /\ k \in promised' => requests'[k].deadline
  BY <1>1 DEF IInv, NoticesAgree
<1>7. QED
  BY <1>2, <1>3, <1>4, <1>5, <1>6

(* A thread that judges its first recipient. *)
LEMMA JudgeThreads ==
  ASSUME IInv, NEW t \in Senders, Judging(t), NEW x, Advanced(x, thread[t]),
         thread' = [thread EXCEPT ![t] = x], lock' = t, UNCHANGED nextId,
         Seen' \subseteq Seen \cup {<<thread[t].id, thread[t].todo[1].to>>}
  PROVE  ThreadsInOrder' /\ TodoIsNew' /\ SeenIsOld'
<1>1. /\ thread \in [Senders -> Threads] /\ lock \in {Free, t} /\ thread[t].pc = "reserve"
      /\ Free \notin Senders /\ thread[t] \in Threads /\ thread[t].todo # <<>>
      /\ 1 \in DOMAIN thread[t].todo /\ thread[t].todo[1].to \in Agents
  BY NextToDoIs, ContractsAssumption DEF IInv, TypeOK, Judging, ThreadsInOrder
<1>2. /\ thread'[t] = x /\ \A u \in Senders \ {t} : thread'[u] = thread[u]
  BY <1>1
<1>3. /\ x.id = thread[t].id /\ x.send = thread[t].send /\ x.re = thread[t].re
      /\ x.pc \in {"reserve", "park"} /\ (x.pc = "reserve" => x.todo # <<>>)
      /\ \A i \in DOMAIN x.todo : i + 1 \in DOMAIN thread[t].todo
                                  /\ x.todo[i] = thread[t].todo[i + 1]
  BY DEF Advanced
<1>4. /\ \A u \in Senders : Active(u)' <=> Active(u)
      /\ \A u \in Senders : thread'[u].id = thread[u].id
      /\ Active(t)
  BY <1>1, <1>2, <1>3 DEF Active
<1>5. ThreadsInOrder'
  <2>1. lock' # Free => Active(lock)'
    BY <1>2, <1>3 DEF Active
  <2>2. ASSUME NEW u \in Senders
        PROVE  /\ thread'[u].pc = "park" => lock' = u
               /\ thread'[u].pc = "reserve" => thread'[u].todo # <<>>
               /\ lock' # u => thread'[u].parks = <<>>
               /\ thread'[u].pc # "idle" => thread'[u].send \in Sends
               /\ thread'[u].re # 0 => thread'[u].send.replies
               /\ Active(u)' => /\ thread'[u].id \in 1..(nextId' - 1)
                                /\ thread'[u].re < thread'[u].id
               /\ \A w \in Senders : Active(u)' /\ Active(w)' /\ u # w =>
                                       thread'[u].id # thread'[w].id
    <3>1. CASE u = t
      BY <1>1, <1>2, <1>3, <1>4, <3>1 DEF IInv, ThreadsInOrder
    <3>2. CASE u # t
      BY <1>1, <1>2, <1>4, <3>2 DEF IInv, ThreadsInOrder
    <3>3. QED
      BY <3>1, <3>2
  <2>3. QED
    BY <2>1, <2>2 DEF ThreadsInOrder
<1>6. TodoIsNew'
  <2> SUFFICES ASSUME NEW u \in Senders, thread'[u].pc = "reserve"
               PROVE  /\ \A i, j \in DOMAIN thread'[u].todo :
                           thread'[u].todo[i].to = thread'[u].todo[j].to => i = j
                      /\ \A i \in DOMAIN thread'[u].todo :
                           <<thread'[u].id, thread'[u].todo[i].to>> \notin Seen'
    BY DEF TodoIsNew
  <2>1. CASE u = t
    <3>1. /\ \A i, j \in DOMAIN thread[t].todo :
               thread[t].todo[i].to = thread[t].todo[j].to => i = j
          /\ \A i \in DOMAIN thread[t].todo : <<thread[t].id, thread[t].todo[i].to>> \notin Seen
          /\ thread[t].todo \in Seq([to : Agents, gone : BOOLEAN])
          /\ x.todo \in Seq([to : Agents, gone : BOOLEAN])
      BY <1>1 DEF IInv, TodoIsNew, Threads, Advanced
    <3>2. \A i \in DOMAIN x.todo : i \in Nat /\ i > 0
      BY <3>1
    <3>3. ASSUME NEW i \in DOMAIN x.todo, NEW j \in DOMAIN x.todo,
                 x.todo[i].to = x.todo[j].to
          PROVE  i = j
      <4>1. i + 1 = j + 1
        BY <1>3, <3>1, <3>3
      <4>2. QED
        BY <3>2, <4>1
    <3>4. ASSUME NEW i \in DOMAIN x.todo
          PROVE  x.todo[i].to # thread[t].todo[1].to
      <4>1. i + 1 # 1 /\ i + 1 \in DOMAIN thread[t].todo /\ x.todo[i] = thread[t].todo[i + 1]
        BY <1>3, <3>2
      <4>2. QED
        BY <1>1, <3>1, <4>1
    <3>5. \A i \in DOMAIN x.todo : <<x.id, x.todo[i].to>> \notin Seen
      BY <1>3, <3>1
    <3>6. \A i \in DOMAIN x.todo : <<x.id, x.todo[i].to>> # <<thread[t].id, thread[t].todo[1].to>>
      BY <3>4
    <3>7. QED
      BY <1>2, <2>1, <3>3, <3>5, <3>6
  <2>2. CASE u # t
    <3>1. /\ \A i, j \in DOMAIN thread[u].todo :
               thread[u].todo[i].to = thread[u].todo[j].to => i = j
          /\ \A i \in DOMAIN thread[u].todo : <<thread[u].id, thread[u].todo[i].to>> \notin Seen
      BY <1>2, <2>2 DEF IInv, TodoIsNew
    <3>2. thread[u].id # thread[t].id
      BY <1>1, <1>2, <2>2 DEF IInv, ThreadsInOrder, Active
    <3>3. QED
      BY <1>2, <2>2, <3>1, <3>2
  <2>3. QED
    BY <2>1, <2>2
<1>7. SeenIsOld'
  <2> SUFFICES ASSUME NEW k \in Seen'
               PROVE  /\ k[1] < nextId
                      /\ \A u \in Senders : Active(u) /\ thread[u].id = k[1] => t = u
    BY <1>4 DEF SeenIsOld
  <2>1. CASE k \in Seen
    BY <1>1, <2>1 DEF IInv, SeenIsOld
  <2>2. CASE k = <<thread[t].id, thread[t].todo[1].to>>
    <3>1. k[1] = thread[t].id
      BY <2>2
    <3>2. k[1] < nextId
      BY <1>4, <3>1 DEF IInv, ThreadsInOrder, TypeOK
    <3>3. QED
      BY <1>4, <3>1, <3>2 DEF IInv, ThreadsInOrder
  <2>3. QED
    BY <2>1, <2>2
<1>8. QED
  BY <1>5, <1>6, <1>7

(* Reservations when the thread inside only moves on. *)
LEMMA ReservationsTrimmed ==
  ASSUME IInv, NEW t \in Senders, lock' = t, UNCHANGED promised, Trimmed(requests'),
         thread'[t].id = thread[t].id, thread'[t].send = thread[t].send,
         thread'[t].parks = thread[t].parks, lock \in {Free, t}
  PROVE  SharesReserved' /\ ReservationsOwned'
<1>1. /\ DOMAIN requests' \subseteq DOMAIN requests
      /\ \A k \in DOMAIN requests' : requests'[k] = requests[k]
      /\ \A k \in DOMAIN requests \ DOMAIN requests' : ~requests[k].provisional
  BY DEF Trimmed
<1>2. /\ Free \notin Senders
      /\ lock = t => (Asking' <=> Asking)
      /\ lock = Free => ~Asking
      /\ Asking => lock = t
  BY ContractsAssumption DEF Asking
<1>3. lock = Free => thread[t].parks = <<>>
  BY <1>2 DEF IInv, ThreadsInOrder
<1>4. SharesReserved'
  <2>1. CASE lock = t
    <3> SUFFICES ASSUME Asking'
                 PROVE  /\ \A i, j \in DOMAIN thread[t].parks :
                             thread[t].parks[i].to = thread[t].parks[j].to => i = j
                        /\ \A i \in DOMAIN thread[t].parks :
                             LET k == <<thread[t].id, thread[t].parks[i].to>>
                             IN  /\ k \in DOMAIN requests' /\ requests'[k].provisional
                                 /\ requests'[k].deadline = thread[t].send.deadline
      BY DEF SharesReserved
    <3>1. /\ \A i, j \in DOMAIN thread[t].parks :
               thread[t].parks[i].to = thread[t].parks[j].to => i = j
          /\ \A i \in DOMAIN thread[t].parks :
               LET k == <<thread[t].id, thread[t].parks[i].to>>
               IN  /\ k \in DOMAIN requests /\ requests[k].provisional
                   /\ requests[k].deadline = thread[t].send.deadline
      BY <1>2, <2>1 DEF IInv, SharesReserved
    <3>2. QED
      BY <1>1, <3>1
  <2>2. CASE lock = Free
    <3>1. thread'[lock'].parks = <<>> /\ DOMAIN thread'[lock'].parks = {}
      BY <1>3, <2>2
    <3>2. QED
      BY <3>1 DEF SharesReserved
  <2>3. QED
    BY <2>1, <2>2
<1>5. ReservationsOwned'
  <2> SUFFICES ASSUME NEW k \in DOMAIN requests'
               PROVE  /\ requests'[k].victim # None => requests'[k].provisional
                      /\ requests'[k].provisional =>
                           /\ Asking' /\ ~requests'[k].closed /\ ~requests'[k].notified
                           /\ k \notin promised'
                           /\ \E i \in DOMAIN thread'[lock'].parks :
                                k = <<thread'[lock'].id, thread'[lock'].parks[i].to>>
                      /\ requests'[k].retiring =>
                           /\ Asking' /\ ~requests'[k].closed /\ ~requests'[k].provisional
                           /\ requests'[k].notified \/ ~requests'[k].deadline
                           /\ \E i \in DOMAIN thread'[lock'].parks :
                                k = thread'[lock'].parks[i].victim
    BY DEF ReservationsOwned
  <2>1. /\ requests[k].victim # None => requests[k].provisional
        /\ requests[k].provisional =>
             /\ Asking /\ ~requests[k].closed /\ ~requests[k].notified
             /\ k \notin promised
             /\ \E i \in DOMAIN thread[lock].parks :
                  k = <<thread[lock].id, thread[lock].parks[i].to>>
        /\ requests[k].retiring =>
             /\ Asking /\ ~requests[k].closed /\ ~requests[k].provisional
             /\ requests[k].notified \/ ~requests[k].deadline
             /\ \E i \in DOMAIN thread[lock].parks : k = thread[lock].parks[i].victim
        /\ requests'[k] = requests[k]
    BY <1>1 DEF IInv, ReservationsOwned
  <2>2. Asking => Asking' /\ lock = t
    BY <1>2
  <2>3. QED
    BY <2>1, <2>2
<1>6. QED
  BY <1>4, <1>5

(* A recipient judged and found wanting: a failed row, and nothing reserved. *)
LEMMA JudgeFailed ==
  ASSUME IInv, NEW t \in Senders, Judging(t), NEW x, Advanced(x, thread[t]),
         x.parks = thread[t].parks, thread' = [thread EXCEPT ![t] = x],
         FailedRow(t, requests)
  PROVE  IInv'
<1>1. /\ thread \in [Senders -> Threads] /\ thread[t].pc = "reserve" /\ Active(t)
      /\ lock \in {Free, t} /\ thread[t].id \in 0..MaxIds
  BY DEF IInv, TypeOK, Judging, Threads, Active
<1>2. /\ history' = Pushed(history, thread[t].id)
      /\ requests' = AfterRecord(requests, history, thread[t].id) /\ lock' = t
      /\ UNCHANGED <<sweeper, deleted, cleanups, clock, nextId, promised, answered,
                     failed, notices>>
  BY DEF FailedRow, ghosts
<1>3. /\ Trimmed(requests') /\ ToSet(history') \subseteq ToSet(history) \cup {thread[t].id}
      /\ history' \in Seq(0..MaxIds) /\ Len(history') <= HISTORY_CAPACITY
  BY <1>1, <1>2, RecordTrims
<1>4. /\ thread'[t] = x /\ \A u \in Senders \ {t} : thread'[u] = thread[u]
      /\ x.id = thread[t].id /\ x.send = thread[t].send /\ x \in Threads
      /\ x.pc \in {"reserve", "park"}
  BY <1>1 DEF Advanced
<1>5. \A u \in Senders : Active(u)' => Active(u) /\ thread'[u].id = thread[u].id
  BY <1>1, <1>4 DEF Active
<1>6. \A k \in answered \cup failed : k[1] # thread[t].id
  BY <1>1 DEF IInv, VerdictsAgree
<1>7. Noticed' = Noticed
  BY <1>2 DEF Noticed
<1>8. /\ VerdictsAgree' /\ PromiseKept' /\ SlotBound' /\ Seen' \subseteq Seen
      /\ \A k \in DOMAIN requests' :
           /\ requests'[k].notified => k \in (Noticed \cup answered \cup failed)'
           /\ k \in Noticed' => requests'[k].notified
           /\ k \in promised' => requests'[k].deadline
  BY <1>2, <1>3, <1>5, <1>6, <1>7, TrimKeeps
<1>9. NoticesAgree'
  BY <1>2, <1>8 DEF IInv, NoticesAgree
<1>10. ThreadsInOrder' /\ TodoIsNew' /\ SeenIsOld'
  BY <1>2, <1>8, JudgeThreads
<1>11. SharesReserved' /\ ReservationsOwned'
  BY <1>1, <1>2, <1>3, <1>4, ReservationsTrimmed
<1>12. TypeOK'
  <2>1. DOMAIN requests' \subseteq Keys /\ requests' \in [DOMAIN requests' -> Entries]
    BY <1>3 DEF Trimmed, IInv, TypeOK
  <2>2. thread' \in [Senders -> Threads]
    BY <1>1, <1>4
  <2>3. QED
    BY <1>2, <1>3, <2>1, <2>2 DEF IInv, TypeOK
<1>13. QED
  BY <1>8, <1>9, <1>10, <1>11, <1>12 DEF IInv

(* The thread that judges, and its first recipient. *)
LEMMA JudgeFacts ==
  ASSUME IInv, NEW t \in Senders, Judging(t)
  PROVE  LET th == thread[t]
             k  == <<th.id, th.todo[1].to>>
         IN  /\ th \in Threads /\ thread \in [Senders -> Threads] /\ th.pc = "reserve"
             /\ Active(t) /\ lock \in {Free, t}
             /\ Advanced(NextToDo(th), th) /\ NextToDo(th).parks = th.parks
             /\ Head(th.todo) = th.todo[1] /\ th.todo[1].to \in Agents
             /\ th.send \in Sends /\ th.id \in 1..MaxIds
             /\ k \in Keys /\ k \notin Seen
<1>1. /\ thread[t] \in Threads /\ thread \in [Senders -> Threads]
      /\ thread[t].pc = "reserve" /\ lock \in {Free, t} /\ Active(t)
  BY DEF IInv, TypeOK, Judging, Active
<1>2. thread[t].todo # <<>> /\ thread[t].send \in Sends /\ thread[t].id \in 1..(nextId - 1)
  BY <1>1 DEF IInv, ThreadsInOrder
<1>3. thread[t].id \in 1..MaxIds
  BY <1>2, ContractsAssumption DEF IInv, TypeOK
<1>4. /\ Advanced(NextToDo(thread[t]), thread[t])
      /\ NextToDo(thread[t]).parks = thread[t].parks
      /\ 1 \in DOMAIN thread[t].todo
      /\ Head(thread[t].todo) = thread[t].todo[1] /\ thread[t].todo[1].to \in Agents
  BY <1>1, <1>2, NextToDoIs
<1>5. <<thread[t].id, thread[t].todo[1].to>> \notin Seen
  BY <1>1, <1>4 DEF IInv, TodoIsNew
<1>6. QED
  BY <1>1, <1>2, <1>3, <1>4, <1>5, KeyParts

(* The recipient is gone. *)
LEMMA JudgeGoneStep ==
  ASSUME IInv, NEW t \in Senders, JudgeGone(t)
  PROVE  IInv'
<1> DEFINE th == thread[t]
           x  == [NextToDo(th) EXCEPT !.sawGone = TRUE]
<1>1. Judging(t) /\ FailedRow(t, requests)
  BY DEF JudgeGone
<1>2. /\ thread \in [Senders -> Threads]
      /\ Advanced(NextToDo(th), th) /\ NextToDo(th).parks = th.parks
  BY <1>1, JudgeFacts
<1>3. thread' = [thread EXCEPT ![t] = x]
  BY <1>2 DEF JudgeGone
<1>4. Advanced(x, th) /\ x.parks = th.parks
  BY <1>2 DEF Advanced, Threads
<1> HIDE DEF x, th
<1>5. QED
  BY <1>1, <1>3, <1>4, JudgeFailed DEF th

(* There is no slot. *)
LEMMA JudgeCapacityStep ==
  ASSUME IInv, NEW t \in Senders, JudgeCapacity(t)
  PROVE  IInv'
<1>1. Judging(t) /\ FailedRow(t, requests)
  BY DEF JudgeCapacity
<1>2. /\ thread \in [Senders -> Threads]
      /\ Advanced(NextToDo(thread[t]), thread[t])
      /\ NextToDo(thread[t]).parks = thread[t].parks
  BY <1>1, JudgeFacts
<1>3. thread' = [thread EXCEPT ![t] = NextToDo(thread[t])]
  BY <1>2 DEF JudgeCapacity
<1>4. QED
  BY <1>1, <1>2, <1>3, JudgeFailed

(* The mailbox is full: the reservation comes and goes within the step. *)
LEMMA JudgeMailboxFullStep ==
  ASSUME IInv, NEW t \in Senders, JudgeMailboxFull(t)
  PROVE  IInv'
<1>1. Judging(t)
  BY DEF JudgeMailboxFull
<1>2. /\ thread \in [Senders -> Threads]
      /\ Advanced(NextToDo(thread[t]), thread[t])
      /\ NextToDo(thread[t]).parks = thread[t].parks
      /\ Head(thread[t].todo) = thread[t].todo[1]
      /\ <<thread[t].id, thread[t].todo[1].to>> \notin Seen
  BY <1>1, JudgeFacts
<1>3. thread' = [thread EXCEPT ![t] = NextToDo(thread[t])]
  BY <1>2 DEF JudgeMailboxFull
<1>4. FailedRow(t, requests)
  <2> DEFINE to == thread[t].todo[1].to
             Rolled(v) == RolledBack(Opened(requests, thread[t], to, v), <<thread[t].id, to>>, v)
  <2>1. PICK v \in Displaced(t) :
          FailedRow(t, IF thread[t].send.asks THEN Rolled(v) ELSE requests)
    BY <1>2 DEF JudgeMailboxFull
  <2>2. CASE thread[t].send.asks
    <3>1. v \in VictimsFor(requests) /\ FailedRow(t, Rolled(v))
      BY <2>1, <2>2 DEF Displaced
    <3>2. <<thread[t].id, to>> \notin DOMAIN requests
      BY <1>2 DEF Seen
    <3>3. Rolled(v) = requests
      BY <3>1, <3>2, RollbackRestores
    <3>4. QED
      BY <3>1, <3>3
  <2>3. CASE ~thread[t].send.asks
    BY <2>1, <2>3
  <2>4. QED
    BY <2>2, <2>3
<1>5. QED
  BY <1>1, <1>2, <1>3, <1>4, JudgeFailed

(* A sequence with one element more. *)
LEMMA AppendIs ==
  ASSUME NEW S, NEW s \in Seq(S), NEW x \in S
  PROVE  /\ Append(s, x) \in Seq(S)
         /\ Len(s) + 1 \in DOMAIN Append(s, x) /\ Append(s, x)[Len(s) + 1] = x
         /\ Len(s) + 1 \notin DOMAIN s
         /\ \A i \in DOMAIN s : i \in DOMAIN Append(s, x) /\ Append(s, x)[i] = s[i]
         /\ \A i \in DOMAIN Append(s, x) : i \in DOMAIN s \/ i = Len(s) + 1
<1>1. /\ Append(s, x) \in Seq(S) /\ Len(Append(s, x)) = Len(s) + 1 /\ Len(s) \in Nat
      /\ DOMAIN s = 1..Len(s) /\ DOMAIN Append(s, x) = 1..(Len(s) + 1)
      /\ Append(s, x)[Len(s) + 1] = x
      /\ \A i \in 1..Len(s) : Append(s, x)[i] = s[i]
  OBVIOUS
<1> DEFINE u == Append(s, x)
<1> HIDE DEF u
<1>2. QED
  BY <1>1

(* What a new contract displaces is nothing, or an occupant that has its   *)
(* notice or needs none.                                                   *)
LEMMA VictimIs ==
  ASSUME IInv, NEW v \in VictimsFor(requests)
  PROVE  /\ v \in Keys \cup {None}
         /\ v \in DOMAIN requests =>
              /\ ~requests[v].closed /\ ~requests[v].provisional /\ ~requests[v].retiring
              /\ requests[v].notified \/ ~requests[v].deadline
         /\ v # None => v \in Occupied(requests)
         /\ v = None => OccupiedSlots(requests) < MAX_OPEN_REQUESTS
<1>1. CASE v = None /\ OccupiedSlots(requests) < MAX_OPEN_REQUESTS
  BY <1>1, KeyParts DEF IInv, TypeOK
<1>2. CASE v \in Victims(requests)
  <2>1. /\ v \in DOMAIN requests /\ Retirable(requests[v]) /\ requests[v] \in Entries
        /\ v \in Keys
    BY <1>2 DEF Victims, IInv, TypeOK
  <2>2. QED
    BY <2>1, EntryTypes, KeyParts DEF Retirable, OccupiesSlot, Occupied
<1>3. QED
  BY <1>1, <1>2 DEF VictimsFor

(* A thread with a share more to park. *)
LEMMA ReservedIs ==
  ASSUME NEW th, NEW y, Advanced(y, th),
         NEW share \in [to : Agents, victim : Keys \cup {None}]
  PROVE  /\ Advanced(Reserved(y, share), th)
         /\ Reserved(y, share).parks = Append(y.parks, share)
<1> DEFINE u == Append(y.parks, share)
<1>1. u \in Seq([to : Agents, victim : Keys \cup {None}])
  BY AppendIs DEF Advanced, Threads
<1>2. Reserved(y, share) = [y EXCEPT !.parks = u]
  BY DEF Reserved
<1> HIDE DEF u
<1>3. Advanced([y EXCEPT !.parks = u], th) /\ [y EXCEPT !.parks = u].parks = u
  BY <1>1 DEF Advanced, Threads
<1>4. QED
  BY <1>2, <1>3 DEF u

(* What a step that reserves a share does to its thread. *)
LEMMA RoomThread ==
  ASSUME IInv, NEW t \in Senders, JudgeRoom(t)
  PROVE  \E v \in Displaced(t), x \in Threads :
           /\ requests' = IF thread[t].send.asks
                          THEN Opened(requests, thread[t], thread[t].todo[1].to, v)
                          ELSE requests
           /\ thread' = [thread EXCEPT ![t] = x] /\ Advanced(x, thread[t])
           /\ x.parks = Append(thread[t].parks,
                               [to |-> thread[t].todo[1].to, victim |-> v])
           /\ thread[t].send.asks => v \in VictimsFor(requests)
           /\ v \in Keys \cup {None}
<1>1. Judging(t)
  BY DEF JudgeRoom
<1>2. /\ Advanced(NextToDo(thread[t]), thread[t])
      /\ NextToDo(thread[t]).parks = thread[t].parks
      /\ Head(thread[t].todo) = thread[t].todo[1] /\ thread[t].todo[1].to \in Agents
  BY <1>1, JudgeFacts
<1>3. PICK v \in Displaced(t) :
        /\ requests' = IF thread[t].send.asks
                       THEN Opened(requests, thread[t], Head(thread[t].todo).to, v)
                       ELSE requests
        /\ thread' = [thread EXCEPT ![t] = Reserved(NextToDo(thread[t]),
                        [to |-> Head(thread[t].todo).to, victim |-> v])]
  BY Zenon DEF JudgeRoom
<1>4. v \in Keys \cup {None} /\ (thread[t].send.asks => v \in VictimsFor(requests))
  BY VictimIs DEF Displaced
<1> DEFINE share == [to |-> thread[t].todo[1].to, victim |-> v]
           x == Reserved(NextToDo(thread[t]), share)
<1>5. share \in [to : Agents, victim : Keys \cup {None}]
  BY <1>2, <1>4
<1>6. thread' = [thread EXCEPT ![t] = x]
  BY <1>2, <1>3
<1> HIDE DEF share
<1>7. Advanced(x, thread[t]) /\ x.parks = Append(thread[t].parks, share)
  BY <1>2, <1>5, ReservedIs
<1> HIDE DEF x
<1>8. x \in Threads
  BY <1>7 DEF Advanced
<1>9. QED
  BY <1>2, <1>3, <1>4, <1>6, <1>7, <1>8 DEF share

(* A recipient with room who is asked for nothing. *)
LEMMA RoomUnasked ==
  ASSUME IInv, NEW t \in Senders, JudgeRoom(t), ~thread[t].send.asks
  PROVE  IInv'
<1>1. /\ Judging(t) /\ lock' = t
      /\ UNCHANGED <<history, sweeper, deleted, cleanups, clock, nextId, promised,
                     answered, failed, notices>>
  BY DEF JudgeRoom, ghosts
<1>2. thread \in [Senders -> Threads] /\ lock \in {Free, t}
  BY <1>1, JudgeFacts
<1>3. PICK x \in Threads : /\ requests' = requests
                           /\ thread' = [thread EXCEPT ![t] = x]
                           /\ Advanced(x, thread[t])
  BY RoomThread
<1>6. /\ thread'[t] = x /\ \A u \in Senders \ {t} : thread'[u] = thread[u]
      /\ x.id = thread[t].id /\ x.pc \in {"reserve", "park"} /\ x.send = thread[t].send
  BY <1>2, <1>3 DEF Advanced
<1>7. Seen' = Seen /\ Noticed' = Noticed
  BY <1>1, <1>3 DEF Seen, Noticed
<1>8. ThreadsInOrder' /\ TodoIsNew' /\ SeenIsOld'
  BY <1>1, <1>3, <1>7, JudgeThreads
<1>9. ~Asking /\ ~Asking'
  BY <1>1, <1>2, <1>6 DEF Asking
<1>10. SharesReserved' /\ ReservationsOwned'
  BY <1>1, <1>3, <1>9 DEF IInv, SharesReserved, ReservationsOwned
<1>11. Trimmed(requests')
  BY <1>1, <1>3 DEF Trimmed, IInv, TypeOK, VerdictsAgree
<1>12. \A u \in Senders : Active(u)' => Active(u) /\ thread'[u].id = thread[u].id
  BY <1>1, <1>6 DEF Active, Judging
<1>13. \A k \in answered \cup failed : k[1] # 0
  BY KeyParts DEF IInv, TypeOK
<1>14. VerdictsAgree' /\ PromiseKept' /\ SlotBound'
  BY <1>1, <1>7, <1>11, <1>12, <1>13, TrimKeeps
<1>15. NoticesAgree'
  BY <1>1, <1>3, <1>7 DEF IInv, NoticesAgree
<1>16. TypeOK'
  <2>1. thread' \in [Senders -> Threads]
    BY <1>2, <1>3
  <2>2. QED
    BY <1>1, <1>3, <2>1 DEF IInv, TypeOK
<1>17. QED
  BY <1>8, <1>10, <1>14, <1>15, <1>16 DEF IInv

(* A contract is opened, and maybe another marked to make room for it. *)
LEMMA RoomAsked ==
  ASSUME IInv, NEW t \in Senders, JudgeRoom(t), thread[t].send.asks
  PROVE  IInv'
<1> DEFINE th == thread[t]
           k == <<th.id, th.todo[1].to>>
<1>1. /\ Judging(t) /\ lock' = t
      /\ UNCHANGED <<history, sweeper, deleted, cleanups, clock, nextId, promised,
                     answered, failed, notices>>
  BY DEF JudgeRoom, ghosts
<1>2. /\ thread \in [Senders -> Threads] /\ th \in Threads /\ lock \in {Free, t}
      /\ th.todo[1].to \in Agents /\ th.send \in Sends /\ k \in Keys /\ k \notin Seen
      /\ th.pc = "reserve"
  BY <1>1, JudgeFacts
<1>3. PICK v \in VictimsFor(requests), x \in Threads :
        /\ requests' = Opened(requests, th, th.todo[1].to, v)
        /\ thread' = [thread EXCEPT ![t] = x] /\ Advanced(x, th)
        /\ x.parks = Append(th.parks, [to |-> th.todo[1].to, victim |-> v])
  BY RoomThread
<1>4. /\ v \in Keys \cup {None}
      /\ v \in DOMAIN requests =>
           /\ ~requests[v].closed /\ ~requests[v].provisional /\ ~requests[v].retiring
           /\ requests[v].notified \/ ~requests[v].deadline
      /\ v # None => v \in Occupied(requests)
      /\ v = None => OccupiedSlots(requests) < MAX_OPEN_REQUESTS
  BY VictimIs
<1>5. /\ thread'[t] = x /\ \A u \in Senders \ {t} : thread'[u] = thread[u]
      /\ x.id = th.id /\ x.pc \in {"reserve", "park"} /\ x.send = th.send
  BY <1>2, <1>3 DEF Advanced
<1>6. /\ k \notin DOMAIN requests /\ k \notin promised /\ k \notin answered \cup failed
      /\ k \notin Noticed
  BY <1>2 DEF Seen
<1>7. /\ DOMAIN requests' = DOMAIN requests \cup {k}
      /\ requests' = [j \in DOMAIN requests' |-> requests'[j]]
      /\ requests'[k] = Provisional(th, v)
      /\ \A j \in DOMAIN requests :
           requests'[j] = IF j = v THEN [requests[j] EXCEPT !.retiring = TRUE]
                          ELSE requests[j]
  BY <1>3, <1>6 DEF Opened, WithMark
<1>8. /\ requests'[k] \in Entries /\ requests'[k].deadline = th.send.deadline
      /\ ~requests'[k].closed /\ ~requests'[k].notified /\ ~requests'[k].retiring
      /\ requests'[k].provisional
  <2>1. th.send.from \in Agents /\ th.send.deadline \in BOOLEAN /\ th.now \in 0..MaxTime
    BY <1>2, ContractsAssumption DEF Threads
  <2>2. QED
    BY <1>4, <1>7, <2>1 DEF Provisional, Entries
<1> HIDE DEF th, k
<1>9. \A j \in DOMAIN requests :
        /\ requests'[j] \in Entries
        /\ requests'[j].closed = requests[j].closed
        /\ requests'[j].notified = requests[j].notified
        /\ requests'[j].deadline = requests[j].deadline
        /\ requests'[j].provisional = requests[j].provisional
        /\ requests'[j].victim = requests[j].victim
        /\ requests'[j].retiring = IF j = v THEN TRUE ELSE requests[j].retiring
  <2> SUFFICES ASSUME NEW j \in DOMAIN requests
               PROVE  /\ requests'[j] \in Entries
                      /\ requests'[j].closed = requests[j].closed
                      /\ requests'[j].notified = requests[j].notified
                      /\ requests'[j].deadline = requests[j].deadline
                      /\ requests'[j].provisional = requests[j].provisional
                      /\ requests'[j].victim = requests[j].victim
                      /\ requests'[j].retiring = IF j = v THEN TRUE
                                                 ELSE requests[j].retiring
    OBVIOUS
  <2>1. requests[j] \in Entries
    BY DEF IInv, TypeOK
  <2>2. QED
    BY <1>7, <2>1 DEF Entries
<1>10. Seen' \subseteq Seen \cup {k} /\ Noticed' = Noticed
  BY <1>1, <1>7 DEF Seen, Noticed
<1>11. ThreadsInOrder' /\ TodoIsNew' /\ SeenIsOld'
  <2>1. Seen' \subseteq Seen \cup {<<thread[t].id, thread[t].todo[1].to>>}
    BY <1>10 DEF th, k
  <2>2. Advanced(x, thread[t]) /\ thread' = [thread EXCEPT ![t] = x]
    BY <1>3 DEF th
  <2>3. QED
    BY <1>1, <2>1, <2>2, JudgeThreads
<1>12. \A u \in Senders : Active(u)' => Active(u) /\ thread'[u].id = thread[u].id
  BY <1>2, <1>5 DEF Active, th
<1>13. VerdictsAgree'
  <2>1. \A j \in DOMAIN requests' :
          /\ requests'[j].closed <=> j \in (answered \cup failed)'
          /\ requests'[j].closed => j[1] \in ToSet(history)'
    <3> SUFFICES ASSUME NEW j \in DOMAIN requests'
                 PROVE  /\ requests'[j].closed <=> j \in answered \cup failed
                        /\ requests'[j].closed => j[1] \in ToSet(history)
      BY <1>1
    <3>1. CASE j = k
      BY <1>6, <1>8, <3>1
    <3>2. CASE j # k
      BY <1>7, <1>9, <3>2 DEF IInv, VerdictsAgree
    <3>3. QED
      BY <3>1, <3>2
  <2>2. QED
    BY <1>1, <1>7, <1>12, <2>1 DEF IInv, VerdictsAgree
<1>14. NoticesAgree'
  <2>1. ASSUME NEW j \in DOMAIN requests'
        PROVE  /\ requests'[j].notified => j \in (Noticed \cup answered \cup failed)'
               /\ j \in Noticed' => requests'[j].notified
               /\ j \in promised' => requests'[j].deadline
    <3>1. CASE j = k
      BY <1>1, <1>6, <1>8, <1>10, <3>1
    <3>2. CASE j # k
      BY <1>1, <1>7, <1>9, <1>10, <3>2 DEF IInv, NoticesAgree
    <3>3. QED
      BY <3>1, <3>2
  <2>2. QED
    BY <1>1, <2>1 DEF IInv, NoticesAgree
<1>15. PromiseKept'
  <2> SUFFICES ASSUME NEW j \in promised
               PROVE  \/ j \in DOMAIN requests' /\ ~requests'[j].closed
                      \/ j \in answered \cup failed \cup Noticed
    BY <1>1, <1>10 DEF PromiseKept, Noticed
  <2>1. \/ j \in DOMAIN requests /\ ~requests[j].closed
        \/ j \in answered \cup failed \cup Noticed
    BY DEF IInv, PromiseKept, Noticed
  <2>2. QED
    BY <1>7, <1>9, <2>1
<1>16. SlotBound'
  <2> DEFINE A == Occupied(requests)
             B == Occupied(requests')
  <2>1. A \subseteq Keys /\ k \notin A
    BY <1>6 DEF IInv, TypeOK, Occupied
  <2>2. IsFiniteSet(A) /\ Cardinality(A) \in Nat /\ Cardinality(A) <= MAX_OPEN_REQUESTS
        /\ MAX_OPEN_REQUESTS \in Nat
    BY <2>1, KeysFinite, FS_Subset, FS_CardinalityType, ContractsAssumption
       DEF IInv, SlotBound, OccupiedSlots
  <2>3. \A j \in B : j = k \/ (j \in A /\ j # v)
    BY <1>7, <1>9 DEF Occupied, OccupiesSlot
  <2> HIDE DEF A, B
  <2>4. CASE v = None
    <3>1. Cardinality(A) < MAX_OPEN_REQUESTS
      BY <1>4, <2>4 DEF OccupiedSlots, A
    <3>2. IsFiniteSet(A \cup {k}) /\ Cardinality(A \cup {k}) = Cardinality(A) + 1
      BY <2>1, <2>2, FS_AddElement
    <3>3. B \subseteq A \cup {k}
      BY <2>3
    <3>4. Cardinality(B) <= Cardinality(A) + 1 /\ Cardinality(B) \in Nat
      BY <3>2, <3>3, FS_Subset, FS_CardinalityType
    <3>5. QED
      BY <2>2, <3>1, <3>4 DEF SlotBound, OccupiedSlots, B
  <2>5. CASE v # None
    <3> DEFINE C == A \ {v}
    <3>1. v \in A
      BY <1>4, <2>5 DEF A
    <3>2. IsFiniteSet(C) /\ Cardinality(C) = Cardinality(A) - 1 /\ k \notin C
      BY <2>1, <2>2, <3>1, FS_RemoveElement
    <3>3. B \subseteq C \cup {k}
      BY <2>3
    <3> HIDE DEF C
    <3>4. IsFiniteSet(C \cup {k}) /\ Cardinality(C \cup {k}) = Cardinality(C) + 1
      BY <3>2, FS_AddElement
    <3>5. Cardinality(B) <= Cardinality(C) + 1 /\ Cardinality(B) \in Nat
      BY <3>3, <3>4, FS_Subset, FS_CardinalityType
    <3>6. QED
      BY <2>2, <3>2, <3>5 DEF SlotBound, OccupiedSlots, B
  <2>6. QED
    BY <2>4, <2>5
<1> DEFINE P == th.parks
           Q == x.parks
           n == Len(th.parks) + 1
<1>17. /\ n \in DOMAIN Q /\ Q[n] = [to |-> th.todo[1].to, victim |-> v]
       /\ n \notin DOMAIN P
       /\ \A i \in DOMAIN P : i \in DOMAIN Q /\ Q[i] = P[i]
       /\ \A i \in DOMAIN Q : i \in DOMAIN P \/ i = n
  <2> DEFINE share == [to |-> th.todo[1].to, victim |-> v]
             S == [to : Agents, victim : Keys \cup {None}]
  <2>1. share \in S /\ P \in Seq(S)
    BY <1>2, <1>4 DEF Threads, th
  <2>2. Q = Append(P, share)
    BY <1>3
  <2> HIDE DEF share, S, P, Q
  <2>3. QED
    BY <2>1, <2>2, AppendIs DEF n, P, share
<1>18. /\ Q[n].to = th.todo[1].to /\ Q[n].victim = v
  BY <1>17
<1>19. /\ Free \notin Senders /\ Asking' /\ (lock = t => Asking) /\ (Asking => lock = t)
       /\ (lock = Free => DOMAIN P = {})
  <2>1. Free \notin Senders
    BY ContractsAssumption
  <2>2. lock = Free => thread[t].parks = <<>>
    BY <2>1 DEF IInv, ThreadsInOrder
  <2>3. DOMAIN <<>> = {}
    OBVIOUS
  <2>4. QED
    BY <1>1, <1>2, <1>5, <2>1, <2>2, <2>3 DEF Asking, th
<1> HIDE DEF n
<1>20. SharesReserved'
  <2>1. \A i \in DOMAIN P :
          /\ <<th.id, P[i].to>> \in DOMAIN requests
          /\ requests[<<th.id, P[i].to>>].provisional
          /\ requests[<<th.id, P[i].to>>].deadline = th.send.deadline
          /\ \A j \in DOMAIN P : P[i].to = P[j].to => i = j
    <3>1. CASE lock = t
      BY <1>19, <3>1 DEF IInv, SharesReserved, th
    <3>2. CASE lock = Free
      BY <1>19, <3>2
    <3>3. QED
      BY <1>2, <3>1, <3>2
  <2>2. \A i \in DOMAIN P : <<th.id, P[i].to>> # v /\ P[i].to # th.todo[1].to
    BY <1>4, <1>6, <2>1 DEF k
  <2>3. ASSUME NEW i \in DOMAIN Q, NEW j \in DOMAIN Q, Q[i].to = Q[j].to
        PROVE  i = j
    <3>1. CASE i \in DOMAIN P /\ j \in DOMAIN P
      <4>1. Q[i] = P[i] /\ Q[j] = P[j]
        BY <1>17, <3>1
      <4>2. QED
        BY <2>1, <2>3, <3>1, <4>1
    <3>2. CASE i = n /\ j \in DOMAIN P
      <4>1. Q[j] = P[j]
        BY <1>17, <3>2
      <4>2. QED
        BY <1>18, <2>2, <2>3, <3>2, <4>1
    <3>3. CASE i \in DOMAIN P /\ j = n
      <4>1. Q[i] = P[i]
        BY <1>17, <3>3
      <4>2. QED
        BY <1>18, <2>2, <2>3, <3>3, <4>1
    <3>4. QED
      BY <1>17, <3>1, <3>2, <3>3
  <2>4. ASSUME NEW i \in DOMAIN Q
        PROVE  /\ <<th.id, Q[i].to>> \in DOMAIN requests'
               /\ requests'[<<th.id, Q[i].to>>].provisional
               /\ requests'[<<th.id, Q[i].to>>].deadline = th.send.deadline
    <3>1. CASE i = n
      <4>1. <<th.id, Q[i].to>> = k
        BY <1>18, <3>1 DEF k
      <4>2. QED
        BY <1>7, <1>8, <4>1
    <3>2. CASE i \in DOMAIN P
      <4>1. Q[i] = P[i]
        BY <1>17, <3>2
      <4>2. /\ <<th.id, P[i].to>> \in DOMAIN requests
            /\ requests[<<th.id, P[i].to>>].provisional
            /\ requests[<<th.id, P[i].to>>].deadline = th.send.deadline
        BY <2>1, <3>2
      <4> DEFINE kk == <<th.id, P[i].to>>
      <4>3. kk \in DOMAIN requests /\ requests[kk].provisional
            /\ requests[kk].deadline = th.send.deadline
        BY <4>2
      <4> HIDE DEF kk
      <4>4. kk \in DOMAIN requests' /\ requests'[kk].provisional
            /\ requests'[kk].deadline = th.send.deadline
        BY <1>7, <1>9, <4>3
      <4>5. QED
        BY <4>1, <4>4 DEF kk
    <3>3. QED
      BY <1>17, <3>1, <3>2
  <2>5. thread'[lock'] = x /\ x.id = th.id /\ x.send = th.send
    BY <1>1, <1>5
  <2>6. QED
    BY <2>3, <2>4, <2>5 DEF SharesReserved
<1>21. ReservationsOwned'
  <2> SUFFICES ASSUME NEW j \in DOMAIN requests'
               PROVE  /\ requests'[j].victim # None => requests'[j].provisional
                      /\ requests'[j].provisional =>
                           /\ Asking' /\ ~requests'[j].closed /\ ~requests'[j].notified
                           /\ j \notin promised'
                           /\ \E i \in DOMAIN Q : j = <<th.id, Q[i].to>>
                      /\ requests'[j].retiring =>
                           /\ Asking' /\ ~requests'[j].closed /\ ~requests'[j].provisional
                           /\ requests'[j].notified \/ ~requests'[j].deadline
                           /\ \E i \in DOMAIN Q : j = Q[i].victim
    BY <1>1, <1>5 DEF ReservationsOwned
  <2>1. CASE j = k
    <3>1. k = <<th.id, Q[n].to>>
      BY <1>18 DEF k
    <3>2. QED
      BY <1>1, <1>6, <1>8, <1>17, <1>19, <2>1, <3>1
  <2>2. CASE j # k
    <3>1. /\ j \in DOMAIN requests
          /\ requests[j].victim # None => requests[j].provisional
          /\ requests[j].provisional =>
               /\ Asking /\ ~requests[j].closed /\ ~requests[j].notified
               /\ j \notin promised
               /\ \E i \in DOMAIN P : j = <<th.id, P[i].to>>
          /\ requests[j].retiring =>
               /\ Asking /\ ~requests[j].closed /\ ~requests[j].provisional
               /\ requests[j].notified \/ ~requests[j].deadline
               /\ \E i \in DOMAIN P : j = P[i].victim
      BY <1>7, <1>19, <2>2 DEF IInv, ReservationsOwned, th
    <3>2. CASE j = v
      <4>1. ~requests[j].closed /\ ~requests[j].provisional
            /\ (requests[j].notified \/ ~requests[j].deadline)
        BY <1>4, <3>1, <3>2
      <4>2. \E i \in DOMAIN Q : j = Q[i].victim
        BY <1>17, <1>18, <3>2
      <4>3. QED
        BY <1>9, <1>19, <3>1, <4>1, <4>2
    <3>3. CASE j # v
      <4>1. requests'[j].retiring = requests[j].retiring
        BY <1>9, <3>1, <3>3
      <4>2. (\E i \in DOMAIN P : j = P[i].victim) => (\E i \in DOMAIN Q : j = Q[i].victim)
        BY <1>17
      <4>3. /\ (\E i \in DOMAIN P : j = <<th.id, P[i].to>>) =>
                 (\E i \in DOMAIN Q : j = <<th.id, Q[i].to>>)
        BY <1>17
      <4>4. QED
        BY <1>1, <1>9, <1>19, <3>1, <4>1, <4>2, <4>3
    <3>4. QED
      BY <3>2, <3>3
  <2>3. QED
    BY <2>1, <2>2
<1>22. TypeOK'
  <2>1. DOMAIN requests' \subseteq Keys /\ requests' \in [DOMAIN requests' -> Entries]
    BY <1>2, <1>7, <1>8, <1>9 DEF IInv, TypeOK, k, th
  <2>2. thread' \in [Senders -> Threads]
    BY <1>2, <1>3
  <2>3. QED
    BY <1>1, <2>1, <2>2 DEF IInv, TypeOK
<1>23. QED
  BY <1>11, <1>13, <1>14, <1>15, <1>16, <1>20, <1>21, <1>22 DEF IInv

(* A recipient with room. *)
LEMMA JudgeRoomStep ==
  ASSUME IInv, NEW t \in Senders, JudgeRoom(t)
  PROVE  IInv'
BY RoomAsked, RoomUnasked

-----------------------------------------------------------------------------
(* Steps that close contracts *)

\* A thread goes on with the same recipients, or is done failing a reply.
GoesOn(u) ==
  \/ /\ thread'[u].pc = thread[u].pc /\ thread'[u].id = thread[u].id
     /\ thread'[u].todo = thread[u].todo /\ thread'[u].send = thread[u].send
     /\ thread'[u].re = thread[u].re
     /\ lock # u => thread'[u].parks = thread[u].parks
  \/ thread[u].pc = "failReply" /\ lock # u /\ thread'[u] = Rest

(* Threads whose recipients are as before are in order as before. *)
LEMMA ThreadsKept ==
  ASSUME IInv, UNCHANGED <<lock, nextId>>, Seen' \subseteq Seen,
         \A u \in Senders : GoesOn(u)
  PROVE  /\ ThreadsInOrder' /\ TodoIsNew' /\ SeenIsOld'
         /\ \A u \in Senders : Active(u)' => Active(u) /\ thread'[u].id = thread[u].id
<1>1. /\ Rest.pc = "idle" /\ Rest.re = 0 /\ Rest.parks = <<>> /\ Rest.todo = <<>>
  BY DEF Rest
<1>2. \A u \in Senders :
        /\ Active(u)' => Active(u) /\ thread'[u].id = thread[u].id
        /\ thread'[u].pc # "idle" =>
             /\ thread'[u].pc = thread[u].pc /\ thread'[u].id = thread[u].id
             /\ thread'[u].todo = thread[u].todo /\ thread'[u].send = thread[u].send
             /\ thread'[u].re = thread[u].re
  BY <1>1 DEF GoesOn, Active
<1>3. ThreadsInOrder'
  <2>1. lock' # Free => Active(lock)'
    <3> SUFFICES ASSUME lock # Free
                 PROVE  thread'[lock].pc \in {"reserve", "park"}
      BY DEF Active
    <3>1. lock \in Senders /\ thread[lock].pc \in {"reserve", "park"}
      BY DEF IInv, ThreadsInOrder, TypeOK, Active
    <3>2. QED
      BY <3>1 DEF GoesOn
  <2>2. ASSUME NEW u \in Senders
        PROVE  /\ thread'[u].pc = "park" => lock' = u
               /\ thread'[u].pc = "reserve" => thread'[u].todo # <<>>
               /\ lock' # u => thread'[u].parks = <<>>
               /\ thread'[u].pc # "idle" => thread'[u].send \in Sends
               /\ thread'[u].re # 0 => thread'[u].send.replies
               /\ Active(u)' => /\ thread'[u].id \in 1..(nextId' - 1)
                                /\ thread'[u].re < thread'[u].id
    <3>1. /\ thread[u].pc = "park" => lock = u
          /\ thread[u].pc = "reserve" => thread[u].todo # <<>>
          /\ lock # u => thread[u].parks = <<>>
          /\ thread[u].pc # "idle" => thread[u].send \in Sends
          /\ thread[u].re # 0 => thread[u].send.replies
          /\ Active(u) => thread[u].id \in 1..(nextId - 1) /\ thread[u].re < thread[u].id
      BY DEF IInv, ThreadsInOrder
    <3>2. QED
      BY <1>1, <1>2, <3>1 DEF GoesOn, Active
  <2>3. \A u, w \in Senders : Active(u)' /\ Active(w)' /\ u # w =>
                                thread'[u].id # thread'[w].id
    BY <1>2 DEF IInv, ThreadsInOrder
  <2>4. QED
    BY <2>1, <2>2, <2>3 DEF ThreadsInOrder
<1>4. TodoIsNew'
  <2> SUFFICES ASSUME NEW u \in Senders, thread'[u].pc = "reserve"
               PROVE  /\ \A i, j \in DOMAIN thread'[u].todo :
                           thread'[u].todo[i].to = thread'[u].todo[j].to => i = j
                      /\ \A i \in DOMAIN thread'[u].todo :
                           <<thread'[u].id, thread'[u].todo[i].to>> \notin Seen'
    BY DEF TodoIsNew
  <2>1. /\ thread[u].pc = "reserve" /\ thread'[u].id = thread[u].id
        /\ thread'[u].todo = thread[u].todo
    BY <1>2
  <2>2. /\ \A i, j \in DOMAIN thread[u].todo :
             thread[u].todo[i].to = thread[u].todo[j].to => i = j
        /\ \A i \in DOMAIN thread[u].todo : <<thread[u].id, thread[u].todo[i].to>> \notin Seen
    BY <2>1 DEF IInv, TodoIsNew
  <2>3. QED
    BY <2>1, <2>2
<1>5. SeenIsOld'
  BY <1>2 DEF IInv, SeenIsOld
<1>6. QED
  BY <1>2, <1>3, <1>4, <1>5

\* The contracts of keys are closed; finished ones without history are gone.
Closes(keys) ==
  /\ requests' = [k \in DOMAIN requests' |-> requests'[k]]
  /\ DOMAIN requests' \subseteq DOMAIN requests
  /\ \A k \in DOMAIN requests' :
       /\ requests'[k] \in Entries
       /\ requests'[k].closed <=> k \in keys \/ requests[k].closed
       /\ requests'[k].closed => k[1] \in ToSet(history')
       /\ requests'[k].notified = requests[k].notified
       /\ requests'[k].deadline = requests[k].deadline
       /\ requests'[k].provisional = requests[k].provisional
       /\ requests'[k].retiring = requests[k].retiring
       /\ requests'[k].victim = requests[k].victim
  /\ \A k \in DOMAIN requests \ DOMAIN requests' :
       (k \in keys \/ requests[k].closed) /\ k[1] \notin ToSet(history')

(* The tail the closing operations share. *)
LEMMA ClosedCloses ==
  ASSUME IInv, NEW rs, Trimmed(rs), NEW keys \in SUBSET DOMAIN rs, NEW b \in BOOLEAN,
         \A k \in DOMAIN requests : ~requests[k].provisional,
         requests' = Closed(rs, history', keys, b)
  PROVE  Closes(keys)
<1>1. /\ DOMAIN rs \subseteq DOMAIN requests /\ rs = [k \in DOMAIN rs |-> rs[k]]
      /\ \A k \in DOMAIN rs : rs[k] = requests[k] /\ rs[k] \in Entries
      /\ \A k \in DOMAIN rs : requests[k].closed => k[1] \in ToSet(history')
      /\ \A k \in DOMAIN requests \ DOMAIN rs :
           requests[k].closed /\ k[1] \notin ToSet(history')
  BY DEF Trimmed, IInv, TypeOK
<1>2. CASE keys = {}
  <2>1. requests' = rs
    BY <1>2 DEF Closed
  <2>2. QED
    BY <1>1, <1>2, <2>1 DEF Closes
<1>3. CASE keys # {}
  <2> DEFINE ms == Marked(rs, keys, b)
             ps == Purge(ms, history')
  <2>1. requests' = ps
    BY <1>3 DEF Closed
  <2>2. /\ DOMAIN ms = DOMAIN rs
        /\ \A k \in DOMAIN rs :
             ms[k] = IF k \in keys
                     THEN [rs[k] EXCEPT !.closed = TRUE, !.replyFailed = b] ELSE rs[k]
    BY DEF Marked
  <2> HIDE DEF ms
  <2>3. /\ \A k : k \in DOMAIN ps <=>
                    /\ k \in DOMAIN ms
                    /\ ~ms[k].closed \/ ms[k].provisional \/ k[1] \in ToSet(history')
        /\ \A k \in DOMAIN ps : ps[k] = ms[k]
        /\ ps = [k \in DOMAIN ps |-> ps[k]]
    BY PurgeEffect
  <2> HIDE DEF ps
  <2>4. ASSUME NEW k \in DOMAIN rs
        PROVE  /\ ms[k] \in Entries /\ ms[k].closed \in BOOLEAN
               /\ ms[k].closed <=> k \in keys \/ requests[k].closed
               /\ ms[k].notified = requests[k].notified
               /\ ms[k].deadline = requests[k].deadline
               /\ ms[k].provisional = requests[k].provisional
               /\ ms[k].retiring = requests[k].retiring
               /\ ms[k].victim = requests[k].victim
    <3>1. rs[k] = requests[k] /\ rs[k] \in Entries
      BY <1>1
    <3>2. CASE k \in keys
      BY <2>2, <3>1, <3>2 DEF Entries
    <3>3. CASE k \notin keys
      BY <2>2, <3>1, <3>3 DEF Entries
    <3>4. QED
      BY <3>2, <3>3
  <2>5. \A k \in DOMAIN rs : ~ms[k].provisional
    BY <1>1, <2>4
  <2>6. \A k \in DOMAIN ps :
          /\ ps[k] \in Entries
          /\ ps[k].closed <=> k \in keys \/ requests[k].closed
          /\ ps[k].closed => k[1] \in ToSet(history')
          /\ ps[k].notified = requests[k].notified
          /\ ps[k].deadline = requests[k].deadline
          /\ ps[k].provisional = requests[k].provisional
          /\ ps[k].retiring = requests[k].retiring
          /\ ps[k].victim = requests[k].victim
    BY <2>2, <2>3, <2>4, <2>5
  <2>7. \A k \in DOMAIN requests \ DOMAIN ps :
          (k \in keys \/ requests[k].closed) /\ k[1] \notin ToSet(history')
    BY <1>1, <2>2, <2>3, <2>4
  <2>8. DOMAIN ps \subseteq DOMAIN requests
    BY <1>1, <2>2, <2>3
  <2>9. QED
    BY <2>1, <2>3, <2>6, <2>7, <2>8 DEF Closes
<1>4. QED
  BY <1>2, <1>3

(* Closing contracts with a verdict of their own. *)
LEMMA ClosesKeeps ==
  ASSUME IInv, NEW keys \in SUBSET DOMAIN requests, Closes(keys),
         UNCHANGED promised, Noticed' = Noticed,
         answered' \cap failed' = {},
         answered' \cup failed' = answered \cup failed \cup keys,
         NEW x, ToSet(history)' \subseteq ToSet(history) \cup {x},
         \A k \in answered \cup failed : k[1] # x,
         \A u \in Senders : Active(u)' => Active(u) /\ thread'[u].id = thread[u].id,
         \A k \in keys, u \in Senders : Active(u) => thread[u].id # k[1]
  PROVE  /\ VerdictsAgree' /\ PromiseKept' /\ SlotBound' /\ Seen' \subseteq Seen
         /\ \A k \in DOMAIN requests' :
              /\ requests'[k].notified => k \in (Noticed \cup answered \cup failed)'
              /\ k \in Noticed' => requests'[k].notified
              /\ k \in promised' => requests'[k].deadline
<1>1. /\ DOMAIN requests' \subseteq DOMAIN requests
      /\ \A k \in DOMAIN requests' :
           /\ requests'[k].closed <=> k \in keys \/ requests[k].closed
           /\ requests'[k].closed => k[1] \in ToSet(history')
           /\ requests'[k].notified = requests[k].notified
           /\ requests'[k].deadline = requests[k].deadline
           /\ requests'[k].provisional = requests[k].provisional
           /\ requests'[k].retiring = requests[k].retiring
      /\ \A k \in DOMAIN requests \ DOMAIN requests' :
           (k \in keys \/ requests[k].closed) /\ k[1] \notin ToSet(history')
  BY DEF Closes
<1>2. VerdictsAgree'
  <2>1. (answered \cap failed = {})'
    OBVIOUS
  <2>2. \A k \in DOMAIN requests' :
          /\ requests'[k].closed <=> k \in (answered \cup failed)'
          /\ requests'[k].closed => k[1] \in ToSet(history)'
    BY <1>1 DEF IInv, VerdictsAgree
  <2>3. ASSUME NEW k \in (answered \cup failed)'
        PROVE  /\ k \in DOMAIN requests' \/ k[1] \notin ToSet(history)'
               /\ \A u \in Senders : Active(u)' => thread'[u].id # k[1]
    <3>1. CASE k \in keys
      BY <1>1, <3>1
    <3>2. CASE k \in answered \cup failed
      <4>1. /\ k \in DOMAIN requests \/ k[1] \notin ToSet(history)
            /\ \A u \in Senders : Active(u) => thread[u].id # k[1]
        BY <3>2 DEF IInv, VerdictsAgree
      <4>2. k[1] # x
        BY <3>2
      <4>3. QED
        BY <1>1, <4>1, <4>2
    <3>3. QED
      BY <3>1, <3>2
  <2>4. QED
    BY <2>1, <2>2, <2>3 DEF VerdictsAgree
<1>3. PromiseKept'
  <2> SUFFICES ASSUME NEW k \in promised
               PROVE  \/ k \in DOMAIN requests' /\ ~requests'[k].closed
                      \/ k \in answered' \cup failed' \cup Noticed
    BY DEF PromiseKept, Noticed
  <2>1. \/ k \in DOMAIN requests /\ ~requests[k].closed
        \/ k \in answered \cup failed \cup Noticed
    BY DEF IInv, PromiseKept, Noticed
  <2>2. QED
    BY <1>1, <2>1
<1>4. SlotBound'
  <2>1. Occupied(requests)' \subseteq Occupied(requests)
    BY <1>1 DEF Occupied, OccupiesSlot
  <2>2. QED
    BY <2>1, SlotsShrink
<1>5. Seen' \subseteq Seen
  BY <1>1 DEF Seen
<1>6. \A k \in DOMAIN requests' :
        /\ requests'[k].notified => k \in (Noticed \cup answered \cup failed)'
        /\ k \in Noticed' => requests'[k].notified
        /\ k \in promised' => requests'[k].deadline
  BY <1>1 DEF IInv, NoticesAgree
<1>7. QED
  BY <1>2, <1>3, <1>4, <1>5, <1>6

(* With nobody asking, and no mark on any contract, nothing is reserved. *)
LEMMA NobodyReserves ==
  ASSUME ~Asking',
         \A k \in DOMAIN requests' : /\ ~requests'[k].provisional /\ ~requests'[k].retiring
                                    /\ requests'[k].victim = None
  PROVE  SharesReserved' /\ ReservationsOwned'
<1>1. SharesReserved'
  BY DEF SharesReserved
<1>2. ReservationsOwned'
  BY DEF ReservationsOwned
<1>3. QED
  BY <1>1, <1>2

(* Contracts closed as failed, with nobody inside. *)
LEMMA FailCloses ==
  ASSUME IInv, lock = Free, NEW keys \in SUBSET DOMAIN requests,
         \A k \in keys : ~requests[k].closed,
         requests' = Closed(requests, history, keys, TRUE), failed' = failed \cup keys,
         UNCHANGED <<lock, history, sweeper, deleted, clock, nextId, promised,
                     answered, notices>>,
         \A u \in Senders : GoesOn(u), thread' \in [Senders -> Threads],
         cleanups' \subseteq cleanups
  PROVE  IInv'
<1>1. ~Asking /\ ~Asking' /\ Free \notin Senders
  BY ContractsAssumption DEF Asking
<1>2. \A k \in DOMAIN requests : /\ ~requests[k].provisional /\ ~requests[k].retiring
                                 /\ requests[k].victim = None
  BY <1>1 DEF IInv, ReservationsOwned
<1>3. Trimmed(requests)
  BY DEF Trimmed, IInv, TypeOK, VerdictsAgree
<1>4. Closes(keys)
  BY <1>2, <1>3, ClosedCloses
<1>5. Noticed' = Noticed
  BY DEF Noticed
<1>6. answered' \cap failed' = {} /\ answered' \cup failed' = answered \cup failed \cup keys
  BY DEF IInv, VerdictsAgree
<1>7. \A k \in keys, u \in Senders : Active(u) => thread[u].id # k[1]
  BY <1>1 DEF IInv, SeenIsOld, Seen
<1>8. Seen' \subseteq Seen
  BY <1>4, <1>5, <1>6 DEF Seen, Closes
<1>9. /\ ThreadsInOrder' /\ TodoIsNew' /\ SeenIsOld'
      /\ \A u \in Senders : Active(u)' => Active(u) /\ thread'[u].id = thread[u].id
  BY <1>8, ThreadsKept
<1>10. \A k \in answered \cup failed : k[1] # 0
  BY KeyParts DEF IInv, TypeOK
<1>11. /\ VerdictsAgree' /\ PromiseKept' /\ SlotBound'
       /\ \A k \in DOMAIN requests' :
            /\ requests'[k].notified => k \in (Noticed \cup answered \cup failed)'
            /\ k \in Noticed' => requests'[k].notified
            /\ k \in promised' => requests'[k].deadline
  BY <1>4, <1>5, <1>6, <1>7, <1>9, <1>10, ClosesKeeps
<1>12. NoticesAgree'
  BY <1>11 DEF IInv, NoticesAgree
<1>13. SharesReserved' /\ ReservationsOwned'
  <2>1. \A k \in DOMAIN requests' : /\ ~requests'[k].provisional /\ ~requests'[k].retiring
                                    /\ requests'[k].victim = None
    <3>1. \A k \in DOMAIN requests' :
            /\ k \in DOMAIN requests
            /\ requests'[k].provisional = requests[k].provisional
            /\ requests'[k].retiring = requests[k].retiring
            /\ requests'[k].victim = requests[k].victim
      BY <1>4 DEF Closes
    <3>2. QED
      BY <1>2, <3>1
  <2>2. QED
    BY <1>1, <2>1, NobodyReserves
<1>14. TypeOK'
  <2>1. DOMAIN requests' \subseteq Keys /\ requests' \in [DOMAIN requests' -> Entries]
    BY <1>4 DEF Closes, IInv, TypeOK
  <2>2. failed' \subseteq Keys
    BY DEF IInv, TypeOK
  <2>3. QED
    BY <2>1, <2>2 DEF IInv, TypeOK
<1>15. QED
  BY <1>9, <1>11, <1>12, <1>13, <1>14 DEF IInv

(* The idle thread is a thread. *)
LEMMA RestTyped == Rest \in Threads
<1> DEFINE e == <<>>
<1>1. /\ e \in Seq([to : Agents, gone : BOOLEAN])
      /\ e \in Seq([to : Agents, victim : Keys \cup {None}])
  OBVIOUS
<1>2. Rest = [pc |-> "idle", id |-> 0, now |-> 0, send |-> None, todo |-> e,
              parks |-> e, re |-> 0, done |-> FALSE, sawGone |-> FALSE]
  BY DEF Rest, None
<1> HIDE DEF e
<1>3. QED
  BY <1>1, <1>2, ContractsAssumption DEF Threads

(* A reply that reached nobody fails its contract. *)
LEMMA FailReplyStep ==
  ASSUME IInv, NEW t \in Senders, FailReply(t)
  PROVE  IInv'
<1> DEFINE keys == Failable(requests, {<<thread[t].re, thread[t].send.from>>})
<1>1. /\ thread[t].pc = "failReply" /\ lock = Free
      /\ requests' = Closed(requests, history, keys, TRUE) /\ failed' = failed \cup keys
      /\ thread' = [thread EXCEPT ![t] = Rest]
      /\ UNCHANGED <<lock, history, sweeper, deleted, cleanups, clock, nextId,
                     promised, answered, notices>>
  BY DEF FailReply
<1>2. keys \subseteq DOMAIN requests /\ \A k \in keys : ~requests[k].closed
  BY DEF Failable
<1> HIDE DEF keys
<1>3. thread \in [Senders -> Threads] /\ Free \notin Senders
  BY ContractsAssumption DEF IInv, TypeOK
<1>4. \A u \in Senders : GoesOn(u)
  BY <1>1, <1>3 DEF GoesOn
<1>5. thread' \in [Senders -> Threads]
  BY <1>1, <1>3, RestTyped
<1>6. QED
  BY <1>1, <1>2, <1>4, <1>5, FailCloses

(* A deleted requester's contracts fail. *)
LEMMA CleanupStep ==
  ASSUME IInv, NEW a \in Agents, Cleanup(a)
  PROVE  IInv'
<1> DEFINE keys == Failable(requests, {k \in DOMAIN requests : requests[k].from = a})
<1>1. /\ lock = Free
      /\ requests' = Closed(requests, history, keys, TRUE) /\ failed' = failed \cup keys
      /\ cleanups' \subseteq cleanups
      /\ UNCHANGED <<lock, history, thread, sweeper, deleted, clock, nextId,
                     promised, answered, notices>>
  BY DEF Cleanup
<1>2. keys \subseteq DOMAIN requests /\ \A k \in keys : ~requests[k].closed
  BY DEF Failable
<1> HIDE DEF keys
<1>3. \A u \in Senders : GoesOn(u)
  BY <1>1 DEF GoesOn
<1>4. thread' \in [Senders -> Threads]
  BY <1>1 DEF IInv, TypeOK
<1>5. QED
  BY <1>1, <1>2, <1>3, <1>4, FailCloses

-----------------------------------------------------------------------------
(* Steps that park a share *)

(* What parking a share does to its thread, and the thread it is. *)
LEMMA ParkThread ==
  ASSUME IInv, NEW t \in Senders, Park(t)
  PROVE  LET th == thread[t]
         IN  /\ th \in Threads /\ thread \in [Senders -> Threads] /\ lock = t /\ lock' = t
             /\ th.pc = "park" /\ Active(t) /\ th.parks # <<>> /\ th.send \in Sends
             /\ th.id \in 1..MaxIds
             /\ th.parks \in Seq([to : Agents, victim : Keys \cup {None}])
             /\ th.parks[1] \in [to : Agents, victim : Keys \cup {None}]
             /\ Head(th.parks) = th.parks[1]
             /\ thread' \in [Senders -> Threads]
             /\ thread'[t].parks = Tail(th.parks)
             /\ thread'[t].id = th.id /\ thread'[t].send = th.send
             /\ \A u \in Senders : GoesOn(u)
             /\ UNCHANGED <<sweeper, deleted, cleanups, clock, nextId, failed, notices>>
<1>1. /\ thread[t].pc = "park" /\ lock = t /\ lock' = t /\ thread[t].parks # <<>>
      /\ thread' = [thread EXCEPT ![t].parks = Tail(@), ![t].done = TRUE]
      /\ UNCHANGED <<sweeper, deleted, cleanups, clock, nextId, failed, notices>>
  BY DEF Park
<1>2. /\ thread[t] \in Threads /\ thread \in [Senders -> Threads] /\ Active(t)
      /\ thread[t].send \in Sends /\ thread[t].id \in 1..(nextId - 1)
      /\ thread[t].parks \in Seq([to : Agents, victim : Keys \cup {None}])
  BY <1>1 DEF IInv, TypeOK, ThreadsInOrder, Active, Threads
<1>3. thread[t].id \in 1..MaxIds
  BY <1>2, ContractsAssumption DEF IInv, TypeOK
<1>4. /\ Head(thread[t].parks) = thread[t].parks[1]
      /\ thread[t].parks[1] \in [to : Agents, victim : Keys \cup {None}]
      /\ Tail(thread[t].parks) \in Seq([to : Agents, victim : Keys \cup {None}])
  BY <1>1, <1>2, HeadAndTail
<1> DEFINE u == Tail(thread[t].parks)
           y == [thread[t] EXCEPT !.parks = u, !.done = TRUE]
<1>5. thread' = [thread EXCEPT ![t] = y]
  BY <1>1, <1>2 DEF Threads
<1>6. u \in Seq([to : Agents, victim : Keys \cup {None}])
  BY <1>4
<1> HIDE DEF u
<1>7. /\ y \in Threads /\ y.parks = u /\ y.id = thread[t].id /\ y.send = thread[t].send
      /\ y.pc = thread[t].pc /\ y.todo = thread[t].todo /\ y.re = thread[t].re
  BY <1>2, <1>6 DEF Threads
<1> HIDE DEF y
<1>8. /\ thread'[t] = y /\ \A w \in Senders \ {t} : thread'[w] = thread[w]
      /\ thread' \in [Senders -> Threads]
  BY <1>2, <1>5, <1>7
<1>9. \A w \in Senders : GoesOn(w)
  BY <1>1, <1>7, <1>8 DEF GoesOn
<1>10. QED
  BY <1>1, <1>2, <1>3, <1>4, <1>7, <1>8, <1>9 DEF u

(* A share nobody asked a reply for; it may be a reply itself, and closes  *)
(* the contract it answers.                                                *)
LEMMA ParkUnasked ==
  ASSUME IInv, NEW t \in Senders, Park(t), ~thread[t].send.asks
  PROVE  IInv'
<1> DEFINE th == thread[t]
           rec == AfterRecord(requests, history, th.id)
           keys == IF th.re # 0 /\ ~th.done THEN OpenFor(rec, th.re, th.send.from) ELSE {}
<1>1. /\ th \in Threads /\ thread \in [Senders -> Threads] /\ lock = t /\ lock' = t
      /\ Active(t) /\ th.send \in Sends /\ th.id \in 1..MaxIds
      /\ thread' \in [Senders -> Threads]
      /\ thread'[t].id = th.id /\ thread'[t].send = th.send
      /\ \A u \in Senders : GoesOn(u)
      /\ UNCHANGED <<lock, sweeper, deleted, cleanups, clock, nextId, failed, notices>>
  BY ParkThread
<1>2. /\ history' = Pushed(history, th.id) /\ promised' = promised
      /\ requests' = Closed(rec, history', keys, FALSE) /\ answered' = answered \cup keys
  BY DEF Park
<1>3. /\ Trimmed(rec) /\ ToSet(history') \subseteq ToSet(history) \cup {th.id}
      /\ history' \in Seq(0..MaxIds) /\ Len(history') <= HISTORY_CAPACITY
  <2>1. th.id \in 0..MaxIds
    BY <1>1, ContractsAssumption
  <2>2. QED
    BY <1>2, <2>1, RecordTrims
<1> HIDE DEF rec
<1>4. /\ keys \subseteq DOMAIN rec /\ keys \subseteq DOMAIN requests
      /\ \A k \in keys : ~requests[k].closed /\ th.re # 0 /\ k = <<th.re, th.send.from>>
  BY <1>3 DEF OpenFor, Trimmed
<1> HIDE DEF keys
<1>5. ~Asking /\ ~Asking'
  BY <1>1 DEF Asking
<1>6. \A k \in DOMAIN requests : /\ ~requests[k].provisional /\ ~requests[k].retiring
                                 /\ requests[k].victim = None
  BY <1>5 DEF IInv, ReservationsOwned
<1>7. Closes(keys)
  BY <1>2, <1>3, <1>4, <1>6, ClosedCloses
<1>8. Noticed' = Noticed
  BY <1>1 DEF Noticed
<1>9. answered' \cap failed' = {} /\ answered' \cup failed' = answered \cup failed \cup keys
  BY <1>1, <1>2, <1>4 DEF IInv, VerdictsAgree
<1>10. Seen' \subseteq Seen
  BY <1>2, <1>4, <1>7, <1>8, <1>9 DEF Seen, Closes
<1>11. /\ ThreadsInOrder' /\ TodoIsNew' /\ SeenIsOld'
       /\ \A u \in Senders : Active(u)' => Active(u) /\ thread'[u].id = thread[u].id
  BY <1>1, <1>10, ThreadsKept
<1>12. ASSUME NEW k \in keys, NEW u \in Senders, Active(u)
       PROVE  thread[u].id # k[1]
  <2>1. k[1] = th.re /\ k \in Seen
    BY <1>4 DEF Seen
  <2>2. CASE u = t
    <3>1. th.re < th.id /\ th.re \in Int /\ th.id \in Int
      BY <1>1 DEF IInv, ThreadsInOrder, Threads
    <3>2. QED
      BY <2>1, <2>2, <3>1
  <2>3. CASE u # t
    BY <1>1, <1>12, <2>1, <2>3 DEF IInv, SeenIsOld
  <2>4. QED
    BY <2>2, <2>3
<1>13. \A k \in answered \cup failed : k[1] # th.id
  BY <1>1 DEF IInv, VerdictsAgree
<1>14. /\ VerdictsAgree' /\ PromiseKept' /\ SlotBound'
       /\ \A k \in DOMAIN requests' :
            /\ requests'[k].notified => k \in (Noticed \cup answered \cup failed)'
            /\ k \in Noticed' => requests'[k].notified
            /\ k \in promised' => requests'[k].deadline
  BY <1>2, <1>3, <1>4, <1>7, <1>8, <1>9, <1>11, <1>12, <1>13, ClosesKeeps
<1>15. NoticesAgree'
  BY <1>1, <1>14 DEF IInv, NoticesAgree
<1>16. SharesReserved' /\ ReservationsOwned'
  <2>1. \A k \in DOMAIN requests' : /\ ~requests'[k].provisional /\ ~requests'[k].retiring
                                    /\ requests'[k].victim = None
    <3>1. \A k \in DOMAIN requests' :
            /\ k \in DOMAIN requests
            /\ requests'[k].provisional = requests[k].provisional
            /\ requests'[k].retiring = requests[k].retiring
            /\ requests'[k].victim = requests[k].victim
      BY <1>7 DEF Closes
    <3>2. QED
      BY <1>6, <3>1
  <2>2. QED
    BY <1>5, <2>1, NobodyReserves
<1>17. TypeOK'
  <2>1. DOMAIN requests' \subseteq Keys /\ requests' \in [DOMAIN requests' -> Entries]
    BY <1>7 DEF Closes, IInv, TypeOK
  <2>2. answered' \subseteq Keys
    BY <1>2, <1>4 DEF IInv, TypeOK
  <2>3. QED
    BY <1>1, <1>2, <1>3, <2>1, <2>2 DEF IInv, TypeOK
<1>18. QED
  BY <1>11, <1>14, <1>15, <1>16, <1>17 DEF IInv

\* Entry e of key j becomes f: the reservation of k is confirmed.
Confirms(f, e, j, k) ==
  /\ f \in Entries
  /\ f.closed = e.closed /\ f.notified = e.notified
  /\ f.deadline = e.deadline /\ f.retiring = e.retiring
  /\ j # k => f.provisional = e.provisional /\ f.victim = e.victim
  /\ j = k => ~f.provisional /\ f.victim = None

\* The reservation of k is confirmed, the marked v removed, the rest trimmed.
Commits(k, v) ==
  /\ requests' \in [DOMAIN requests' -> Entries]
  /\ DOMAIN requests' \subseteq DOMAIN requests
  /\ \A j \in DOMAIN requests' :
       /\ Confirms(requests'[j], requests[j], j, k)
       /\ requests[j].closed => j[1] \in ToSet(history')
       /\ ~(j = v /\ requests[j].retiring)
  /\ \A j \in DOMAIN requests \ DOMAIN requests' :
       \/ requests[j].closed /\ ~requests[j].provisional /\ j[1] \notin ToSet(history')
       \/ j = v /\ requests[j].retiring

(* commit_open on a ledger from which some finished contracts are gone. *)
LEMMA CommittedCommits ==
  ASSUME IInv, NEW rs, Trimmed(rs), NEW k \in DOMAIN rs, NEW v,
         requests[k].provisional, requests' = Committed(rs, history', k, v)
  PROVE  Commits(k, v)
<1>1. /\ DOMAIN rs \subseteq DOMAIN requests /\ rs = [j \in DOMAIN rs |-> rs[j]]
      /\ \A j \in DOMAIN rs : rs[j] = requests[j] /\ rs[j] \in Entries
      /\ \A j \in DOMAIN rs : requests[j].closed => j[1] \in ToSet(history')
      /\ \A j \in DOMAIN requests \ DOMAIN rs :
           requests[j].closed /\ ~requests[j].provisional /\ j[1] \notin ToSet(history')
  BY DEF Trimmed, IInv, TypeOK
<1>2. ~requests[k].closed /\ ~requests[k].retiring
  BY <1>1 DEF IInv, ReservationsOwned
<1> DEFINE cs == Confirmed(rs, k)
           ts == Retired(cs, v)
           ps == Purge(ts, history')
<1>3. /\ DOMAIN cs = DOMAIN rs /\ cs = [j \in DOMAIN cs |-> cs[j]]
      /\ \A j \in DOMAIN rs :
           cs[j] = IF j = k THEN [rs[j] EXCEPT !.provisional = FALSE, !.victim = None]
                   ELSE rs[j]
  BY DEF Confirmed
<1> HIDE DEF cs
<1>4. \A j \in DOMAIN rs : Confirms(cs[j], requests[j], j, k)
  <2> SUFFICES ASSUME NEW j \in DOMAIN rs
               PROVE  Confirms(cs[j], requests[j], j, k)
    OBVIOUS
  <2>1. requests[j] \in Entries /\ rs[j] = requests[j]
    BY <1>1
  <2>2. CASE j = k
    <3>1. cs[j] = [requests[j] EXCEPT !.provisional = FALSE, !.victim = None]
      BY <1>3, <2>1, <2>2
    <3>2. QED
      BY <2>1, <2>2, <3>1 DEF Entries, Confirms
  <2>3. CASE j # k
    <3>1. cs[j] = requests[j]
      BY <1>3, <2>1, <2>3
    <3>2. QED
      BY <2>1, <2>3, <3>1 DEF Confirms
  <2>4. QED
    BY <2>2, <2>3
<1>5. CASE v = None
  <2>1. requests' = cs
    BY <1>5 DEF Committed, cs
  <2>2. \A j \in DOMAIN rs : j # v
    BY <1>1, <1>5, KeyParts DEF IInv, TypeOK
  <2>3. \A j \in DOMAIN cs :
          /\ Confirms(cs[j], requests[j], j, k)
          /\ requests[j].closed => j[1] \in ToSet(history')
          /\ ~(j = v /\ requests[j].retiring)
    BY <1>1, <1>3, <1>4, <2>2
  <2>4. \A j \in DOMAIN requests \ DOMAIN cs :
          \/ requests[j].closed /\ ~requests[j].provisional /\ j[1] \notin ToSet(history')
          \/ j = v /\ requests[j].retiring
    BY <1>1, <1>3
  <2>5. DOMAIN cs \subseteq DOMAIN requests /\ cs \in [DOMAIN cs -> Entries]
    BY <1>1, <1>3, <1>4 DEF Confirms
  <2>6. QED
    BY <2>1, <2>3, <2>4, <2>5 DEF Commits
<1>6. CASE v # None
  <2>1. requests' = ps
    BY <1>6 DEF Committed, cs
  <2>2. /\ \A j : j \in DOMAIN ts <=> j \in DOMAIN cs /\ ~(j = v /\ cs[j].retiring)
        /\ \A j \in DOMAIN ts : ts[j] = cs[j]
    BY DEF Retired, Restrict
  <2> HIDE DEF ts
  <2>3. /\ \A j : j \in DOMAIN ps <=>
                    /\ j \in DOMAIN ts
                    /\ ~ts[j].closed \/ ts[j].provisional \/ j[1] \in ToSet(history')
        /\ \A j \in DOMAIN ps : ps[j] = ts[j]
        /\ ps = [j \in DOMAIN ps |-> ps[j]]
    BY PurgeEffect
  <2> HIDE DEF ps
  <2>4. DOMAIN ps \subseteq DOMAIN rs
    BY <1>3, <2>2, <2>3
  <2>5. \A j \in DOMAIN ps :
          /\ Confirms(ps[j], requests[j], j, k)
          /\ requests[j].closed => j[1] \in ToSet(history')
          /\ ~(j = v /\ requests[j].retiring)
    <3> SUFFICES ASSUME NEW j \in DOMAIN ps
                 PROVE  /\ Confirms(ps[j], requests[j], j, k)
                        /\ requests[j].closed => j[1] \in ToSet(history')
                        /\ ~(j = v /\ requests[j].retiring)
      OBVIOUS
    <3>1. /\ j \in DOMAIN rs /\ j \in DOMAIN ts /\ ps[j] = cs[j]
          /\ ~(j = v /\ cs[j].retiring)
      BY <1>3, <2>2, <2>3
    <3>2. Confirms(cs[j], requests[j], j, k) /\ cs[j].retiring = requests[j].retiring
      BY <1>4, <3>1 DEF Confirms
    <3>3. QED
      BY <1>1, <3>1, <3>2
  <2>6. \A j \in DOMAIN rs \ DOMAIN ps :
          \/ requests[j].closed /\ ~requests[j].provisional /\ j[1] \notin ToSet(history')
          \/ j = v /\ requests[j].retiring
    <3> SUFFICES ASSUME NEW j \in DOMAIN rs, j \notin DOMAIN ps
                 PROVE  \/ /\ requests[j].closed /\ ~requests[j].provisional
                           /\ j[1] \notin ToSet(history')
                        \/ j = v /\ requests[j].retiring
      OBVIOUS
    <3>1. /\ cs[j].closed = requests[j].closed /\ cs[j].retiring = requests[j].retiring
          /\ j # k => cs[j].provisional = requests[j].provisional
      BY <1>4 DEF Confirms
    <3>2. QED
      BY <1>2, <1>3, <2>2, <2>3, <3>1
  <2>7. ps \in [DOMAIN ps -> Entries]
    BY <2>3, <2>5 DEF Confirms
  <2>8. \A j \in DOMAIN requests \ DOMAIN ps :
          \/ requests[j].closed /\ ~requests[j].provisional /\ j[1] \notin ToSet(history')
          \/ j = v /\ requests[j].retiring
    BY <1>1, <2>6
  <2>9. DOMAIN ps \subseteq DOMAIN requests
    BY <1>1, <2>4
  <2>10. QED
    BY <2>1, <2>5, <2>7, <2>8, <2>9 DEF Commits
<1>7. QED
  BY <1>5, <1>6

(* A share with a contract: the reservation is confirmed. *)
LEMMA ParkAsked ==
  ASSUME IInv, NEW t \in Senders, Park(t), thread[t].send.asks
  PROVE  IInv'
<1> DEFINE th == thread[t]
           P == th.parks
           Q == Tail(th.parks)
           rec == AfterRecord(requests, history, th.id)
           k == <<th.id, P[1].to>>
           v == P[1].victim
<1>1. /\ th \in Threads /\ thread \in [Senders -> Threads] /\ lock = t /\ lock' = t
      /\ Active(t) /\ th.send \in Sends /\ th.id \in 1..MaxIds /\ P # <<>>
      /\ P \in Seq([to : Agents, victim : Keys \cup {None}]) /\ Head(P) = P[1]
      /\ P[1] \in [to : Agents, victim : Keys \cup {None}]
      /\ thread' \in [Senders -> Threads]
      /\ thread'[t].parks = Q /\ thread'[t].id = th.id /\ thread'[t].send = th.send
      /\ \A u \in Senders : GoesOn(u)
      /\ UNCHANGED <<lock, sweeper, deleted, cleanups, clock, nextId, failed, notices>>
  BY ParkThread
<1>2. th.re = 0
  BY <1>1, ContractsAssumption DEF IInv, ThreadsInOrder
<1>3. /\ history' = Pushed(history, th.id) /\ answered' = answered
      /\ requests' = Committed(rec, history', k, v)
      /\ promised' = IF th.send.deadline THEN promised \cup {k} ELSE promised
  BY <1>1, <1>2 DEF Park, Closed
<1>4. /\ Trimmed(rec) /\ ToSet(history') \subseteq ToSet(history) \cup {th.id}
      /\ history' \in Seq(0..MaxIds) /\ Len(history') <= HISTORY_CAPACITY
  <2>1. th.id \in 0..MaxIds
    BY <1>1, ContractsAssumption
  <2>2. QED
    BY <1>3, <2>1, RecordTrims
<1> HIDE DEF rec
<1>5. /\ 1 \in DOMAIN P
      /\ \A i \in DOMAIN Q : i \in Nat /\ i > 0 /\ i + 1 \in DOMAIN P /\ Q[i] = P[i + 1]
      /\ \A i \in DOMAIN P : i = 1 \/ (i - 1 \in DOMAIN Q /\ Q[i - 1] = P[i])
  <2>1. Q \in Seq([to : Agents, victim : Keys \cup {None}])
    BY <1>1, HeadAndTail
  <2>2. /\ 1 \in DOMAIN P
        /\ \A i \in DOMAIN Q : i + 1 \in DOMAIN P /\ Q[i] = P[i + 1]
        /\ \A i \in DOMAIN P : i = 1 \/ (i - 1 \in DOMAIN Q /\ Q[i - 1] = P[i])
    BY <1>1, HeadAndTail
  <2> HIDE DEF P, Q
  <2>3. \A i \in DOMAIN Q : i \in Nat /\ i > 0
    BY <2>1
  <2>4. QED
    BY <2>2, <2>3
<1> HIDE DEF Q
<1>6. Asking /\ Asking'
  <2>1. Free \notin Senders
    BY ContractsAssumption
  <2>2. QED
    BY <1>1, <2>1 DEF Asking
<1>7. /\ \A i, j \in DOMAIN P : P[i].to = P[j].to => i = j
      /\ \A i \in DOMAIN P : /\ <<th.id, P[i].to>> \in DOMAIN requests
                             /\ requests[<<th.id, P[i].to>>].provisional
                             /\ requests[<<th.id, P[i].to>>].deadline = th.send.deadline
  BY <1>1, <1>6 DEF IInv, SharesReserved
<1>8. k \in DOMAIN requests /\ requests[k].provisional /\ requests[k].deadline = th.send.deadline
  BY <1>5, <1>7
<1>9. \A i \in DOMAIN Q : Q[i].to # P[1].to
  <2> SUFFICES ASSUME NEW i \in DOMAIN Q
               PROVE  Q[i].to # P[1].to
    OBVIOUS
  <2>1. i + 1 # 1 /\ i + 1 \in DOMAIN P /\ Q[i] = P[i + 1]
    BY <1>5
  <2>2. QED
    BY <1>5, <1>7, <2>1
<1>10. k \in DOMAIN rec
  BY <1>4, <1>8 DEF Trimmed
<1> HIDE DEF k, v
<1>11. Commits(k, v)
  BY <1>3, <1>4, <1>8, <1>10, CommittedCommits
<1>12. /\ requests' \in [DOMAIN requests' -> Entries]
       /\ DOMAIN requests' \subseteq DOMAIN requests
       /\ \A j \in DOMAIN requests' :
            /\ Confirms(requests'[j], requests[j], j, k)
            /\ requests[j].closed => j[1] \in ToSet(history')
            /\ ~(j = v /\ requests[j].retiring)
       /\ \A j \in DOMAIN requests \ DOMAIN requests' :
            \/ requests[j].closed /\ ~requests[j].provisional /\ j[1] \notin ToSet(history')
            \/ j = v /\ requests[j].retiring
  BY <1>11 DEF Commits
<1>13. \A j \in DOMAIN requests' :
         /\ requests'[j] \in Entries
         /\ requests'[j].closed = requests[j].closed
         /\ requests'[j].notified = requests[j].notified
         /\ requests'[j].deadline = requests[j].deadline
         /\ requests'[j].retiring = requests[j].retiring
         /\ j # k => /\ requests'[j].provisional = requests[j].provisional
                     /\ requests'[j].victim = requests[j].victim
         /\ j = k => ~requests'[j].provisional /\ requests'[j].victim = None
  BY <1>12 DEF Confirms
<1>14. \A j \in DOMAIN requests :
         /\ requests[j].provisional => ~requests[j].closed /\ ~requests[j].retiring
         /\ requests[j].retiring => /\ ~requests[j].closed
                                    /\ requests[j].notified \/ ~requests[j].deadline
  BY DEF IInv, ReservationsOwned
<1>15. /\ k \in DOMAIN requests' /\ ~requests'[k].closed
       /\ requests'[k].deadline = th.send.deadline
  BY <1>8, <1>12, <1>13, <1>14
<1>16. Noticed' = Noticed
  BY <1>1 DEF Noticed
<1>17. Seen' \subseteq Seen
  BY <1>1, <1>3, <1>8, <1>12, <1>16 DEF Seen
<1>18. /\ ThreadsInOrder' /\ TodoIsNew' /\ SeenIsOld'
       /\ \A u \in Senders : Active(u)' => Active(u) /\ thread'[u].id = thread[u].id
  BY <1>1, <1>17, ThreadsKept
<1>19. VerdictsAgree'
  <2>1. \A j \in DOMAIN requests' :
          /\ requests'[j].closed <=> j \in (answered \cup failed)'
          /\ requests'[j].closed => j[1] \in ToSet(history)'
    BY <1>1, <1>3, <1>12, <1>13 DEF IInv, VerdictsAgree
  <2>2. ASSUME NEW j \in answered \cup failed
        PROVE  /\ j \in DOMAIN requests' \/ j[1] \notin ToSet(history')
               /\ \A u \in Senders : Active(u)' => thread'[u].id # j[1]
    <3>1. /\ j \in DOMAIN requests \/ j[1] \notin ToSet(history)
          /\ \A u \in Senders : Active(u) => thread[u].id # j[1]
          /\ j \in DOMAIN requests => requests[j].closed
      BY DEF IInv, VerdictsAgree
    <3>2. j[1] # th.id
      BY <1>1, <3>1
    <3>3. CASE j \in DOMAIN requests
      BY <1>12, <1>14, <1>18, <3>1, <3>3
    <3>4. CASE j \notin DOMAIN requests
      BY <1>4, <1>18, <3>1, <3>2, <3>4
    <3>5. QED
      BY <3>3, <3>4
  <2>3. QED
    BY <1>1, <1>3, <2>1, <2>2 DEF IInv, VerdictsAgree
<1>20. NoticesAgree'
  <2>1. ASSUME NEW j \in DOMAIN requests'
        PROVE  /\ requests'[j].notified => j \in (Noticed \cup answered \cup failed)'
               /\ j \in Noticed' => requests'[j].notified
               /\ j \in promised' => requests'[j].deadline
    <3>1. /\ requests[j].notified => j \in Noticed \cup answered \cup failed
          /\ j \in Noticed => requests[j].notified
          /\ j \in promised => requests[j].deadline
      BY <1>12 DEF IInv, NoticesAgree
    <3>2. j \in promised' => j \in promised \/ (j = k /\ th.send.deadline)
      BY <1>3
    <3>3. QED
      BY <1>1, <1>3, <1>13, <1>15, <1>16, <3>1, <3>2
  <2>2. QED
    BY <1>1, <2>1 DEF IInv, NoticesAgree
<1>21. PromiseKept'
  <2> SUFFICES ASSUME NEW j \in promised'
               PROVE  \/ j \in DOMAIN requests' /\ ~requests'[j].closed
                      \/ j \in answered \cup failed \cup Noticed
    BY <1>1, <1>3, <1>16 DEF PromiseKept, Noticed
  <2>1. CASE j = k
    BY <1>15, <2>1
  <2>2. CASE j \in promised
    <3>1. \/ j \in DOMAIN requests /\ ~requests[j].closed
          \/ j \in answered \cup failed \cup Noticed
      BY <2>2 DEF IInv, PromiseKept, Noticed
    <3>2. ASSUME j \in DOMAIN requests, ~requests[j].closed, j \notin DOMAIN requests'
          PROVE  j \in answered \cup failed \cup Noticed
      <4>1. requests[j].retiring
        BY <1>12, <3>2
      <4>2. requests[j].notified
        BY <1>14, <2>2, <3>2, <4>1 DEF IInv, NoticesAgree
      <4>3. QED
        BY <3>2, <4>2 DEF IInv, NoticesAgree
    <3>3. QED
      BY <1>13, <3>1, <3>2
  <2>3. QED
    BY <1>3, <2>1, <2>2
<1>22. SlotBound'
  <2>1. Occupied(requests)' \subseteq Occupied(requests)
    <3> SUFFICES ASSUME NEW j \in DOMAIN requests', OccupiesSlot(requests'[j])
                 PROVE  j \in DOMAIN requests /\ OccupiesSlot(requests[j])
      BY DEF Occupied
    <3>1. CASE j = k
      BY <1>12, <1>13, <3>1 DEF OccupiesSlot
    <3>2. CASE j # k
      BY <1>12, <1>13, <3>2 DEF OccupiesSlot
    <3>3. QED
      BY <3>1, <3>2
  <2>2. QED
    BY <2>1, SlotsShrink
<1>23. thread'[lock'].parks = Q /\ thread'[lock'].id = th.id /\ thread'[lock'].send = th.send
  BY <1>1
<1>24. SharesReserved'
  <2>1. ASSUME NEW i \in DOMAIN Q, NEW j \in DOMAIN Q, Q[i].to = Q[j].to
        PROVE  i = j
    <3>1. /\ i + 1 \in DOMAIN P /\ Q[i] = P[i + 1] /\ i \in Nat
          /\ j + 1 \in DOMAIN P /\ Q[j] = P[j + 1] /\ j \in Nat
      BY <1>5
    <3>2. i + 1 = j + 1
      BY <1>7, <2>1, <3>1
    <3>3. QED
      BY <3>1, <3>2
  <2>2. ASSUME NEW i \in DOMAIN Q
        PROVE  /\ <<th.id, Q[i].to>> \in DOMAIN requests'
               /\ requests'[<<th.id, Q[i].to>>].provisional
               /\ requests'[<<th.id, Q[i].to>>].deadline = th.send.deadline
    <3> DEFINE kk == <<th.id, Q[i].to>>
    <3>1. /\ kk \in DOMAIN requests /\ requests[kk].provisional
          /\ requests[kk].deadline = th.send.deadline
      BY <1>5, <1>7
    <3>2. kk # k
      BY <1>9 DEF k
    <3> HIDE DEF kk
    <3>3. kk \in DOMAIN requests'
      BY <1>12, <1>14, <3>1
    <3>4. requests'[kk].provisional /\ requests'[kk].deadline = th.send.deadline
      BY <1>13, <3>1, <3>2, <3>3
    <3>5. QED
      BY <3>3, <3>4 DEF kk
  <2>3. QED
    BY <1>23, <2>1, <2>2 DEF SharesReserved
<1>25. ReservationsOwned'
  <2> SUFFICES ASSUME NEW j \in DOMAIN requests'
               PROVE  /\ requests'[j].victim # None => requests'[j].provisional
                      /\ requests'[j].provisional =>
                           /\ Asking' /\ ~requests'[j].closed /\ ~requests'[j].notified
                           /\ j \notin promised'
                           /\ \E i \in DOMAIN Q : j = <<th.id, Q[i].to>>
                      /\ requests'[j].retiring =>
                           /\ Asking' /\ ~requests'[j].closed /\ ~requests'[j].provisional
                           /\ requests'[j].notified \/ ~requests'[j].deadline
                           /\ \E i \in DOMAIN Q : j = Q[i].victim
    BY <1>23 DEF ReservationsOwned
  <2>1. /\ j \in DOMAIN requests
        /\ requests[j].victim # None => requests[j].provisional
        /\ requests[j].provisional =>
             /\ ~requests[j].closed /\ ~requests[j].notified
             /\ j \notin promised
             /\ \E i \in DOMAIN P : j = <<th.id, P[i].to>>
        /\ requests[j].retiring =>
             /\ ~requests[j].closed /\ ~requests[j].provisional
             /\ requests[j].notified \/ ~requests[j].deadline
             /\ \E i \in DOMAIN P : j = P[i].victim
    <3>1. j \in DOMAIN requests
      BY <1>12
    <3>2. QED
      BY <1>1, <3>1 DEF IInv, ReservationsOwned
  <2>2. CASE j = k
    <3>1. ~requests'[j].provisional /\ ~requests'[j].retiring /\ requests'[j].victim = None
      BY <1>8, <1>13, <1>14, <2>2
    <3>2. QED
      BY <3>1
  <2>3. CASE j # k
    <3>1. requests[j].provisional => \E i \in DOMAIN Q : j = <<th.id, Q[i].to>>
      <4> SUFFICES ASSUME requests[j].provisional
                   PROVE  \E i \in DOMAIN Q : j = <<th.id, Q[i].to>>
        OBVIOUS
      <4>1. PICK i \in DOMAIN P : j = <<th.id, P[i].to>>
        BY <2>1
      <4>2. i # 1
        BY <2>3, <4>1 DEF k
      <4>3. i - 1 \in DOMAIN Q /\ Q[i - 1] = P[i]
        BY <1>5, <4>2
      <4>4. QED
        BY <4>1, <4>3
    <3>2. requests[j].retiring => \E i \in DOMAIN Q : j = Q[i].victim
      <4> SUFFICES ASSUME requests[j].retiring
                   PROVE  \E i \in DOMAIN Q : j = Q[i].victim
        OBVIOUS
      <4>1. PICK i \in DOMAIN P : j = P[i].victim
        BY <2>1
      <4>2. i # 1
        BY <1>12, <4>1 DEF v
      <4>3. i - 1 \in DOMAIN Q /\ Q[i - 1] = P[i]
        BY <1>5, <4>2
      <4>4. QED
        BY <4>1, <4>3
    <3>3. j \in promised' => j \in promised
      BY <1>3, <2>3
    <3>4. QED
      BY <1>6, <1>13, <2>1, <2>3, <3>1, <3>2, <3>3
  <2>4. QED
    BY <2>2, <2>3
<1>26. TypeOK'
  <2>1. DOMAIN requests' \subseteq Keys /\ requests' \in [DOMAIN requests' -> Entries]
    BY <1>12, <1>13 DEF IInv, TypeOK
  <2>2. promised' \subseteq Keys /\ answered' \subseteq Keys
    BY <1>3, <1>8 DEF IInv, TypeOK
  <2>3. QED
    BY <1>1, <1>4, <2>1, <2>2 DEF IInv, TypeOK
<1>27. QED
  BY <1>18, <1>19, <1>20, <1>21, <1>22, <1>24, <1>25, <1>26 DEF IInv

(* A share is parked. *)
LEMMA ParkStep ==
  ASSUME IInv, NEW t \in Senders, Park(t)
  PROVE  IInv'
BY ParkAsked, ParkUnasked

-----------------------------------------------------------------------------
(* Steps that begin and end a send *)

(* The lock is dropped with every reservation settled. *)
LEMMA UnlockStep ==
  ASSUME IInv, NEW t \in Senders, Unlock(t)
  PROVE  IInv'
<1> DEFINE th == thread[t]
           f == [Rest EXCEPT !.pc = "failReply", !.re = th.re, !.send = th.send]
           y == IF th.re # 0 /\ ~th.done /\ th.sawGone THEN f ELSE Rest
<1>1. /\ th.pc = "park" /\ lock = t /\ th.parks = <<>> /\ lock' = Free
      /\ thread' = [thread EXCEPT ![t] = y]
      /\ UNCHANGED <<requests, history, sweeper, deleted, cleanups, clock, nextId,
                     promised, answered, failed, notices>>
  BY DEF Unlock, ghosts
<1>2. /\ thread \in [Senders -> Threads] /\ th \in Threads /\ Free \notin Senders
      /\ th.send \in Sends /\ th.re \in 0..MaxIds /\ (th.re # 0 => th.send.replies)
  BY <1>1, ContractsAssumption DEF IInv, TypeOK, ThreadsInOrder, Threads
<1>3. /\ f \in Threads /\ f.pc = "failReply" /\ f.re = th.re /\ f.send = th.send
      /\ f.parks = <<>>
  <2>1. Rest \in Threads /\ Rest.parks = <<>>
    BY RestTyped DEF Rest
  <2> DEFINE e == Rest
  <2>2. e \in Threads /\ e.parks = <<>> /\ f = [e EXCEPT !.pc = "failReply", !.re = th.re, !.send = th.send]
    BY <2>1
  <2> HIDE DEF e, f
  <2>3. QED
    BY <1>2, <2>2 DEF Threads
<1>4. /\ y \in Threads /\ y.pc \in {"idle", "failReply"} /\ y.parks = <<>>
      /\ (y.pc # "idle" => y.send \in Sends) /\ (y.re # 0 => y.send.replies)
  BY <1>2, <1>3, RestTyped DEF Rest
<1> HIDE DEF f, y
<1>5. thread'[t] = y /\ \A u \in Senders \ {t} : thread'[u] = thread[u]
  BY <1>1, <1>2
<1>6. \A u \in Senders : Active(u)' => Active(u) /\ thread'[u].id = thread[u].id /\ u # t
  BY <1>4, <1>5 DEF Active
<1>7. Seen' = Seen /\ Noticed' = Noticed
  BY <1>1 DEF Seen, Noticed
<1>8. ThreadsInOrder'
  <2>1. ASSUME NEW u \in Senders
        PROVE  /\ thread'[u].pc = "park" => lock' = u
               /\ thread'[u].pc = "reserve" => thread'[u].todo # <<>>
               /\ lock' # u => thread'[u].parks = <<>>
               /\ thread'[u].pc # "idle" => thread'[u].send \in Sends
               /\ thread'[u].re # 0 => thread'[u].send.replies
               /\ Active(u)' => /\ thread'[u].id \in 1..(nextId' - 1)
                                /\ thread'[u].re < thread'[u].id
    <3>1. CASE u = t
      BY <1>4, <1>5, <1>6, <3>1
    <3>2. CASE u # t
      BY <1>1, <1>2, <1>5, <1>6, <3>2 DEF IInv, ThreadsInOrder
    <3>3. QED
      BY <3>1, <3>2
  <2>2. \A u, w \in Senders : Active(u)' /\ Active(w)' /\ u # w =>
                                thread'[u].id # thread'[w].id
    BY <1>6 DEF IInv, ThreadsInOrder
  <2>3. QED
    BY <1>1, <2>1, <2>2 DEF ThreadsInOrder
<1>9. TodoIsNew'
  <2> SUFFICES ASSUME NEW u \in Senders, thread'[u].pc = "reserve"
               PROVE  /\ \A i, j \in DOMAIN thread'[u].todo :
                           thread'[u].todo[i].to = thread'[u].todo[j].to => i = j
                      /\ \A i \in DOMAIN thread'[u].todo :
                           <<thread'[u].id, thread'[u].todo[i].to>> \notin Seen'
    BY DEF TodoIsNew
  <2>1. u # t /\ thread'[u] = thread[u]
    BY <1>4, <1>5
  <2>2. QED
    BY <1>7, <2>1 DEF IInv, TodoIsNew
<1>10. SeenIsOld'
  BY <1>1, <1>6, <1>7 DEF IInv, SeenIsOld
<1>11. SharesReserved' /\ ReservationsOwned'
  <2>1. ~Asking'
    BY <1>1 DEF Asking
  <2>2. DOMAIN thread[lock].parks = {}
    BY <1>1
  <2>3. \A k \in DOMAIN requests : /\ ~requests[k].provisional /\ ~requests[k].retiring
                                   /\ requests[k].victim = None
    BY <2>2 DEF IInv, ReservationsOwned
  <2>4. QED
    BY <1>1, <2>1, <2>3, NobodyReserves
<1>12. VerdictsAgree'
  BY <1>1, <1>6 DEF IInv, VerdictsAgree
<1>13. NoticesAgree' /\ PromiseKept' /\ SlotBound'
  BY <1>1, <1>7 DEF IInv, NoticesAgree, PromiseKept, SlotBound
<1>14. TypeOK'
  <2>1. thread' \in [Senders -> Threads]
    BY <1>1, <1>2, <1>4
  <2>2. QED
    BY <1>1, <2>1 DEF IInv, TypeOK
<1>15. QED
  BY <1>8, <1>9, <1>10, <1>11, <1>12, <1>13, <1>14 DEF IInv

(* A send draws an id nobody has. *)
LEMMA BeginStep ==
  ASSUME IInv, NEW t \in Senders, Begin(t)
  PROVE  IInv'
<1>1. /\ thread[t].pc = "idle" /\ nextId <= MaxIds /\ nextId' = nextId + 1
      /\ UNCHANGED <<lock, requests, history, sweeper, deleted, cleanups, clock,
                     promised, answered, failed, notices>>
  BY DEF Begin, ghosts
<1>2. PICK s \in Sends : \E re \in (IF s.replies THEN 1..(nextId - 1) ELSE {0}) :
        thread' = [thread EXCEPT ![t] =
          [Rest EXCEPT !.pc = "reserve", !.id = nextId, !.now = clock, !.send = s,
                       !.re = re,
                       !.todo = [i \in DOMAIN s.to |->
                                   [to |-> s.to[i], gone |-> s.to[i] \in deleted]]]]
  BY DEF Begin
<1> DEFINE todo == [i \in DOMAIN s.to |-> [to |-> s.to[i], gone |-> s.to[i] \in deleted]]
<1>3. PICK re \in (IF s.replies THEN 1..(nextId - 1) ELSE {0}) :
        thread' = [thread EXCEPT ![t] =
          [Rest EXCEPT !.pc = "reserve", !.id = nextId, !.now = clock, !.send = s,
                       !.re = re, !.todo = todo]]
  BY <1>2
<1>4. /\ nextId \in 1..MaxIds /\ nextId \in Nat /\ MaxIds \in Nat /\ clock \in 0..MaxTime
      /\ re \in 0..MaxIds /\ re < nextId /\ (re # 0 => s.replies) /\ Free \notin Senders
      /\ thread \in [Senders -> Threads]
  BY <1>1, ContractsAssumption DEF IInv, TypeOK
<1>5. /\ s.to \in Seq(Agents) /\ s.to # <<>> /\ IsInjective(s.to)
  BY ContractsAssumption
<1>6. /\ todo \in Seq([to : Agents, gone : BOOLEAN]) /\ todo # <<>>
      /\ DOMAIN todo = DOMAIN s.to /\ \A i \in DOMAIN todo : todo[i].to = s.to[i]
  <2> DEFINE q == s.to
  <2>1. q \in Seq(Agents) /\ q # <<>> /\ Len(q) \in Nat /\ DOMAIN q = 1..Len(q)
        /\ \A i \in 1..Len(q) : q[i] \in Agents
    BY <1>5
  <2>2. todo = [i \in 1..Len(q) |-> [to |-> q[i], gone |-> q[i] \in deleted]]
    BY <2>1
  <2> HIDE DEF q, todo
  <2>3. todo \in [1..Len(q) -> [to : Agents, gone : BOOLEAN]]
    BY <2>1, <2>2
  <2>4. todo \in Seq([to : Agents, gone : BOOLEAN])
    <3>1. \A R : \A n \in Nat : \A f \in [1..n -> R] : f \in Seq(R)
      OBVIOUS
    <3>2. Len(q) \in Nat
      BY <2>1
    <3>3. QED
      BY <2>3, <3>1, <3>2, Zenon
  <2>5. Len(q) # 0
    BY <2>1
  <2>6. 1 \in DOMAIN todo
    BY <2>1, <2>3, <2>5
  <2>7. todo # <<>>
    BY <2>6
  <2>8. QED
    BY <2>1, <2>2, <2>4, <2>7 DEF q
<1> HIDE DEF todo
<1> DEFINE y == [Rest EXCEPT !.pc = "reserve", !.id = nextId, !.now = clock, !.send = s,
                             !.re = re, !.todo = todo]
<1>7. /\ y \in Threads /\ y.pc = "reserve" /\ y.id = nextId /\ y.send = s /\ y.re = re
      /\ y.todo = todo /\ y.parks = <<>>
  <2> DEFINE e == Rest
  <2>1. e \in Threads /\ e.parks = <<>>
        /\ y = [e EXCEPT !.pc = "reserve", !.id = nextId, !.now = clock, !.send = s,
                         !.re = re, !.todo = todo]
    BY RestTyped DEF Rest
  <2> HIDE DEF e, y
  <2>2. nextId \in 0..MaxIds
    BY <1>4
  <2>3. QED
    BY <1>4, <1>6, <2>1, <2>2 DEF Threads
<1>8. thread' = [thread EXCEPT ![t] = y]
  BY <1>3
<1> HIDE DEF y
<1>9. thread'[t] = y /\ \A u \in Senders \ {t} : thread'[u] = thread[u]
  BY <1>4, <1>8
<1>10. lock # t /\ (lock # Free => lock \in Senders /\ thread'[lock] = thread[lock])
  BY <1>1, <1>4, <1>9 DEF IInv, ThreadsInOrder, TypeOK, Active
<1>11. Seen' = Seen /\ Noticed' = Noticed
  BY <1>1 DEF Seen, Noticed
<1>12. \A k \in Seen : k[1] < nextId /\ k[1] \in Int
  <2>1. ToSet(notices) \subseteq Keys
    BY DEF IInv, TypeOK, ToSet
  <2>2. Seen \subseteq Keys
    BY <2>1 DEF IInv, TypeOK, Seen, Noticed
  <2>3. \A k \in Seen : k[1] \in 1..MaxIds
    BY <2>2, KeyParts
  <2>4. \A k \in Seen : k[1] < nextId
    BY DEF IInv, SeenIsOld
  <2>5. QED
    BY <1>4, <2>3, <2>4
<1>13. /\ Active(t)' /\ thread'[t].id = nextId /\ ~Active(t)
       /\ \A u \in Senders \ {t} : /\ Active(u)' <=> Active(u)
                                   /\ Active(u) => thread[u].id \in 1..(nextId - 1)
  BY <1>1, <1>7, <1>9 DEF Active, IInv, ThreadsInOrder
<1>14. ThreadsInOrder'
  <2>1. lock' # Free => Active(lock)'
    BY <1>1, <1>10, <1>13 DEF IInv, ThreadsInOrder
  <2>2. ASSUME NEW u \in Senders
        PROVE  /\ thread'[u].pc = "park" => lock' = u
               /\ thread'[u].pc = "reserve" => thread'[u].todo # <<>>
               /\ lock' # u => thread'[u].parks = <<>>
               /\ thread'[u].pc # "idle" => thread'[u].send \in Sends
               /\ thread'[u].re # 0 => thread'[u].send.replies
               /\ Active(u)' => /\ thread'[u].id \in 1..(nextId' - 1)
                                /\ thread'[u].re < thread'[u].id
    <3>1. CASE u = t
      <4>1. nextId \in 1..(nextId' - 1)
        BY <1>1, <1>4
      <4>2. QED
        BY <1>4, <1>6, <1>7, <1>9, <3>1, <4>1
    <3>2. CASE u # t
      <4>1. thread'[u] = thread[u]
        BY <1>9, <3>2
      <4>2. Active(u)' => /\ thread'[u].id \in 1..(nextId' - 1)
                          /\ thread'[u].re < thread'[u].id
        <5>1. Active(u) => thread[u].id \in 1..(nextId - 1) /\ thread[u].re < thread[u].id
          BY DEF IInv, ThreadsInOrder
        <5>2. 1..(nextId - 1) \subseteq 1..(nextId' - 1)
          BY <1>1, <1>4
        <5>3. QED
          BY <1>13, <3>2, <4>1, <5>1, <5>2
      <4>3. QED
        BY <1>1, <4>1, <4>2 DEF IInv, ThreadsInOrder
    <3>3. QED
      BY <3>1, <3>2
  <2>3. ASSUME NEW u \in Senders, NEW w \in Senders, Active(u)', Active(w)', u # w
        PROVE  thread'[u].id # thread'[w].id
    <3>1. CASE u # t /\ w # t
      BY <1>9, <1>13, <2>3, <3>1 DEF IInv, ThreadsInOrder
    <3>2. CASE u = t
      BY <1>4, <1>9, <1>13, <2>3, <3>2
    <3>3. CASE w = t
      BY <1>4, <1>9, <1>13, <2>3, <3>3
    <3>4. QED
      BY <3>1, <3>2, <3>3
  <2>4. QED
    BY <2>1, <2>2, <2>3 DEF ThreadsInOrder
<1>15. TodoIsNew'
  <2> SUFFICES ASSUME NEW u \in Senders, thread'[u].pc = "reserve"
               PROVE  /\ \A i, j \in DOMAIN thread'[u].todo :
                           thread'[u].todo[i].to = thread'[u].todo[j].to => i = j
                      /\ \A i \in DOMAIN thread'[u].todo :
                           <<thread'[u].id, thread'[u].todo[i].to>> \notin Seen'
    BY DEF TodoIsNew
  <2>1. CASE u = t
    <3>1. \A i, j \in DOMAIN todo : todo[i].to = todo[j].to => i = j
      BY <1>5, <1>6 DEF IsInjective
    <3>2. \A a : <<nextId, a>> \notin Seen
      <4>1. \A a : <<nextId, a>>[1] = nextId
        OBVIOUS
      <4>2. QED
        BY <1>4, <1>12, <4>1
    <3>3. QED
      BY <1>7, <1>9, <1>11, <2>1, <3>1, <3>2
  <2>2. CASE u # t
    BY <1>9, <1>11, <2>2 DEF IInv, TodoIsNew
  <2>3. QED
    BY <2>1, <2>2
<1>16. SeenIsOld'
  <2> SUFFICES ASSUME NEW k \in Seen
               PROVE  /\ k[1] < nextId'
                      /\ \A u \in Senders : Active(u)' /\ thread'[u].id = k[1] => lock' = u
    BY <1>11 DEF SeenIsOld
  <2>1. k[1] < nextId /\ k[1] \in Int
    BY <1>12
  <2>2. \A u \in Senders : Active(u) /\ thread[u].id = k[1] => lock = u
    BY DEF IInv, SeenIsOld
  <2>3. QED
    BY <1>1, <1>4, <1>9, <1>13, <2>1, <2>2
<1>17. SharesReserved' /\ ReservationsOwned'
  <2>1. Asking' <=> Asking
    BY <1>1, <1>10 DEF Asking
  <2>2. SharesReserved'
    BY <1>1, <1>10, <2>1 DEF IInv, SharesReserved, Asking
  <2>3. ReservationsOwned'
    BY <1>1, <1>10, <2>1 DEF IInv, ReservationsOwned, Asking
  <2>4. QED
    BY <2>2, <2>3
<1>18. VerdictsAgree'
  <2>1. ASSUME NEW k \in answered \cup failed, NEW u \in Senders, Active(u)'
        PROVE  thread'[u].id # k[1]
    <3>1. k \in Seen
      BY DEF Seen
    <3>2. k[1] < nextId /\ k[1] \in Int
      BY <1>12, <3>1
    <3>3. CASE u = t
      BY <1>4, <1>13, <3>2, <3>3
    <3>4. CASE u # t
      BY <1>9, <1>13, <2>1, <3>4 DEF IInv, VerdictsAgree
    <3>5. QED
      BY <3>3, <3>4
  <2>2. QED
    BY <1>1, <2>1 DEF IInv, VerdictsAgree
<1>19. NoticesAgree' /\ PromiseKept' /\ SlotBound'
  BY <1>1, <1>11 DEF IInv, NoticesAgree, PromiseKept, SlotBound
<1>20. TypeOK'
  <2>1. thread' \in [Senders -> Threads]
    BY <1>4, <1>7, <1>8
  <2>2. nextId' \in 1..(MaxIds + 1)
    BY <1>1, <1>4
  <2>3. QED
    BY <1>1, <2>1, <2>2 DEF IInv, TypeOK
<1>21. QED
  BY <1>14, <1>15, <1>16, <1>17, <1>18, <1>19, <1>20 DEF IInv

-----------------------------------------------------------------------------
(* Steps of the sweep task *)

(* What holds while nobody is inside. *)
LEMMA LockFree ==
  ASSUME IInv, lock = Free
  PROVE  /\ ~Asking /\ Free \notin Senders
         /\ \A k \in DOMAIN requests : /\ ~requests[k].provisional /\ ~requests[k].retiring
                                       /\ requests[k].victim = None
         /\ \A u \in Senders : UNCHANGED thread => GoesOn(u)
<1>1. ~Asking /\ Free \notin Senders
  BY ContractsAssumption DEF Asking
<1>2. \A k \in DOMAIN requests : /\ ~requests[k].provisional /\ ~requests[k].retiring
                                 /\ requests[k].victim = None
  BY <1>1 DEF IInv, ReservationsOwned
<1>3. \A u \in Senders : UNCHANGED thread => GoesOn(u)
  BY DEF GoesOn
<1>4. QED
  BY <1>1, <1>2, <1>3

(* Flagging the contracts past their deadline drops none of them. *)
LEMMA CollectEffect ==
  ASSUME IInv, lock = Free
  PROVE  LET rs == Purge(Notified(requests, Due), history)
         IN  /\ rs = [k \in DOMAIN rs |-> rs[k]] /\ DOMAIN rs = DOMAIN requests
             /\ \A k \in Due : rs[k] = [requests[k] EXCEPT !.notified = TRUE]
             /\ \A k \in DOMAIN requests \ Due : rs[k] = requests[k]
<1> DEFINE ns == Notified(requests, Due)
           rs == Purge(ns, history)
<1>1. Due \subseteq DOMAIN requests /\ \A k \in DOMAIN requests : requests[k] \in Entries
  BY DEF Due, IInv, TypeOK
<1>2. /\ DOMAIN ns = DOMAIN requests
      /\ \A k \in Due : ns[k] = [requests[k] EXCEPT !.notified = TRUE]
      /\ \A k \in DOMAIN requests \ Due : ns[k] = requests[k]
  BY <1>1 DEF Notified
<1> HIDE DEF ns
<1>3. \A k \in DOMAIN ns : ns[k].closed = requests[k].closed
  <2>1. \A e \in Entries : [e EXCEPT !.notified = TRUE].closed = e.closed
    BY DEF Entries
  <2>2. QED
    BY <1>1, <1>2, <2>1
<1>4. \A k \in DOMAIN requests : requests[k].closed => k[1] \in ToSet(history)
  BY DEF IInv, VerdictsAgree
<1>5. /\ \A k : k \in DOMAIN rs <=> /\ k \in DOMAIN ns
                                    /\ ~ns[k].closed \/ ns[k].provisional \/ k[1] \in ToSet(history)
      /\ \A k \in DOMAIN rs : rs[k] = ns[k]
      /\ rs = [k \in DOMAIN rs |-> rs[k]]
  BY PurgeEffect
<1> HIDE DEF rs
<1>6. DOMAIN rs = DOMAIN requests
  BY <1>2, <1>3, <1>4, <1>5
<1>7. QED
  BY <1>1, <1>2, <1>5, <1>6 DEF rs, ns

(* The sweep flags what is due and carries it out of the lock. *)
LEMMA SweepCollectStep ==
  ASSUME IInv, SweepCollect
  PROVE  IInv'
<1>1. /\ sweeper.pc = "idle" /\ lock = Free
      /\ requests' = Purge(Notified(requests, Due), history)
      /\ sweeper' = [pc |-> "check", due |-> Due, at |-> None]
      /\ UNCHANGED <<lock, history, thread, deleted, cleanups, clock, nextId,
                     promised, answered, failed, notices>>
  BY DEF SweepCollect, ghosts
<1>2. /\ requests' = [k \in DOMAIN requests' |-> requests'[k]]
      /\ DOMAIN requests' = DOMAIN requests
      /\ \A k \in Due : requests'[k] = [requests[k] EXCEPT !.notified = TRUE]
      /\ \A k \in DOMAIN requests \ Due : requests'[k] = requests[k]
  BY <1>1, CollectEffect
<1>3. /\ ~Asking /\ ~Asking'
      /\ \A k \in DOMAIN requests : /\ ~requests[k].provisional /\ ~requests[k].retiring
                                    /\ requests[k].victim = None
      /\ \A u \in Senders : GoesOn(u)
  BY <1>1, LockFree DEF Asking
<1>4. /\ DOMAIN requests \subseteq Keys /\ Due \subseteq DOMAIN requests
      /\ \A k \in DOMAIN requests : requests[k] \in Entries
      /\ \A k \in Due : ~requests[k].closed /\ ~requests[k].notified
  BY DEF IInv, TypeOK, Due, IsDue
<1>5. \A k \in DOMAIN requests :
        /\ requests'[k] \in Entries
        /\ requests'[k].closed = requests[k].closed
        /\ requests'[k].deadline = requests[k].deadline
        /\ requests'[k].provisional = requests[k].provisional
        /\ requests'[k].retiring = requests[k].retiring
        /\ requests'[k].victim = requests[k].victim
        /\ requests'[k].notified <=> requests[k].notified \/ k \in Due
  <2>1. \A e \in Entries :
          LET n == [e EXCEPT !.notified = TRUE]
          IN  /\ n \in Entries /\ n.closed = e.closed /\ n.deadline = e.deadline
              /\ n.provisional = e.provisional /\ n.retiring = e.retiring
              /\ n.victim = e.victim /\ n.notified
    BY DEF Entries
  <2>2. ASSUME NEW k \in Due
        PROVE  /\ requests'[k] \in Entries /\ requests'[k].closed = requests[k].closed
               /\ requests'[k].deadline = requests[k].deadline
               /\ requests'[k].provisional = requests[k].provisional
               /\ requests'[k].retiring = requests[k].retiring
               /\ requests'[k].victim = requests[k].victim /\ requests'[k].notified
    <3>1. requests[k] \in Entries /\ requests'[k] = [requests[k] EXCEPT !.notified = TRUE]
      BY <1>2, <1>4
    <3>2. QED
      BY <2>1, <3>1
  <2>3. ASSUME NEW k \in DOMAIN requests \ Due
        PROVE  requests'[k] \in Entries /\ requests'[k] = requests[k]
    BY <1>2, <1>4
  <2>4. QED
    BY <2>2, <2>3
<1>6. sweeper.due = {} /\ Noticed = ToSet(notices) /\ Noticed' = Noticed \cup Due
  BY <1>1 DEF IInv, NoticesAgree, Noticed
<1>7. \A k \in Due : k \notin Noticed
  BY <1>4 DEF IInv, NoticesAgree
<1>8. Seen' = Seen
  BY <1>1, <1>2, <1>4, <1>6 DEF Seen
<1>9. ThreadsInOrder' /\ TodoIsNew' /\ SeenIsOld'
  BY <1>1, <1>3, <1>8, ThreadsKept
<1>10. SharesReserved' /\ ReservationsOwned'
  BY <1>2, <1>3, <1>5, NobodyReserves
<1>11. VerdictsAgree'
  <2>1. \A u \in Senders : Active(u)' <=> Active(u)
    BY <1>1 DEF Active
  <2>2. QED
    BY <1>1, <1>2, <1>5, <2>1 DEF IInv, VerdictsAgree
<1>12. NoticesAgree'
  <2>1. IsInjective(notices)' /\ (sweeper.due \cap ToSet(notices) = {})'
    BY <1>1, <1>6, <1>7 DEF IInv, NoticesAgree
  <2>2. (sweeper.pc = "check")'
    BY <1>1
  <2>3. ASSUME NEW k \in DOMAIN requests
        PROVE  /\ requests'[k].notified => k \in (Noticed \cup answered \cup failed)'
               /\ k \in Noticed' => requests'[k].notified
               /\ k \in promised' => requests'[k].deadline
    BY <1>1, <1>5, <1>6 DEF IInv, NoticesAgree
  <2>4. QED
    BY <1>2, <2>1, <2>2, <2>3 DEF NoticesAgree
<1>13. PromiseKept'
  <2>1. ASSUME NEW k \in promised
        PROVE  \/ k \in DOMAIN requests' /\ ~requests'[k].closed
               \/ k \in answered \cup failed \cup Noticed'
    BY <1>2, <1>5, <1>6 DEF IInv, PromiseKept, Noticed
  <2>2. QED
    BY <1>1, <2>1 DEF PromiseKept, Noticed
<1>14. SlotBound'
  <2>1. Occupied(requests)' \subseteq Occupied(requests)
    BY <1>2, <1>5 DEF Occupied, OccupiesSlot
  <2>2. QED
    BY <2>1, SlotsShrink
<1>15. TypeOK'
  <2>1. DOMAIN requests' \subseteq Keys /\ requests' \in [DOMAIN requests' -> Entries]
    BY <1>2, <1>4, <1>5
  <2>2. sweeper' \in [pc : {"idle", "check", "post"}, due : SUBSET Keys,
                      at : Keys \cup {None}]
    BY <1>1, <1>4
  <2>3. QED
    BY <1>1, <2>1, <2>2 DEF IInv, TypeOK
<1>16. QED
  BY <1>9, <1>10, <1>11, <1>12, <1>13, <1>14, <1>15 DEF IInv

(* A notice goes on to be posted, or is dropped with its contract closed. *)
LEMMA NoticeCheckStep ==
  ASSUME IInv, NoticeCheck
  PROVE  IInv'
<1>1. /\ sweeper.pc = "check" /\ lock = Free
      /\ UNCHANGED <<lock, requests, history, thread, deleted, cleanups, clock, nextId,
                     promised, answered, failed, notices>>
  BY DEF NoticeCheck, ghosts
<1>2. PICK k \in sweeper.due :
        sweeper' = IF IsRequestClosed(k) THEN DoneWith(k)
                   ELSE [sweeper EXCEPT !.pc = "post", !.at = k]
  BY DEF NoticeCheck
<1>3. /\ sweeper \in [pc : {"idle", "check", "post"}, due : SUBSET Keys,
                      at : Keys \cup {None}]
      /\ sweeper.due \subseteq Keys
  BY DEF IInv, TypeOK
<1>4. /\ sweeper' \in [pc : {"idle", "check", "post"}, due : SUBSET Keys,
                       at : Keys \cup {None}]
      /\ sweeper'.due \subseteq sweeper.due
      /\ \A j \in sweeper.due : j \in sweeper'.due \/ j \in answered \cup failed
      /\ sweeper'.pc = "post" => sweeper'.at \in sweeper'.due
      /\ sweeper'.pc = "idle" => sweeper'.due = {}
  <2>1. CASE IsRequestClosed(k)
    <3>1. k \in answered \cup failed
      BY <2>1 DEF IsRequestClosed, IInv, VerdictsAgree
    <3>2. sweeper' = DoneWith(k)
      BY <1>2, <2>1
    <3>3. QED
      BY <3>1, <3>2, DoneWithTypes DEF IInv
  <2>2. CASE ~IsRequestClosed(k)
    <3>1. sweeper' = [sweeper EXCEPT !.pc = "post", !.at = k]
      BY <1>2, <2>2
    <3>2. QED
      BY <1>3, <3>1
  <2>3. QED
    BY <2>1, <2>2
<1>5. Seen' = Seen
  BY <1>1, <1>4 DEF Seen, Noticed
<1>6. /\ ThreadsInOrder' /\ TodoIsNew' /\ SeenIsOld'
  BY <1>1, <1>5, LockFree, ThreadsKept
<1>7. SharesReserved' /\ ReservationsOwned'
  <2>1. ~Asking'
    BY <1>1 DEF Asking
  <2>2. QED
    BY <1>1, <2>1, LockFree, NobodyReserves
<1>8. VerdictsAgree' /\ SlotBound'
  BY <1>1 DEF IInv, VerdictsAgree, SlotBound, Active
<1>9. NoticesAgree'
  <2>1. IsInjective(notices)' /\ (sweeper.due \cap ToSet(notices) = {})'
    BY <1>1, <1>4 DEF IInv, NoticesAgree
  <2>2. ASSUME NEW j \in DOMAIN requests
        PROVE  /\ requests'[j].notified => j \in (Noticed \cup answered \cup failed)'
               /\ j \in Noticed' => requests'[j].notified
               /\ j \in promised' => requests'[j].deadline
    BY <1>1, <1>4 DEF IInv, NoticesAgree, Noticed
  <2>3. QED
    BY <1>1, <1>4, <2>1, <2>2 DEF NoticesAgree
<1>10. PromiseKept'
  BY <1>1, <1>4 DEF IInv, PromiseKept
<1>11. TypeOK'
  BY <1>1, <1>4 DEF IInv, TypeOK
<1>12. QED
  BY <1>6, <1>7, <1>8, <1>9, <1>10, <1>11 DEF IInv

(* A notice is posted: a row of its own, and no contract posts a second. *)
LEMMA NoticePostStep ==
  ASSUME IInv, NoticePost
  PROVE  IInv'
<1>1. /\ sweeper.pc = "post" /\ lock = Free
      /\ history' = Pushed(history, 0) /\ requests' = AfterRecord(requests, history, 0)
      /\ notices' = Append(notices, sweeper.at) /\ sweeper' = DoneWith(sweeper.at)
      /\ UNCHANGED <<lock, thread, deleted, cleanups, clock, nextId, promised, answered, failed>>
  BY DEF NoticePost
<1> DEFINE at == sweeper.at
<1>2. /\ at \in sweeper.due /\ at \notin ToSet(notices) /\ at \in Keys /\ notices \in Seq(Keys)
      /\ IsInjective(notices)
  BY <1>1 DEF IInv, NoticesAgree, TypeOK
<1>3. /\ Trimmed(requests') /\ ToSet(history') \subseteq ToSet(history) \cup {0}
      /\ history' \in Seq(0..MaxIds) /\ Len(history') <= HISTORY_CAPACITY
  <2>1. 0 \in 0..MaxIds
    BY ContractsAssumption
  <2>2. QED
    BY <1>1, <2>1, RecordTrims
<1>4. /\ sweeper' \in [pc : {"idle", "check", "post"}, due : SUBSET Keys,
                       at : Keys \cup {None}]
      /\ sweeper'.due = sweeper.due \ {at} /\ sweeper'.pc # "post"
      /\ sweeper'.pc = "idle" => sweeper'.due = {}
  BY <1>1, DoneWithTypes DEF IInv
<1> HIDE DEF at
<1>5. /\ notices' \in Seq(Keys) /\ ToSet(notices') = ToSet(notices) \cup {at}
      /\ IsInjective(notices')
  <2>1. /\ notices' = Append(notices, at) /\ notices' \in Seq(Keys)
        /\ Len(notices) \in Nat /\ DOMAIN notices = 1..Len(notices)
        /\ DOMAIN notices' = 1..(Len(notices) + 1)
        /\ notices'[Len(notices) + 1] = at
        /\ \A i \in 1..Len(notices) : notices'[i] = notices[i]
    BY <1>1, <1>2 DEF at
  <2>2. \A i \in 1..Len(notices) : notices[i] # at
    BY <1>2, <2>1 DEF ToSet
  <2>3. \A i \in 1..(Len(notices) + 1) : i \in 1..Len(notices) \/ i = Len(notices) + 1
    BY <2>1
  <2>4. IsInjective(notices')
    BY <1>2, <2>1, <2>2, <2>3 DEF IsInjective
  <2>5. \A k : k \in ToSet(notices') <=> k \in ToSet(notices) \/ k = at
    <3>1. \A k : k \in ToSet(notices') <=> \E i \in 1..(Len(notices) + 1) : notices'[i] = k
      BY <2>1 DEF ToSet
    <3>2. \A k : k \in ToSet(notices) <=> \E i \in 1..Len(notices) : notices[i] = k
      BY <2>1 DEF ToSet
    <3>3. 1..Len(notices) \subseteq 1..(Len(notices) + 1)
          /\ Len(notices) + 1 \in 1..(Len(notices) + 1)
      BY <2>1
    <3>4. QED
      BY <2>1, <2>3, <3>1, <3>2, <3>3
  <2>6. QED
    BY <2>1, <2>4, <2>5
<1>6. Noticed' = Noticed
  BY <1>2, <1>4, <1>5 DEF Noticed
<1>7. \A u \in Senders : GoesOn(u)
  BY <1>1, LockFree
<1>8. \A u \in Senders : Active(u)' => Active(u) /\ thread'[u].id = thread[u].id
  BY <1>1 DEF Active
<1>9. \A k \in answered \cup failed : k[1] # 0
  BY KeyParts DEF IInv, TypeOK
<1>10. ToSet(history)' \subseteq ToSet(history) \cup {0}
  BY <1>3 DEF ToSet
<1>11. /\ VerdictsAgree' /\ PromiseKept' /\ SlotBound' /\ Seen' \subseteq Seen
       /\ \A k \in DOMAIN requests' :
            /\ requests'[k].notified => k \in (Noticed \cup answered \cup failed)'
            /\ k \in Noticed' => requests'[k].notified
            /\ k \in promised' => requests'[k].deadline
  BY <1>1, <1>3, <1>6, <1>8, <1>9, <1>10, TrimKeeps
<1>12. ThreadsInOrder' /\ TodoIsNew' /\ SeenIsOld'
  BY <1>1, <1>7, <1>11, ThreadsKept
<1>13. SharesReserved' /\ ReservationsOwned'
  <2>1. ~Asking'
    BY <1>1 DEF Asking
  <2>2. QED
    BY <1>1, <1>3, <2>1, LockFree, NobodyReserves DEF Trimmed
<1>14. NoticesAgree'
  <2>1. IsInjective(notices)' /\ (sweeper.due \cap ToSet(notices) = {})'
    BY <1>4, <1>5 DEF IInv, NoticesAgree
  <2>2. QED
    BY <1>4, <1>11, <2>1 DEF NoticesAgree
<1>15. TypeOK'
  <2>1. DOMAIN requests' \subseteq Keys /\ requests' \in [DOMAIN requests' -> Entries]
    BY <1>3 DEF Trimmed, IInv, TypeOK
  <2>2. QED
    BY <1>1, <1>3, <1>4, <1>5, <2>1 DEF IInv, TypeOK
<1>16. QED
  BY <1>11, <1>12, <1>13, <1>14, <1>15 DEF IInv

-----------------------------------------------------------------------------
(* The specification *)

(* The steps that leave ledger and threads alone. *)
LEMMA OutsideStep ==
  ASSUME IInv, TypeOK',
         UNCHANGED <<lock, requests, history, thread, sweeper, nextId, promised, answered,
                     failed, notices>>
  PROVE  IInv'
<1>1. /\ Seen' = Seen /\ Noticed' = Noticed /\ Asking' = Asking
      /\ \A u \in Senders : Active(u)' <=> Active(u)
  BY DEF Seen, Noticed, Asking, Active
<1>2. ThreadsInOrder'
  BY DEF IInv, ThreadsInOrder, Active
<1>3. TodoIsNew' /\ SeenIsOld'
  BY <1>1 DEF IInv, TodoIsNew, SeenIsOld
<1>4. SharesReserved' /\ ReservationsOwned'
  BY <1>1 DEF IInv, SharesReserved, ReservationsOwned
<1>5. VerdictsAgree' /\ NoticesAgree' /\ PromiseKept' /\ SlotBound'
  BY <1>1 DEF IInv, VerdictsAgree, NoticesAgree, PromiseKept, SlotBound
<1>6. QED
  BY <1>2, <1>3, <1>4, <1>5 DEF IInv

(* Nothing is open, judged, due or reserved at the start. *)
LEMMA InitHolds == Init => IInv
<1> SUFFICES ASSUME Init PROVE IInv
  OBVIOUS
<1>1. /\ lock = Free /\ requests = <<>> /\ history = <<>>
      /\ thread = [t \in Senders |-> Rest] /\ sweeper = SweepRest
      /\ deleted = {} /\ cleanups = {} /\ clock = 0 /\ nextId = 1
      /\ promised = {} /\ answered = {} /\ failed = {} /\ notices = <<>>
  BY DEF Init
<1>2. /\ DOMAIN requests = {} /\ ToSet(history) = {} /\ ToSet(notices) = {}
      /\ history \in Seq(0..MaxIds) /\ notices \in Seq(Keys) /\ Len(history) = 0
      /\ sweeper.due = {} /\ sweeper.pc = "idle"
      /\ \A u \in Senders : thread[u] = Rest
  BY <1>1 DEF ToSet, SweepRest
<1>3. /\ Rest.pc = "idle" /\ Rest.re = 0 /\ Rest.parks = <<>>
  BY DEF Rest
<1>4. Seen = {} /\ Noticed = {} /\ ~Asking /\ \A u \in Senders : ~Active(u)
  BY <1>1, <1>2, <1>3 DEF Seen, Noticed, Asking, Active
<1>5. TypeOK
  <2>1. thread \in [Senders -> Threads]
    BY <1>1, RestTyped
  <2>2. requests \in [DOMAIN requests -> Entries]
    <3>1. requests = [k \in DOMAIN requests |-> requests[k]]
      BY <1>1
    <3>2. QED
      BY <1>2, <3>1
  <2>3. sweeper \in [pc : {"idle", "check", "post"}, due : SUBSET Keys,
                     at : Keys \cup {None}]
    BY <1>1 DEF SweepRest
  <2>4. /\ lock \in Senders \cup {Free} /\ clock \in 0..MaxTime /\ nextId \in 1..(MaxIds + 1)
        /\ Len(history) <= HISTORY_CAPACITY
    BY <1>1, <1>2, ContractsAssumption
  <2>5. QED
    BY <1>1, <1>2, <2>1, <2>2, <2>3, <2>4 DEF TypeOK
<1>6. ThreadsInOrder /\ TodoIsNew /\ SeenIsOld
  BY <1>1, <1>2, <1>3, <1>4 DEF ThreadsInOrder, TodoIsNew, SeenIsOld
<1>7. SharesReserved /\ ReservationsOwned /\ VerdictsAgree /\ PromiseKept
  BY <1>1, <1>2, <1>4 DEF SharesReserved, ReservationsOwned, VerdictsAgree, PromiseKept
<1>8. NoticesAgree
  <2>1. IsInjective(notices)
    BY <1>1 DEF IsInjective
  <2>2. QED
    BY <1>1, <1>2, <1>4, <2>1 DEF NoticesAgree
<1>9. SlotBound
  <2>1. Occupied(requests) = {}
    BY <1>2 DEF Occupied
  <2>2. Cardinality({}) = 0
    BY FS_EmptySet
  <2>3. QED
    BY <2>1, <2>2, ContractsAssumption DEF SlotBound, OccupiedSlots
<1>10. QED
  BY <1>5, <1>6, <1>7, <1>8, <1>9 DEF IInv

(* Every step, of a send, the sweep, a deletion or the clock, keeps it. *)
LEMMA StepKeeps == IInv /\ [Next]_vars => IInv'
<1> SUFFICES ASSUME IInv, [Next]_vars PROVE IInv'
  OBVIOUS
<1>1. ASSUME NEW t \in Senders, Begin(t) PROVE IInv'
  BY <1>1, BeginStep
<1>2. ASSUME NEW t \in Senders, Send(t) PROVE IInv'
  BY <1>2, JudgeGoneStep, JudgeCapacityStep, JudgeRoomStep, JudgeMailboxFullStep,
     ParkStep, UnlockStep, FailReplyStep DEF Send
<1>3. CASE SweepTask
  BY <1>3, SweepCollectStep, NoticeCheckStep, NoticePostStep DEF SweepTask
<1>4. ASSUME NEW a \in Agents, DeleteProfile(a) PROVE IInv'
  <2>1. TypeOK'
    BY <1>4 DEF DeleteProfile, ghosts, IInv, TypeOK
  <2>2. QED
    BY <1>4, <2>1, OutsideStep DEF DeleteProfile, ghosts
<1>5. ASSUME NEW a \in Agents, Cleanup(a) PROVE IInv'
  BY <1>5, CleanupStep
<1>6. CASE Tick
  <2>1. TypeOK'
    BY <1>6, ContractsAssumption DEF Tick, ghosts, IInv, TypeOK
  <2>2. QED
    BY <1>6, <2>1, OutsideStep DEF Tick, ghosts
<1>7. CASE UNCHANGED vars
  <2>1. TypeOK'
    BY <1>7 DEF vars, ghosts, IInv, TypeOK
  <2>2. QED
    BY <1>7, <2>1, OutsideStep DEF vars, ghosts
<1>8. QED
  BY <1>1, <1>2, <1>3, <1>4, <1>5, <1>6, <1>7 DEF Next

(* The inductive invariant holds throughout. *)
LEMMA Invariance == Spec => []IInv
BY InitHolds, StepKeeps, PTL DEF Spec

(* ledger.rs open_request, commit_open and rollback_open: at no point do   *)
(* more contracts than the limit occupy a slot, and whoever takes the lock *)
(* finds no provisional entry, mark or remembered victim left behind,      *)
(* whatever the fan-outs, the failures among their shares and the limit.   *)
THEOREM SlotsAlwaysSettle == Spec => []SlotsSettle
<1>1. IInv => SlotsSettle
  <2> SUFFICES ASSUME IInv PROVE SlotsSettle
    OBVIOUS
  <2>1. ReservationsSettled
    BY LockFree DEF ReservationsSettled
  <2>2. QED
    BY <2>1 DEF IInv, SlotsSettle
<1>2. QED
  BY <1>1, Invariance, PTL

(* ledger.rs purge_finished_without_history and commit_open: neither the   *)
(* slot limit nor the history's eviction makes a contract with a deadline  *)
(* vanish before it was answered, failed or notified, and a finished one   *)
(* is tracked only while history remembers it, for any of those limits.    *)
THEOREM AlwaysTrackedWhileNeeded == Spec => []TrackedWhileNeeded
<1>1. IInv => TrackedWhileNeeded
  BY DEF IInv, VerdictsAgree, TrackedWhileNeeded, NoZombies
<1>2. QED
  BY <1>1, Invariance, PTL

(* ledger.rs due_timeouts, close_on_reply and the failure closes: a        *)
(* contract is notified at most once, and never both answered and failed,  *)
(* in whatever order reply, deletion, sweep and retirement come.           *)
THEOREM AlwaysOneVerdict == Spec => []OneVerdict
<1>1. IInv => OneVerdict
  BY DEF IInv, VerdictsAgree, NoticesAgree, OneVerdict, NoticeOnce, AnsweredOrFailed
<1>2. QED
  BY <1>1, Invariance, PTL

(* service.rs deliver_notice: a notice goes on from its second look only   *)
(* for a contract that is not closed, or whose history is gone.            *)
THEOREM NoticeIsCancelled == Spec => ReplyCancelsNotice
<1>1. IInv /\ [Next]_vars =>
        [sweeper.pc = "check" /\ sweeper'.pc = "post" =>
           LET k == sweeper'.at
           IN  k \in answered \cup failed => k[1] \notin ToSet(history)]_vars
  <2> SUFFICES ASSUME IInv, [Next]_vars, sweeper.pc = "check", sweeper'.pc = "post",
                      sweeper'.at \in answered \cup failed
               PROVE  (sweeper'.at)[1] \notin ToSet(history)
    OBVIOUS
  <2>1. NoticeCheck
    <3>1. sweeper' # sweeper
      OBVIOUS
    <3>2. ~SweepCollect /\ ~NoticePost
      BY DEF SweepCollect, NoticePost
    <3>3. \A t \in Senders : ~Begin(t) /\ ~Send(t)
      BY <3>1 DEF Begin, Send, JudgeGone, JudgeCapacity, JudgeRoom, JudgeMailboxFull,
                  FailedRow, Park, Unlock, FailReply
    <3>4. ~Tick /\ \A a \in Agents : ~DeleteProfile(a) /\ ~Cleanup(a)
      BY <3>1 DEF Tick, DeleteProfile, Cleanup
    <3>5. QED
      BY <3>1, <3>2, <3>3, <3>4 DEF Next, SweepTask, vars
  <2>2. PICK k \in sweeper.due :
          sweeper' = IF IsRequestClosed(k) THEN DoneWith(k)
                     ELSE [sweeper EXCEPT !.pc = "post", !.at = k]
    BY <2>1 DEF NoticeCheck
  <2>3. ~IsRequestClosed(k) /\ sweeper'.at = k
    <3>1. DoneWith(k).pc # "post"
      BY DoneWithTypes DEF IInv
    <3>2. sweeper \in [pc : {"idle", "check", "post"}, due : SUBSET Keys,
                       at : Keys \cup {None}]
      BY DEF IInv, TypeOK
    <3>3. QED
      BY <2>2, <3>1, <3>2
  <2>4. QED
    BY <2>3 DEF IInv, VerdictsAgree, IsRequestClosed
<1>2. QED
  BY <1>1, Invariance, PTL DEF Spec, ReplyCancelsNotice
=============================================================================
